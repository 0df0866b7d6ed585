------------------------------ MODULE Devices ------------------------------
(***************************************************************************)
(* How the tools find and open an FTDI device: GetDeviceList, FindDevice,  *)
(* FindDeviceByCOMPortName and OpenDevice of d2xx_shared.cpp, d2xx_list's  *)
(* main, and the exit of every tool.  Several tools may run at once, next  *)
(* to other programs and to a user who moves plugs: the driver lets one    *)
(* program at a time open a device.                                        *)
(*                                                                         *)
(* device points into the list: pos[t] stands for it, and Len(list[t]) + 1 *)
(* for nullptr and for the end of a loop over the list.                    *)
(***************************************************************************)
EXTENDS Integers, Sequences, FiniteSets, Functions

CONSTANTS
  Devices,                     \* the FTDI devices there are
  Serial, Description, Port,   \* their names: [Devices -> STRING]
  Tools,                       \* the processes
  Commands,                    \* the command lines considered, on each system
  Nobody, Outsider,            \* who else may have a device open
  Blank,                       \* the entry of a device that is open elsewhere
  NoPort                       \* d2xx_list printed no COM port

ASSUME DevicesAssumption ==
  /\ Serial \in [Devices -> STRING] /\ IsInjective(Serial)
  /\ Description \in [Devices -> STRING]
  /\ Port \in [Devices -> STRING] /\ IsInjective(Port)
  /\ Commands \in [BOOLEAN ->
       SUBSET [lister : BOOLEAN, asked : {"default", "serial", "description"}, name : STRING]]
  /\ \A c \in Commands[FALSE] : c.asked # "serial"   \* an option on Windows only
  /\ Tools \intersect {Nobody, Outsider} = {} /\ Nobody # Outsider
  /\ Blank \notin Devices
  /\ IsFiniteSet(Devices)

VARIABLES
  windows,      \* SYSTEM_WINDOWS
  plugged,      \* the devices plugged in
  owner,        \* who has each device open
  cmd,          \* the command line of each tool
  pc,           \* the driver call each tool is about to make
  list,         \* devices: what FT_GetDeviceInfoList returned
  pos,          \* device, or the loop variable
  rows,         \* what d2xx_list has printed
  glitch,       \* history: a driver call failed for a reason of its own
  undisturbed   \* history: see Available

world   == <<plugged, owner>>
search  == <<list, pos, rows>>
vars    == <<windows, plugged, owner, cmd, pc, list, pos, rows, glitch, undisturbed>>

Entries   == Devices \union {Blank}
HasHandle == {"port", "close", "match", "baud", "data", "flow", "using", "failing"}
Ended     == {"exited", "killed"}

\* DeviceSpec and its options: open_by_description is never set.
MethodAsked(c) == IF c.asked = "description" THEN "description"
                  ELSE IF c.asked = "serial" \/ ~windows THEN "serial" ELSE "port"
Method(c) == IF ~windows \/ c.asked \in {"serial", "description"}
             THEN "serial" ELSE "port"

Matches(method, name, d) ==
  name = CASE method = "port" -> Port[d]
           [] method = "serial" -> Serial[d]
           [] method = "description" -> Description[d]

Here(t) == list[t][pos[t]]
AtEnd(t) == pos[t] > Len(list[t])
CanOpen(d) == d \in plugged /\ owner[d] = Nobody
Live(t) == owner[Here(t)] = t   \* the handle still leads to a device

-----------------------------------------------------------------------------
\* The device a tool was asked for is there for it.
Available(t) ==
  \A d \in Devices : Matches(MethodAsked(cmd[t]), cmd[t].name, d) =>
    d \in plugged /\ owner[d] \in {Nobody, t}

Init ==
  /\ windows \in BOOLEAN
  /\ plugged \in SUBSET Devices
  /\ owner = [d \in Devices |-> Nobody]
  /\ cmd \in [Tools -> Commands[windows]]
  /\ pc = [t \in Tools |-> "start"]
  /\ list = [t \in Tools |-> << >>] /\ pos = [t \in Tools |-> 1]
  /\ rows = [t \in Tools |-> << >>]
  /\ glitch = [t \in Tools |-> FALSE]
  /\ undisturbed = [t \in Tools |-> Available(t)]

Goto(t, to) == pc' = [pc EXCEPT ![t] = to]
Glitch(t, b) == glitch' = [glitch EXCEPT ![t] = @ \/ b]

CloseNothing(t) == UNCHANGED owner
FT_Close(t) == owner' = [owner EXCEPT ![Here(t)] = IF @ = t THEN Nobody ELSE @]

\* The list is one picture of the devices, in the driver's order.
Enumerations ==
  {[i \in DOMAIN order |-> IF owner[order[i]] = Nobody THEN order[i] ELSE Blank] :
     order \in {f \in [1..Cardinality(plugged) -> plugged] : IsInjective(f)}}

GetDeviceList(t) ==
  /\ pc[t] = "start"
  /\ \/ \E l \in Enumerations :
          /\ list' = [list EXCEPT ![t] = l]
          /\ Goto(t, IF cmd[t].lister THEN "probe"
                     ELSE IF l = << >> THEN "nodevice"
                     ELSE IF Method(cmd[t]) = "port" THEN "probe" ELSE "find")
          /\ UNCHANGED glitch
     \/ /\ Goto(t, "nodevice") /\ Glitch(t, TRUE)
        /\ UNCHANGED list
  /\ UNCHANGED <<world, cmd, pos, rows>>

-----------------------------------------------------------------------------
(***************************************************************************)
(* FindDeviceByCOMPortName and the loop of d2xx_list: open each device in  *)
(* turn to ask for its port.                                               *)
(***************************************************************************)
AdvanceTwice(t) == pos' = [pos EXCEPT ![t] = @ + 2]
AdvanceNot(t) == UNCHANGED pos
Advance(t) == pos' = [pos EXCEPT ![t] = @ + 1]

PrintRow(t, port) ==
  rows' = IF cmd[t].lister THEN [rows EXCEPT ![t] = Append(@, <<Here(t), port>>)] ELSE rows

EndOfList(t) ==
  /\ pc[t] = "probe" /\ AtEnd(t)
  /\ Goto(t, IF cmd[t].lister THEN "exited" ELSE "nodevice")
  /\ UNCHANGED <<world, cmd, search, glitch>>

ProbeOpen(t) ==
  /\ pc[t] = "probe" /\ ~AtEnd(t) /\ CanOpen(Here(t))
  /\ owner' = [owner EXCEPT ![Here(t)] = t]
  /\ Goto(t, "port")
  /\ UNCHANGED <<plugged, cmd, search, glitch>>

ProbeOpenFails(t) ==
  /\ pc[t] = "probe" /\ ~AtEnd(t)
  /\ Advance(t) /\ PrintRow(t, NoPort)
  /\ Glitch(t, CanOpen(Here(t)))
  /\ UNCHANGED <<world, cmd, pc, list>>

\* What is made of the answer of FT_GetComPortNumber.
StatusIgnored(t, ok) == ~ok \/ Matches("port", cmd[t].name, Here(t))
IsWanted(t, ok) == ok /\ Matches("port", cmd[t].name, Here(t))

FT_GetComPortNumber(t) ==
  /\ pc[t] = "port"
  /\ \E ok \in BOOLEAN :
       /\ ok => Live(t) /\ windows
       /\ Glitch(t, ~ok /\ Live(t) /\ windows)
       /\ PrintRow(t, IF ok THEN Port[Here(t)] ELSE NoPort)
       /\ Goto(t, IF ~cmd[t].lister /\ IsWanted(t, ok) THEN "match" ELSE "close")
  /\ UNCHANGED <<world, cmd, list, pos>>

ProbeClose(t) ==
  /\ pc[t] \in {"close", "match"} /\ FT_Close(t)
  /\ \/ pc[t] = "close" /\ Goto(t, "probe") /\ Advance(t)
     \/ pc[t] = "match" /\ Goto(t, "open") /\ UNCHANGED pos
  /\ UNCHANGED <<plugged, cmd, list, rows, glitch>>

\* FindDevice: the first entry with the name; that of a blank entry is empty.
Named(t, e) == IF e = Blank THEN cmd[t].name = "" ELSE Matches(Method(cmd[t]), cmd[t].name, e)
Found(t) == {i \in DOMAIN list[t] : Named(t, list[t][i])}

FindDevice(t) ==
  /\ pc[t] = "find"
  /\ \/ \E i \in Found(t) :
          /\ \A j \in Found(t) : i <= j
          /\ pos' = [pos EXCEPT ![t] = i]
          /\ Goto(t, "open")
     \/ /\ Found(t) = {}
        /\ Goto(t, "nodevice") /\ UNCHANGED pos
  /\ UNCHANGED <<world, cmd, list, rows, glitch>>

-----------------------------------------------------------------------------
(***************************************************************************)
(* OpenDevice once it has a device, and what the tools do with it.         *)
(***************************************************************************)
FT_OpenEx(t) ==
  /\ pc[t] = "open"
  /\ \/ /\ CanOpen(Here(t))
        /\ owner' = [owner EXCEPT ![Here(t)] = t]
        /\ Goto(t, "baud") /\ UNCHANGED glitch
     \/ /\ Goto(t, "nodevice") /\ Glitch(t, CanOpen(Here(t)))
        /\ UNCHANGED owner
  /\ UNCHANGED <<plugged, cmd, search>>

\* FT_SetBaudRate, FT_SetDataCharacteristics, FT_SetFlowControl.
Configure(t) ==
  /\ pc[t] \in {"baud", "data", "flow"} /\ Live(t)
  /\ \/ pc[t] = "baud" /\ Goto(t, "data")
     \/ pc[t] = "data" /\ Goto(t, "flow")
     \/ pc[t] = "flow" /\ Goto(t, "using")
  /\ UNCHANGED <<world, cmd, search, glitch>>

ConfigureFails(t) ==
  /\ pc[t] \in {"baud", "data", "flow"}
  /\ FT_Close(t) /\ Goto(t, "nodevice")
  /\ Glitch(t, Live(t))
  /\ UNCHANGED <<plugged, cmd, search>>

\* d2xx_send and d2xx_recv close the device when they succeed only.
Use(t) ==
  /\ pc[t] = "using"
  /\ \/ FT_Close(t) /\ Goto(t, "exited")
     \/ Goto(t, "failing") /\ UNCHANGED owner
  /\ UNCHANGED <<plugged, cmd, search, glitch>>

\* The driver closes what a process leaves open.
Leave(t, how) ==
  /\ Goto(t, how)
  /\ owner' = [d \in Devices |-> IF owner[d] = t THEN Nobody ELSE owner[d]]
  /\ UNCHANGED <<plugged, cmd, search, glitch>>

Exit(t) == pc[t] \in {"nodevice", "failing"} /\ Leave(t, "exited")

Kill(t) == pc[t] \notin Ended /\ Leave(t, "killed")

RunAgain(t) ==
  /\ pc[t] \in Ended
  /\ Goto(t, "start")
  /\ \E c \in Commands[windows] : cmd' = [cmd EXCEPT ![t] = c]
  /\ list' = [list EXCEPT ![t] = << >>] /\ pos' = [pos EXCEPT ![t] = 1]
  /\ rows' = [rows EXCEPT ![t] = << >>]
  /\ glitch' = [glitch EXCEPT ![t] = FALSE]
  /\ UNCHANGED world

-----------------------------------------------------------------------------
OutsiderOpens(d) == CanOpen(d) /\ owner' = [owner EXCEPT ![d] = Outsider]
                    /\ UNCHANGED plugged
OutsiderCloses(d) == owner[d] = Outsider /\ owner' = [owner EXCEPT ![d] = Nobody]
                     /\ UNCHANGED plugged
Plug(d)   == d \notin plugged /\ plugged' = plugged \union {d} /\ UNCHANGED owner
Unplug(d) == d \in plugged /\ plugged' = plugged \ {d}   \* handles go dead
             /\ owner' = [owner EXCEPT ![d] = Nobody]

Environment ==
  /\ \E d \in Devices : OutsiderOpens(d) \/ OutsiderCloses(d) \/ Plug(d) \/ Unplug(d)
  /\ UNCHANGED <<cmd, pc, search, glitch>>

Step(t) == \/ GetDeviceList(t) \/ EndOfList(t) \/ ProbeOpen(t) \/ ProbeOpenFails(t)
           \/ FT_GetComPortNumber(t) \/ ProbeClose(t) \/ FindDevice(t)
           \/ FT_OpenEx(t) \/ Configure(t) \/ ConfigureFails(t) \/ Exit(t)

Tool(t) == Step(t) \/ Use(t) \/ Kill(t) \/ RunAgain(t)

\* Available(t) has been true since t started.
Observe == undisturbed' = [t \in Tools |->
             Available(t)' /\ (pc'[t] = "start" \/ undisturbed[t])]

Always == UNCHANGED windows /\ Observe

Next == ((\E t \in Tools : Tool(t)) \/ Environment) /\ Always

Spec == /\ Init /\ [][Next]_vars
        /\ \A t \in Tools : WF_vars(Step(t) /\ Always)

-----------------------------------------------------------------------------
\* How Opening sees the tools: d2xx_list is asked for nothing, and a device
\* opened to ask for its port does not count.
InUse      == {"baud", "data", "flow", "using", "failing"}
Over       == {"nodevice"} \union Ended
Phase(t)   == IF pc[t] \in InUse THEN "open" ELSE IF pc[t] \in Over THEN "over" ELSE "searching"
Request(t) == IF cmd[t].lister THEN << >> ELSE <<MethodAsked(cmd[t]), cmd[t].name>>
Asked(r, d) == r # << >> /\ Matches(r[1], r[2], d)
Holder(d)  == IF owner[d] \in Tools /\ pc[owner[d]] \in InUse \union Over THEN owner[d] ELSE Nobody

Promise == INSTANCE Opening
  WITH asked <- [t \in Tools |-> Request(t)], phase <- [t \in Tools |-> Phase(t)],
       holder <- [d \in Devices |-> Holder(d)], Suits <- Asked

\* The type invariant.
TypeOK ==
  /\ windows \in BOOLEAN
  /\ plugged \subseteq Devices
  /\ owner \in [Devices -> Tools \union {Nobody, Outsider}]
  /\ cmd \in [Tools -> Commands[windows]]
  /\ pc \in [Tools -> {"start", "probe", "find", "open", "nodevice"}
                        \union HasHandle \union Ended]
  /\ list \in [Tools -> Seq(Entries)]
  /\ pos \in [Tools -> Nat \ {0}]
  /\ \A t \in Tools : pos[t] <= Len(list[t]) + 1
  /\ rows \in [Tools -> Seq(Entries \X (STRING \union {NoPort}))]
  /\ glitch \in [Tools -> BOOLEAN] /\ undisturbed \in [Tools -> BOOLEAN]

\* A tool has a device open only between the FT_OpenEx and the FT_Close of
\* that device: a search leaves nothing open behind it, however it ends, and
\* the second FT_OpenEx does not meet the tool's own first one.
NothingLeftOpen ==
  \A t \in Tools, d \in Devices :
    owner[d] = t => pc[t] \in HasHandle /\ ~AtEnd(t) /\ Here(t) = d

\* The device a tool uses is the one it was asked for by the help text, which
\* --description is not followed in, although the list is out of date by the
\* time the device is opened.
RightDevice ==
  \A t \in Tools :
    pc[t] \in {"baud", "data", "flow", "using"} /\ cmd[t].asked # "description" =>
      /\ ~cmd[t].lister
      /\ ~AtEnd(t) /\ Here(t) # Blank
      /\ Matches(MethodAsked(cmd[t]), cmd[t].name, Here(t))

\* The inductive invariant behind NothingLeftOpen and RightDevice, tool by
\* tool: the entry under pos is a device's from the moment the tool opens it,
\* has the name from the moment it is found, and is the only device the tool
\* can have open.
Pointed(t) ==
  /\ pc[t] \in {"start", "find"} => pos[t] = 1
  /\ pc[t] \in HasHandle \union {"open"} => ~AtEnd(t)
  /\ pc[t] \in HasHandle => Here(t) \in Devices

Searching(t) ==
  /\ pc[t] = "find" => ~cmd[t].lister
  /\ pc[t] \in {"probe", "port", "close"} /\ ~cmd[t].lister => Method(cmd[t]) = "port"

Sought(t) ==
  pc[t] \in {"match", "open", "baud", "data", "flow", "using"} =>
    ~cmd[t].lister /\ Named(t, Here(t))

HoldsOnly(t) ==
  \A d \in Devices : owner[d] = t => pc[t] \in HasHandle /\ Here(t) = d

ToolInv(t) == Pointed(t) /\ Searching(t) /\ Sought(t) /\ HoldsOnly(t)

DevicesInv == TypeOK /\ \A t \in Tools : ToolInv(t)

\* OpenDevice fails only if the driver did, or the device asked for was
\* unplugged or open in another program at some time since the start.  The
\* empty name is that of every device that is open elsewhere.
FailsForAReason ==
  \A t \in Tools :
    pc[t] = "nodevice" /\ ~glitch[t] /\ cmd[t].asked # "description" /\ cmd[t].name # "" =>
      \/ ~undisturbed[t]
      \/ ~\E d \in Devices : Matches(MethodAsked(cmd[t]), cmd[t].name, d)

\* d2xx_list prints one row per entry of its list, in order; a row has the
\* port of its own device or none.
RowsRight ==
  \A t \in Tools : pc[t] # "killed" =>
    /\ \A i \in DOMAIN rows[t] :
         LET d == rows[t][i][1]  port == rows[t][i][2] IN
         d = list[t][i] /\ (port = NoPort \/ port = Port[d])
    /\ cmd[t].lister /\ pc[t] = "exited" /\ list[t] # << >> => Len(rows[t]) = Len(list[t])

\* What the tools do with the driver comes to what Opening promises.
ImplementsOpening == Promise!Spec

\* What is left to do: entries of the list, and calls to make.
CallsLeft(t) == CASE pc[t] \in {"probe", "find"} -> 10  [] pc[t] = "port" -> 9
                  [] pc[t] \in {"close", "match"} -> 8   [] pc[t] = "open" -> 7
                  [] pc[t] = "baud" -> 6   [] pc[t] = "data" -> 5   [] pc[t] = "flow" -> 4
                  [] pc[t] = "using" -> 3  [] pc[t] = "failing" -> 2
                  [] pc[t] = "nodevice" -> 1  [] OTHER -> 0
Work(t) == 3 * (Len(list[t]) + 1 - pos[t]) + CallsLeft(t)

\* Once it has its list, each call a tool makes brings its end nearer: no entry
\* is looked at twice, whatever other tools do to the devices in between.
SearchMovesOn ==
  [][\A t \in Tools :
       pc[t] \notin {"start"} \union Ended /\ <<pc[t], pos[t]>>' # <<pc[t], pos[t]>> =>
         list'[t] = list[t] /\ Work(t)' < Work(t)]_vars

\* A search ends, whatever the other programs and the user do meanwhile.
SearchEnds == \A t \in Tools : pc[t] = "start" ~> pc[t] \in Ended \union {"using"}

\* --description: DEVICE is device's description.
DescriptionFinds ==
  \A t \in Tools : pc[t] = "nodevice" /\ ~glitch[t] /\ cmd[t].asked = "description" =>
    ~\E i \in DOMAIN list[t] :
       list[t][i] # Blank /\ Description[list[t][i]] = cmd[t].name
=============================================================================
