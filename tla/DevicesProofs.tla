---------------------------- MODULE DevicesProofs ----------------------------
(***************************************************************************)
(* Proofs about Devices, for any number of devices and of tools that run   *)
(* at the same time.                                                       *)
(***************************************************************************)
EXTENDS Devices, FiniteSetTheorems, SequenceTheorems, TLAPS

\* The list a tool gets has an entry for each device that is plugged in.
LEMMA ListTypes ==
  ASSUME TypeOK, NEW l \in Enumerations
  PROVE  l \in Seq(Entries)
<1>1. IsFiniteSet(plugged)
  BY FS_Subset, DevicesAssumption DEF TypeOK
<1>2. Cardinality(plugged) \in Nat
  BY <1>1, FS_CardinalityType
<1>3. PICK order \in [1..Cardinality(plugged) -> plugged] :
        l = [i \in DOMAIN order |-> IF owner[order[i]] = Nobody THEN order[i] ELSE Blank]
  BY DEF Enumerations
<1>4. l \in [1..Cardinality(plugged) -> Entries]
  BY <1>3 DEF TypeOK, Entries
<1> QED
  BY <1>2, <1>4

\* DeviceSpec is followed, but for --description.
LEMMA MethodSame ==
  ASSUME TypeOK, NEW t \in Tools, cmd[t].asked # "description"
  PROVE  MethodAsked(cmd[t]) = Method(cmd[t])
<1>1. cmd[t].asked \in {"default", "serial", "description"} /\ windows \in BOOLEAN
  BY DevicesAssumption DEF TypeOK
<1> QED
  BY <1>1 DEF MethodAsked, Method

\* What a tool points at.
LEMMA EntryTypes ==
  ASSUME TypeOK, NEW t \in Tools
  PROVE  /\ pc[t] \in {"start", "probe", "find", "open", "nodevice"} \union HasHandle \union Ended
         /\ list[t] \in Seq(Entries) /\ Len(list[t]) \in Nat
         /\ pos[t] \in Nat \ {0} /\ pos[t] <= Len(list[t]) + 1
         /\ ~AtEnd(t) => Here(t) \in Entries
         /\ rows[t] \in Seq(Entries \X (STRING \union {NoPort}))
         /\ cmd[t] \in Commands[windows]
<1>1. list[t] \in Seq(Entries) /\ pos[t] \in Nat \ {0} /\ pos[t] <= Len(list[t]) + 1
  BY DEF TypeOK
<1>2. Len(list[t]) \in Nat
  BY <1>1, LenProperties
<1>3. ~AtEnd(t) => Here(t) \in Entries
  <2>1. ~AtEnd(t) => pos[t] \in 1..Len(list[t])
    BY <1>1, <1>2 DEF AtEnd
  <2> QED
    BY <1>1, <2>1, ElementOfSeq DEF Here
<1> QED
  BY <1>1, <1>2, <1>3 DEF TypeOK

-----------------------------------------------------------------------------
LEMMA InitHolds == Init => DevicesInv
<1> SUFFICES ASSUME Init PROVE DevicesInv
  OBVIOUS
<1> USE DEF Init
<1>1. \A t \in Tools : list[t] = << >> /\ rows[t] = << >> /\ pos[t] = 1 /\ pc[t] = "start"
  OBVIOUS
<1>2. << >> \in Seq(Entries) /\ << >> \in Seq(Entries \X (STRING \union {NoPort}))
      /\ Len(<< >>) = 0
  OBVIOUS
<1>3. undisturbed \in [Tools -> BOOLEAN]
  BY DEF Available
<1>4. TypeOK
  BY <1>1, <1>2, <1>3 DEF TypeOK
<1>5. ASSUME NEW t \in Tools PROVE ToolInv(t)
  <2>1. \A d \in Devices : owner[d] # t
    BY DevicesAssumption
  <2> QED
    BY <1>1, <2>1 DEF ToolInv, Pointed, Searching, Sought, HoldsOnly, HasHandle
<1> QED
  BY <1>4, <1>5 DEF DevicesInv

-----------------------------------------------------------------------------
\* Every step keeps the types.  The tool that moves has an entry under pos
\* whenever the code reads it.
LEMMA TypeStep == DevicesInv /\ Next => TypeOK'
<1> SUFFICES ASSUME DevicesInv, Next PROVE TypeOK'
  OBVIOUS
<1> USE DEF TypeOK, Goto, Glitch, HasHandle, Ended
<1>1. TypeOK /\ \A t \in Tools : Pointed(t)
  BY DEF DevicesInv, ToolInv
<1>2. windows' = windows /\ undisturbed' \in [Tools -> BOOLEAN]
  BY <1>1 DEF Next, Always, Observe, Available
<1>3. ASSUME Environment PROVE TypeOK'
  BY <1>1, <1>2, <1>3 DEF Environment, OutsiderOpens, OutsiderCloses, Plug, Unplug, search
<1>4. ASSUME NEW t \in Tools, GetDeviceList(t) PROVE TypeOK'
  <2>1. pos[t] = 1
    BY <1>1, <1>4 DEF GetDeviceList, Pointed
  <2>2. ASSUME NEW l \in Enumerations, list' = [list EXCEPT ![t] = l] PROVE TypeOK'
    <3>1. l \in Seq(Entries) /\ Len(l) \in Nat
      BY <1>1, ListTypes, LenProperties
    <3>2. \A s \in Tools : pos'[s] <= Len(list'[s]) + 1
      BY <1>1, <1>4, <2>1, <2>2, <3>1 DEF GetDeviceList
    <3> QED
      BY <1>1, <1>2, <1>4, <2>2, <3>1, <3>2 DEF GetDeviceList, world
  <2>3. CASE UNCHANGED list
    BY <1>1, <1>2, <1>4, <2>3 DEF GetDeviceList, world
  <2> QED
    BY <1>4, <2>2, <2>3 DEF GetDeviceList
<1>5. ASSUME NEW t \in Tools, EndOfList(t) PROVE TypeOK'
  BY <1>1, <1>2, <1>5 DEF EndOfList, world, search
<1>6. ASSUME NEW t \in Tools, ProbeOpen(t) PROVE TypeOK'
  BY <1>1, <1>2, <1>6 DEF ProbeOpen, search
\* What PrintRow and Advance do.
<1>7. ASSUME NEW t \in Tools, NEW port \in STRING \union {NoPort}, PrintRow(t, port), ~AtEnd(t)
      PROVE  rows' \in [Tools -> Seq(Entries \X (STRING \union {NoPort}))]
  <2>1. <<Here(t), port>> \in Entries \X (STRING \union {NoPort})
    BY <1>1, <1>7, EntryTypes
  <2>2. Append(rows[t], <<Here(t), port>>) \in Seq(Entries \X (STRING \union {NoPort}))
    BY <1>1, <2>1, AppendProperties
  <2> QED
    BY <1>1, <1>7, <2>2 DEF PrintRow
<1>8. ASSUME NEW t \in Tools, Advance(t), ~AtEnd(t), UNCHANGED list
      PROVE  pos' \in [Tools -> Nat \ {0}] /\ \A s \in Tools : pos'[s] <= Len(list'[s]) + 1
  <2>1. pos[t] + 1 \in Nat \ {0} /\ pos[t] + 1 <= Len(list[t]) + 1
    BY <1>1, <1>8, EntryTypes DEF AtEnd
  <2> QED
    BY <1>1, <1>8, <2>1 DEF Advance
<1>9. ASSUME NEW t \in Tools, ProbeOpenFails(t) PROVE TypeOK'
  <2>1. pos' \in [Tools -> Nat \ {0}] /\ \A s \in Tools : pos'[s] <= Len(list'[s]) + 1
    BY <1>8, <1>9 DEF ProbeOpenFails
  <2>2. rows' \in [Tools -> Seq(Entries \X (STRING \union {NoPort}))]
    BY <1>7, <1>9 DEF ProbeOpenFails
  <2>3. CanOpen(Here(t)) \in BOOLEAN
    BY DEF CanOpen
  <2> QED
    BY <1>1, <1>2, <1>9, <2>1, <2>2, <2>3 DEF ProbeOpenFails, world
<1>10. ASSUME NEW t \in Tools, FT_GetComPortNumber(t) PROVE TypeOK'
  <2>1. ~AtEnd(t) /\ Here(t) \in Devices /\ Port[Here(t)] \in STRING
    BY <1>1, <1>10, DevicesAssumption DEF FT_GetComPortNumber, Pointed
  <2>2. PICK ok \in BOOLEAN :
          /\ Glitch(t, ~ok /\ Live(t) /\ windows)
          /\ PrintRow(t, IF ok THEN Port[Here(t)] ELSE NoPort)
          /\ Goto(t, IF ~cmd[t].lister /\ IsWanted(t, ok) THEN "match" ELSE "close")
    BY <1>10 DEF FT_GetComPortNumber
  <2>3. rows' \in [Tools -> Seq(Entries \X (STRING \union {NoPort}))]
    BY <1>7, <2>1, <2>2
  <2>4. glitch' \in [Tools -> BOOLEAN]
    BY <1>1, <2>2
  <2>5. pc' \in [Tools -> {"start", "probe", "find", "open", "nodevice"} \union HasHandle \union Ended]
    BY <1>1, <2>2
  <2> QED
    BY <1>1, <1>2, <1>10, <2>3, <2>4, <2>5 DEF FT_GetComPortNumber, world
<1>11. ASSUME NEW t \in Tools, ProbeClose(t) PROVE TypeOK'
  <2>1. ~AtEnd(t)
    BY <1>1, <1>11 DEF ProbeClose, Pointed
  <2>2. pos' \in [Tools -> Nat \ {0}] /\ \A s \in Tools : pos'[s] <= Len(list'[s]) + 1
    BY <1>1, <1>8, <1>11, <2>1 DEF ProbeClose
  <2> QED
    BY <1>1, <1>2, <1>11, <2>2 DEF ProbeClose, FT_Close
<1>12. ASSUME NEW t \in Tools, FindDevice(t) PROVE TypeOK'
  <2>1. ASSUME NEW i \in Found(t), pos' = [pos EXCEPT ![t] = i] PROVE TypeOK'
    <3>1. i \in Nat \ {0} /\ i <= Len(list[t]) + 1
      BY <1>1, EntryTypes, LenProperties DEF Found
    <3>2. \A s \in Tools : pos'[s] <= Len(list'[s]) + 1
      BY <1>1, <1>12, <2>1, <3>1 DEF FindDevice
    <3> QED
      BY <1>1, <1>2, <1>12, <2>1, <3>1, <3>2 DEF FindDevice, world
  <2>2. CASE UNCHANGED pos
    BY <1>1, <1>2, <1>12, <2>2 DEF FindDevice, world
  <2> QED
    BY <1>12, <2>1, <2>2 DEF FindDevice
<1>13. ASSUME NEW t \in Tools, FT_OpenEx(t) PROVE TypeOK'
  <2>1. CanOpen(Here(t)) \in BOOLEAN
    BY DEF CanOpen
  <2>2. owner' \in [Devices -> Tools \union {Nobody, Outsider}]
    BY <1>1, <1>13 DEF FT_OpenEx
  <2>3. glitch' \in [Tools -> BOOLEAN]
    BY <1>1, <1>13, <2>1 DEF FT_OpenEx
  <2>4. pc' \in [Tools -> {"start", "probe", "find", "open", "nodevice"} \union HasHandle \union Ended]
    BY <1>1, <1>13 DEF FT_OpenEx
  <2> QED
    BY <1>1, <1>2, <1>13, <2>2, <2>3, <2>4 DEF FT_OpenEx, search
<1>14. ASSUME NEW t \in Tools, Configure(t) PROVE TypeOK'
  BY <1>1, <1>2, <1>14 DEF Configure, world, search
<1>15. ASSUME NEW t \in Tools, ConfigureFails(t) PROVE TypeOK'
  <2>1. Live(t) \in BOOLEAN
    BY DEF Live
  <2> QED
    BY <1>1, <1>2, <1>15, <2>1 DEF ConfigureFails, FT_Close, search
<1>16. ASSUME NEW t \in Tools, Use(t) PROVE TypeOK'
  BY <1>1, <1>2, <1>16 DEF Use, FT_Close, search
<1>17. ASSUME NEW t \in Tools, Exit(t) \/ Kill(t) PROVE TypeOK'
  BY <1>1, <1>2, <1>17 DEF Exit, Kill, Leave, search
<1>18. ASSUME NEW t \in Tools, RunAgain(t) PROVE TypeOK'
  <2>1. << >> \in Seq(Entries) /\ << >> \in Seq(Entries \X (STRING \union {NoPort}))
        /\ Len(<< >>) = 0
    OBVIOUS
  <2>2. \A s \in Tools : pos'[s] <= Len(list'[s]) + 1
    BY <1>1, <1>18, <2>1 DEF RunAgain
  <2>3. cmd' \in [Tools -> Commands[windows]] /\ glitch' \in [Tools -> BOOLEAN]
    BY <1>1, <1>18 DEF RunAgain
  <2>4. /\ list' \in [Tools -> Seq(Entries)] /\ pos' \in [Tools -> Nat \ {0}]
        /\ rows' \in [Tools -> Seq(Entries \X (STRING \union {NoPort}))]
    BY <1>1, <1>18, <2>1 DEF RunAgain
  <2> QED
    BY <1>1, <1>2, <1>18, <2>2, <2>3, <2>4 DEF RunAgain, world
<1> QED
  BY <1>3, <1>4, <1>5, <1>6, <1>9, <1>10, <1>11, <1>12, <1>13, <1>14, <1>15, <1>16,
     <1>17, <1>18 DEF Next, Tool, Step

-----------------------------------------------------------------------------
\* A tool keeps its invariant while it stands still: nobody opens a device in
\* its name.
LEMMA Bystander ==
  ASSUME NEW s \in Tools, ToolInv(s), windows' = windows,
         pc'[s] = pc[s], list'[s] = list[s], pos'[s] = pos[s], cmd'[s] = cmd[s],
         \A d \in Devices : owner'[d] = s => owner[d] = s
  PROVE  ToolInv(s)'
<1>1. Here(s)' = Here(s) /\ (AtEnd(s)' <=> AtEnd(s)) /\ Method(cmd[s])' = Method(cmd[s])
  BY DEF Here, AtEnd, Method
<1>2. Named(s, Here(s))' <=> Named(s, Here(s))
  BY <1>1 DEF Named, Matches
<1> QED
  BY <1>1, <1>2 DEF ToolInv, Pointed, Searching, Sought, HoldsOnly

\* A tool moves nothing but itself and what it has open.
LEMMA Local ==
  ASSUME TypeOK, NEW t \in Tools, Tool(t), NEW s \in Tools, s # t
  PROVE  /\ pc'[s] = pc[s] /\ list'[s] = list[s] /\ pos'[s] = pos[s] /\ cmd'[s] = cmd[s]
         /\ \A d \in Devices : owner'[d] = s => owner[d] = s
<1> USE DEF TypeOK, Goto, Advance, FT_Close, world, search
<1>1. Nobody # s
  BY DevicesAssumption
<1>2. CASE GetDeviceList(t)
  BY <1>2 DEF GetDeviceList
<1>3. CASE EndOfList(t) \/ ProbeOpen(t) \/ ProbeOpenFails(t)
  BY <1>3 DEF EndOfList, ProbeOpen, ProbeOpenFails
<1>4. CASE FT_GetComPortNumber(t)
  BY <1>4 DEF FT_GetComPortNumber
<1>5. CASE ProbeClose(t)
  BY <1>1, <1>5 DEF ProbeClose
<1>6. CASE FindDevice(t)
  BY <1>6 DEF FindDevice
<1>7. CASE FT_OpenEx(t)
  BY <1>7 DEF FT_OpenEx
<1>8. CASE Configure(t) \/ ConfigureFails(t) \/ Use(t)
  BY <1>1, <1>8 DEF Configure, ConfigureFails, Use
<1>9. CASE Exit(t) \/ Kill(t)
  BY <1>1, <1>9 DEF Exit, Kill, Leave
<1>10. CASE RunAgain(t)
  BY <1>10 DEF RunAgain
<1> QED
  BY <1>2, <1>3, <1>4, <1>5, <1>6, <1>7, <1>8, <1>9, <1>10 DEF Tool, Step

\* After FT_Close a tool that had one device open has none.
LEMMA Closes ==
  ASSUME TypeOK, NEW t \in Tools, HoldsOnly(t), FT_Close(t)
  PROVE  \A d \in Devices : owner'[d] # t
  BY DevicesAssumption DEF TypeOK, HoldsOnly, FT_Close

LEMMA EnvironmentStep ==
  ASSUME DevicesInv, Environment, windows' = windows
  PROVE  \A s \in Tools : ToolInv(s)'
<1> SUFFICES ASSUME NEW s \in Tools PROVE ToolInv(s)'
  OBVIOUS
<1>1. s # Nobody /\ s # Outsider
  BY DevicesAssumption
<1>2. \A d \in Devices : owner'[d] = s => owner[d] = s
  BY <1>1 DEF DevicesInv, TypeOK, Environment, OutsiderOpens, OutsiderCloses, Plug, Unplug
<1>3. pc'[s] = pc[s] /\ list'[s] = list[s] /\ pos'[s] = pos[s] /\ cmd'[s] = cmd[s]
  BY DEF Environment, search
<1> QED
  BY <1>2, <1>3, Bystander DEF DevicesInv

\* The tool that moves keeps its invariant.
LEMMA Mover ==
  ASSUME DevicesInv, TypeOK', NEW t \in Tools, Tool(t), windows' = windows
  PROVE  ToolInv(t)'
<1> USE DEF HasHandle, Goto, world, search, Here, AtEnd
<1>1. TypeOK /\ Pointed(t) /\ Searching(t) /\ Sought(t) /\ HoldsOnly(t)
  BY DEF DevicesInv, ToolInv
<1>2. pc \in [Tools -> {"start", "probe", "find", "open", "nodevice"} \union HasHandle \union Ended]
      /\ pos \in [Tools -> Nat \ {0}] /\ list \in [Tools -> Seq(Entries)]
      /\ owner \in [Devices -> Tools \union {Nobody, Outsider}]
  BY <1>1 DEF TypeOK
<1>3. (Method(cmd[t]))' = IF cmd'[t] = cmd[t] THEN Method(cmd[t]) ELSE (Method(cmd[t]))'
  BY DEF Method
<1>a. ASSUME cmd'[t] = cmd[t], Here(t)' = Here(t)
      PROVE  Named(t, Here(t))' <=> Named(t, Here(t))
  BY <1>3, <1>a DEF Named, Matches
<1>4. CASE GetDeviceList(t)
  <2>1. /\ pc[t] = "start" /\ UNCHANGED <<owner, cmd, pos>>
        /\ pc'[t] \in {"probe", "find", "nodevice"}
        /\ pc'[t] = "find" => ~cmd[t].lister
        /\ pc'[t] = "probe" /\ ~cmd[t].lister => Method(cmd[t]) = "port"
    BY <1>2, <1>4 DEF GetDeviceList
  <2>2. \A d \in Devices : owner[d] # t
    BY <1>1, <2>1 DEF HoldsOnly
  <2> QED
    BY <1>1, <1>3, <2>1, <2>2 DEF ToolInv, Pointed, Searching, Sought, HoldsOnly
<1>5. CASE EndOfList(t)
  <2>1. pc[t] = "probe" /\ UNCHANGED <<owner, cmd>> /\ pc'[t] \in {"exited", "nodevice"}
    BY <1>2, <1>5 DEF EndOfList
  <2>2. \A d \in Devices : owner[d] # t
    BY <1>1, <2>1 DEF HoldsOnly
  <2> QED
    BY <2>1, <2>2 DEF ToolInv, Pointed, Searching, Sought, HoldsOnly
<1>6. CASE ProbeOpen(t)
  <2>1. /\ pc[t] = "probe" /\ pc'[t] = "port" /\ ~AtEnd(t) /\ Here(t) \in Devices
        /\ owner' = [owner EXCEPT ![Here(t)] = t] /\ UNCHANGED <<cmd, list, pos>>
    BY <1>1, <1>2, <1>6 DEF ProbeOpen, CanOpen, TypeOK
  <2>2. \A d \in Devices : owner'[d] = t => d = Here(t)
    BY <1>1, <1>2, <2>1 DEF HoldsOnly
  <2> QED
    BY <1>1, <1>3, <2>1, <2>2 DEF ToolInv, Pointed, Searching, Sought, HoldsOnly
<1>7. CASE ProbeOpenFails(t)
  <2>1. pc[t] = "probe" /\ UNCHANGED <<owner, cmd, pc>>
    BY <1>7 DEF ProbeOpenFails
  <2> QED
    BY <1>1, <1>3, <2>1 DEF ToolInv, Pointed, Searching, Sought, HoldsOnly
<1>8. CASE FT_GetComPortNumber(t)
  <2>1. /\ pc[t] = "port" /\ pc'[t] \in {"match", "close"} /\ UNCHANGED <<owner, cmd, list, pos>>
        /\ pc'[t] = "match" => ~cmd[t].lister /\ Matches("port", cmd[t].name, Here(t))
    BY <1>2, <1>8 DEF FT_GetComPortNumber, IsWanted
  <2>2. Here(t) \in Devices /\ Here(t) # Blank
    BY <1>1, <2>1, DevicesAssumption DEF Pointed
  <2>3. pc'[t] = "match" => Named(t, Here(t))
    BY <1>1, <2>1, <2>2 DEF Searching, Named
  <2> QED
    BY <1>1, <1>3, <1>a, <2>1, <2>2, <2>3
    DEF ToolInv, Pointed, Searching, Sought, HoldsOnly
<1>9. CASE ProbeClose(t)
  <2>1. FT_Close(t) /\ UNCHANGED <<cmd, list>>
        /\ \/ pc[t] = "close" /\ pc'[t] = "probe"
           \/ pc[t] = "match" /\ pc'[t] = "open" /\ UNCHANGED pos
    BY <1>2, <1>9 DEF ProbeClose
  <2>2. \A d \in Devices : owner'[d] # t
    BY <1>1, <2>1, Closes
  <2> QED
    BY <1>1, <1>3, <1>a, <2>1, <2>2 DEF ToolInv, Pointed, Searching, Sought, HoldsOnly
<1>10. CASE FindDevice(t)
  <2>1. pc[t] = "find" /\ ~cmd[t].lister /\ UNCHANGED <<owner, cmd, list>>
    BY <1>1, <1>10 DEF FindDevice, Searching
  <2>2. \A d \in Devices : owner[d] # t
    BY <1>1, <2>1 DEF HoldsOnly
  <2>3. ASSUME NEW i \in Found(t), pos'[t] = i, pc'[t] = "open" PROVE ToolInv(t)'
    <3>1. i \in 1..Len(list[t]) /\ Len(list[t]) \in Nat
      BY <1>1, EntryTypes, LenProperties DEF Found
    <3>2. Named(t, list[t][i])
      BY DEF Found
    <3>3. Pointed(t)'
      BY <1>2, <2>1, <2>3, <3>1 DEF Pointed
    <3>4. Here(t)' = list[t][i]
      BY <2>1, <2>3
    <3>5. Sought(t)'
      BY <1>3, <2>1, <3>2, <3>4 DEF Sought, Named, Matches
    <3> QED
      BY <2>1, <2>2, <2>3, <3>3, <3>5 DEF ToolInv, Searching, HoldsOnly
  <2>4. CASE pc'[t] = "nodevice"
    BY <2>1, <2>2, <2>4 DEF ToolInv, Pointed, Searching, Sought, HoldsOnly
  <2> QED
    BY <1>2, <1>10, <2>3, <2>4 DEF FindDevice
<1>11. CASE FT_OpenEx(t)
  <2>1. pc[t] = "open" /\ UNCHANGED <<cmd, list, pos>> /\ ~AtEnd(t)
    BY <1>1, <1>11 DEF FT_OpenEx, Pointed
  <2>2. \/ pc'[t] = "baud" /\ owner' = [owner EXCEPT ![Here(t)] = t] /\ Here(t) \in Devices
        \/ pc'[t] = "nodevice" /\ owner' = owner
    BY <1>1, <1>2, <1>11 DEF FT_OpenEx, CanOpen, TypeOK
  <2>3. \A d \in Devices : owner'[d] = t => pc'[t] = "baud" /\ d = Here(t)
    BY <1>1, <1>2, <2>1, <2>2 DEF HoldsOnly
  <2> QED
    BY <1>1, <1>3, <1>a, <2>1, <2>2, <2>3
    DEF ToolInv, Pointed, Searching, Sought, HoldsOnly
<1>12. CASE Configure(t)
  <2>1. pc[t] \in {"baud", "data", "flow"} /\ pc'[t] \in {"data", "flow", "using"}
        /\ UNCHANGED <<owner, cmd, list, pos>>
    BY <1>2, <1>12 DEF Configure
  <2> QED
    BY <1>1, <1>3, <1>a, <2>1 DEF ToolInv, Pointed, Searching, Sought, HoldsOnly
<1>13. CASE ConfigureFails(t) \/ Use(t)
  <2>1. pc[t] \in {"baud", "data", "flow", "using"} /\ UNCHANGED <<cmd, list, pos>>
        /\ \/ FT_Close(t) /\ pc'[t] \in {"nodevice", "exited"}
           \/ UNCHANGED owner /\ pc'[t] = "failing"
    BY <1>2, <1>13 DEF ConfigureFails, Use
  <2>2. FT_Close(t) => \A d \in Devices : owner'[d] # t
    BY <1>1, Closes
  <2> QED
    BY <1>1, <2>1, <2>2 DEF ToolInv, Pointed, Searching, Sought, HoldsOnly
<1>14. CASE Exit(t) \/ Kill(t)
  <2>1. pc'[t] \in {"exited", "killed"} /\ \A d \in Devices : owner'[d] # t
    BY <1>2, <1>14, DevicesAssumption DEF Exit, Kill, Leave
  <2> QED
    BY <2>1 DEF ToolInv, Pointed, Searching, Sought, HoldsOnly
<1>15. CASE RunAgain(t)
  <2>1. pc'[t] = "start" /\ pos'[t] = 1 /\ pc[t] \in Ended /\ UNCHANGED owner
    BY <1>2, <1>15 DEF RunAgain
  <2>2. \A d \in Devices : owner[d] # t
    BY <1>1, <2>1 DEF HoldsOnly, Ended
  <2> QED
    BY <2>1, <2>2 DEF ToolInv, Pointed, Searching, Sought, HoldsOnly
<1> QED
  BY <1>4, <1>5, <1>6, <1>7, <1>8, <1>9, <1>10, <1>11, <1>12, <1>13, <1>14, <1>15
  DEF Tool, Step

\* Tool by tool, what a search knows of the entry it points at holds whatever
\* other tools, other programs and the user do.
THEOREM DevicesInvHolds == Spec => []DevicesInv
<1>1. Init => DevicesInv
  BY InitHolds
<1>2. DevicesInv /\ [Next]_vars => DevicesInv'
  <2>1. ASSUME DevicesInv, Next PROVE DevicesInv'
    <3>1. TypeOK' /\ windows' = windows /\ TypeOK
      BY <2>1, TypeStep DEF Next, Always, DevicesInv
    <3>2. CASE Environment
      BY <2>1, <3>1, <3>2, EnvironmentStep DEF DevicesInv
    <3>3. ASSUME NEW t \in Tools, Tool(t) PROVE DevicesInv'
      <4>1. ToolInv(t)'
        BY <2>1, <3>1, <3>3, Mover
      <4>2. ASSUME NEW s \in Tools, s # t PROVE ToolInv(s)'
        BY <2>1, <3>1, <3>3, <4>2, Local, Bystander DEF DevicesInv
      <4> QED
        BY <3>1, <4>1, <4>2 DEF DevicesInv
    <3> QED
      BY <2>1, <3>2, <3>3 DEF Next
  <2>2. ASSUME DevicesInv, UNCHANGED vars PROVE DevicesInv'
    <3>1. TypeOK'
      BY <2>2 DEF DevicesInv, TypeOK, vars
    <3>2. ASSUME NEW s \in Tools PROVE ToolInv(s)'
      BY <2>2, Bystander DEF DevicesInv, vars
    <3> QED
      BY <3>1, <3>2 DEF DevicesInv
  <2> QED
    BY <2>1, <2>2
<1> QED
  BY <1>1, <1>2, PTL DEF Spec

-----------------------------------------------------------------------------
\* Every variable keeps its type, and no tool looks past the end of its list.
THEOREM DevicesTypeCorrect == Spec => []TypeOK
<1>1. DevicesInv => TypeOK
  BY DEF DevicesInv
<1> QED
  BY <1>1, DevicesInvHolds, PTL

\* A search leaves nothing open behind it, whatever other tools, other
\* programs and the user do meanwhile.
THEOREM NothingStaysOpen == Spec => []NothingLeftOpen
<1>1. DevicesInv => NothingLeftOpen
  BY DEF DevicesInv, ToolInv, Pointed, HoldsOnly, NothingLeftOpen
<1> QED
  BY <1>1, DevicesInvHolds, PTL

\* The device a tool goes on with is the one it was asked for by the help text,
\* by whatever option but --description.
THEOREM DeviceIsRight == Spec => []RightDevice
<1>1. DevicesInv => RightDevice
  <2> SUFFICES ASSUME DevicesInv, NEW t \in Tools,
                      pc[t] \in {"baud", "data", "flow", "using"},
                      cmd[t].asked # "description"
               PROVE  /\ ~cmd[t].lister /\ ~AtEnd(t) /\ Here(t) # Blank
                      /\ Matches(MethodAsked(cmd[t]), cmd[t].name, Here(t))
    BY DEF RightDevice
  <2>1. MethodAsked(cmd[t]) = Method(cmd[t])
    BY MethodSame DEF DevicesInv
  <2>2. ~cmd[t].lister /\ ~AtEnd(t) /\ Here(t) # Blank /\ Named(t, Here(t))
    BY DevicesAssumption DEF DevicesInv, ToolInv, Pointed, Sought, HasHandle
  <2> QED
    BY <2>1, <2>2 DEF Named
<1> QED
  BY <1>1, DevicesInvHolds, PTL
=============================================================================
