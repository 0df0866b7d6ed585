------------------------- MODULE DevicesSearchProofs -------------------------
(***************************************************************************)
(* Proofs about Devices: what a search finds, and what d2xx_list prints,   *)
(* however many tools, programs and users disturb each other.              *)
(***************************************************************************)
EXTENDS DevicesProofs

-----------------------------------------------------------------------------
(***************************************************************************)
(* The inductive invariants, tool by tool.                                 *)
(***************************************************************************)
Good(t) == undisturbed[t] /\ ~glitch[t] /\ cmd[t].asked # "description" /\ cmd[t].name # ""
Wanted(t, d) == Matches(Method(cmd[t]), cmd[t].name, d)

\* What is asked for is in the list, not before entry number from.
Ahead(t, from) ==
  \A d \in Devices : Wanted(t, d) => \E i \in from..Len(list[t]) : list[t][i] = d

\* As long as nobody disturbs it a search has not passed by its device, and
\* the handle it gets stays alive.
SearchOK(t) ==
  /\ undisturbed[t] => Available(t)
  /\ pc[t] = "nodevice" /\ cmd[t].lister => glitch[t]
  /\ Good(t) /\ ~cmd[t].lister =>
       /\ pc[t] \in {"probe", "port"} => Ahead(t, pos[t])
       /\ pc[t] = "close" => Ahead(t, pos[t] + 1)
       /\ pc[t] = "find" => Ahead(t, 1)
       /\ pc[t] \in {"port", "baud", "data", "flow"} /\ Wanted(t, Here(t)) => Live(t)
       /\ pc[t] = "nodevice" => \A d \in Devices : ~Wanted(t, d)

\* d2xx_list has printed the entries before the one it looks at.
RowsOK(t) ==
  /\ \A i \in 1..Len(rows[t]) :
       /\ i <= Len(list[t]) /\ rows[t][i][1] = list[t][i]
       /\ (rows[t][i][2] = NoPort \/ rows[t][i][2] = Port[list[t][i]])
  /\ ~cmd[t].lister => rows[t] = << >>
  /\ pc[t] = "start" => rows[t] = << >> /\ list[t] = << >>
  /\ cmd[t].lister =>
       /\ pc[t] \in {"start", "probe", "port", "close", "nodevice"} \union Ended
       /\ pc[t] \in {"probe", "port"} => Len(rows[t]) = pos[t] - 1
       /\ pc[t] = "close" => Len(rows[t]) = pos[t]
       /\ pc[t] = "nodevice" => list[t] = << >>
       /\ pc[t] = "exited" /\ list[t] # << >> => Len(rows[t]) = Len(list[t])

\* The device wanted is there as long as nobody disturbs the search.
LEMMA WantedIsThere ==
  ASSUME DevicesInv, NEW t \in Tools, SearchOK(t), Good(t),
         NEW d \in Devices, Wanted(t, d)
  PROVE  /\ d \in plugged /\ owner[d] \in {Nobody, t}
         /\ pc[t] \notin HasHandle => owner[d] = Nobody /\ CanOpen(d)
<1>1. Available(t) /\ MethodAsked(cmd[t]) = Method(cmd[t])
  BY MethodSame DEF DevicesInv, SearchOK, Good
<1>2. d \in plugged /\ owner[d] \in {Nobody, t}
  BY <1>1 DEF Available, Wanted
<1>3. owner[d] = t => pc[t] \in HasHandle
  BY DEF DevicesInv, ToolInv, HoldsOnly
<1> QED
  BY <1>2, <1>3 DEF CanOpen

\* A device that is plugged in is in the list, under its own name if it can
\* be opened.
LEMMA ListComplete ==
  ASSUME TypeOK, NEW l \in Enumerations, NEW d \in plugged, owner[d] = Nobody
  PROVE  \E i \in 1..Len(l) : l[i] = d
<1>1. IsFiniteSet(plugged) /\ Cardinality(plugged) \in Nat
  BY FS_Subset, FS_CardinalityType, DevicesAssumption DEF TypeOK
<1> DEFINE n == Cardinality(plugged)
<1>2. PICK order \in {f \in [1..n -> plugged] : IsInjective(f)} :
        l = [i \in DOMAIN order |-> IF owner[order[i]] = Nobody THEN order[i] ELSE Blank]
  BY DEF Enumerations
<1>3. order \in Injection(1..n, plugged)
  BY <1>2 DEF Injection
<1>4. Cardinality(1..n) = n
  BY <1>1, FS_Interval
<1>5. order \in Surjection(1..n, plugged)
  BY <1>1, <1>3, <1>4, FS_Injection
<1>6. PICK i \in 1..n : order[i] = d
  BY <1>5 DEF Surjection
<1>7. l[i] = d /\ DOMAIN l = 1..n
  BY <1>2, <1>6
<1>8. Len(l) = n
  BY <1>1, <1>7, ListTypes, LenProperties
<1> QED
  BY <1>6, <1>7, <1>8

-----------------------------------------------------------------------------
(***************************************************************************)
(* Tools that stand still.                                                 *)
(***************************************************************************)
\* A tool takes nothing from another one.
LEMMA LocalToo ==
  ASSUME TypeOK, NEW t \in Tools, Tool(t), NEW s \in Tools, s # t
  PROVE  /\ rows'[s] = rows[s] /\ glitch'[s] = glitch[s]
         /\ \A d \in Devices : owner[d] = s => owner'[d] = s
<1> USE DEF TypeOK, Goto, Glitch, Advance, PrintRow, FT_Close, CanOpen, world, search
<1>1. Nobody # s
  BY DevicesAssumption
<1>2. CASE GetDeviceList(t)
  BY <1>2 DEF GetDeviceList
<1>3. CASE EndOfList(t)
  BY <1>3 DEF EndOfList
<1>4. CASE ProbeOpen(t)
  BY <1>1, <1>4 DEF ProbeOpen
<1>5. CASE ProbeOpenFails(t)
  BY <1>5 DEF ProbeOpenFails
<1>6. CASE FT_GetComPortNumber(t)
  BY <1>6 DEF FT_GetComPortNumber
<1>7. CASE ProbeClose(t)
  BY <1>7 DEF ProbeClose
<1>8. CASE FindDevice(t)
  BY <1>8 DEF FindDevice
<1>9. CASE FT_OpenEx(t)
  BY <1>1, <1>9 DEF FT_OpenEx
<1>10. CASE Configure(t)
  BY <1>10 DEF Configure
<1>11. CASE ConfigureFails(t) \/ Use(t)
  BY <1>11 DEF ConfigureFails, Use
<1>12. CASE Exit(t) \/ Kill(t)
  BY <1>12 DEF Exit, Kill, Leave
<1>13. CASE RunAgain(t)
  BY <1>13 DEF RunAgain
<1> QED
  BY <1>2, <1>3, <1>4, <1>5, <1>6, <1>7, <1>8, <1>9, <1>10, <1>11, <1>12, <1>13
  DEF Tool, Step

\* A search that stands still is not led astray: what could do it is noticed.
LEMMA SearchBystander ==
  ASSUME DevicesInv, NEW s \in Tools, SearchOK(s), windows' = windows,
         pc'[s] = pc[s], list'[s] = list[s], pos'[s] = pos[s], cmd'[s] = cmd[s],
         glitch'[s] = glitch[s],
         undisturbed'[s] = (Available(s)' /\ (pc'[s] = "start" \/ undisturbed[s])),
         \A d \in Devices : owner[d] = s /\ d \in plugged' => owner'[d] = s
  PROVE  SearchOK(s)'
<1>1. /\ Here(s)' = Here(s) /\ (MethodAsked(cmd[s]))' = MethodAsked(cmd[s])
      /\ (Method(cmd[s]))' = Method(cmd[s])
  BY DEF Here, Method, MethodAsked
<1>2. /\ \A d : Wanted(s, d)' <=> Wanted(s, d)
      /\ \A n : Ahead(s, n)' <=> Ahead(s, n)
  BY <1>1 DEF Wanted, Ahead, Matches
<1>3. undisturbed'[s] => Available(s)'
  OBVIOUS
<1>4. pc[s] # "start" /\ Good(s)' => Good(s) /\ Available(s)'
  BY DEF Good
<1>5. ASSUME pc[s] \in {"port", "baud", "data", "flow"}, Good(s)', ~cmd[s].lister,
             Wanted(s, Here(s))
      PROVE  Live(s)'
  <2>1. Here(s) \in Devices
    BY <1>5 DEF DevicesInv, ToolInv, Pointed, HasHandle
  <2>2. Live(s) /\ Good(s) /\ Available(s)'
    BY <1>4, <1>5 DEF SearchOK
  <2>3. Matches(MethodAsked(cmd[s]), cmd[s].name, Here(s))
    BY <1>5, <2>2, MethodSame DEF DevicesInv, Wanted, Good
  <2>4. Here(s) \in plugged'
    BY <1>1, <2>1, <2>2, <2>3 DEF Available, Matches, MethodAsked
  <2> QED
    BY <1>1, <2>1, <2>2, <2>4 DEF Live
<1>6. CASE pc[s] = "start"
  BY <1>3, <1>6 DEF SearchOK
<1>7. CASE pc[s] # "start"
  BY <1>1, <1>2, <1>3, <1>4, <1>5, <1>7 DEF SearchOK
<1> QED
  BY <1>6, <1>7

-----------------------------------------------------------------------------
(***************************************************************************)
(* The tool that moves.                                                    *)
(***************************************************************************)
\* What does not depend on the step.
LEMMA SameSearch ==
  ASSUME TypeOK, NEW t \in Tools, windows' = windows, cmd'[t] = cmd[t], pc'[t] # "start",
         glitch[t] => glitch'[t],
         undisturbed'[t] = (Available(t)' /\ (pc'[t] = "start" \/ undisturbed[t]))
  PROVE  /\ Good(t)' => Good(t)
         /\ undisturbed'[t] => Available(t)'
         /\ \A d : Wanted(t, d)' <=> Wanted(t, d)
         /\ list'[t] = list[t] => \A n : Ahead(t, n)' <=> Ahead(t, n)
<1>1. (Method(cmd[t]))' = Method(cmd[t])
  BY DEF Method
<1>2. \A d : Wanted(t, d)' <=> Wanted(t, d)
  BY <1>1 DEF Wanted, Matches
<1> QED
  BY <1>2 DEF Good, Ahead

LEMMA SearchMover ==
  ASSUME DevicesInv, NEW t \in Tools, Tool(t), SearchOK(t), windows' = windows,
         undisturbed'[t] = (Available(t)' /\ (pc'[t] = "start" \/ undisturbed[t]))
  PROVE  SearchOK(t)'
<1> USE DEF Goto
<1>1. /\ TypeOK /\ Pointed(t) /\ Searching(t) /\ Sought(t) /\ HoldsOnly(t)
      /\ pc \in [Tools -> {"start", "probe", "find", "open", "nodevice"} \union HasHandle \union Ended]
      /\ pos \in [Tools -> Nat \ {0}] /\ list \in [Tools -> Seq(Entries)]
      /\ owner \in [Devices -> Tools \union {Nobody, Outsider}]
      /\ glitch \in [Tools -> BOOLEAN] /\ windows \in BOOLEAN
      /\ Blank \notin Devices /\ t # Nobody
  BY DevicesAssumption DEF DevicesInv, ToolInv, TypeOK
<1>2. /\ list[t] \in Seq(Entries) /\ Len(list[t]) \in Nat /\ pos[t] \in Nat \ {0}
  BY <1>1, EntryTypes
<1>3. CASE GetDeviceList(t)
  <2>1. /\ cmd'[t] = cmd[t] /\ pc[t] = "start" /\ pos'[t] = pos[t] /\ pos[t] = 1
        /\ pc'[t] \in {"probe", "find", "nodevice"} /\ UNCHANGED <<plugged, owner>>
    BY <1>1, <1>3 DEF GetDeviceList, world, Pointed
  <2>2. CASE pc'[t] = "nodevice" /\ glitch'[t]
    BY <2>1, <2>2 DEF SearchOK, Good
  <2>3. ASSUME NEW l \in Enumerations, list'[t] = l, glitch' = glitch,
               pc'[t] = IF cmd[t].lister THEN "probe"
                        ELSE IF l = << >> THEN "nodevice"
                        ELSE IF Method(cmd[t]) = "port" THEN "probe" ELSE "find"
        PROVE  SearchOK(t)'
    <3>1. /\ Good(t)' => Good(t)
          /\ undisturbed'[t] => Available(t)'
          /\ \A d : Wanted(t, d)' <=> Wanted(t, d)
      BY <1>1, <2>1, <2>3, SameSearch
    <3>2. Good(t) => \A d \in Devices : Wanted(t, d) => \E i \in 1..Len(l) : l[i] = d
      <4>1. ASSUME Good(t), NEW d \in Devices, Wanted(t, d)
            PROVE  d \in plugged /\ owner[d] = Nobody
        BY <2>1, <4>1, WantedIsThere DEF HasHandle
      <4> QED
        BY <1>1, <4>1, ListComplete
    <3>3. Good(t)' => Ahead(t, 1)'
      BY <2>3, <3>1, <3>2 DEF Ahead
    <3>4. pc'[t] = "nodevice" => l = << >> /\ ~cmd[t].lister
      BY <2>3
    <3>5. l = << >> => 1..Len(l) = {}
      OBVIOUS
    <3>6. pc'[t] = "nodevice" /\ Good(t)' => \A d \in Devices : ~Wanted(t, d)'
      BY <3>1, <3>2, <3>4, <3>5
    <3> QED
      BY <2>1, <3>1, <3>3, <3>4, <3>6 DEF SearchOK
  <2> QED
    <3>1. CASE \E l \in Enumerations :
            /\ list' = [list EXCEPT ![t] = l]
            /\ Goto(t, IF cmd[t].lister THEN "probe"
                       ELSE IF l = << >> THEN "nodevice"
                       ELSE IF Method(cmd[t]) = "port" THEN "probe" ELSE "find")
            /\ UNCHANGED glitch
      BY <1>1, <2>3, <3>1
    <3>2. CASE Goto(t, "nodevice") /\ Glitch(t, TRUE)
      BY <1>1, <2>2, <3>2 DEF Glitch
    <3> QED
      BY <1>3, <3>1, <3>2 DEF GetDeviceList
<1>4. CASE EndOfList(t)
  <2>1. /\ pc[t] = "probe" /\ AtEnd(t) /\ UNCHANGED <<plugged, owner, cmd, list, pos, glitch>>
        /\ pc'[t] = IF cmd[t].lister THEN "exited" ELSE "nodevice"
    BY <1>1, <1>4 DEF EndOfList, world, search
  <2>2. /\ Good(t)' => Good(t)
        /\ undisturbed'[t] => Available(t)'
        /\ \A d : Wanted(t, d)' <=> Wanted(t, d)
    BY <1>1, <2>1, SameSearch
  <2>3. pos[t]..Len(list[t]) = {}
    BY <1>2, <2>1 DEF AtEnd
  <2>4. Good(t) /\ ~cmd[t].lister => \A d \in Devices : ~Wanted(t, d)
    BY <2>1, <2>3 DEF SearchOK, Ahead
  <2> QED
    BY <2>1, <2>2, <2>4 DEF SearchOK
<1>5. CASE ProbeOpen(t)
  <2>1. /\ pc[t] = "probe" /\ pc'[t] = "port" /\ Here(t) \in Devices
        /\ owner' = [owner EXCEPT ![Here(t)] = t]
        /\ UNCHANGED <<plugged, cmd, list, pos, glitch>>
    BY <1>1, <1>5 DEF ProbeOpen, CanOpen, TypeOK, search
  <2>2. /\ Good(t)' => Good(t)
        /\ undisturbed'[t] => Available(t)'
        /\ \A n : Ahead(t, n)' <=> Ahead(t, n)
    BY <1>1, <2>1, SameSearch
  <2>3. Live(t)'
    BY <1>1, <2>1 DEF Live, Here
  <2> QED
    BY <2>1, <2>2, <2>3 DEF SearchOK
<1>6. CASE ProbeOpenFails(t)
  <2>1. /\ pc[t] = "probe" /\ pc'[t] = "probe" /\ ~AtEnd(t) /\ pos'[t] = pos[t] + 1
        /\ UNCHANGED <<plugged, owner, cmd, list>>
        /\ glitch'[t] = (glitch[t] \/ CanOpen(Here(t)))
    BY <1>1, <1>6 DEF ProbeOpenFails, world, Advance, Glitch
  <2>2. /\ Good(t)' => Good(t)
        /\ undisturbed'[t] => Available(t)'
        /\ \A n : Ahead(t, n)' <=> Ahead(t, n)
    BY <1>1, <2>1, SameSearch
  <2>3. ASSUME Good(t)', ~cmd[t].lister PROVE Ahead(t, pos[t] + 1)
    <3> SUFFICES ASSUME NEW d \in Devices, Wanted(t, d)
                 PROVE  \E i \in (pos[t] + 1)..Len(list[t]) : list[t][i] = d
      BY DEF Ahead
    <3>1. PICK i \in pos[t]..Len(list[t]) : list[t][i] = d
      BY <2>1, <2>2, <2>3 DEF SearchOK, Ahead
    <3>2. i # pos[t]
      <4>1. CanOpen(d)
        BY <2>1, <2>2, <2>3, WantedIsThere DEF HasHandle
      <4>2. ~CanOpen(Here(t))
        BY <2>1, <2>3 DEF Good
      <4> QED
        BY <3>1, <4>1, <4>2 DEF Here
    <3>3. i \in (pos[t] + 1)..Len(list[t])
      BY <1>2, <3>2
    <3> QED
      BY <3>1, <3>3
  <2> QED
    BY <2>1, <2>2, <2>3 DEF SearchOK
<1>7. CASE FT_GetComPortNumber(t)
  <2>1. PICK ok \in BOOLEAN :
          /\ Glitch(t, ~ok /\ Live(t) /\ windows)
          /\ Goto(t, IF ~cmd[t].lister /\ IsWanted(t, ok) THEN "match" ELSE "close")
    BY <1>7 DEF FT_GetComPortNumber
  <2>2. /\ pc[t] = "port" /\ pc'[t] \in {"match", "close"}
        /\ UNCHANGED <<plugged, owner, cmd, list, pos>>
        /\ glitch'[t] = (glitch[t] \/ (~ok /\ Live(t) /\ windows))
        /\ pc'[t] = "close" /\ ~cmd[t].lister => ~IsWanted(t, ok)
    BY <1>1, <1>7, <2>1 DEF FT_GetComPortNumber, world, Glitch
  <2>3. /\ Good(t)' => Good(t)
        /\ undisturbed'[t] => Available(t)'
        /\ \A n : Ahead(t, n)' <=> Ahead(t, n)
    BY <1>1, <2>2, SameSearch
  <2>4. ASSUME Good(t)', ~cmd[t].lister, pc'[t] = "close" PROVE Ahead(t, pos[t] + 1)
    <3> SUFFICES ASSUME NEW d \in Devices, Wanted(t, d)
                 PROVE  \E i \in (pos[t] + 1)..Len(list[t]) : list[t][i] = d
      BY DEF Ahead
    <3>1. PICK i \in pos[t]..Len(list[t]) : list[t][i] = d
      BY <2>2, <2>3, <2>4 DEF SearchOK, Ahead
    <3>2. i # pos[t]
      <4> SUFFICES ASSUME i = pos[t] PROVE FALSE
        OBVIOUS
      <4>1. Here(t) = d
        BY <3>1 DEF Here
      <4>2. Live(t)
        BY <2>2, <2>3, <2>4, <4>1 DEF SearchOK
      <4>3. Method(cmd[t]) = "port" /\ windows
        BY <1>1, <2>2, <2>4 DEF Searching, Method
      <4>4. ok
        BY <2>2, <2>4, <4>2, <4>3 DEF Good
      <4> QED
        BY <2>2, <2>4, <4>1, <4>3, <4>4 DEF IsWanted, Wanted
    <3>3. i \in (pos[t] + 1)..Len(list[t])
      BY <1>2, <3>2
    <3> QED
      BY <3>1, <3>3
  <2>5. Ahead(t, pos[t] + 1) => Ahead(t, pos[t] + 1)'
    BY <2>2, <2>3
  <2> QED
    BY <2>2, <2>3, <2>4, <2>5 DEF SearchOK
<1>8. CASE ProbeClose(t)
  <2>1. /\ UNCHANGED <<plugged, cmd, list, glitch>>
        /\ \/ pc[t] = "close" /\ pc'[t] = "probe" /\ pos'[t] = pos[t] + 1
           \/ pc'[t] = "open"
    BY <1>1, <1>8 DEF ProbeClose, Advance
  <2>2. /\ Good(t)' => Good(t)
        /\ undisturbed'[t] => Available(t)'
        /\ \A n : Ahead(t, n)' <=> Ahead(t, n)
    BY <1>1, <2>1, SameSearch
  <2> QED
    BY <2>1, <2>2 DEF SearchOK
<1>9. CASE FindDevice(t)
  <2>1. /\ pc[t] = "find" /\ UNCHANGED <<plugged, owner, cmd, list, glitch>>
        /\ pc'[t] = "open" \/ (pc'[t] = "nodevice" /\ Found(t) = {})
    BY <1>1, <1>9 DEF FindDevice, world
  <2>2. /\ Good(t)' => Good(t)
        /\ undisturbed'[t] => Available(t)'
        /\ \A d : Wanted(t, d)' <=> Wanted(t, d)
    BY <1>1, <2>1, SameSearch
  <2>3. ~cmd[t].lister
    BY <1>1, <2>1 DEF Searching
  <2>4. ASSUME Good(t), NEW d \in Devices, Wanted(t, d) PROVE Found(t) # {}
    <3>1. PICK i \in 1..Len(list[t]) : list[t][i] = d
      BY <2>1, <2>3, <2>4 DEF SearchOK, Ahead
    <3>2. i \in DOMAIN list[t]
      BY <1>2, LenProperties
    <3> QED
      BY <1>1, <2>4, <3>1, <3>2 DEF Found, Named, Wanted
  <2> QED
    BY <2>1, <2>2, <2>3, <2>4 DEF SearchOK
<1>10. CASE FT_OpenEx(t)
  <2>1. /\ pc[t] = "open" /\ UNCHANGED <<plugged, cmd, list, pos>>
        /\ ~cmd[t].lister /\ ~AtEnd(t) /\ Named(t, Here(t))
    BY <1>1, <1>10 DEF FT_OpenEx, search, Pointed, Sought
  <2>a. Good(t) => Here(t) \in Devices /\ Wanted(t, Here(t))
    BY <1>1, <2>1, EntryTypes DEF Entries, Good, Named, Wanted
  <2>b. CanOpen(Here(t)) => Here(t) \in Devices
    BY <1>1 DEF CanOpen, TypeOK
  <2>2. \/ /\ pc'[t] = "baud" /\ Here(t) \in Devices
           /\ owner' = [owner EXCEPT ![Here(t)] = t] /\ glitch'[t] = glitch[t]
        \/ pc'[t] = "nodevice" /\ glitch'[t] = (glitch[t] \/ CanOpen(Here(t)))
    BY <1>1, <1>10, <2>b DEF FT_OpenEx, Glitch
  <2>3. /\ Good(t)' => Good(t)
        /\ undisturbed'[t] => Available(t)'
    BY <1>1, <2>1, <2>2, SameSearch
  <2>4. CASE pc'[t] = "baud"
    <3>1. Live(t)'
      BY <1>1, <2>1, <2>2, <2>4 DEF Live, Here
    <3> QED
      BY <2>1, <2>3, <2>4, <3>1 DEF SearchOK
  <2>5. CASE pc'[t] = "nodevice"
    <3>1. Good(t) => CanOpen(Here(t))
      BY <2>1, <2>a, WantedIsThere DEF HasHandle
    <3>2. ~Good(t)'
      BY <2>2, <2>3, <2>5, <3>1 DEF Good
    <3> QED
      BY <2>1, <2>3, <2>5, <3>2 DEF SearchOK
  <2> QED
    BY <2>2, <2>4, <2>5
<1>11. CASE Configure(t) \/ ConfigureFails(t)
  <2>1. /\ pc[t] \in {"baud", "data", "flow"} /\ UNCHANGED <<plugged, cmd, list, pos>>
        /\ Here(t) \in Devices /\ ~cmd[t].lister /\ Wanted(t, Here(t))
    BY <1>1, <1>11 DEF Configure, ConfigureFails, world, search, Pointed, Sought, Named,
       Wanted, HasHandle
  <2>2. \/ /\ pc'[t] \in {"data", "flow", "using"} /\ glitch'[t] = glitch[t]
           /\ UNCHANGED owner /\ Live(t)
        \/ pc'[t] = "nodevice" /\ glitch'[t] = (glitch[t] \/ Live(t))
    BY <1>1, <1>11 DEF Configure, ConfigureFails, world, Glitch
  <2>3. /\ Good(t)' => Good(t)
        /\ undisturbed'[t] => Available(t)'
    BY <1>1, <2>1, <2>2, SameSearch
  <2>4. CASE pc'[t] # "nodevice"
    <3>1. Live(t)'
      BY <2>1, <2>2, <2>4 DEF Live, Here
    <3> QED
      BY <2>1, <2>2, <2>3, <2>4, <3>1 DEF SearchOK
  <2>5. CASE pc'[t] = "nodevice"
    <3>1. Good(t) => Live(t)
      BY <2>1 DEF SearchOK
    <3>2. ~Good(t)'
      BY <2>2, <2>3, <2>5, <3>1 DEF Good
    <3> QED
      BY <2>1, <2>3, <2>5, <3>2 DEF SearchOK
  <2> QED
    BY <2>4, <2>5
<1>12. CASE Use(t) \/ Exit(t) \/ Kill(t) \/ RunAgain(t)
  <2>1. pc'[t] \in {"exited", "failing", "killed", "start"}
    BY <1>1, <1>12 DEF Use, Exit, Kill, Leave, RunAgain
  <2> QED
    BY <2>1 DEF SearchOK
<1> QED
  BY <1>3, <1>4, <1>5, <1>6, <1>7, <1>8, <1>9, <1>10, <1>11, <1>12 DEF Tool, Step

-----------------------------------------------------------------------------
SearchInv == \A t \in Tools : SearchOK(t)

LEMMA SearchStep ==
  ASSUME DevicesInv, SearchInv, [Next]_vars
  PROVE  SearchInv'
<1> SUFFICES ASSUME NEW s \in Tools PROVE SearchOK(s)'
  BY DEF SearchInv
<1>1. TypeOK /\ SearchOK(s)
  BY DEF DevicesInv, SearchInv
<1>2. ASSUME UNCHANGED vars PROVE SearchOK(s)'
  BY <1>1, <1>2 DEF vars, SearchOK, Good, Available, Ahead, Wanted, Matches, Method,
     MethodAsked, Here, Live
<1>3. ASSUME Next
      PROVE  windows' = windows
             /\ undisturbed'[s] = (Available(s)' /\ (pc'[s] = "start" \/ undisturbed[s]))
  BY <1>3 DEF Next, Always, Observe
<1>4. ASSUME Next, Environment PROVE SearchOK(s)'
  <2>1. \A d \in Devices : owner[d] = s /\ d \in plugged' => owner'[d] = s
    BY <1>1, <1>4, DevicesAssumption DEF TypeOK, Environment, OutsiderOpens, OutsiderCloses,
       Plug, Unplug, CanOpen
  <2>2. /\ pc'[s] = pc[s] /\ list'[s] = list[s] /\ pos'[s] = pos[s] /\ cmd'[s] = cmd[s]
        /\ glitch'[s] = glitch[s]
    BY <1>4 DEF Environment, search
  <2> QED
    BY <1>1, <1>3, <1>4, <2>1, <2>2, SearchBystander
<1>5. ASSUME Next, NEW t \in Tools, Tool(t) PROVE SearchOK(s)'
  <2>1. CASE s = t
    BY <1>1, <1>3, <1>5, <2>1, SearchMover
  <2>2. CASE s # t
    BY <1>1, <1>3, <1>5, <2>2, Local, LocalToo, SearchBystander
  <2> QED
    BY <2>1, <2>2
<1> QED
  BY <1>2, <1>4, <1>5 DEF Next

\* OpenDevice does not fail to find a device that is there: whatever the other
\* tools probe meanwhile, it is a driver call that failed, or the device asked
\* for was unplugged or open elsewhere at some time, or there is none.
THEOREM FailureHasAReason == Spec => []FailsForAReason
<1>1. Init => SearchInv
  BY DEF Init, SearchInv, SearchOK
<1>2. DevicesInv /\ SearchInv /\ [Next]_vars => SearchInv'
  BY SearchStep
<1>3. DevicesInv /\ SearchInv => FailsForAReason
  <2> SUFFICES ASSUME DevicesInv, SearchInv, NEW t \in Tools, pc[t] = "nodevice", ~glitch[t],
                      cmd[t].asked # "description", cmd[t].name # "", undisturbed[t]
               PROVE  ~\E d \in Devices : Matches(MethodAsked(cmd[t]), cmd[t].name, d)
    BY DEF FailsForAReason
  <2>1. SearchOK(t) /\ Good(t) /\ MethodAsked(cmd[t]) = Method(cmd[t])
    BY MethodSame DEF SearchInv, Good, DevicesInv
  <2>2. \A d \in Devices : ~Wanted(t, d)
    BY <2>1 DEF SearchOK
  <2> QED
    BY <2>1, <2>2 DEF Wanted
<1> QED
  BY <1>1, <1>2, <1>3, DevicesInvHolds, PTL DEF Spec

-----------------------------------------------------------------------------
(***************************************************************************)
(* What d2xx_list prints.                                                  *)
(***************************************************************************)
\* A row printed for the entry d2xx_list looks at.
LEMMA Printed ==
  ASSUME TypeOK, NEW t \in Tools, RowsOK(t), ~AtEnd(t), pc[t] \in {"probe", "port"},
         NEW port \in STRING \union {NoPort}, port = NoPort \/ port = Port[Here(t)],
         PrintRow(t, port), list'[t] = list[t]
  PROVE  /\ cmd[t].lister => Len(rows'[t]) = pos[t]
         /\ ~cmd[t].lister => rows'[t] = << >>
         /\ \A i \in 1..Len(rows'[t]) :
              /\ i <= Len(list'[t]) /\ rows'[t][i][1] = list'[t][i]
              /\ rows'[t][i][2] = NoPort \/ rows'[t][i][2] = Port[list'[t][i]]
<1> DEFINE X == Entries \X (STRING \union {NoPort})
           e == <<Here(t), port>>
<1>1. /\ rows[t] \in Seq(X) /\ rows \in [Tools -> Seq(X)] /\ Len(rows[t]) \in Nat
      /\ pos[t] \in Nat \ {0} /\ Len(list[t]) \in Nat /\ Here(t) \in Entries
  BY EntryTypes, LenProperties DEF TypeOK
<1>2. CASE ~cmd[t].lister
  BY <1>2 DEF PrintRow, RowsOK
<1>3. CASE cmd[t].lister
  <2>1. Len(rows[t]) = pos[t] - 1 /\ pos[t] <= Len(list[t])
    BY <1>1, <1>3 DEF RowsOK, AtEnd
  <2>2. rows'[t] = Append(rows[t], e) /\ e \in X
    BY <1>1, <1>3 DEF PrintRow
  <2> HIDE DEF e, X
  <2>3. /\ Len(rows'[t]) = pos[t] /\ rows'[t][pos[t]] = e
        /\ \A i \in 1..(pos[t] - 1) : rows'[t][i] = rows[t][i]
    BY <1>1, <2>1, <2>2, AppendProperties
  <2>4. ASSUME NEW i \in 1..pos[t]
        PROVE  /\ i <= Len(list[t]) /\ rows'[t][i][1] = list[t][i]
               /\ rows'[t][i][2] = NoPort \/ rows'[t][i][2] = Port[list[t][i]]
    <3>1. CASE i = pos[t]
      BY <1>1, <2>1, <2>3, <3>1 DEF e, Here
    <3>2. CASE i # pos[t]
      <4>1. i \in 1..(pos[t] - 1)
        BY <1>1, <3>2
      <4> QED
        BY <2>1, <2>3, <4>1 DEF RowsOK
    <3> QED
      BY <3>1, <3>2
  <2> QED
    BY <1>3, <2>3, <2>4
<1> QED
  BY <1>2, <1>3

LEMMA RowsMover ==
  ASSUME DevicesInv, NEW t \in Tools, Tool(t), RowsOK(t)
  PROVE  RowsOK(t)'
<1> USE DEF Goto
<1>1. /\ TypeOK /\ Pointed(t) /\ Searching(t) /\ Sought(t)
      /\ pc \in [Tools -> {"start", "probe", "find", "open", "nodevice"} \union HasHandle \union Ended]
      /\ pos \in [Tools -> Nat \ {0}] /\ list \in [Tools -> Seq(Entries)]
      /\ rows \in [Tools -> Seq(Entries \X (STRING \union {NoPort}))]
  BY DEF DevicesInv, ToolInv, TypeOK
<1>2. /\ Len(list[t]) \in Nat /\ pos[t] \in Nat \ {0} /\ pos[t] <= Len(list[t]) + 1
      /\ Len(<< >>) = 0 /\ 1..0 = {}
  BY <1>1, EntryTypes
<1>3. CASE GetDeviceList(t)
  <2>1. /\ pc[t] = "start" /\ pos[t] = 1 /\ cmd' = cmd /\ rows'[t] = << >> /\ pos' = pos
        /\ pc'[t] \in {"probe", "find", "nodevice"}
        /\ cmd[t].lister => pc'[t] = "probe" \/ (pc'[t] = "nodevice" /\ list'[t] = << >>)
    BY <1>1, <1>3 DEF GetDeviceList, Pointed, RowsOK
  <2> QED
    BY <1>2, <2>1 DEF RowsOK
<1>4. CASE EndOfList(t)
  <2>1. /\ pc[t] = "probe" /\ UNCHANGED <<cmd, list, rows>> /\ pos[t] = Len(list[t]) + 1
        /\ pc'[t] = IF cmd[t].lister THEN "exited" ELSE "nodevice"
    BY <1>1, <1>2, <1>4 DEF EndOfList, search, AtEnd
  <2> QED
    BY <1>2, <2>1 DEF RowsOK, Ended
<1>5. CASE ProbeOpen(t)
  <2>1. pc[t] = "probe" /\ pc'[t] = "port" /\ UNCHANGED <<cmd, list, rows, pos>>
    BY <1>1, <1>5 DEF ProbeOpen, search
  <2> QED
    BY <2>1 DEF RowsOK
<1>6. CASE ProbeOpenFails(t)
  <2>1. /\ pc[t] = "probe" /\ pc'[t] = "probe" /\ ~AtEnd(t) /\ PrintRow(t, NoPort)
        /\ UNCHANGED <<cmd, list>> /\ pos'[t] = pos[t] + 1
    BY <1>1, <1>6 DEF ProbeOpenFails, Advance
  <2>2. NoPort \in STRING \union {NoPort} /\ list'[t] = list[t]
    BY <2>1
  <2>3. /\ cmd[t].lister => Len(rows'[t]) = pos[t]
        /\ ~cmd[t].lister => rows'[t] = << >>
        /\ \A i \in 1..Len(rows'[t]) :
             /\ i <= Len(list'[t]) /\ rows'[t][i][1] = list'[t][i]
             /\ rows'[t][i][2] = NoPort \/ rows'[t][i][2] = Port[list'[t][i]]
    BY <1>1, <2>1, <2>2, Printed
  <2>4. (pos[t] + 1) - 1 = pos[t]
    BY <1>2
  <2> QED
    BY <2>1, <2>3, <2>4 DEF RowsOK
<1>7. CASE FT_GetComPortNumber(t)
  <2>1. PICK ok \in BOOLEAN : PrintRow(t, IF ok THEN Port[Here(t)] ELSE NoPort)
    BY <1>7 DEF FT_GetComPortNumber
  <2>2. /\ pc[t] = "port" /\ pc'[t] \in {"match", "close"} /\ UNCHANGED <<cmd, list, pos>>
        /\ cmd[t].lister => pc'[t] = "close"
        /\ ~AtEnd(t) /\ Here(t) \in Devices
    BY <1>1, <1>7 DEF FT_GetComPortNumber, Pointed, HasHandle
  <2>3. Port[Here(t)] \in STRING
    BY <2>2, DevicesAssumption
  <2>4. /\ cmd[t].lister => Len(rows'[t]) = pos[t]
        /\ ~cmd[t].lister => rows'[t] = << >>
        /\ \A i \in 1..Len(rows'[t]) :
             /\ i <= Len(list'[t]) /\ rows'[t][i][1] = list'[t][i]
             /\ rows'[t][i][2] = NoPort \/ rows'[t][i][2] = Port[list'[t][i]]
    BY <1>1, <2>1, <2>2, <2>3, Printed
  <2> QED
    BY <2>2, <2>4 DEF RowsOK
<1>8. CASE ProbeClose(t)
  <2>1. /\ UNCHANGED <<cmd, list, rows>>
        /\ \/ pc[t] = "close" /\ pc'[t] = "probe" /\ pos'[t] = pos[t] + 1
           \/ pc[t] = "match" /\ pc'[t] = "open"
    BY <1>1, <1>8 DEF ProbeClose, Advance
  <2>2. pc[t] = "match" => ~cmd[t].lister
    BY <1>1 DEF Sought
  <2> QED
    BY <1>2, <2>1, <2>2 DEF RowsOK
<1>9. CASE FindDevice(t) \/ FT_OpenEx(t) \/ Configure(t) \/ ConfigureFails(t) \/ Use(t)
  <2>1. /\ pc[t] \in {"find", "open", "baud", "data", "flow", "using"}
        /\ UNCHANGED <<cmd, list, rows>> /\ pc'[t] # "start"
    BY <1>1, <1>9 DEF FindDevice, FT_OpenEx, Configure, ConfigureFails, Use, search
  <2>2. ~cmd[t].lister
    BY <1>1, <2>1 DEF Searching, Sought
  <2> QED
    BY <2>1, <2>2 DEF RowsOK
<1>10. CASE Exit(t) \/ Kill(t)
  <2>1. /\ UNCHANGED <<cmd, list, rows>>
        /\ \/ pc'[t] = "killed"
           \/ pc[t] \in {"nodevice", "failing"} /\ pc'[t] = "exited"
    BY <1>1, <1>10 DEF Exit, Kill, Leave, search
  <2> QED
    BY <2>1 DEF RowsOK, Ended
<1>11. CASE RunAgain(t)
  <2>1. pc'[t] = "start" /\ rows'[t] = << >> /\ list'[t] = << >>
    BY <1>1, <1>11 DEF RunAgain
  <2> QED
    BY <1>2, <2>1 DEF RowsOK
<1> QED
  BY <1>3, <1>4, <1>5, <1>6, <1>7, <1>8, <1>9, <1>10, <1>11 DEF Tool, Step

RowsInv == \A t \in Tools : RowsOK(t)

\* A row of d2xx_list is that of an entry of its list, in order, with the port
\* of that device or none, and when the tool has run to its end each has one.
THEOREM RowsAreRight == Spec => []RowsRight
<1>1. Init => RowsInv
  <2> SUFFICES ASSUME Init, NEW t \in Tools PROVE RowsOK(t)
    BY DEF RowsInv
  <2>1. pc[t] = "start" /\ rows[t] = << >> /\ list[t] = << >> /\ 1..Len(<< >>) = {}
    BY DEF Init
  <2> QED
    BY <2>1 DEF RowsOK
<1>2. DevicesInv /\ RowsInv /\ [Next]_vars => RowsInv'
  <2> SUFFICES ASSUME DevicesInv, RowsInv, [Next]_vars, NEW s \in Tools
               PROVE  RowsOK(s)'
    BY DEF RowsInv
  <2>1. TypeOK /\ RowsOK(s)
    BY DEF DevicesInv, RowsInv
  <2>2. ASSUME pc'[s] = pc[s], list'[s] = list[s], pos'[s] = pos[s], cmd'[s] = cmd[s],
               rows'[s] = rows[s]
        PROVE  RowsOK(s)'
    BY <2>1, <2>2 DEF RowsOK
  <2>3. CASE Environment \/ UNCHANGED vars
    BY <2>2, <2>3 DEF Environment, search, vars
  <2>4. ASSUME NEW t \in Tools, Tool(t) PROVE RowsOK(s)'
    <3>1. CASE s = t
      BY <2>1, <2>4, <3>1, RowsMover
    <3>2. CASE s # t
      BY <2>1, <2>2, <2>4, <3>2, Local, LocalToo
    <3> QED
      BY <3>1, <3>2
  <2> QED
    BY <2>3, <2>4 DEF Next
<1>3. DevicesInv /\ RowsInv => RowsRight
  <2> SUFFICES ASSUME DevicesInv, RowsInv, NEW t \in Tools PROVE
         /\ \A i \in DOMAIN rows[t] :
              rows[t][i][1] = list[t][i]
                /\ (rows[t][i][2] = NoPort \/ rows[t][i][2] = Port[rows[t][i][1]])
         /\ cmd[t].lister /\ pc[t] = "exited" /\ list[t] # << >> => Len(rows[t]) = Len(list[t])
    BY DEF RowsRight
  <2>1. DOMAIN rows[t] = 1..Len(rows[t])
    BY EntryTypes, LenProperties DEF DevicesInv
  <2> QED
    BY <2>1 DEF RowsInv, RowsOK
<1> QED
  BY <1>1, <1>2, <1>3, DevicesInvHolds, PTL DEF Spec

-----------------------------------------------------------------------------
(***************************************************************************)
(* The tools implement Opening.                                            *)
(***************************************************************************)
\* DeviceSpec's open_by_description is never set: who asks for a device by its
\* description gets one by its serial number, which Opening does not allow.
NoneByDescription == \A w \in BOOLEAN : \A c \in Commands[w] : c.asked # "description"

\* A tool has a device open only while it uses it, or asks it for its port.
LEMMA InNobodysHands ==
  ASSUME DevicesInv, NEW t \in Tools, pc[t] \notin InUse
  PROVE  \A d \in Devices : Holder(d) # t
<1>1. t # Nobody /\ (\A d \in Devices : owner[d] = t => pc[t] \in HasHandle)
  BY DevicesAssumption DEF DevicesInv, ToolInv, HoldsOnly
<1>2. HasHandle \intersect Over = {}
  BY DEF HasHandle, Over, Ended
<1> QED
  BY <1>1, <1>2 DEF Holder

\* The device that is open in a tool's name, and why somebody may have it.
LEMMA Holds ==
  ASSUME DevicesInv, NEW d \in Devices
  PROVE  /\ Holder(d) \in Tools \union {Nobody}
         /\ \A t \in Tools : Holder(d) = t <=> owner[d] = t /\ pc[t] \in InUse
<1>1. Nobody \notin Tools /\ owner[d] \in Tools \union {Nobody, Outsider}
  BY DevicesAssumption DEF DevicesInv, TypeOK
<1>2. \A t \in Tools : owner[d] = t => pc[t] \in HasHandle
  BY DEF DevicesInv, ToolInv, HoldsOnly
<1>3. HasHandle \intersect Over = {}
  BY DEF HasHandle, Over, Ended
<1> QED
  BY <1>1, <1>2, <1>3 DEF Holder

LEMMA HoldsNext ==
  ASSUME DevicesInv', NEW d \in Devices
  PROVE  /\ Holder(d)' \in Tools \union {Nobody}
         /\ \A t \in Tools : Holder(d)' = t <=> owner'[d] = t /\ pc'[t] \in InUse
<1>1. Nobody \notin Tools /\ owner'[d] \in Tools \union {Nobody, Outsider}
  BY DevicesAssumption DEF DevicesInv, TypeOK
<1>2. \A t \in Tools : owner'[d] = t => pc'[t] \in HasHandle
  BY DEF DevicesInv, ToolInv, HoldsOnly, HasHandle
<1>3. HasHandle \intersect Over = {}
  BY DEF HasHandle, Over, Ended
<1> QED
  BY <1>1, <1>2, <1>3 DEF Holder, InUse, Over, HasHandle, Ended

\* A step of a tool is seen only where it changes the phase of that tool.
LEMMA OthersKeep ==
  ASSUME DevicesInv, DevicesInv', NEW t \in Tools, Tool(t), windows' = windows
  PROVE  /\ \A s \in Tools \ {t} : Phase(s)' = Phase(s) /\ Request(s)' = Request(s)
         /\ \A d \in Devices :
              \/ Holder(d)' = Holder(d)
              \/ Holder(d) \in {t, Nobody} /\ Holder(d)' \in {t, Nobody}
<1>1. TypeOK
  BY DEF DevicesInv
<1>2. ASSUME NEW s \in Tools, s # t
      PROVE  /\ pc'[s] = pc[s] /\ cmd'[s] = cmd[s]
             /\ \A d \in Devices : owner'[d] = s <=> owner[d] = s
  BY <1>1, <1>2, Local, LocalToo
<1>3. ASSUME NEW s \in Tools, s # t PROVE Phase(s)' = Phase(s) /\ Request(s)' = Request(s)
  BY <1>2, <1>3 DEF Phase, Request, MethodAsked
<1>4. ASSUME NEW d \in Devices
      PROVE  \/ Holder(d)' = Holder(d)
             \/ Holder(d) \in {t, Nobody} /\ Holder(d)' \in {t, Nobody}
  <2>1. /\ Holder(d) \in Tools \union {Nobody} /\ Holder(d)' \in Tools \union {Nobody}
        /\ \A s \in Tools : Holder(d) = s <=> owner[d] = s /\ pc[s] \in InUse
        /\ \A s \in Tools : Holder(d)' = s <=> owner'[d] = s /\ pc'[s] \in InUse
    BY Holds, HoldsNext
  <2>2. \A s \in Tools : s # t => (Holder(d)' = s <=> Holder(d) = s)
    BY <1>2, <2>1
  <2> QED
    BY <2>1, <2>2
<1> QED
  BY <1>3, <1>4

\* Between a search and its next phase a tool has nothing that Opening sees.
LEMMA NothingSeen ==
  ASSUME DevicesInv, DevicesInv', NEW t \in Tools, Tool(t), windows' = windows,
         pc[t] \notin InUse, pc'[t] \notin InUse
  PROVE  \A d \in Devices : Holder(d)' = Holder(d)
<1> SUFFICES ASSUME NEW d \in Devices PROVE Holder(d)' = Holder(d)
  OBVIOUS
<1>1. Holder(d) # t /\ Holder(d)' # t
  BY Holds, HoldsNext, DevicesAssumption
<1> QED
  BY <1>1, OthersKeep

\* What a step of a tool is to Opening.
LEMMA Kinds ==
  ASSUME DevicesInv, NEW t \in Tools, Tool(t)
  PROVE  \/ cmd' = cmd /\ pc[t] \notin InUse \union Over /\ pc'[t] \notin InUse
         \/ cmd' = cmd /\ pc[t] \in Over /\ pc'[t] \in Over
         \/ pc[t] \in Over /\ pc'[t] \notin InUse \union Over
         \/ cmd' = cmd /\ pc[t] \in InUse /\ pc'[t] \in InUse /\ UNCHANGED owner
         \/ cmd' = cmd /\ pc[t] \in InUse /\ pc'[t] \in Over
         \/ /\ cmd' = cmd /\ pc[t] = "open" /\ pc'[t] = "baud" /\ CanOpen(Here(t))
            /\ owner' = [owner EXCEPT ![Here(t)] = t]
<1> USE DEF Goto, InUse, Over, Ended
<1>1. /\ pc \in [Tools -> {"start", "probe", "find", "open", "nodevice"} \union HasHandle \union Ended]
      /\ HasHandle = {"port", "close", "match", "baud", "data", "flow", "using", "failing"}
  BY DEF DevicesInv, TypeOK, HasHandle
<1>2. CASE GetDeviceList(t)
  BY <1>1, <1>2 DEF GetDeviceList
<1>3. CASE EndOfList(t) \/ ProbeOpen(t) \/ ProbeOpenFails(t)
  BY <1>1, <1>3 DEF EndOfList, ProbeOpen, ProbeOpenFails
<1>4. CASE FT_GetComPortNumber(t)
  BY <1>1, <1>4 DEF FT_GetComPortNumber
<1>5. CASE ProbeClose(t) \/ FindDevice(t)
  BY <1>1, <1>5 DEF ProbeClose, FindDevice
<1>6. CASE FT_OpenEx(t)
  BY <1>1, <1>6 DEF FT_OpenEx
<1>7. CASE Configure(t) \/ ConfigureFails(t)
  BY <1>1, <1>7 DEF Configure, ConfigureFails, world
<1>8. CASE Use(t)
  BY <1>1, <1>8 DEF Use
<1>9. CASE Exit(t) \/ Kill(t)
  BY <1>1, <1>9 DEF Exit, Kill, Leave
<1>10. CASE RunAgain(t)
  BY <1>1, <1>10 DEF RunAgain
<1> QED
  BY <1>2, <1>3, <1>4, <1>5, <1>6, <1>7, <1>8, <1>9, <1>10 DEF Tool, Step

\* Every step of a tool, and every one of its environment, is one of Opening's
\* or none.
LEMMA ToolsOpen ==
  ASSUME NoneByDescription, DevicesInv, DevicesInv', NEW t \in Tools, Tool(t),
         windows' = windows
  PROVE  [Promise!Next]_(Promise!vars)
<1>1. /\ \A s \in Tools \ {t} : Phase(s)' = Phase(s) /\ Request(s)' = Request(s)
      /\ \A d \in Devices : \/ Holder(d)' = Holder(d)
                            \/ Holder(d) \in {t, Nobody} /\ Holder(d)' \in {t, Nobody}
  BY OthersKeep
<1>2. /\ Phase(t) = IF pc[t] \in InUse THEN "open" ELSE IF pc[t] \in Over THEN "over" ELSE "searching"
      /\ Phase(t)' = IF pc'[t] \in InUse THEN "open" ELSE IF pc'[t] \in Over THEN "over" ELSE "searching"
  BY DEF Phase, InUse, Over, Ended
<1>3. InUse \intersect Over = {} /\ "open" \notin InUse \union Over /\ "baud" \in InUse
  BY DEF InUse, Over, Ended
<1>4. cmd' = cmd => Request(t)' = Request(t)
  BY DEF Request, MethodAsked
<1>5. CASE pc[t] \notin InUse /\ pc'[t] \notin InUse
  <2>1. \A d \in Devices : Holder(d)' = Holder(d)
    BY <1>5, NothingSeen
  <2>2. \A d \in Devices : Holder(d) # t
    BY <1>5, InNobodysHands
  <2>3. CASE cmd' = cmd /\ Phase(t)' = Phase(t)
    BY <1>1, <1>4, <2>1, <2>3 DEF Promise!vars
  <2>4. CASE cmd' = cmd /\ Phase(t) = "searching" /\ Phase(t)' = "over"
    <3>1. Promise!GiveUp(t)
      BY <1>1, <1>4, <2>1, <2>4 DEF Promise!GiveUp, Promise!Goto
    <3> QED
      BY <3>1 DEF Promise!Next
  <2>5. CASE Phase(t) = "over" /\ Phase(t)' = "searching"
    <3>1. Promise!Again(t)
      BY <1>1, <2>1, <2>2, <2>5 DEF Promise!Again, Promise!Goto, Promise!HasNone
    <3> QED
      BY <3>1 DEF Promise!Next
  <2> QED
    BY <1>2, <1>3, <1>5, <2>3, <2>4, <2>5, Kinds
<1>6. CASE cmd' = cmd /\ pc[t] \in InUse /\ pc'[t] \in InUse /\ UNCHANGED owner
  <2>1. \A d \in Devices : Holder(d)' = Holder(d)
    BY <1>1, <1>6, Holds, HoldsNext
  <2> QED
    BY <1>1, <1>2, <1>4, <1>6, <2>1 DEF Promise!vars
<1>7. CASE cmd' = cmd /\ pc[t] \in InUse /\ pc'[t] \in Over
  <2>1. \A d \in Devices : Holder(d)' # t
    BY <1>3, <1>7, HoldsNext
  <2>2. \A d \in Devices : Holder(d)' = IF Holder(d) = t THEN Nobody ELSE Holder(d)
    BY <1>1, <2>1
  <2>3. Promise!Give(t)
    BY <1>1, <1>2, <1>3, <1>4, <1>7, <2>2 DEF Promise!Give, Promise!Goto
  <2> QED
    BY <2>3 DEF Promise!Next
<1>8. CASE /\ cmd' = cmd /\ pc[t] = "open" /\ pc'[t] = "baud" /\ CanOpen(Here(t))
           /\ owner' = [owner EXCEPT ![Here(t)] = t]
  <2>a. MethodAsked(cmd[t]) = Method(cmd[t])
    <3>1. TypeOK /\ cmd[t] \in Commands[windows] /\ windows \in BOOLEAN
      BY DEF DevicesInv, TypeOK
    <3> QED
      BY <3>1, MethodSame DEF NoneByDescription
  <2>b. Here(t) \in Devices /\ Here(t) # Blank
    BY <1>8, DevicesAssumption DEF CanOpen, DevicesInv, TypeOK
  <2>1. /\ Here(t) \in Devices /\ ~cmd[t].lister
        /\ Matches(MethodAsked(cmd[t]), cmd[t].name, Here(t))
    BY <1>8, <2>a, <2>b DEF DevicesInv, ToolInv, Sought, Named
  <2>2. PICK e \in Devices : e = Here(t)
    BY <2>1
  <2>3. Asked(Request(t), e)
    BY <2>1, <2>2 DEF Asked, Request
  <2>4. \A d \in Devices : owner[d] # t /\ Holder(d) # t
    BY <1>3, <1>8, InNobodysHands DEF DevicesInv, ToolInv, HoldsOnly, HasHandle
  <2>5. owner[e] = Nobody /\ owner \in [Devices -> Tools \union {Nobody, Outsider}]
    BY <1>8, <2>2 DEF CanOpen, DevicesInv, TypeOK
  <2>6. owner' = [owner EXCEPT ![e] = t]
    BY <1>8, <2>2
  <2>7. Holder(e) = Nobody
    BY <2>5, DevicesAssumption DEF Holder
  <2>8. Holder(e)' = t
    BY <1>3, <1>8, <2>2, <2>5, <2>6, HoldsNext
  <2>9. \A d \in Devices \ {e} : Holder(d)' = Holder(d)
    BY <1>1, <2>4, <2>5, <2>6, HoldsNext
  <2>10. Promise!Get(t)
    BY <1>1, <1>2, <1>3, <1>4, <1>8, <2>2, <2>3, <2>4, <2>7, <2>8, <2>9
    DEF Promise!Get, Promise!Goto, Promise!HasNone
  <2> QED
    BY <2>10 DEF Promise!Next
<1> QED
  BY <1>3, <1>5, <1>6, <1>7, <1>8, Kinds

LEMMA OthersOpen ==
  ASSUME DevicesInv, DevicesInv', Environment, windows' = windows
  PROVE  [Promise!Next]_(Promise!vars)
<1>1. pc' = pc /\ cmd' = cmd
  BY DEF Environment
<1>2. \A s \in Tools : Phase(s)' = Phase(s) /\ Request(s)' = Request(s)
  BY <1>1 DEF Phase, Request, MethodAsked, InUse, Over, Ended
<1>3. PICK d \in Devices : OutsiderOpens(d) \/ OutsiderCloses(d) \/ Plug(d) \/ Unplug(d)
  BY DEF Environment
<1>4. owner \in [Devices -> Tools \union {Nobody, Outsider}]
  BY DEF DevicesInv, TypeOK
<1>5. ASSUME NEW e \in Devices, owner'[e] = owner[e] PROVE Holder(e)' = Holder(e)
  BY <1>1, <1>5 DEF Holder, InUse, Over, Ended
<1>6. ASSUME NEW e \in Devices, owner[e] \notin Tools, owner'[e] \notin Tools
      PROVE  Holder(e)' = Holder(e)
  BY <1>6 DEF Holder
<1>7. \A e \in Devices : e # d => owner'[e] = owner[e]
  BY <1>3, <1>4 DEF OutsiderOpens, OutsiderCloses, Plug, Unplug
<1>8. CASE Holder(d)' = Holder(d)
  BY <1>2, <1>5, <1>7, <1>8 DEF Promise!vars
<1>9. CASE Holder(d)' # Holder(d)
  <2>1. owner'[d] = Nobody /\ owner[d] \in Tools
    BY <1>3, <1>4, <1>5, <1>6, <1>9, DevicesAssumption
    DEF OutsiderOpens, OutsiderCloses, Plug, Unplug, CanOpen
  <2>2. Holder(d)' = Nobody
    BY <2>1, DevicesAssumption DEF Holder
  <2>3. Holder(d) # Nobody /\ \A e \in Devices : e # d => Holder(e)' = Holder(e)
    BY <1>5, <1>7, <1>9, <2>2
  <2>4. Promise!Unplug(d)
    BY <1>2, <2>2, <2>3 DEF Promise!Unplug
  <2> QED
    BY <2>4 DEF Promise!Next
<1> QED
  BY <1>8, <1>9

\* A tool gets a device it was asked for, and that no other tool has, in one
\* step or not at all, and keeps it to its end or until it is unplugged,
\* although it gets there by a list that is out of date, by opening devices
\* for a moment and by settings that may fail.  "Asked for" is as the help text
\* has it, which is why nobody may ask by --description.
THEOREM DevicesImplementOpening ==
  ASSUME NoneByDescription
  PROVE  Spec => ImplementsOpening
<1>1. Init /\ DevicesInv => Promise!Init
  <2> SUFFICES ASSUME Init, DevicesInv PROVE Promise!Init
    OBVIOUS
  <2>1. \A t \in Tools : Phase(t) = "searching"
    BY DEF Init, Phase, InUse, Over, Ended
  <2>2. \A d \in Devices : owner[d] = Nobody
    BY DEF Init
  <2>3. \A d \in Devices : Holder(d) = Nobody
    BY <2>2, DevicesAssumption DEF Holder
  <2> QED
    BY <2>1, <2>3 DEF Promise!Init
<1>2. DevicesInv /\ DevicesInv' /\ [Next]_vars => [Promise!Next]_(Promise!vars)
  <2> SUFFICES ASSUME DevicesInv, DevicesInv', [Next]_vars
               PROVE  [Promise!Next]_(Promise!vars)
    OBVIOUS
  <2>1. CASE UNCHANGED vars
    <3>1. \A t \in Tools : Phase(t)' = Phase(t) /\ Request(t)' = Request(t)
      BY <2>1 DEF vars, Phase, Request, MethodAsked, InUse, Over, Ended
    <3>2. \A d \in Devices : Holder(d)' = Holder(d)
      BY <2>1 DEF vars, Holder, InUse, Over, Ended
    <3> QED
      BY <3>1, <3>2 DEF Promise!vars
  <2>2. CASE Next
    BY <2>2, ToolsOpen, OthersOpen DEF Next, Always
  <2> QED
    BY <2>1, <2>2
<1> QED
  BY <1>1, <1>2, DevicesInvHolds, PTL DEF Spec, ImplementsOpening, Promise!Spec

-----------------------------------------------------------------------------
(***************************************************************************)
(* How long a search runs.                                                 *)
(***************************************************************************)
LEMMA WorkTypes ==
  ASSUME TypeOK, NEW t \in Tools
  PROVE  Len(list[t]) \in Nat /\ pos[t] \in Nat /\ CallsLeft(t) \in 0..10 /\ Work(t) \in Nat
<1>1. Len(list[t]) \in Nat /\ pos[t] \in Nat /\ pos[t] <= Len(list[t]) + 1
  BY EntryTypes
<1>2. CallsLeft(t) \in 0..10
  BY DEF CallsLeft
<1>3. PICK n \in Nat, p \in Nat, c \in Nat :
        n = Len(list[t]) /\ p = pos[t] /\ c = CallsLeft(t) /\ p <= n + 1
  BY <1>1, <1>2
<1>4. 3 * (n + 1 - p) + c \in Nat
  BY <1>3
<1> QED
  BY <1>1, <1>2, <1>3, <1>4 DEF Work

\* How much is left after a call, from the entry and the call it leads to.
LEMMA LessLeft ==
  ASSUME TypeOK, NEW t \in Tools, list'[t] = list[t], pos'[t] \in Nat,
         CallsLeft(t)' \in Nat,
         \/ pos'[t] >= pos[t] /\ CallsLeft(t)' < CallsLeft(t)
         \/ pos'[t] = pos[t] + 1 /\ CallsLeft(t)' <= CallsLeft(t) + 2
  PROVE  Work(t)' < Work(t)
<1>1. Len(list[t]) \in Nat /\ pos[t] \in Nat /\ CallsLeft(t) \in Nat
  BY WorkTypes
<1>2. PICK n \in Nat, p \in Nat, c \in Nat, q \in Nat, d \in Nat :
        /\ n = Len(list[t]) /\ p = pos[t] /\ c = CallsLeft(t)
        /\ q = pos'[t] /\ d = CallsLeft(t)'
        /\ (q >= p /\ d < c) \/ (q = p + 1 /\ d <= c + 2)
  BY <1>1
<1>3. 3 * (n + 1 - q) + d < 3 * (n + 1 - p) + c
  <2>1. CASE q >= p /\ d < c
    BY <2>1
  <2>2. CASE q = p + 1 /\ d <= c + 2
    BY <2>2
  <2> QED
    BY <1>2, <2>1, <2>2
<1>4. Work(t)' = 3 * (n + 1 - q) + d
  BY <1>2 DEF Work
<1>5. Work(t) = 3 * (n + 1 - p) + c
  BY <1>2 DEF Work
<1> QED
  BY <1>3, <1>4, <1>5

LEMMA WorkFalls ==
  ASSUME DevicesInv, NEW t \in Tools, Tool(t), pc[t] \notin {"start"} \union Ended,
         <<pc[t], pos[t]>>' # <<pc[t], pos[t]>>
  PROVE  list'[t] = list[t] /\ Work(t)' < Work(t)
<1> USE DEF Goto, world, search
<1>1. /\ TypeOK /\ Pointed(t)
      /\ pc \in [Tools -> {"start", "probe", "find", "open", "nodevice"} \union HasHandle \union Ended]
      /\ HasHandle = {"port", "close", "match", "baud", "data", "flow", "using", "failing"}
      /\ Ended = {"exited", "killed"}
      /\ pos \in [Tools -> Nat \ {0}] /\ pos[t] \in Nat \ {0}
  BY DEF DevicesInv, ToolInv, TypeOK, HasHandle, Ended
<1>2. ~GetDeviceList(t) /\ ~RunAgain(t)
  BY DEF GetDeviceList, RunAgain
<1>3. CASE EndOfList(t) \/ ProbeOpen(t) \/ FT_GetComPortNumber(t) \/ FT_OpenEx(t)
           \/ Configure(t) \/ ConfigureFails(t) \/ Use(t) \/ Exit(t) \/ Kill(t)
  <2>1. list' = list /\ pos' = pos
    BY <1>3 DEF EndOfList, ProbeOpen, FT_GetComPortNumber, FT_OpenEx, Configure,
       ConfigureFails, Use, Exit, Kill, Leave
  <2>2. CallsLeft(t)' \in Nat /\ CallsLeft(t)' < CallsLeft(t)
    <3>1. CASE EndOfList(t) \/ ProbeOpen(t)
      <4>1. pc[t] = "probe" /\ pc'[t] \in {"exited", "nodevice", "port"}
        BY <1>1, <3>1 DEF EndOfList, ProbeOpen
      <4> QED
        BY <4>1 DEF CallsLeft
    <3>2. CASE FT_GetComPortNumber(t)
      <4>1. pc[t] = "port" /\ pc'[t] \in {"match", "close"}
        BY <1>1, <3>2 DEF FT_GetComPortNumber
      <4> QED
        BY <4>1 DEF CallsLeft
    <3>3. CASE FT_OpenEx(t)
      <4>1. pc[t] = "open" /\ pc'[t] \in {"baud", "nodevice"}
        BY <1>1, <3>3 DEF FT_OpenEx
      <4> QED
        BY <4>1 DEF CallsLeft
    <3>4. CASE Configure(t)
      BY <1>1, <3>4 DEF Configure, CallsLeft
    <3>5. CASE ConfigureFails(t)
      BY <1>1, <3>5 DEF ConfigureFails, CallsLeft
    <3>6. CASE Use(t)
      BY <1>1, <3>6 DEF Use, CallsLeft
    <3>7. CASE Exit(t) \/ Kill(t)
      <4>1. pc[t] \notin {"start", "exited", "killed"} /\ pc'[t] \in {"exited", "killed"}
        BY <1>1, <3>7 DEF Exit, Kill, Leave
      <4> QED
        BY <1>1, <4>1 DEF CallsLeft
    <3> QED
      BY <1>3, <3>1, <3>2, <3>3, <3>4, <3>5, <3>6, <3>7
  <2> QED
    BY <1>1, <2>1, <2>2, LessLeft
<1>4. CASE ProbeOpenFails(t) \/ ProbeClose(t)
  <2>1. /\ list' = list
        /\ \/ pos'[t] = pos[t] + 1 /\ pc'[t] = "probe" /\ pc[t] \in {"probe", "close"}
           \/ pos'[t] = pos[t] /\ pc[t] = "match" /\ pc'[t] = "open"
    BY <1>1, <1>4 DEF ProbeOpenFails, ProbeClose, Advance
  <2>2. /\ CallsLeft(t)' \in Nat
        /\ \/ pos'[t] = pos[t] /\ CallsLeft(t)' < CallsLeft(t)
           \/ pos'[t] = pos[t] + 1 /\ CallsLeft(t)' <= CallsLeft(t) + 2
    BY <2>1 DEF CallsLeft
  <2> QED
    BY <1>1, <2>1, <2>2, LessLeft
<1>5. CASE FindDevice(t)
  <2>1. /\ list' = list /\ pc[t] = "find" /\ pc'[t] \in {"open", "nodevice"}
        /\ pos'[t] \in Nat /\ pos'[t] >= 1
    <3>1. \A i \in Found(t) : i \in Nat /\ i >= 1
      BY <1>1, EntryTypes, LenProperties DEF Found
    <3> QED
      BY <1>1, <1>5, <3>1 DEF FindDevice
  <2>2. pos[t] = 1 /\ CallsLeft(t)' \in Nat /\ CallsLeft(t)' < CallsLeft(t)
    BY <1>1, <2>1 DEF CallsLeft, Pointed
  <2> QED
    BY <1>1, <2>1, <2>2, LessLeft
<1> QED
  BY <1>2, <1>3, <1>4, <1>5 DEF Tool, Step

\* Each call a tool makes after it got its list brings its end nearer, by the
\* work left in the list it has, whatever becomes of the devices meanwhile.
THEOREM SearchNeverTurnsBack == Spec => SearchMovesOn
<1>1. DevicesInv /\ [Next]_vars =>
        [\A t \in Tools :
           pc[t] \notin {"start"} \union Ended /\ <<pc[t], pos[t]>>' # <<pc[t], pos[t]>> =>
             list'[t] = list[t] /\ Work(t)' < Work(t)]_vars
  <2> SUFFICES ASSUME DevicesInv, [Next]_vars, NEW t \in Tools,
                      pc[t] \notin {"start"} \union Ended,
                      <<pc[t], pos[t]>>' # <<pc[t], pos[t]>>
               PROVE  list'[t] = list[t] /\ Work(t)' < Work(t)
    OBVIOUS
  <2>1. ~Environment /\ ~UNCHANGED vars
    BY DEF Environment, search, vars
  <2>2. ASSUME NEW s \in Tools, Tool(s), s # t PROVE FALSE
    BY <2>2, Local DEF DevicesInv
  <2> QED
    BY <2>1, <2>2, WorkFalls DEF Next
<1> QED
  BY <1>1, DevicesInvHolds, PTL DEF Spec, SearchMovesOn
=============================================================================
