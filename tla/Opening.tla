------------------------------ MODULE Opening ------------------------------
(***************************************************************************)
(* What the tools' search for a device comes to, to somebody who does not  *)
(* see the list, the probing of devices for their ports and the settings:  *)
(* a tool gets a device it was asked for, that no other tool has, in one   *)
(* step, or none, and keeps it to its end or until it is unplugged.        *)
(***************************************************************************)
CONSTANTS
  Devices, Tools, Nobody,
  Suits(_, _)   \* whether a device is what was asked for

VARIABLES
  asked,   \* what each tool was asked for
  phase,   \* of each tool: "searching", "open" or "over"
  holder   \* the tool that has each device

vars == <<asked, phase, holder>>

Init ==
  /\ phase = [t \in Tools |-> "searching"]
  /\ holder = [d \in Devices |-> Nobody]

HasNone(t) == \A d \in Devices : holder[d] # t

Goto(t, from, to) ==
  phase[t] = from /\ \A u \in Tools : phase'[u] = IF u = t THEN to ELSE phase[u]

Get(t) ==
  /\ Goto(t, "searching", "open")
  /\ HasNone(t)
  /\ \E d \in Devices : /\ Suits(asked[t], d) /\ holder[d] = Nobody
                        /\ holder' = [holder EXCEPT ![d] = t]
  /\ UNCHANGED asked

GiveUp(t) ==
  /\ Goto(t, "searching", "over")
  /\ UNCHANGED <<asked, holder>>

Give(t) ==
  /\ Goto(t, "open", "over")
  /\ holder' = [d \in Devices |-> IF holder[d] = t THEN Nobody ELSE holder[d]]
  /\ UNCHANGED asked

\* A tool whose device is unplugged notices by the calls that fail.
Unplug(d) ==
  /\ holder[d] # Nobody
  /\ holder' = [holder EXCEPT ![d] = Nobody]
  /\ UNCHANGED <<asked, phase>>

Again(t) ==
  /\ Goto(t, "over", "searching")
  /\ HasNone(t)
  /\ \A u \in Tools \ {t} : asked'[u] = asked[u]
  /\ UNCHANGED holder

Next == \/ \E t \in Tools : Get(t) \/ GiveUp(t) \/ Give(t) \/ Again(t)
        \/ \E d \in Devices : Unplug(d)

Spec == Init /\ [][Next]_vars
=============================================================================
