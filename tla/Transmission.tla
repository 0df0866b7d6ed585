---------------------------- MODULE Transmission ----------------------------
(***************************************************************************)
(* What d2xx_send promises: the files' bytes go to the device as a single  *)
(* stream, one file after the other, and a run that succeeds has sent all. *)
(***************************************************************************)
EXTENDS ByteStreams

VARIABLES
  total,    \* how many bytes the files hold together
  sent,     \* what the device has been given
  outcome   \* "sending", then "sent" or "failed"

vars == <<total, sent, outcome>>

Init == sent = << >> /\ outcome = "sending"

Send == /\ outcome = "sending"
        /\ IsPrefix(sent, sent') /\ IsPrefix(sent', Bytes(0, total))
        /\ UNCHANGED <<total, outcome>>

Finish == /\ outcome = "sending" /\ sent = Bytes(0, total)
          /\ outcome' = "sent"
          /\ UNCHANGED <<total, sent>>

Fail == /\ outcome = "sending"
        /\ outcome' = "failed"
        /\ UNCHANGED <<total, sent>>

Next == Send \/ Finish \/ Fail

Spec == Init /\ [][Next]_vars
=============================================================================
