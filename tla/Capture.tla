------------------------------ MODULE Capture ------------------------------
(***************************************************************************)
(* What d2xx_recv promises about the file it writes, without saying how.   *)
(***************************************************************************)
EXTENDS ByteStreams

VARIABLES
  mode,     \* "stream", "buffer" (--buffer) or "circular" (--circular)
  size,     \* N of --buffer N and --circular N
  got,      \* how many bytes have been taken from the device
  saved,    \* the output file, as a sequence of byte numbers
  outcome   \* "capturing", then "saved" or "failed"

vars == <<mode, size, got, saved, outcome>>

\* What the file is to hold once g bytes have been received: all of them,
\* or with --circular N the last N.
Window(m, n, g) == Bytes(IF m = "circular" /\ g > n THEN g - n ELSE 0, g)

\* The file may at any time hold a part of the window, from its start.
Extend ==
  /\ IsPrefix(saved, saved')
  /\ IsPrefix(saved', Window(mode, size, got'))

Init ==
  /\ got = 0
  /\ saved = << >>
  /\ outcome = "capturing"

Take ==
  /\ got' \in Nat /\ got' >= got
  /\ mode = "buffer" => got' <= size
  /\ UNCHANGED <<mode, size>>

Receive == /\ outcome = "capturing"
           /\ Take /\ Extend
           /\ UNCHANGED outcome

Finish == /\ outcome = "capturing"
          /\ saved = Window(mode, size, got)
          /\ outcome' = "saved"
          /\ UNCHANGED <<mode, size, got, saved>>

Fail == /\ outcome = "capturing"
        /\ Take /\ Extend
        /\ outcome' = "failed"

Next == Receive \/ Finish \/ Fail

Spec == Init /\ [][Next]_vars
=============================================================================
