------------------------------ MODULE Transfer ------------------------------
(***************************************************************************)
(* What d2xx_send, d2xx_recv and the line between them promise of the file *)
(* received, to somebody who sees neither the tools nor the line.          *)
(***************************************************************************)
EXTENDS ByteStreams

VARIABLES
  total,       \* how many bytes the files sent hold together
  mode, size,  \* of d2xx_recv, as in Capture
  lossless,    \* both ends use the same flow control
  patient,     \* the user has waited for the count of the files
  sent,        \* how many bytes d2xx_send has passed on
  received,    \* the file received, in the numbers of the bytes sent
  outcome      \* "capturing", then "saved" or "failed"

config == <<total, mode, size, lossless>>
vars   == <<config, patient, sent, received, outcome>>

\* What may have been received: bytes sent, in their order and none twice,
\* and without a gap if the line loses nothing.
MayBeReceived(r) ==
  /\ \A i, j \in 1..Len(r) : r[i] \in 1..sent /\ (i < j => r[i] < r[j])
  /\ lossless => \E a \in 0..sent : /\ r = Bytes(a, a + Len(r))
                                    /\ mode # "circular" => a = 0

Init ==
  /\ sent = 0 /\ received = << >>
  /\ patient = TRUE /\ outcome = "capturing"

Send == /\ sent' \in Nat /\ sent <= sent' /\ sent' <= total
        /\ UNCHANGED <<config, patient, received, outcome>>

Hurry == /\ patient' = FALSE
         /\ UNCHANGED <<config, sent, received, outcome>>

Grow == /\ IsPrefix(received, received') /\ MayBeReceived(received')
        /\ UNCHANGED <<config, patient, sent>>

Receive == /\ outcome = "capturing"
           /\ Grow /\ UNCHANGED outcome

Save == /\ outcome = "capturing"
        /\ lossless /\ patient /\ (mode = "stream" \/ total <= size)
             => received = Bytes(0, total)
        /\ outcome' = "saved"
        /\ UNCHANGED <<config, patient, sent, received>>

Fail == /\ outcome = "capturing"
        /\ Grow /\ outcome' = "failed"

Next == Send \/ Hurry \/ Receive \/ Save \/ Fail

Spec == Init /\ [][Next]_vars
=============================================================================
