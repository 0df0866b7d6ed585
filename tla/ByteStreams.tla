---------------------------- MODULE ByteStreams ----------------------------
(***************************************************************************)
(* Byte number i of a stream is written i, so that a sequence of bytes     *)
(* says by itself which bytes of the stream it holds, how often and in     *)
(* what order.                                                             *)
(***************************************************************************)
EXTENDS Integers, SequencesExt

\* The bytes of the stream after the first a, up to and including byte b.
Bytes(a, b) == [i \in 1..(b - a) |-> a + i]
=============================================================================
