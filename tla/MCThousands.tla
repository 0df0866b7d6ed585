---------------------------- MODULE MCThousands ----------------------------
(***************************************************************************)
(* Thousands for numbers of up to seven digits, in a buffer that is just   *)
(* large enough for them, as the code's is for 2^64 - 1.                   *)
(***************************************************************************)
EXTENDS Thousands

MCPower == [k \in 0..7 |-> 10^k]

\* All numbers of up to three digits, and those around the larger powers of
\* ten, of two and of a thousand.
MCNumbers ==
  (0..1001) \union {9999, 10000, 10001, 65535, 65536, 99999, 100000,
  999999, 1000000, 1000001, 1048576, 1234567, 9000009, 9999999}
=============================================================================
