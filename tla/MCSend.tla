------------------------------- MODULE MCSend -------------------------------
(***************************************************************************)
(* Send with chunks of 3 bytes and a driver that holds 2: files that are   *)
(* empty, shorter than a chunk, end with a chunk and span two, alone and   *)
(* in a row, and one file more than may be open at a time.                 *)
(***************************************************************************)
EXTENDS Send

\* One file of up to seven bytes, two or three of up to four, and four files.
MCInputs ==
  {<<a>> : a \in 0..7} \union {<<a, a + b>> : a \in 0..4, b \in 0..4}
  \union {<<a, a + b, a + b + c>> : a \in 0..4, b \in 0..4, c \in 0..4}
  \union {<<1, 2, 3, 4>>}
=============================================================================
