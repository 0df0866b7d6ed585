------------------------------- MODULE MCRecv -------------------------------
(***************************************************************************)
(* Recv on small buffers.  Sizes below, equal to and above NumToRead, and  *)
(* not multiples of it, so that reads are clipped, are cut short by the    *)
(* timeout and end exactly at the end of the buffer.                       *)
(***************************************************************************)
EXTENDS Recv

Sized == {[mode |-> m, size |-> n, boundaries |-> b, windows |-> w] :
            m \in {"buffer", "circular"}, n \in {1, 3},
            b \in BOOLEAN, w \in BOOLEAN}
Stream == [mode : {"stream"}, size : {0}, boundaries : BOOLEAN, windows : BOOLEAN]

MCOptions == Sized \union Stream
LiveOptions == {o \in MCOptions : ~o.boundaries}
KeepingOptions == {o \in Stream : o.boundaries}

\* For liveness: sizes two bytes can fill, and records on one system.
LiveAndKeeping ==
  {[o EXCEPT !.size = IF @ = 3 THEN 2 ELSE @] : o \in LiveOptions}
    \union {o \in KeepingOptions : ~o.windows}
=============================================================================
