------------------------------- MODULE MCLink -------------------------------
(***************************************************************************)
(* A file of one byte, which is an XOFF character, an empty one and one of *)
(* two, over queues of one byte.  The command lines agree on flow control, *)
(* do not, or ask for what DoCommandLine has to refuse; --buffer just      *)
(* holds the files, --circular does not.                                   *)
(***************************************************************************)
EXTENDS Link

ToSend(flow) == [help |-> FALSE, parses |-> TRUE, others |-> 4, flow |-> flow]
ToRecv(flow, mode, n) ==
  [help |-> FALSE, parses |-> TRUE, others |-> 2, flow |-> flow,
   buffer |-> mode = "buffer", circular |-> mode = "circular",
   size |-> n, boundaries |-> FALSE]

MCSendCommands ==
  {ToSend(f) : f \in {DefaultFlow, "none", "xon_xoff"}}
    \union {[ToSend(DefaultFlow) EXCEPT !.help = TRUE]}

MCRecvCommands ==
  {ToRecv(f, "stream", 0) : f \in {DefaultFlow, "xon_xoff"}}
    \union {ToRecv(DefaultFlow, "buffer", 3), ToRecv(DefaultFlow, "circular", 2),
            ToRecv(DefaultFlow, "circular", 0)}

MCInputs == {<<1, 1, 3>>}
=============================================================================
