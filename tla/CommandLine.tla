----------------------------- MODULE CommandLine -----------------------------
(***************************************************************************)
(* What DoCommandLine of d2xx_send.cpp and d2xx_recv.cpp lets through, and *)
(* what main2 makes of it.  A command line is what CommandLineParser found *)
(* in it: --help, whether the rest could be parsed, how many arguments are *)
(* not options, and the options' values; size is the last value given for  *)
(* --buffer or --circular, which share a variable.                         *)
(***************************************************************************)
EXTENDS Naturals

\* FT_FLOW: what --flow takes.
Flows == {"none", "rts_cts", "dtr_dsr", "xon_xoff"}

\* DeviceOptions: what the user gets who asks for nothing.
DefaultFlow == "rts_cts"

SendLines == [help : BOOLEAN, parses : BOOLEAN, others : Nat, flow : Flows]

RecvLines == [help : BOOLEAN, parses : BOOLEAN, others : Nat, flow : Flows,
              buffer : BOOLEAN, circular : BOOLEAN, size : Nat, boundaries : BOOLEAN]

\* parser.Parse: --help is a reason to return false.
Parse(line) == line.parses /\ ~line.help

\* Both tools refuse flow control by characters in the data.
AnyFlow(flow) == TRUE
SupportedFlow(flow) == flow # "xon_xoff"

SendAccepts(line) ==
  /\ Parse(line)
  /\ line.others >= 2            \* DEVICE and at least one FILE
  /\ SupportedFlow(line.flow)

SizeUnchecked(line) == ~(line.buffer /\ line.circular)
ValidBuffer(line) ==
  line.buffer \/ line.circular => ~(line.buffer /\ line.circular) /\ line.size # 0

RecvAccepts(line) ==
  /\ Parse(line)
  /\ line.others = 2             \* DEVICE and FILE
  /\ SupportedFlow(line.flow)
  /\ ValidBuffer(line)

\* main2 looks at options.buffer before options.circular_buffer.
RecvOptions(line, windows) ==
  [mode |-> IF line.buffer THEN "buffer" ELSE IF line.circular THEN "circular" ELSE "stream",
   size |-> line.size, boundaries |-> line.boundaries, windows |-> windows]

\* main: a command line that is not accepted fails, unless it asks for help.
Refusal(line) == IF line.help THEN "success" ELSE "failure"
=============================================================================
