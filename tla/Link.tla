-------------------------------- MODULE Link --------------------------------
(***************************************************************************)
(* d2xx_send at one end of a serial line and d2xx_recv at the other, each  *)
(* from its command line to its exit: Send and Recv with the devices, the  *)
(* drivers' queues and the line between them.                              *)
(*                                                                         *)
(* The tools have no protocol.  That the file received is the file sent    *)
(* rests on the flow control both command lines ask for, and on a user who *)
(* watches the count of d2xx_recv and ends it when the transfer is done.   *)
(*                                                                         *)
(* Recv numbers the bytes in the order they arrive: line[k] is the byte of *)
(* the files that arrived as the k-th.                                     *)
(***************************************************************************)
EXTENDS CommandLine, ByteStreams

CONSTANTS
  SendCommands, RecvCommands,      \* the command lines considered
  Windows,                         \* d2xx_recv runs on Windows
  RxQueue,                         \* bytes the driver holds for d2xx_recv
  Controls,                        \* the bytes that are XON or XOFF characters
  Inputs, ChunkSize, QueueSize, OpenLimit,              \* of Send
  NumToRead, StreamBuf, MaxBytes, MaxReads              \* of Recv

VARIABLES
  sendLine, recvLine,   \* the command lines
  stage,                \* what has become of them
  line,                 \* the bytes that have arrived, in that order
  purged,               \* the driver has dropped what d2xx_send left behind
  hasty,                \* history: the user ended d2xx_recv too early
  ends, spc, path, opened, pos, eof, chunk, wire, taken,       \* of Send
  opt, rpc, timeout, handler, bopen, quit, sent, got,          \* of Recv
  buffer, index, wrapped, file, disk, diskfull, bbuf, bfile,
  splits, shown, due

\* What d2xx_recv may be run with.
Options == {RecvOptions(c, Windows) : c \in {d \in RecvCommands : RecvAccepts(d)}}

S == INSTANCE Send WITH pc <- spc
R == INSTANCE Recv WITH pc <- rpc

sendVars == <<ends, spc, path, opened, pos, eof, chunk, wire, taken>>
recvVars == <<opt, rpc, timeout, handler, bopen, quit, sent, got,
              buffer, index, wrapped, file, disk, diskfull, bbuf, bfile,
              splits, shown, due>>
lines == <<sendLine, recvLine>>
wires == <<line, purged>>
vars  == <<lines, stage, wires, hasty, sendVars, recvVars>>

ASSUME LinkAssumption ==
  /\ SendCommands \subseteq SendLines /\ RecvCommands \subseteq RecvLines
  /\ Windows \in BOOLEAN /\ RxQueue \in Nat \ {0}
  /\ \A r \in RecvCommands : r.buffer \/ r.circular \/ r.size = 0
  /\ \E r \in RecvCommands : RecvAccepts(r)
  /\ S!SendConstants
  /\ NumToRead \in Nat \ {0} /\ StreamBuf \in Nat \ {0}
  /\ MaxBytes \in Nat /\ MaxReads \in Nat

Total == ends[Len(ends)]

\* Both ends obey the same lines of the cable.
Protected == sendLine.flow = recvLine.flow /\ sendLine.flow # "none"

Init ==
  /\ sendLine \in SendCommands /\ recvLine \in RecvCommands
  /\ stage = [send |-> "starting", recv |-> "starting"]
  /\ line = << >> /\ purged = FALSE /\ hasty = FALSE
  /\ S!Init
  /\ SendAccepts(sendLine) => sendLine.others = Len(ends) + 1   \* DEVICE and the files
  /\ R!Init
  /\ opt = IF RecvAccepts(recvLine) THEN RecvOptions(recvLine, Windows)
           ELSE CHOOSE o \in Options : TRUE   \* never used

-----------------------------------------------------------------------------
\* DoCommandLine, GetDeviceList and OpenDevice.
Start(tool, accepts, cmd) ==
  /\ stage[tool] = "starting"
  /\ \/ accepts /\ stage' = [stage EXCEPT ![tool] = "running"]
     \/ accepts /\ stage' = [stage EXCEPT ![tool] = "failure"]
     \/ ~accepts /\ stage' = [stage EXCEPT ![tool] = Refusal(cmd)]
  /\ UNCHANGED <<lines, wires, hasty, sendVars, recvVars>>

StartSend == Start("send", SendAccepts(sendLine), sendLine)
StartRecv == Start("recv", RecvAccepts(recvLine), recvLine)

Sender ==
  /\ stage.send = "running"
  /\ S!Process \/ S!Failure \/ S!Interrupt
  /\ UNCHANGED <<lines, stage, wires, hasty, recvVars>>

\* The user waits for the count on display to be that of the files.
TooEarly == shown # Total /\ quit' /\ ~quit

Receiver ==
  /\ stage.recv = "running"
  /\ \/ R!Process \/ R!ReadFails \/ R!Crash
     \/ R!PressKey \/ R!Interrupt \/ R!DiskFills \/ R!Tick
  /\ hasty' = (hasty \/ TooEarly)
  /\ UNCHANGED <<lines, stage, wires, sendVars>>

-----------------------------------------------------------------------------
(***************************************************************************)
(* The drivers, the devices and the cable.                                 *)
(***************************************************************************)
Listening == stage.recv = "running" /\ R!Running
Room == Listening /\ sent - got < RxQueue

\* XON and XOFF characters do not get through a line they control.
Swallowed(b) == b \in Controls /\ "xon_xoff" \in {sendLine.flow, recvLine.flow}

\* A byte goes out.  Flow control holds it back until there is room for it;
\* without, it is lost if there is none.
Transmit ==
  /\ ~purged /\ taken < Len(wire)
  /\ Protected => Room
  /\ S!DeviceTakes
  /\ LET b == wire[taken + 1] IN
       \/ /\ Room /\ ~Swallowed(b)
          /\ R!Arrive /\ line' = Append(line, b)
       \/ /\ ~Room \/ Swallowed(b)
          /\ UNCHANGED <<recvVars, line>>
  /\ UNCHANGED <<lines, stage, hasty, purged>>

\* What FT_Close does to the bytes the driver still holds is not known.
Purge ==
  /\ spc \in S!Ended /\ taken < Len(wire)
  /\ purged' = TRUE
  /\ UNCHANGED <<lines, stage, hasty, line, sendVars, recvVars>>

-----------------------------------------------------------------------------
Next == StartSend \/ StartRecv \/ Sender \/ Receiver \/ Transmit \/ Purge

\* Fairness of both tools, and a line that moves when it may.
SendProgress == stage.send = "running" /\ S!Process
                /\ UNCHANGED <<lines, stage, wires, hasty, recvVars>>
RecvProgress == stage.recv = "running" /\ R!Process
                /\ UNCHANGED <<lines, stage, wires, hasty, sendVars>>
Clock        == stage.recv = "running" /\ R!Tick
                /\ UNCHANGED <<lines, stage, wires, hasty, sendVars>>

Fairness == /\ WF_vars(SendProgress) /\ WF_vars(RecvProgress) /\ WF_vars(Clock)
            /\ WF_vars(Transmit)

Spec == Init /\ [][Next]_vars /\ Fairness

-----------------------------------------------------------------------------
\* The file of d2xx_recv in the numbers of the bytes sent.
Received == [i \in DOMAIN file |-> line[file[i]]]

\* How Transfer sees the tools: a d2xx_recv that does not get to its loop fails.
Outcome == IF stage.recv \in {"success", "failure"} THEN "failed" ELSE R!Outcome

Promise == INSTANCE Transfer
  WITH total <- Total, mode <- opt.mode, size <- opt.size, lossless <- Protected,
       patient <- ~hasty, sent <- Len(wire), received <- Received, outcome <- Outcome

\* The type invariant.
TypeOK ==
  /\ sendLine \in SendCommands /\ recvLine \in RecvCommands
  /\ stage \in [{"send", "recv"} -> {"starting", "running", "success", "failure"}]
  /\ line \in Seq(Nat) /\ Len(line) = sent
  /\ purged \in BOOLEAN /\ hasty \in BOOLEAN
  /\ S!TypeOK /\ R!TypeOK

\* What DoCommandLine lets through leaves each FT_Read something to ask for,
\* inside the buffer: with --circular 0 the loop would ask for nothing for ever.
BufferUsable == stage.recv = "running" => R!ReadFits

\* Whatever the options, the file received holds bytes of the files sent, in
\* their order and none of them twice: a byte can only be missing.
NothingInvented ==
  \A i, j \in DOMAIN Received :
    /\ Received[i] \in 1..Total
    /\ i < j => Received[i] < Received[j]

\* With the same flow control at both ends no byte is missing either: the file
\* is the beginning of what was sent or, with --circular, a part of it without
\* a gap, although d2xx_recv may start late and stop early.
NothingMissing ==
  Protected =>
    /\ \A i \in 1..(Len(Received) - 1) : Received[i + 1] = Received[i] + 1
    /\ opt.mode # "circular" => IsPrefix(Received, wire)

\* The user who waits until the count on display is that of the files has them.
TransferWhole ==
  rpc = "success" /\ Protected /\ ~hasty /\ (opt.mode = "stream" \/ Total <= opt.size)
    => Received = Bytes(0, Total)

\* The two tools, the drivers and the line do what Transfer promises.
ImplementsTransfer == Promise!Spec

\* d2xx_send is not held up for ever by a d2xx_recv that goes on receiving.
SenderReleased ==
  stage.send = "running" /\ Listening /\ Protected ~> spc \in S!Ended \/ ~Listening

\* Once d2xx_send has succeeded the count gets to that of the files, so that
\* the user does not wait for ever, unless the driver drops bytes.
CountArrives ==
  spc = "success" /\ Listening /\ Protected /\ opt.mode = "stream"
    ~> shown = Total \/ purged \/ quit \/ ~Listening
=============================================================================
