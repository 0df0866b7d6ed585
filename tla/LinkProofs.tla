----------------------------- MODULE LinkProofs -----------------------------
(***************************************************************************)
(* Proofs about Link, for every command line, file, buffer and queue: what *)
(* is proved of d2xx_send and of d2xx_recv holds of them at the ends of a  *)
(* line, and what the line does to the bytes between them.                 *)
(***************************************************************************)
EXTENDS Link, ByteStreamProofs

SP == INSTANCE SendProofs WITH pc <- spc
RP == INSTANCE RecvOutputProofs WITH pc <- rpc

-----------------------------------------------------------------------------
(***************************************************************************)
(* The tools are those the other modules prove about.                      *)
(***************************************************************************)
LEMMA SendSame ==
  /\ S!Init => SP!Init
  /\ S!Process \/ S!Failure \/ S!Interrupt \/ S!DeviceTakes => SP!Next
  /\ UNCHANGED sendVars => UNCHANGED SP!vars
<1> USE DEF S!file, SP!file
<1>1. S!Init => SP!Init
  BY DEF S!Init, SP!Init
<1>2. S!Process => SP!Process
  <2>1. S!OpenFile => SP!OpenFile
    BY DEF S!OpenFile, SP!OpenFile
  <2>2. S!GetSize => SP!GetSize
    BY DEF S!GetSize, SP!GetSize, S!FileEnd, SP!FileEnd
  <2>3. S!ReadFile => SP!ReadFile
    BY DEF S!ReadFile, SP!ReadFile, S!FileEnd, SP!FileEnd, S!EofSeen, SP!EofSeen,
       S!Bytes, SP!Bytes
  <2>4. S!WriteChunk => SP!WriteChunk
    BY DEF S!WriteChunk, SP!WriteChunk, S!Left, SP!Left
  <2>5. S!ChunkDone => SP!ChunkDone
    BY DEF S!ChunkDone, SP!ChunkDone
  <2>6. S!NextFile => SP!NextFile
    BY DEF S!NextFile, SP!NextFile, S!NextPath, SP!NextPath
  <2>7. S!Close => SP!Close
    BY DEF S!Close, SP!Close
  <2>8. S!ExitFailure => SP!ExitFailure
    BY DEF S!ExitFailure, SP!ExitFailure
  <2> QED
    BY <2>1, <2>2, <2>3, <2>4, <2>5, <2>6, <2>7, <2>8 DEF S!Process, SP!Process
<1>3. S!Failure => SP!Failure
  BY DEF S!Failure, SP!Failure, S!CallFails, SP!CallFails
<1>4. S!Interrupt => SP!Interrupt
  BY DEF S!Interrupt, SP!Interrupt, S!Ended, SP!Ended
<1>5. S!DeviceTakes => SP!DeviceTakes
  BY DEF S!DeviceTakes, SP!DeviceTakes
<1>6. UNCHANGED sendVars => UNCHANGED SP!vars
  BY DEF sendVars, SP!vars
<1> QED
  BY <1>1, <1>2, <1>3, <1>4, <1>5, <1>6 DEF SP!Next

LEMMA RecvSame ==
  /\ R!Init => RP!Init
  /\ R!Process \/ R!ReadFails \/ R!Crash \/ R!PressKey \/ R!Interrupt
       \/ R!DiskFills \/ R!Tick \/ R!Arrive => RP!Next
  /\ UNCHANGED recvVars => UNCHANGED RP!vars
<1> USE DEF R!ring, RP!ring, R!setup, RP!setup, R!world, RP!world,
            R!bounds, RP!bounds, R!progress, RP!progress, R!Goto, RP!Goto
<1>1. R!Init => RP!Init
  BY DEF R!Init, RP!Init
<1>2. R!Setup => RP!Setup
  BY DEF R!Setup, RP!Setup, R!SetTimeouts, RP!SetTimeouts, R!OpenOutput, RP!OpenOutput,
     R!OpenBoundaries, RP!OpenBoundaries, R!InstallHandler, RP!InstallHandler
<1>3. /\ R!ReadSize = RP!ReadSize /\ R!Received = RP!Received
      /\ (R!Read <=> RP!Read) /\ R!Fill = RP!Fill /\ R!Chunk = RP!Chunk
  BY DEF R!ReadSize, RP!ReadSize, R!Received, RP!Received, R!Read, RP!Read,
     R!FT_ReadReturns, RP!FT_ReadReturns, R!Fill, RP!Fill, R!Chunk, RP!Chunk,
     R!Bytes, RP!Bytes
<1>4. ASSUME NEW data
      PROVE  /\ R!WriteDataToFile(data) <=> RP!WriteDataToFile(data)
             /\ R!WriteDataFails(data) <=> RP!WriteDataFails(data)
  BY DEF R!WriteDataToFile, RP!WriteDataToFile, R!WriteDataFails, RP!WriteDataFails
<1>5. R!ShouldQuit => RP!ShouldQuit
  BY DEF R!ShouldQuit, RP!ShouldQuit, R!Done, RP!Done
<1>6. R!ReadToBuffer => RP!ReadToBuffer
  BY <1>3 DEF R!ReadToBuffer, RP!ReadToBuffer, R!ShowProgress, RP!ShowProgress
<1>7. R!ReadToRing => RP!ReadToRing
  BY <1>3 DEF R!ReadToRing, RP!ReadToRing, R!RingIndex, RP!RingIndex,
     R!ShowProgress, RP!ShowProgress
<1>8. R!ReadToFile => RP!ReadToFile
  BY <1>3, <1>4 DEF R!ReadToFile, RP!ReadToFile, R!ShowProgress, RP!ShowProgress
<1>9. R!ReadToFileFails => RP!ReadToFileFails
  BY <1>3, <1>4 DEF R!ReadToFileFails, RP!ReadToFileFails
<1>10. R!ReadAndRecord => RP!ReadAndRecord
  BY <1>3, <1>4 DEF R!ReadAndRecord, RP!ReadAndRecord, R!Records, RP!Records,
     R!Full, RP!Full, R!RecordSize, RP!RecordSize, R!BoundariesCap, RP!BoundariesCap,
     R!ShowProgress, RP!ShowProgress
<1>11. R!Finish => RP!Finish
  <2>1. R!Unsaved = RP!Unsaved
    BY DEF R!Unsaved, RP!Unsaved, R!Slice, RP!Slice
  <2>2. R!Save => RP!Save
    BY <1>4, <2>1 DEF R!Save, RP!Save
  <2>3. R!SaveBoundaries => RP!SaveBoundaries
    BY DEF R!SaveBoundaries, RP!SaveBoundaries, R!Stored, RP!Stored, R!Garbled,
       RP!Garbled, R!RecordsThatFit, RP!RecordsThatFit, R!BoundariesCap,
       RP!BoundariesCap, R!RecordSize, RP!RecordSize
  <2>4. R!Close \/ R!ExitFailure => RP!Close \/ RP!ExitFailure
    BY DEF R!Close, RP!Close, R!ExitFailure, RP!ExitFailure, R!FlushAtExit, RP!FlushAtExit
  <2> QED
    BY <2>2, <2>3, <2>4 DEF R!Finish, RP!Finish
<1>12. R!ReadFails \/ R!Crash => RP!ReadFails \/ RP!Crash
  BY DEF R!ReadFails, RP!ReadFails, R!Crash, RP!Crash, R!BoundaryPtrInBuffer,
     RP!BoundaryPtrInBuffer, R!RecordSize,
     RP!RecordSize, R!BoundariesCap, RP!BoundariesCap, R!Running, RP!Running,
     R!Final, RP!Final
<1>13. R!PressKey \/ R!Interrupt \/ R!DiskFills \/ R!Tick \/ R!Arrive => RP!Environment
  BY DEF R!PressKey, R!Interrupt, R!DiskFills, R!Tick, R!Arrive, R!Running, R!Final,
     RP!PressKey, RP!Interrupt, RP!DiskFills, RP!Tick, RP!Arrive, RP!Running, RP!Final,
     RP!Environment
<1>14. UNCHANGED recvVars => UNCHANGED RP!vars
  BY DEF recvVars, RP!vars
<1> QED
  BY <1>1, <1>2, <1>5, <1>6, <1>7, <1>8, <1>9, <1>10, <1>11, <1>12, <1>13, <1>14
  DEF R!Process, RP!Process, R!Loop, RP!Loop, RP!Next

-----------------------------------------------------------------------------
(***************************************************************************)
(* The inductive invariant.                                                *)
(***************************************************************************)
\* What arrives has been sent, in that order and once, whatever is lost.
LineInv ==
  /\ line \in Seq(Nat) /\ Len(line) = sent
  /\ \A i \in 1..Len(line) : line[i] \in 1..taken
  /\ \A i, j \in 1..Len(line) : i < j => line[i] < line[j]

\* d2xx_send writes nothing before its command line has been accepted, and
\* d2xx_recv has not begun before its own has.
StageInv ==
  /\ stage \in [{"send", "recv"} -> {"starting", "running", "success", "failure"}]
  /\ stage.send = "running" => SendAccepts(sendLine)
  /\ stage.send # "running" => wire = << >>
  /\ stage.recv # "running" => rpc = "timeouts"

\* With the same flow control at both ends nothing is lost.
ProtectedInv ==
  Protected => Len(line) = taken /\ \A i \in 1..Len(line) : line[i] = i

\* What ends d2xx_recv, and what it has received by then.
QuitInv ==
  /\ hasty \in BOOLEAN /\ quit \in BOOLEAN
  /\ Protected /\ quit /\ ~hasty => got = Total
  /\ rpc \in {"save", "close", "success"} => quit \/ (opt.mode = "buffer" /\ index = opt.size)

LinkInv == /\ SP!SendInv /\ RP!CaptureInv /\ RP!DisplayInv
           /\ LineInv /\ StageInv /\ ProtectedInv /\ QuitInv

\* What DoCommandLine lets through is what Recv assumes of its options.
LEMMA OptionsAreRecvs ==
  \A o \in Options :
    /\ o \in [mode : {"stream", "buffer", "circular"}, size : Nat,
              boundaries : BOOLEAN, windows : BOOLEAN]
    /\ o.size = 0 <=> o.mode = "stream"
<1> SUFFICES ASSUME NEW r \in RecvCommands, RecvAccepts(r)
             PROVE  LET o == RecvOptions(r, Windows) IN
                    /\ o \in [mode : {"stream", "buffer", "circular"}, size : Nat,
                              boundaries : BOOLEAN, windows : BOOLEAN]
                    /\ o.size = 0 <=> o.mode = "stream"
  BY DEF Options
<1>1. /\ r \in RecvLines /\ Windows \in BOOLEAN
      /\ r.buffer \/ r.circular \/ r.size = 0
  BY LinkAssumption
<1>2. /\ r.size \in Nat /\ r.boundaries \in BOOLEAN
      /\ r.buffer \in BOOLEAN /\ r.circular \in BOOLEAN
  BY <1>1 DEF RecvLines
<1>3. r.buffer \/ r.circular => r.size # 0
  BY DEF RecvAccepts, ValidBuffer
<1> QED
  BY <1>1, <1>2, <1>3 DEF RecvOptions

\* What Send and Recv assume of their constants.
LEMMA Assumed == SP!SendConstants /\ RP!RecvConstants
BY LinkAssumption, OptionsAreRecvs DEF S!SendConstants, SP!SendConstants, RP!RecvConstants

\* The bytes in the driver are the first ones of the files.
LEMMA WireTypes ==
  ASSUME SP!SendInv
  PROVE  /\ Total \in Nat /\ Len(wire) \in 0..Total /\ taken \in 0..Len(wire)
         /\ wire \in Seq(Nat) /\ \A i \in 1..Len(wire) : wire[i] = i
<1>1. /\ wire \in Seq(Nat) /\ chunk \in Seq(Nat) /\ taken \in 0..Len(wire)
      /\ ends \in Inputs /\ pos \in 0..Total
      /\ wire \o chunk = Bytes(0, pos)
  BY DEF SP!SendInv, SP!TypeOK, SP!NothingDropped, SP!Bytes, Bytes, Total
<1>2. Total \in Nat
  <2>1. /\ ends \in Seq(Nat) /\ ends # << >>
    BY <1>1, Assumed DEF SP!SendConstants
  <2>2. Len(ends) \in 1..Len(ends)
    BY <2>1, EmptySeq, LenProperties
  <2> QED
    BY <2>1, <2>2, ElementOfSeq DEF Total
<1>3. Len(wire) \in Nat /\ Len(chunk) \in Nat
  BY <1>1, LenProperties
<1>4. /\ Len(wire) + Len(chunk) = pos /\ pos \in Nat
      /\ \A i \in 1..pos : (wire \o chunk)[i] = i
  <2>1. pos \in Nat /\ 0 \in Nat /\ 0 <= pos
    BY <1>1, <1>2
  <2>2. Len(Bytes(0, pos)) = pos - 0 /\ \A i \in 1..(pos - 0) : Bytes(0, pos)[i] = 0 + i
    BY <2>1, BytesProperties
  <2>3. Len(wire \o chunk) = Len(wire) + Len(chunk)
    BY <1>1, ConcatProperties
  <2>4. Len(Bytes(0, pos)) = pos
    BY <2>1, <2>2
  <2>5. \A i \in 1..pos : Bytes(0, pos)[i] = i
    <3> DEFINE b == Bytes(0, pos)
    <3>1. \A i \in 1..(pos - 0) : b[i] = 0 + i
      BY <2>2
    <3> HIDE DEF b
    <3>2. \A i \in 1..pos : b[i] = i
      BY <2>1, <3>1
    <3> QED
      BY <3>2 DEF b
  <2> QED
    BY <1>1, <2>1, <2>3, <2>4, <2>5
<1>5. \A i \in 1..Len(wire) : wire[i] = i
  <2>1. \A i \in 1..(Len(wire) + Len(chunk)) :
           (wire \o chunk)[i] = IF i <= Len(wire) THEN wire[i] ELSE chunk[i - Len(wire)]
    BY <1>1, ConcatProperties
  <2> QED
    BY <1>3, <1>4, <2>1
<1> QED
  BY <1>1, <1>2, <1>3, <1>4, <1>5

LEMMA LinkInvInit ==
  ASSUME Init
  PROVE  LinkInv
<1>1. SP!SendInv
  BY SendSame, Assumed, SP!SendInvInit DEF Init
<1>2. RP!CaptureInv /\ RP!DisplayInv
  BY RecvSame, Assumed, RP!CaptureInvInit, RP!DisplayInit DEF Init
<1>3. line = << >> /\ sent = 0 /\ taken = 0 /\ wire = << >> /\ ~quit /\ ~hasty
      /\ rpc = "timeouts" /\ stage = [send |-> "starting", recv |-> "starting"]
      /\ quit \in BOOLEAN /\ hasty \in BOOLEAN
  BY DEF Init, S!Init, R!Init
<1>4. LineInv /\ ProtectedInv
  <2>1. line \in Seq(Nat) /\ Len(line) = 0
    BY <1>3, EmptySeq
  <2> QED
    BY <1>3, <2>1 DEF LineInv, ProtectedInv
<1>5. StageInv /\ QuitInv
  BY <1>3 DEF StageInv, QuitInv
<1> QED
  BY <1>1, <1>2, <1>4, <1>5 DEF LinkInv

-----------------------------------------------------------------------------
(***************************************************************************)
(* The steps.                                                              *)
(***************************************************************************)
\* A step of the line is one of each tool, or leaves it alone.
LEMMA ToolSteps ==
  ASSUME [Next]_vars
  PROVE  [SP!Next]_(SP!vars) /\ [RP!Next]_(RP!vars)
<1>1. CASE StartSend \/ StartRecv \/ Purge \/ UNCHANGED vars
  <2>1. UNCHANGED sendVars /\ UNCHANGED recvVars
    BY <1>1 DEF StartSend, StartRecv, Start, Purge, vars
  <2> QED
    BY <2>1, SendSame, RecvSame
<1>2. CASE Sender
  BY <1>2, SendSame, RecvSame DEF Sender
<1>3. CASE Receiver
  BY <1>3, SendSame, RecvSame DEF Receiver
<1>4. CASE Transmit
  <2>1. S!DeviceTakes /\ (R!Arrive \/ UNCHANGED recvVars)
    BY <1>4 DEF Transmit
  <2> QED
    BY <2>1, SendSame, RecvSame
<1> QED
  BY <1>1, <1>2, <1>3, <1>4 DEF Next

\* What Send and Recv keep by themselves.
LEMMA ToolInvStep ==
  ASSUME LinkInv, [Next]_vars
  PROVE  SP!SendInv' /\ RP!CaptureInv' /\ RP!DisplayInv'
<1>1. /\ SP!SendInv /\ RP!CaptureInv /\ RP!DisplayInv
      /\ RP!TypeOK /\ RP!RingHolds
  BY DEF LinkInv, RP!CaptureInv
<1>2. SP!TypeOK' /\ SP!FilesInOrder' /\ SP!NothingDropped'
  BY <1>1, Assumed, ToolSteps, SP!TypeStep, SP!OrderStep, SP!DroppedStep
<1>3. RP!TypeOK' /\ RP!RingHolds' /\ RP!FileHolds' /\ RP!DisplayInv'
  BY <1>1, Assumed, ToolSteps, RP!TypeStep, RP!RingStep, RP!FileStep, RP!DisplayStep
<1> QED
  BY <1>2, <1>3 DEF SP!SendInv, RP!CaptureInv

\* What the variables are that the rest is about.
LEMMA LinkTypes ==
  ASSUME LinkInv
  PROVE  /\ sent \in Nat /\ got \in 0..sent /\ shown \in 0..got /\ quit \in BOOLEAN
         /\ Total \in Nat /\ taken \in 0..Len(wire) /\ Len(wire) \in 0..Total
         /\ line \in Seq(Nat) /\ Len(line) = sent
         /\ wire \in Seq(Nat) /\ \A i \in 1..Len(wire) : wire[i] = i
<1>1. sent \in Nat /\ got \in 0..sent /\ shown \in Nat /\ shown <= got /\ quit \in BOOLEAN
  BY DEF LinkInv, RP!CaptureInv, RP!TypeOK, RP!DisplayInv
<1>2. line \in Seq(Nat) /\ Len(line) = sent
  BY DEF LinkInv, LineInv
<1> QED
  BY <1>1, <1>2, WireTypes DEF LinkInv

\* Only Transmit moves bytes from the one to the other.
LEMMA OthersKeepLine ==
  ASSUME [Next]_vars, ~Transmit
  PROVE  UNCHANGED <<line, sent, taken, lines, ends>>
<1> USE DEF lines, wires
<1>1. CASE StartSend \/ StartRecv \/ Purge \/ UNCHANGED vars
  BY <1>1 DEF StartSend, StartRecv, Start, Purge, vars, sendVars, recvVars
<1>2. CASE Sender
  BY <1>2 DEF Sender, recvVars, S!Process, S!OpenFile, S!GetSize, S!ReadFile,
     S!WriteChunk, S!ChunkDone, S!NextFile, S!Close, S!ExitFailure, S!Failure,
     S!CallFails, S!Interrupt
<1>3. CASE Receiver
  <2>1. /\ \/ R!Process \/ R!ReadFails \/ R!Crash
           \/ R!PressKey \/ R!Interrupt \/ R!DiskFills \/ R!Tick
        /\ UNCHANGED <<lines, line, taken, ends>>
    BY <1>3 DEF Receiver, sendVars
  <2>2. sent' = sent
    BY <2>1 DEF R!Process, R!Setup, R!SetTimeouts, R!OpenOutput, R!OpenBoundaries,
       R!InstallHandler, R!Loop, R!ShouldQuit, R!ReadToBuffer, R!ReadToRing,
       R!ReadToFile, R!ReadToFileFails, R!ReadAndRecord, R!Finish, R!Save,
       R!SaveBoundaries, R!Close, R!ExitFailure, R!ReadFails, R!Crash, R!PressKey,
       R!Interrupt, R!DiskFills, R!Tick, R!world
  <2> QED
    BY <2>1, <2>2
<1> QED
  BY <1>1, <1>2, <1>3 DEF Next

\* What Transmit does: the next byte arrives, or it is lost.
LEMMA TransmitStep ==
  ASSUME LinkInv, Transmit
  PROVE  /\ taken' = taken + 1 /\ taken < Len(wire)
         /\ UNCHANGED <<lines, ends, wire>>
         /\ \/ line' = Append(line, taken + 1) /\ sent' = sent + 1
            \/ UNCHANGED <<line, sent>> /\ ~Protected
<1>1. /\ taken < Len(wire) /\ taken' = taken + 1 /\ UNCHANGED <<lines, ends, wire>>
      /\ Protected => Room
  BY DEF Transmit, S!DeviceTakes, S!file
<1>2. wire[taken + 1] = taken + 1
  BY <1>1, LinkTypes
<1>3. \/ line' = Append(line, wire[taken + 1]) /\ R!Arrive
      \/ UNCHANGED <<line, recvVars>> /\ (~Room \/ Swallowed(wire[taken + 1]))
  BY DEF Transmit
<1>4. Protected => ~Swallowed(wire[taken + 1])
  <2>1. wire # << >>
    BY <1>1, LinkTypes, EmptySeq
  <2>2. sendLine.flow # "xon_xoff"
    BY <2>1 DEF LinkInv, StageInv, SendAccepts, SupportedFlow
  <2> QED
    BY <2>2 DEF Protected, Swallowed
<1> QED
  BY <1>1, <1>2, <1>3, <1>4 DEF R!Arrive, recvVars

LEMMA LineStep ==
  ASSUME LinkInv, [Next]_vars
  PROVE  LineInv' /\ ProtectedInv'
<1>1. LineInv /\ ProtectedInv /\ taken \in Nat /\ sent \in Nat
  BY LinkTypes DEF LinkInv
<1>2. CASE ~Transmit
  <2>1. UNCHANGED <<line, sent, taken, sendLine, recvLine>>
    BY <1>2, OthersKeepLine DEF lines
  <2> QED
    BY <1>1, <2>1 DEF LineInv, ProtectedInv, Protected
<1>3. CASE Transmit /\ line' = Append(line, taken + 1) /\ sent' = sent + 1
  <2>1. taken' = taken + 1 /\ UNCHANGED <<sendLine, recvLine>>
    BY <1>3, TransmitStep DEF lines
  <2>2. /\ line' \in Seq(Nat) /\ Len(line') = Len(line) + 1 /\ Len(line) = sent
        /\ \A i \in 1..Len(line) : line'[i] = line[i]
        /\ line'[Len(line) + 1] = taken + 1
    <3>1. line \in Seq(Nat) /\ taken + 1 \in Nat /\ Len(line) = sent
      BY <1>1 DEF LineInv
    <3> QED
      BY <1>3, <3>1, AppendProperties
  <2>3. /\ \A i \in 1..Len(line) : line[i] \in 1..taken
        /\ \A i, j \in 1..Len(line) : i < j => line[i] < line[j]
    BY <1>1 DEF LineInv
  <2>4. \A i \in 1..Len(line') : i \in 1..Len(line) \/ i = Len(line) + 1
    BY <1>1, <2>2
  <2>5. \A i \in 1..Len(line') : line'[i] \in 1..taken'
    <3>1. \A i \in 1..Len(line) : line'[i] \in 1..(taken + 1)
      BY <1>1, <2>2, <2>3
    <3>2. line'[Len(line) + 1] \in 1..(taken + 1)
      BY <1>1, <2>2
    <3> QED
      BY <2>1, <2>4, <3>1, <3>2
  <2>6. \A i, j \in 1..Len(line') : i < j => line'[i] < line'[j]
    <3> SUFFICES ASSUME NEW i \in 1..Len(line'), NEW j \in 1..Len(line'), i < j
                 PROVE  line'[i] < line'[j]
      OBVIOUS
    <3>1. i \in 1..Len(line)
      BY <1>1, <2>2
    <3>2. CASE j \in 1..Len(line)
      BY <2>2, <2>3, <3>1, <3>2
    <3>3. CASE j = Len(line) + 1
      BY <1>1, <2>2, <2>3, <3>1, <3>3
    <3> QED
      BY <2>4, <3>2, <3>3
  <2>7. ProtectedInv'
    <3>1. CASE Protected
      <4>1. Len(line) = taken /\ \A i \in 1..Len(line) : line[i] = i
        BY <1>1, <3>1 DEF ProtectedInv
      <4>2. \A i \in 1..Len(line') : line'[i] = i
        BY <2>2, <2>4, <4>1
      <4> QED
        BY <2>1, <2>2, <4>1, <4>2 DEF ProtectedInv
    <3>2. CASE ~Protected
      BY <2>1, <3>2 DEF ProtectedInv, Protected
    <3> QED
      BY <3>1, <3>2
  <2> QED
    BY <1>3, <2>2, <2>5, <2>6, <2>7 DEF LineInv
<1>4. CASE Transmit /\ UNCHANGED <<line, sent>> /\ ~Protected
  <2>1. taken' = taken + 1 /\ UNCHANGED <<sendLine, recvLine>>
    BY <1>4, TransmitStep DEF lines
  <2>2. LineInv'
    <3>1. \A i \in 1..Len(line) : line[i] \in 1..(taken + 1)
      BY <1>1 DEF LineInv
    <3> QED
      BY <1>1, <1>4, <2>1, <3>1 DEF LineInv
  <2> QED
    BY <1>4, <2>1, <2>2 DEF ProtectedInv, Protected
<1> QED
  BY <1>2, <1>3, <1>4, TransmitStep

LEMMA StageStep ==
  ASSUME LinkInv, [Next]_vars
  PROVE  StageInv'
<1> USE DEF lines, wires
<1>1. StageInv
  BY DEF LinkInv
<1>2. CASE StartSend
  <2>1. /\ stage.send = "starting" /\ UNCHANGED <<sendLine, wire, rpc>>
        /\ \/ SendAccepts(sendLine) /\ stage' = [stage EXCEPT !["send"] = "running"]
           \/ stage' = [stage EXCEPT !["send"] = "failure"]
           \/ stage' = [stage EXCEPT !["send"] = Refusal(sendLine)]
    BY <1>2 DEF StartSend, Start, sendVars, recvVars
  <2> QED
    BY <1>1, <2>1 DEF StageInv, Refusal
<1>3. CASE StartRecv
  <2>1. /\ stage.recv = "starting" /\ UNCHANGED <<sendLine, wire, rpc>>
        /\ \/ stage' = [stage EXCEPT !["recv"] = "running"]
           \/ stage' = [stage EXCEPT !["recv"] = "failure"]
           \/ stage' = [stage EXCEPT !["recv"] = Refusal(recvLine)]
    BY <1>3 DEF StartRecv, Start, sendVars, recvVars
  <2> QED
    BY <1>1, <2>1 DEF StageInv, Refusal
<1>4. CASE Sender
  BY <1>1, <1>4 DEF Sender, StageInv, recvVars
<1>5. CASE Receiver \/ Transmit \/ Purge \/ UNCHANGED vars
  <2>1. UNCHANGED <<stage, sendLine, wire>> /\ (stage.recv = "running" \/ rpc' = rpc)
    BY <1>5 DEF Receiver, Transmit, Purge, vars, sendVars, recvVars, S!DeviceTakes, R!Arrive
  <2> QED
    BY <1>1, <2>1 DEF StageInv
<1> QED
  BY <1>2, <1>3, <1>4, <1>5 DEF Next

\* d2xx_recv leaves its loop for good, when it is to quit or the buffer is full.
LEMMA RecvQuits ==
  ASSUME \/ R!Process \/ R!ReadFails \/ R!Crash \/ R!PressKey \/ R!Interrupt
         \/ R!DiskFills \/ R!Tick \/ R!Arrive \/ UNCHANGED recvVars,
         quit \in BOOLEAN
  PROVE  /\ quit => quit'
         /\ rpc' \in {"save", "close", "success"} =>
              /\ UNCHANGED <<index, quit>> \/ (UNCHANGED index /\ quit')
              /\ rpc \in {"save", "close", "success"} \/ R!Done
<1> USE DEF R!Goto, R!ring
<1>1. CASE R!Setup
  BY <1>1 DEF R!Setup, R!SetTimeouts, R!OpenOutput, R!OpenBoundaries, R!InstallHandler
<1>2. CASE R!ShouldQuit
  BY <1>2 DEF R!ShouldQuit
<1>3. CASE R!ReadToBuffer \/ R!ReadToRing
  BY <1>3 DEF R!ReadToBuffer, R!ReadToRing
<1>4. CASE R!ReadToFile \/ R!ReadToFileFails
  BY <1>4 DEF R!ReadToFile, R!ReadToFileFails
<1>5. CASE R!ReadAndRecord
  <2>1. rpc' \in {"check", "failing", "aborted"} /\ quit' = quit
    BY <1>5 DEF R!ReadAndRecord
  <2> QED
    BY <2>1
<1>6. CASE R!Finish
  BY <1>6 DEF R!Finish, R!Save, R!SaveBoundaries, R!Close, R!ExitFailure
<1>7. CASE R!ReadFails \/ R!Crash \/ R!Interrupt
  BY <1>7 DEF R!ReadFails, R!Crash, R!Interrupt
<1>8. CASE R!PressKey \/ R!DiskFills \/ R!Tick \/ R!Arrive \/ UNCHANGED recvVars
  BY <1>8 DEF R!PressKey, R!DiskFills, R!Tick, R!Arrive, recvVars
<1> QED
  BY <1>1, <1>2, <1>3, <1>4, <1>5, <1>6, <1>7, <1>8 DEF R!Process, R!Loop

\* The user who quits without haste has seen the count of everything sent.
LEMMA QuitStep ==
  ASSUME LinkInv, [Next]_vars
  PROVE  QuitInv'
<1> USE DEF lines
<1>1. QuitInv /\ quit \in BOOLEAN /\ hasty \in BOOLEAN
  BY DEF LinkInv, QuitInv
<1>2. /\ opt' = opt /\ got' \in 0..sent' /\ got' >= got /\ quit' \in BOOLEAN
      /\ got' \in Nat /\ sent' \in Nat
  <2>1. RP!CaptureInv /\ RP!TypeOK'
    BY ToolInvStep DEF LinkInv, RP!CaptureInv
  <2>2. opt' = opt /\ got' >= got /\ got' \in Nat
    BY <2>1, Assumed, ToolSteps, RP!FileGrows
  <2> QED
    BY <2>1, <2>2 DEF RP!TypeOK
<1>3. /\ UNCHANGED <<sendLine, recvLine, ends>>
      /\ taken' \in Nat /\ Total \in Nat /\ taken' <= Total
  <2>1. taken \in Nat /\ taken <= Len(wire) /\ Len(wire) <= Total /\ Total \in Nat
    BY LinkTypes
  <2>2. CASE Transmit
    BY <2>1, <2>2, TransmitStep, LinkTypes
  <2>3. CASE ~Transmit
    BY <2>1, <2>3, OthersKeepLine
  <2> QED
    BY <2>2, <2>3
<1>4. Protected' => sent' = taken'
  BY LineStep DEF LineInv, ProtectedInv
<1>5. Protected' => got' <= Total
  BY <1>2, <1>3, <1>4
<1>6. Total' = Total /\ (Protected' <=> Protected)
  BY <1>3 DEF Total, Protected
<1>7. hasty' \in BOOLEAN /\ (hasty => hasty') /\ (~quit /\ quit' /\ ~hasty' => shown = Total)
  <2>1. CASE Receiver
    BY <1>1, <2>1 DEF Receiver, TooEarly
  <2>2. CASE ~Receiver
    <3>1. hasty' = hasty
      BY <2>2 DEF Next, StartSend, StartRecv, Start, Sender, Transmit, Purge, vars
    <3>2. quit' = quit
      BY <2>2 DEF Next, StartSend, StartRecv, Start, Sender, Transmit, Purge, vars,
         recvVars, R!Arrive
    <3> QED
      BY <1>1, <3>1, <3>2
  <2> QED
    BY <2>1, <2>2
<1>8. /\ quit => quit'
      /\ rpc' \in {"save", "close", "success"} =>
           /\ UNCHANGED <<index, quit>> \/ (UNCHANGED index /\ quit')
           /\ rpc \in {"save", "close", "success"} \/ R!Done
  <2>1. \/ R!Process \/ R!ReadFails \/ R!Crash \/ R!PressKey \/ R!Interrupt
        \/ R!DiskFills \/ R!Tick \/ R!Arrive \/ UNCHANGED recvVars
    BY DEF Next, StartSend, StartRecv, Start, Sender, Receiver, Transmit, Purge, vars
  <2> QED
    BY <1>1, <2>1, RecvQuits
<1>9. Protected' /\ quit' /\ ~hasty' => got' = Total'
  <2>1. Protected /\ quit /\ ~hasty => got = Total
    BY <1>1 DEF QuitInv
  <2>2. shown = Total => got >= Total
    BY LinkTypes
  <2>3. got \in Nat /\ Total \in Nat
    BY LinkTypes
  <2> QED
    BY <1>1, <1>2, <1>5, <1>6, <1>7, <2>1, <2>2, <2>3
<1>10. rpc' \in {"save", "close", "success"} =>
         quit' \/ (opt'.mode = "buffer" /\ index' = opt'.size)
  BY <1>1, <1>2, <1>8 DEF QuitInv, R!Done
<1> QED
  BY <1>2, <1>7, <1>9, <1>10 DEF QuitInv

LEMMA LinkInvHolds == Spec => []LinkInv
<1>1. Init => LinkInv
  BY LinkInvInit
<1>2. LinkInv /\ [Next]_vars => LinkInv'
  BY ToolInvStep, LineStep, StageStep, QuitStep DEF LinkInv
<1> QED
  BY <1>1, <1>2, PTL DEF Spec

\* Every variable of the two tools and of the line keeps its type.
THEOREM LinkTypeCorrect == Spec => []TypeOK
<1> DEFINE Fixed == /\ sendLine \in SendCommands /\ recvLine \in RecvCommands
                    /\ purged \in BOOLEAN
<1>1. Init => Fixed
  BY DEF Init
<1>2. Fixed /\ [Next]_vars => Fixed'
  BY DEF Next, StartSend, StartRecv, Start, Sender, Receiver, Transmit, Purge, vars,
     lines, wires
<1>3. LinkInv /\ Fixed => TypeOK
  <2>1. SP!TypeOK => S!TypeOK
    BY DEF SP!TypeOK, S!TypeOK, SP!Ended, S!Ended
  <2>2. RP!TypeOK => R!TypeOK
    BY DEF RP!TypeOK, R!TypeOK, RP!Final, R!Final
  <2> QED
    BY <2>1, <2>2 DEF LinkInv, SP!SendInv, RP!CaptureInv, LineInv, StageInv, QuitInv, TypeOK
<1> QED
  BY <1>1, <1>2, <1>3, LinkInvHolds, PTL DEF Spec

\* DoCommandLine lets no size of 0 through to a loop that would then ask for
\* nothing, and every FT_Read asks for what is left of the buffer at most.
THEOREM BufferIsUsable == Spec => []BufferUsable
<1>1. LinkInv => BufferUsable
  <2> SUFFICES ASSUME LinkInv
               PROVE  R!ReadFits
    BY DEF BufferUsable
  <2>1. /\ opt \in Options /\ index \in 0..opt.size
        /\ opt.mode = "buffer" /\ rpc = "read" => index < opt.size
        /\ opt.mode = "circular" => index < opt.size
    BY DEF LinkInv, RP!CaptureInv, RP!TypeOK, RP!RingHolds
  <2>2. /\ opt.size \in Nat
        /\ opt.size = 0 <=> opt.mode = "stream"
        /\ opt.mode \in {"stream", "buffer", "circular"}
        /\ NumToRead \in Nat \ {0} /\ StreamBuf \in Nat \ {0}
    BY <2>1, Assumed DEF RP!RecvConstants
  <2> QED
    BY <2>1, <2>2 DEF R!ReadFits, R!ReadSize
<1> QED
  BY <1>1, LinkInvHolds, PTL

-----------------------------------------------------------------------------
\* The line, the other tool and the user who watches both make no tool do what
\* it would not do alone: a run of the two is, to each, one of its own.
THEOREM ToolsRunAsAlone ==
  Spec => /\ S!Init /\ [][S!Next]_(S!vars)
          /\ R!Init /\ [][R!Next]_(R!vars)
<1>1. Init => S!Init /\ R!Init
  BY DEF Init
<1>2. [Next]_vars => [S!Next]_(S!vars) /\ [R!Next]_(R!vars)
  <2> SUFFICES ASSUME [Next]_vars PROVE [S!Next]_(S!vars) /\ [R!Next]_(R!vars)
    OBVIOUS
  <2>1. (UNCHANGED sendVars => UNCHANGED S!vars) /\ (UNCHANGED recvVars => UNCHANGED R!vars)
    BY DEF sendVars, recvVars, S!vars, S!file, R!vars, R!ring, R!setup, R!world, R!bounds,
       R!progress
  <2>2. CASE StartSend \/ StartRecv \/ Purge \/ UNCHANGED vars
    BY <2>1, <2>2 DEF StartSend, StartRecv, Start, Purge, vars
  <2>3. CASE Sender
    BY <2>1, <2>3 DEF Sender, S!Next
  <2>4. CASE Receiver
    BY <2>1, <2>4 DEF Receiver, R!Next, R!Environment
  <2>5. CASE Transmit
    BY <2>1, <2>5 DEF Transmit, S!Next, R!Next, R!Environment
  <2> QED
    BY <2>2, <2>3, <2>4, <2>5 DEF Next
<1> QED
  BY <1>1, <1>2, PTL DEF Spec

\* d2xx_send keeps what Transmission promises of it, and d2xx_recv what Capture
\* does, whatever the other end of the line does.
THEOREM ToolsKeepPromises == Spec => SP!ImplementsTransmission /\ RP!ImplementsCapture
<1>1. Init => SP!Promise!Init /\ RP!Promise!Init
  BY SendSame, RecvSame DEF Init, SP!Init, SP!Promise!Init, SP!Outcome,
     RP!Init, RP!Promise!Init, RP!Outcome
<1>2. LinkInv /\ LinkInv' /\ [Next]_vars =>
        [SP!Promise!Next]_(SP!Promise!vars) /\ [RP!Promise!Next]_(RP!Promise!vars)
  BY Assumed, ToolSteps, SP!PromiseStep, RP!PromiseStep DEF LinkInv
<1> QED
  BY <1>1, <1>2, LinkInvHolds, PTL
  DEF Spec, SP!ImplementsTransmission, RP!ImplementsCapture, SP!Promise!Spec, RP!Promise!Spec

-----------------------------------------------------------------------------
(***************************************************************************)
(* What the file received holds.                                           *)
(***************************************************************************)
\* The file is a part of what arrived, without a gap: from the start, except
\* with --circular, and up to the end once d2xx_recv has succeeded.
LEMMA FileOnLine ==
  ASSUME LinkInv
  PROVE  /\ Received \in Seq(Nat) /\ DOMAIN Received = 1..Len(file)
         /\ Len(Received) = Len(file) /\ Len(file) \in Nat
         /\ \A i \in 1..Len(file) : file[i] \in 1..Len(line)
         /\ \E a \in Nat :
              /\ a + Len(file) <= sent
              /\ \A i \in 1..Len(file) : Received[i] = line[a + i]
              /\ opt.mode # "circular" \/ got <= opt.size => a = 0
         /\ rpc = "success" /\ (opt.mode = "stream" \/ got <= opt.size) => Len(file) = got
<1> DEFINE a == IF opt.mode = "circular" /\ got > opt.size THEN got - opt.size ELSE 0
           w == Bytes(a, got)
<1>1. /\ file \in Seq(Nat) /\ got \in Nat /\ sent \in Nat /\ got <= sent /\ opt \in Options
      /\ RP!IsPrefix(file, RP!Promise!Window(opt.mode, opt.size, got))
      /\ rpc = "success" => file = RP!Promise!Window(opt.mode, opt.size, got)
  BY DEF LinkInv, RP!CaptureInv, RP!TypeOK, RP!FileHolds
<1>2. opt.size \in Nat /\ opt.mode \in {"stream", "buffer", "circular"}
  BY <1>1, Assumed DEF RP!RecvConstants
<1>3. a \in Nat /\ a <= got
  BY <1>1, <1>2
<1>4. RP!Promise!Window(opt.mode, opt.size, got) = w
  BY DEF RP!Promise!Window, RP!Promise!Bytes, Bytes
<1> HIDE DEF a
<1>5. w \in Seq(Nat) /\ Len(w) = got - a /\ \A i \in 1..(got - a) : w[i] = a + i
  BY <1>1, <1>3, BytesProperties
<1>6. IsPrefix(file, w)
  BY <1>1, <1>4 DEF IsPrefix, RP!IsPrefix
<1> HIDE DEF w
<1>7. Len(file) <= got - a /\ Len(file) \in Nat /\ \A i \in 1..Len(file) : file[i] = w[i]
  BY <1>1, <1>5, <1>6, PrefixElements, LenProperties
<1>8. \A i \in 1..Len(file) : file[i] = a + i
  BY <1>1, <1>3, <1>5, <1>7
<1>9. a + Len(file) <= sent
  BY <1>1, <1>3, <1>7
<1>10. DOMAIN file = 1..Len(file)
  BY <1>1, LenProperties
<1>11. DOMAIN Received = 1..Len(file) /\ \A i \in 1..Len(file) : Received[i] = line[a + i]
  BY <1>8, <1>10 DEF Received
<1>12. line \in Seq(Nat) /\ \A i \in 1..Len(file) : file[i] \in 1..Len(line)
  <2>1. line \in Seq(Nat) /\ Len(line) = sent
    BY LinkTypes
  <2> SUFFICES ASSUME NEW i \in 1..Len(file) PROVE file[i] \in 1..Len(line)
    BY <2>1
  <2>2. a + i \in 1..sent
    BY <1>1, <1>3, <1>7, <1>9
  <2> QED
    BY <1>8, <2>1, <2>2
<1>16. Received \in Seq(Nat) /\ Len(Received) = Len(file)
  <2>1. Received = [i \in 1..Len(file) |-> line[file[i]]]
    BY <1>10 DEF Received
  <2>2. \A i \in 1..Len(file) : line[file[i]] \in Nat
    BY <1>12, ElementOfSeq
  <2> QED
    BY <1>7, <2>1, <2>2
<1>13. opt.mode # "circular" \/ got <= opt.size => a = 0
  BY <1>1, <1>2 DEF a
<1>14. rpc = "success" => Len(file) = got - a
  BY <1>1, <1>4, <1>5
<1>15. rpc = "success" /\ (opt.mode = "stream" \/ got <= opt.size) => Len(file) = got
  BY <1>1, <1>2, <1>13, <1>14
<1> QED
  BY <1>3, <1>7, <1>9, <1>11, <1>12, <1>13, <1>15, <1>16

\* Each byte of the file received has been passed on by d2xx_send, later than
\* the ones before it.
LEMMA ReceivedIsSent ==
  ASSUME LinkInv, NEW i \in DOMAIN Received, NEW j \in DOMAIN Received
  PROVE  /\ Received[i] \in 1..Len(wire)
         /\ i < j => Received[i] < Received[j]
<1>1. /\ i \in 1..Len(file) /\ j \in 1..Len(file) /\ Len(file) \in Nat
  BY FileOnLine
<1>2. PICK a \in Nat : /\ a + Len(file) <= sent
                       /\ \A k \in 1..Len(file) : Received[k] = line[a + k]
  BY FileOnLine
<1>3. sent \in Nat /\ Len(line) = sent /\ taken \in 0..Len(wire) /\ Len(wire) \in Nat
  BY LinkTypes
<1>4. a + i \in 1..Len(line) /\ a + j \in 1..Len(line) /\ (i < j => a + i < a + j)
  <2>1. a + Len(file) <= Len(line) /\ Len(line) \in Nat
    BY <1>2, <1>3
  <2> QED
    BY <1>1, <2>1
<1>5. line[a + i] \in 1..taken /\ (i < j => line[a + i] < line[a + j])
  BY <1>4 DEF LinkInv, LineInv
<1> QED
  BY <1>1, <1>2, <1>3, <1>5

\* Whatever the command lines, and whatever the line loses, the file received
\* holds bytes of the files sent, in their order and none of them twice.
THEOREM NothingIsInvented == Spec => []NothingInvented
<1>1. LinkInv => NothingInvented
  <2> SUFFICES ASSUME LinkInv, NEW i \in DOMAIN Received, NEW j \in DOMAIN Received
               PROVE  /\ Received[i] \in 1..Total
                      /\ i < j => Received[i] < Received[j]
    BY DEF NothingInvented
  <2>1. Len(wire) \in 0..Total /\ Total \in Nat
    BY LinkTypes
  <2> QED
    BY <2>1, ReceivedIsSent
<1> QED
  BY <1>1, LinkInvHolds, PTL

\* On a line that loses nothing, the file received is a part of the files that
\* d2xx_send has passed on.
LEMMA ReceivedIsPart ==
  ASSUME LinkInv, Protected
  PROVE  \E a \in 0..Len(wire) :
           /\ a + Len(Received) <= Len(wire)
           /\ \A k \in 1..Len(Received) : Received[k] = a + k
           /\ opt.mode # "circular" => a = 0
<1>1. /\ Received \in Seq(Nat) /\ Len(Received) = Len(file) /\ Len(file) \in Nat
  BY FileOnLine
<1>2. PICK a \in Nat : /\ a + Len(file) <= sent
                       /\ \A k \in 1..Len(file) : Received[k] = line[a + k]
                       /\ opt.mode # "circular" => a = 0
  BY FileOnLine
<1>3. sent \in Nat /\ Len(line) = sent /\ taken \in 0..Len(wire) /\ Len(wire) \in Nat
  BY LinkTypes
<1>4. Len(line) = taken /\ \A k \in 1..Len(line) : line[k] = k
  BY DEF LinkInv, ProtectedInv
<1>5. \A k \in 1..Len(file) : a + k \in 1..Len(line)
  BY <1>1, <1>2, <1>3
<1>6. \A k \in 1..Len(file) : Received[k] = a + k
  BY <1>2, <1>4, <1>5
<1>7. a \in 0..Len(wire) /\ a + Len(Received) <= Len(wire)
  BY <1>1, <1>2, <1>3, <1>4
<1> QED
  BY <1>1, <1>2, <1>6, <1>7

\* With the same flow control at both ends the file received is the beginning
\* of what was sent or, with --circular, a part of it without a gap.
THEOREM NothingIsMissing == Spec => []NothingMissing
<1>1. LinkInv => NothingMissing
  <2> SUFFICES ASSUME LinkInv, Protected
               PROVE  /\ \A i \in 1..(Len(Received) - 1) : Received[i + 1] = Received[i] + 1
                      /\ opt.mode # "circular" => IsPrefix(Received, wire)
    BY DEF NothingMissing
  <2>1. /\ Received \in Seq(Nat) /\ Len(Received) \in Nat
        /\ wire \in Seq(Nat) /\ Len(wire) \in Nat /\ \A k \in 1..Len(wire) : wire[k] = k
    BY FileOnLine, LinkTypes
  <2>2. PICK a \in 0..Len(wire) :
           /\ a + Len(Received) <= Len(wire)
           /\ \A k \in 1..Len(Received) : Received[k] = a + k
           /\ opt.mode # "circular" => a = 0
    BY ReceivedIsPart
  <2>3. ASSUME NEW i \in 1..(Len(Received) - 1) PROVE Received[i + 1] = Received[i] + 1
    <3>1. i \in 1..Len(Received) /\ i + 1 \in 1..Len(Received) /\ i \in Nat
      BY <2>1
    <3> QED
      BY <2>2, <3>1
  <2>4. ASSUME opt.mode # "circular" PROVE IsPrefix(Received, wire)
    <3>1. /\ Len(Received) <= Len(wire)
          /\ \A k \in 1..Len(Received) : Received[k] = wire[k]
      BY <2>1, <2>2, <2>4
    <3> QED
      BY <2>1, <3>1, PrefixElements
  <2> QED
    BY <2>3, <2>4
<1> QED
  BY <1>1, LinkInvHolds, PTL

LEMMA WholeOnSuccess ==
  ASSUME LinkInv
  PROVE  TransferWhole
<1> SUFFICES ASSUME LinkInv, rpc = "success", Protected, ~hasty,
                    opt.mode = "stream" \/ Total <= opt.size
             PROVE  Received = Bytes(0, Total)
  BY DEF TransferWhole
<1>1. /\ sent \in Nat /\ got \in Nat /\ got <= sent /\ Len(line) = sent /\ Total \in Nat
      /\ taken \in Nat /\ taken <= Total
  BY LinkTypes
<1>2. Len(line) = taken /\ \A k \in 1..Len(line) : line[k] = k
  BY DEF LinkInv, ProtectedInv
<1>3. got = Total
  <2>1. CASE quit
    BY <2>1 DEF LinkInv, QuitInv
  <2>2. CASE opt.mode = "buffer" /\ index = opt.size
    <3>1. got = index
      BY <2>2 DEF LinkInv, RP!CaptureInv, RP!RingHolds
    <3> QED
      BY <1>1, <1>2, <2>2, <3>1
  <2> QED
    BY <2>1, <2>2 DEF LinkInv, QuitInv
<1>4. /\ Received \in Seq(Nat) /\ Len(Received) = Total /\ Len(file) = Total
  BY <1>3, FileOnLine
<1>5. PICK a \in Nat : /\ \A k \in 1..Len(file) : Received[k] = line[a + k]
                       /\ opt.mode # "circular" \/ got <= opt.size => a = 0
  BY FileOnLine
<1>6. \A k \in 1..Total : Received[k] = k
  BY <1>1, <1>2, <1>3, <1>4, <1>5
<1>7. /\ Bytes(0, Total) \in Seq(Nat) /\ Len(Bytes(0, Total)) = Total
      /\ \A k \in 1..Total : Bytes(0, Total)[k] = k
  <2> DEFINE b == Bytes(0, Total)
  <2>1. 0 \in Nat /\ 0 <= Total /\ Total - 0 = Total
    BY <1>1
  <2>2. b \in Seq(Nat) /\ Len(b) = Total /\ \A k \in 1..Total : b[k] = 0 + k
    BY <1>1, <2>1, BytesProperties
  <2> HIDE DEF b
  <2>3. \A k \in 1..Total : b[k] = k
    BY <1>1, <2>2
  <2> QED
    BY <2>2, <2>3 DEF b
<1> QED
  BY <1>4, <1>6, <1>7, SeqEqual

\* The user who waits for the count of the files, or whose --buffer has been
\* filled by them, has all of them in the file when d2xx_recv succeeds.
THEOREM TransferIsWhole == Spec => []TransferWhole
BY WholeOnSuccess, LinkInvHolds, PTL

-----------------------------------------------------------------------------
(***************************************************************************)
(* The two tools and the line implement Transfer.                          *)
(***************************************************************************)
\* A step appends to the file received, and only while d2xx_recv is running.
LEMMA ReceivedGrows ==
  ASSUME LinkInv, LinkInv', Received \in Seq(Nat), Received' \in Seq(Nat), [Next]_vars
  PROVE  /\ IsPrefix(Received, Received')
         /\ rpc \notin RP!NotSaved => Received' = Received
         /\ file' = file => Received' = Received
<1>1. /\ file \in Seq(Nat) /\ file' \in Seq(Nat)
      /\ line \in Seq(Nat) /\ line' \in Seq(Nat)
  BY DEF LinkInv, RP!CaptureInv, RP!TypeOK, LineInv
<1>2. IsPrefix(file, file') /\ (rpc \notin RP!NotSaved => file' = file)
  <2>1. RP!CaptureInv
    BY DEF LinkInv
  <2>2. RP!IsPrefix(file, file') /\ (rpc \notin RP!NotSaved => file' = file)
    BY <2>1, Assumed, ToolSteps, RP!FileGrows
  <2> QED
    BY <2>2 DEF IsPrefix, RP!IsPrefix
<1>3. /\ Len(file) \in Nat /\ Len(file') \in Nat /\ Len(file) <= Len(file')
      /\ \A i \in 1..Len(file) : file'[i] = file[i]
      /\ DOMAIN file = 1..Len(file) /\ DOMAIN file' = 1..Len(file')
  BY <1>1, <1>2, PrefixElements, LenProperties
<1>4. \A k \in 1..Len(line) : line'[k] = line[k]
  <2>1. CASE Transmit
    <3>1. taken + 1 \in Nat
      BY LinkTypes
    <3>2. line' = Append(line, taken + 1) \/ line' = line
      BY <2>1, TransmitStep
    <3>3. \A k \in 1..Len(line) : Append(line, taken + 1)[k] = line[k]
      BY <1>1, <3>1, AppendProperties
    <3> QED
      BY <3>2, <3>3
  <2>2. CASE ~Transmit
    BY <2>2, OthersKeepLine
  <2> QED
    BY <2>1, <2>2
<1>5. \A i \in 1..Len(file) : file[i] \in 1..Len(line)
  BY FileOnLine
<1>6. \A i \in 1..Len(file) : Received'[i] = Received[i]
  BY <1>3, <1>4, <1>5 DEF Received
<1>7. Len(Received) = Len(file) /\ Len(Received') = Len(file')
  BY <1>3, LenProperties DEF Received
<1>8. IsPrefix(Received, Received')
  BY <1>3, <1>6, <1>7, PrefixElements
<1>9. ASSUME file' = file PROVE Received' = Received
  BY <1>3, <1>6, <1>9 DEF Received
<1> QED
  BY <1>2, <1>8, <1>9

\* What FileOnLine says is what Transfer lets be received.
LEMMA ReceivedMayBe ==
  ASSUME LinkInv
  PROVE  Promise!MayBeReceived(Received)
<1>1. /\ Received \in Seq(Nat) /\ Len(Received) \in Nat /\ DOMAIN Received = 1..Len(Received)
      /\ Len(wire) \in Nat
  BY FileOnLine, LinkTypes
<1>2. \A i, j \in 1..Len(Received) :
         Received[i] \in 1..Len(wire) /\ (i < j => Received[i] < Received[j])
  BY <1>1, ReceivedIsSent
<1>3. ASSUME Protected
      PROVE  \E a \in 0..Len(wire) : /\ Received = Bytes(a, a + Len(Received))
                                     /\ opt.mode # "circular" => a = 0
  <2>1. PICK a \in 0..Len(wire) :
           /\ \A k \in 1..Len(Received) : Received[k] = a + k
           /\ opt.mode # "circular" => a = 0
    BY <1>3, ReceivedIsPart
  <2> DEFINE b == a + Len(Received)
             s == Bytes(a, b)
  <2>2. a \in Nat /\ b \in Nat /\ a <= b /\ b - a = Len(Received)
    BY <1>1
  <2>3. s \in Seq(Nat) /\ Len(s) = b - a /\ \A i \in 1..(b - a) : s[i] = a + i
    <3> HIDE DEF b
    <3> QED
      BY <2>2, BytesProperties
  <2> HIDE DEF s, b
  <2>4. Received = s
    BY <1>1, <2>1, <2>2, <2>3, SeqEqual
  <2> QED
    BY <2>1, <2>4 DEF s, b
<1> QED
  BY <1>2, <1>3 DEF Promise!MayBeReceived, Bytes, Promise!Bytes

\* The user who ends d2xx_recv does nothing else in the same step.
LEMMA QuitAlone ==
  ASSUME Receiver, ~(hasty' <=> hasty), hasty \in BOOLEAN
  PROVE  hasty' = TRUE /\ UNCHANGED <<rpc, file>>
<1>1. quit' # quit /\ hasty' = TRUE
  BY DEF Receiver, TooEarly
<1>2. R!PressKey \/ R!Interrupt
  <2> USE <1>1
  <2>1. ~R!ReadFails /\ ~R!Crash /\ ~R!DiskFills /\ ~R!Tick
    BY DEF R!ReadFails, R!Crash, R!DiskFills, R!Tick
  <2>2. ~R!Setup
    BY DEF R!Setup, R!SetTimeouts, R!OpenOutput, R!OpenBoundaries, R!InstallHandler
  <2>3. ~R!Loop
    BY DEF R!Loop, R!ShouldQuit, R!ReadToBuffer, R!ReadToRing, R!ReadToFile,
       R!ReadToFileFails, R!ReadAndRecord
  <2>4. ~R!Finish
    BY DEF R!Finish, R!Save, R!SaveBoundaries, R!Close, R!ExitFailure
  <2> QED
    BY <2>1, <2>2, <2>3, <2>4 DEF Receiver, R!Process
<1> QED
  BY <1>1, <1>2 DEF R!PressKey, R!Interrupt

\* A step of d2xx_recv is one of Transfer, or hidden from it.
LEMMA ReceiverStep ==
  ASSUME LinkInv, LinkInv', Receiver,
         Received \in Seq(Nat), Received' \in Seq(Nat),
         Promise!MayBeReceived(Received)', TransferWhole'
  PROVE  Promise!Next \/ UNCHANGED Promise!vars
<1>1. /\ UNCHANGED <<Total, Protected, wire>> /\ opt' = opt
      /\ stage.recv = "running" /\ stage' = stage
      /\ hasty \in BOOLEAN /\ hasty' \in BOOLEAN
  <2>1. opt' = opt
    <3>1. RP!CaptureInv
      BY DEF LinkInv
    <3> QED
      BY <3>1, Assumed, ToolSteps, RP!FileGrows DEF Next
  <2> QED
    BY <2>1 DEF Receiver, lines, sendVars, Total, Protected, LinkInv, QuitInv
<1>2. UNCHANGED Promise!config
  BY <1>1 DEF Promise!config
<1>3. Outcome = R!Outcome /\ Outcome' = R!Outcome'
  BY <1>1 DEF Outcome
<1>4. /\ IsPrefix(Received, Received')
      /\ rpc \notin RP!NotSaved => Received' = Received
      /\ file' = file => Received' = Received
  BY ReceivedGrows DEF Next
<1>5. /\ rpc' = "success" /\ rpc # "success" => file' = file
      /\ R!Outcome # "capturing" => R!Outcome' = R!Outcome
  <2>1. RP!CaptureInv
    BY DEF LinkInv
  <2>2. [RP!Next]_(RP!vars)
    BY ToolSteps DEF Next
  <2>3. /\ rpc' = "success" /\ rpc # "success" => UNCHANGED <<got, file>>
        /\ RP!Outcome # "capturing" => RP!Outcome' = RP!Outcome
    BY <2>1, <2>2, Assumed, RP!OutcomeSteps
  <2>4. RP!Outcome = R!Outcome /\ RP!Outcome' = R!Outcome'
    BY DEF RP!Outcome, R!Outcome
  <2> QED
    BY <2>3, <2>4
<1>6. CASE ~(hasty' <=> hasty)
  <2>1. hasty' = TRUE /\ UNCHANGED <<rpc, file>>
    BY <1>1, <1>6, QuitAlone
  <2>2. Outcome' = Outcome /\ Received' = Received
    BY <1>3, <1>4, <2>1 DEF R!Outcome
  <2> QED
    BY <1>1, <1>2, <2>1, <2>2 DEF Promise!Next, Promise!Hurry
<1>7. CASE hasty' <=> hasty
  <2>1. UNCHANGED <<~hasty, Len(wire)>>
    BY <1>1, <1>7
  <2>2. Promise!Grow
    <3>1. Promise!MayBeReceived(Received')
      BY <1>1, <2>1 DEF Promise!MayBeReceived
    <3> QED
      BY <1>2, <1>4, <2>1, <3>1 DEF Promise!Grow, IsPrefix, Promise!IsPrefix
  <2>3. CASE Outcome = "capturing" /\ Outcome' = "capturing"
    BY <2>2, <2>3 DEF Promise!Next, Promise!Receive
  <2>4. CASE Outcome = "capturing" /\ Outcome' = "failed"
    BY <2>2, <2>4 DEF Promise!Next, Promise!Fail
  <2>5. CASE Outcome = "capturing" /\ Outcome' = "saved"
    <3>1. rpc' = "success" /\ rpc # "success"
      BY <1>3, <2>5 DEF R!Outcome
    <3>2. Received' = Received
      BY <1>4, <1>5, <3>1
    <3>3. Protected /\ ~hasty /\ (opt.mode = "stream" \/ Total <= opt.size)
            => Received = Bytes(0, Total)
      <4>1. Bytes(0, Total)' = Bytes(0, Total)
        BY <1>1 DEF Bytes
      <4> QED
        BY <1>1, <2>1, <3>1, <3>2, <4>1 DEF TransferWhole
    <3> QED
      BY <1>2, <2>1, <2>5, <3>2, <3>3
      DEF Promise!Next, Promise!Save, Bytes, Promise!Bytes
  <2>6. CASE Outcome # "capturing"
    <3>1. Outcome' = Outcome /\ rpc \notin RP!NotSaved
      BY <1>3, <1>5, <2>6 DEF R!Outcome, RP!NotSaved
    <3> QED
      BY <1>2, <1>4, <2>1, <3>1 DEF Promise!vars
  <2> QED
    BY <1>3, <2>3, <2>4, <2>5, <2>6 DEF R!Outcome
<1> QED
  BY <1>6, <1>7

\* Any other step passes bytes on, or ends d2xx_recv before it has begun.
LEMMA OtherStep ==
  ASSUME LinkInv, LinkInv', [Next]_vars, ~Receiver,
         Received \in Seq(Nat), Received' \in Seq(Nat),
         Promise!MayBeReceived(Received)', Total' \in Nat, Len(wire)' \in 0..Total'
  PROVE  Promise!Next \/ UNCHANGED Promise!vars
<1> USE DEF lines, wires
<1>1. /\ UNCHANGED <<Total, Protected, file>> /\ opt' = opt /\ hasty' = hasty
      /\ rpc' = rpc /\ Received' = Received
  <2>1. /\ UNCHANGED <<lines, ends, file, hasty, rpc>> /\ opt' = opt
    <3>1. CASE StartSend \/ StartRecv \/ Purge \/ UNCHANGED vars
      BY <3>1 DEF StartSend, StartRecv, Start, Purge, vars, sendVars, recvVars
    <3>2. CASE Sender
      <4>1. ~Transmit \/ UNCHANGED ends
        BY TransmitStep
      <4> QED
        BY <3>2, <4>1, OthersKeepLine DEF Sender, recvVars
    <3>3. CASE Transmit
      BY <3>3, TransmitStep DEF Transmit, recvVars, R!Arrive
    <3> QED
      BY <3>1, <3>2, <3>3 DEF Next
  <2> QED
    BY <2>1, ReceivedGrows DEF Total, Protected
<1>2. UNCHANGED <<Promise!config, ~hasty>>
  BY <1>1 DEF Promise!config
<1>3. CASE ~StartRecv
  <2>1. Outcome' = Outcome
    <3>1. stage' = stage \/ StartSend
      BY <1>3 DEF Next, Sender, Transmit, Purge, vars
    <3>2. stage'.recv = stage.recv
      BY <3>1 DEF LinkInv, StageInv, StartSend, Start, Refusal
    <3> QED
      BY <1>1, <3>2 DEF Outcome, R!Outcome
  <2>2. Len(wire) <= Len(wire')
    <3>1. SP!TypeOK
      BY DEF LinkInv, SP!SendInv
    <3> QED
      BY <3>1, Assumed, ToolSteps, SP!WireGrows
  <2> QED
    BY <1>1, <1>2, <2>1, <2>2 DEF Promise!Next, Promise!Send
<1>4. CASE StartRecv
  <2>1. /\ stage.recv = "starting" /\ wire' = wire
        /\ stage'.recv \in {"running", "failure", "success"}
    BY <1>4 DEF StartRecv, Start, sendVars, LinkInv, StageInv, Refusal
  <2>2. R!Outcome = "capturing" /\ R!Outcome' = "capturing"
    BY <1>1, <2>1 DEF LinkInv, StageInv, R!Outcome
  <2>3. Outcome = "capturing" /\ Outcome' \in {"capturing", "failed"}
    BY <2>1, <2>2 DEF Outcome
  <2>4. Promise!Grow
    <3>1. Promise!MayBeReceived(Received')
      BY <1>1, <2>1 DEF Promise!MayBeReceived
    <3> QED
      BY <1>2, <2>1, <3>1, ReceivedGrows DEF Promise!Grow, IsPrefix, Promise!IsPrefix
  <2> QED
    BY <2>3, <2>4 DEF Promise!Next, Promise!Receive, Promise!Fail
<1> QED
  BY <1>3, <1>4

\* The file received only grows, by what d2xx_send has passed on by then, in
\* order; when d2xx_recv ends it stays as it is, and if it ends well after the
\* user has waited it is whole.
THEOREM LinkImplementsTransfer == Spec => ImplementsTransfer
<1>1. Init => Promise!Init
  <2> SUFFICES ASSUME Init PROVE Promise!Init
    OBVIOUS
  <2>1. file = << >> /\ wire = << >> /\ ~hasty /\ rpc = "timeouts" /\ stage.recv = "starting"
    BY DEF Init, S!Init, R!Init
  <2>2. Received \in Seq(Nat) /\ Len(Received) = Len(file)
    BY LinkInvInit, FileOnLine
  <2>3. Received = << >> /\ Len(wire) = 0
    BY <2>1, <2>2, EmptySeq
  <2>4. Outcome = "capturing"
    BY <2>1 DEF Outcome, R!Outcome
  <2> QED
    BY <2>1, <2>3, <2>4 DEF Promise!Init
<1> DEFINE Facts == /\ Received \in Seq(Nat) /\ Promise!MayBeReceived(Received)
                    /\ TransferWhole /\ Total \in Nat /\ Len(wire) \in 0..Total
<1>2. LinkInv => Facts
  BY FileOnLine, ReceivedMayBe, WholeOnSuccess, LinkTypes
<1>3. LinkInv /\ LinkInv' /\ Facts /\ Facts' /\ [Next]_vars
        => [Promise!Next]_(Promise!vars)
  <2> SUFFICES ASSUME LinkInv, LinkInv', Facts, Facts', [Next]_vars
               PROVE  Promise!Next \/ UNCHANGED Promise!vars
    OBVIOUS
  <2>1. /\ Received \in Seq(Nat) /\ Received' \in Seq(Nat)
        /\ Promise!MayBeReceived(Received)' /\ TransferWhole'
        /\ Total' \in Nat /\ Len(wire)' \in 0..Total'
    OBVIOUS
  <2> QED
    BY <2>1, ReceiverStep, OtherStep
<1> HIDE DEF Facts
<1> QED
  BY <1>1, <1>2, <1>3, LinkInvHolds, PTL DEF Spec, Promise!Spec, ImplementsTransfer
=============================================================================
