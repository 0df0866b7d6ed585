----------------------------- MODULE RecvProofs -----------------------------
(***************************************************************************)
(* Proofs about Recv, for every buffer size, read size and byte stream.    *)
(***************************************************************************)
EXTENDS Recv, ByteStreamProofs

USE DEF RecvConstants

\* What is known of a command line.
LEMMA OptionTypes ==
  ASSUME NEW o \in Options
  PROVE  /\ o.mode \in {"stream", "buffer", "circular"}
         /\ o.size \in Nat
         /\ o.boundaries \in BOOLEAN /\ o.windows \in BOOLEAN
         /\ o.size = 0 <=> o.mode = "stream"
BY RecvAssumption

\* Whatever fwrite accepts of some bytes, a file of bytes stays one and the
\* disk holds no more than was accepted.
LEMMA WriteTypes ==
  ASSUME file \in Seq(Nat), disk \in 0..Len(file), NEW data \in Seq(Nat),
         WriteDataToFile(data) \/ WriteDataFails(data)
  PROVE  file' \in Seq(Nat) /\ disk' \in 0..Len(file')
<1>1. Len(file) \in Nat /\ Len(data) \in Nat
  BY LenProperties
<1>2. CASE WriteDataToFile(data)
  <2>1. file \o data \in Seq(Nat) /\ Len(file \o data) = Len(file) + Len(data)
    BY ConcatProperties
  <2> QED
    BY <1>1, <1>2, <2>1 DEF WriteDataToFile
<1>3. CASE WriteDataFails(data)
  <2>1. PICK k \in 0..(Len(data) - 1) : file' = file \o SubSeq(data, 1, k)
    BY <1>3 DEF WriteDataFails
  <2>2. file' \in Seq(Nat) /\ Len(file') = Len(file) + k
    BY <1>1, <2>1, PrefixOfPart
  <2> QED
    BY <1>1, <1>3, <2>2 DEF WriteDataFails
<1> QED
  BY <1>2, <1>3

LEMMA PartTypes ==
  ASSUME NEW s \in Seq(Nat), NEW t \in Seq(Nat), NEW k \in 0..(Len(t) - 1)
  PROVE  /\ s \o SubSeq(t, 1, k) \in Seq(Nat)
         /\ IsPrefix(s \o SubSeq(t, 1, k), s \o t)
<1>1. k \in 0..Len(t)
  BY LenProperties
<1> QED
  BY <1>1, PrefixOfPart

\* What a read returns fits the buffer and is there to be read.
LEMMA ReadTypes ==
  ASSUME TypeOK
  PROVE  /\ ReadSize \in Nat /\ Received \in 0..ReadSize
         /\ got + Received \in 0..sent
         /\ opt.mode # "stream" => index + Received \in 0..opt.size
<1> opt \in Options /\ index \in 0..opt.size /\ sent \in Nat /\ got \in 0..sent
  BY DEF TypeOK
<1>1. ReadSize \in Nat
      /\ (opt.mode # "stream" => index + ReadSize \in 0..opt.size)
  BY OptionTypes, RecvAssumption DEF ReadSize
<1>2. Received \in 0..ReadSize /\ Received <= sent - got
  BY <1>1 DEF Received
<1> QED
  BY <1>1, <1>2, OptionTypes

\* Main2's loops read into the buffer only.
LEMMA FillTypes ==
  ASSUME TypeOK
  PROVE  Fill \in [0..(opt.size - 1) -> Nat]
<1> buffer \in [0..(opt.size - 1) -> Nat] /\ got \in Nat /\ index \in Nat
  BY OptionTypes DEF TypeOK
<1> Received \in Nat /\ opt.size \in Nat
  BY ReadTypes, OptionTypes DEF TypeOK
<1>1. ASSUME NEW j \in 0..(opt.size - 1)
      PROVE  (IF j \in index..(index + Received - 1)
              THEN got + 1 + (j - index) ELSE buffer[j]) \in Nat
  OBVIOUS
<1> QED
  BY <1>1 DEF Fill

-----------------------------------------------------------------------------
\* Main2 writes to the files only bytes and offsets.
LEMMA ChunkTypes ==
  ASSUME TypeOK
  PROVE  Chunk \in Seq(Nat) /\ Len(Chunk) = Received
<1>1. got \in Nat /\ Received \in Nat
  BY ReadTypes DEF TypeOK
<1>2. got + Received \in Nat /\ got <= got + Received /\ (got + Received) - got = Received
  BY <1>1
<1> QED
  BY <1>1, <1>2, BytesProperties DEF Chunk

LEMMA SliceTypes ==
  ASSUME TypeOK, NEW a \in Nat, NEW b \in Nat, a <= b, b <= opt.size
  PROVE  /\ Slice(a, b) \in Seq(Nat) /\ Len(Slice(a, b)) = b - a
         /\ \A i \in 1..(b - a) : Slice(a, b)[i] = buffer[a + i - 1]
<1>1. opt.size \in Nat
  BY OptionTypes DEF TypeOK
<1>2. ASSUME NEW i \in 1..(b - a) PROVE buffer[a + i - 1] \in Nat
  <2>1. a + i - 1 \in 0..(opt.size - 1)
    BY <1>1
  <2> QED
    BY <2>1 DEF TypeOK
<1> QED
  BY <1>2 DEF Slice

LEMMA UnsavedTypes ==
  ASSUME TypeOK
  PROVE  Unsaved \in Seq(Nat)
<1>1. index \in Nat /\ opt.size \in Nat /\ index <= opt.size
  BY OptionTypes DEF TypeOK
<1>2. Slice(0, index) \in Seq(Nat) /\ Slice(index, opt.size) \in Seq(Nat)
  BY <1>1, SliceTypes
<1> QED
  BY <1>2, ConcatProperties, EmptySeq DEF Unsaved

\* Whatever memory holds of the records, they are as many; all of them are
\* what was stored if none was stored outside boundaries_buffer.
LEMMA StoredTypes ==
  ASSUME TypeOK, NEW r \in Stored
  PROVE  /\ r \in Seq(Nat) /\ Len(r) = Len(bbuf)
         /\ Len(bbuf) <= RecordsThatFit => r = bbuf
<1>1. bbuf \in Seq(Nat) /\ Len(bbuf) \in Nat /\ DOMAIN bbuf = 1..Len(bbuf)
  BY LenProperties DEF TypeOK
<1>2. PICK g \in SUBSET {i \in DOMAIN bbuf : i > RecordsThatFit} :
           r = [i \in DOMAIN bbuf |-> IF i \in g THEN Garbled ELSE bbuf[i]]
  BY DEF Stored
<1>3. ASSUME NEW i \in 1..Len(bbuf)
      PROVE  (IF i \in g THEN Garbled ELSE bbuf[i]) \in Nat
  BY <1>1, ElementOfSeq, RecvAssumption DEF Garbled
<1>4. r \in Seq(Nat) /\ Len(r) = Len(bbuf)
  BY <1>1, <1>2, <1>3
<1>5. ASSUME Len(bbuf) <= RecordsThatFit PROVE r = bbuf
  <2>1. RecordsThatFit \in Int
    BY RecvAssumption DEF RecordsThatFit, BoundariesCap, RecordSize
  <2>2. \A i \in 1..Len(bbuf) : r[i] = bbuf[i]
    BY <1>1, <1>2, <1>5, <2>1
  <2> QED
    BY <1>1, <1>4, <2>2, SeqEqual
<1> QED
  BY <1>4, <1>5

\* Every step keeps the variables in their types.
LEMMA TypeStep ==
  ASSUME TypeOK, [Next]_vars
  PROVE  TypeOK'
<1> USE DEF ring, setup, world, bounds, progress, Final, Goto
<1> opt \in Options /\ opt.size \in Nat
  BY OptionTypes DEF TypeOK
<1>1. CASE Setup
  BY <1>1 DEF Setup, SetTimeouts, OpenOutput, OpenBoundaries, InstallHandler, TypeOK
<1>2. CASE ShouldQuit
  BY <1>2 DEF ShouldQuit, TypeOK
<1>3. CASE ReadFails \/ Crash
  BY <1>3 DEF ReadFails, Crash, TypeOK
<1>4. ASSUME Read
      PROVE  got' \in 0..sent /\ splits' \in Seq(Nat)
  BY <1>4, ReadTypes, AppendProperties DEF Read, TypeOK
<1>5. ASSUME NEW force, NEW n \in Nat, ShowProgress(force, n)
      PROVE  shown' \in Nat /\ due' \in BOOLEAN
  BY <1>5 DEF ShowProgress, TypeOK
<1>6. CASE ReadToBuffer
  <2>1. index' \in 0..opt.size /\ buffer' \in [0..(opt.size - 1) -> Nat]
    BY <1>6, ReadTypes, FillTypes DEF ReadToBuffer
  <2>2. shown' \in Nat /\ due' \in BOOLEAN
    BY <1>5, <1>6, <2>1 DEF ReadToBuffer
  <2> QED
    BY <1>4, <1>6, <2>1, <2>2 DEF ReadToBuffer, TypeOK
<1>7. CASE ReadToRing
  <2>1. index' \in 0..opt.size /\ buffer' \in [0..(opt.size - 1) -> Nat]
    BY <1>7, ReadTypes, FillTypes DEF ReadToRing, RingIndex
  <2>2. index' \in Nat
    BY <2>1
  <2>3. shown' \in Nat /\ due' \in BOOLEAN
    BY <1>5, <1>7, <2>2 DEF ReadToRing
  <2> QED
    BY <1>4, <1>7, <2>1, <2>3 DEF ReadToRing, TypeOK
<1>8. CASE ReadToFile
  <2>1. file' \in Seq(Nat) /\ disk' \in 0..Len(file')
    BY <1>8, ChunkTypes, WriteTypes DEF ReadToFile, TypeOK
  <2>2. got' \in 0..sent /\ splits' \in Seq(Nat)
    BY <1>4, <1>8 DEF ReadToFile
  <2>3. shown' \in Nat /\ due' \in BOOLEAN
    <3>1. got' \in Nat
      BY <2>2 DEF TypeOK
    <3> QED
      BY <1>5, <1>8, <3>1 DEF ReadToFile
  <2> QED
    BY <1>8, <2>1, <2>2, <2>3 DEF ReadToFile, TypeOK
<1>9. CASE ReadToFileFails
  <2>1. file' \in Seq(Nat) /\ disk' \in 0..Len(file')
    BY <1>9, ChunkTypes, WriteTypes DEF ReadToFileFails, TypeOK
  <2>2. got' \in 0..sent /\ splits' \in Seq(Nat)
    BY <1>4, <1>9 DEF ReadToFileFails
  <2> QED
    BY <1>9, <2>1, <2>2 DEF ReadToFileFails, TypeOK
<1>10. CASE ReadAndRecord
  <2>1. file' \in Seq(Nat) /\ disk' \in 0..Len(file')
    BY <1>10, ChunkTypes, WriteTypes DEF ReadAndRecord, TypeOK
  <2>2. got' \in 0..sent /\ splits' \in Seq(Nat)
    BY <1>4, <1>10 DEF ReadAndRecord
  <2>3. Records \in Seq(Nat) /\ bfile \o Records \in Seq(Nat)
    BY AppendProperties, ConcatProperties DEF Records, TypeOK
  <2>4. ASSUME NEW k \in 0..(Len(Records) - 1)
        PROVE  bfile \o SubSeq(Records, 1, k) \in Seq(Nat)
    BY <2>3, PartTypes DEF TypeOK
  <2>5. bbuf' \in Seq(Nat) /\ bfile' \in Seq(Nat)
    <3> HIDE DEF Records, Full
    <3> QED
      BY <1>10, <2>3, <2>4, EmptySeq DEF ReadAndRecord, TypeOK
  <2>6. pc' \in {"check", "failing", "aborted"}
    BY <1>10 DEF ReadAndRecord
  <2>7. shown' \in Nat /\ due' \in BOOLEAN
    <3>1. got' \in Nat
      BY <2>2 DEF TypeOK
    <3>2. UNCHANGED progress \/ ShowProgress(FALSE, got')
      BY <1>10 DEF ReadAndRecord
    <3> QED
      BY <1>5, <3>1, <3>2 DEF TypeOK
  <2> QED
    BY <1>10, <2>1, <2>2, <2>5, <2>6, <2>7 DEF ReadAndRecord, TypeOK
<1>11. CASE Save
  <2>1. file' \in Seq(Nat) /\ disk' \in 0..Len(file')
    BY <1>11, UnsavedTypes, WriteTypes DEF Save, TypeOK
  <2> QED
    BY <1>11, <2>1 DEF Save, TypeOK
<1>12. CASE SaveBoundaries
  <2>1. ASSUME NEW r \in Stored, NEW k \in 0..(Len(r) - 1)
        PROVE  bfile \o SubSeq(r, 1, k) \in Seq(Nat)
    BY StoredTypes, PartTypes DEF TypeOK
  <2>2. ASSUME NEW r \in Stored PROVE bfile \o r \in Seq(Nat)
    BY StoredTypes, ConcatProperties DEF TypeOK
  <2>3. bfile' \in Seq(Nat) /\ pc' \in {"close", "failing"}
    <3> HIDE DEF Stored
    <3> QED
      BY <1>12, <2>1, <2>2 DEF SaveBoundaries, TypeOK
  <2> QED
    BY <1>12, <2>3 DEF SaveBoundaries, TypeOK
<1>13. CASE Close \/ ExitFailure
  <2>1. disk' \in 0..Len(file)
    BY <1>13, LenProperties DEF Close, ExitFailure, FlushAtExit, TypeOK
  <2> QED
    BY <1>13, <2>1 DEF Close, ExitFailure, TypeOK
<1>14. CASE Environment
  <2>1. CASE Arrive
    BY <2>1 DEF Arrive, TypeOK
  <2>2. CASE Interrupt
    <3>1. quit' \in BOOLEAN
      BY <2>2 DEF Interrupt, TypeOK
    <3>2. pc' = pc \/ pc' = "killed"
      BY <2>2 DEF Interrupt
    <3> QED
      BY <2>2, <3>1, <3>2 DEF Interrupt, TypeOK
  <2>3. CASE PressKey
    BY <2>3 DEF PressKey, TypeOK
  <2>4. CASE DiskFills
    BY <2>4 DEF DiskFills, TypeOK
  <2>5. CASE Tick
    BY <2>5 DEF Tick, TypeOK
  <2> QED
    BY <1>14, <2>1, <2>2, <2>3, <2>4, <2>5 DEF Environment
<1>15. CASE UNCHANGED vars
  BY <1>15 DEF vars, TypeOK
<1> QED
  BY <1>1, <1>2, <1>3, <1>6, <1>7, <1>8, <1>9, <1>10, <1>11, <1>12, <1>13,
     <1>14, <1>15 DEF Next, Process, Loop, Finish

\* The variables have their types initially.
LEMMA TypeInit ==
  ASSUME Init
  PROVE  TypeOK
<1>1. opt.size \in Nat
  BY OptionTypes DEF Init
<1>2. buffer \in [0..(opt.size - 1) -> Nat] /\ index \in 0..opt.size
  BY <1>1 DEF Init
<1>3. /\ file \in Seq(Nat) /\ disk \in 0..Len(file)
      /\ bbuf \in Seq(Nat) /\ bfile \in Seq(Nat) /\ splits \in Seq(Nat)
  BY EmptySeq DEF Init
<1> QED
  BY <1>2, <1>3 DEF Init, TypeOK

\* TypeOK is an invariant: reads and buffer indices stay inside the buffer.
THEOREM TypeCorrect == Spec => []TypeOK
<1>1. Init => TypeOK
  BY TypeInit
<1>2. TypeOK /\ [Next]_vars => TypeOK'
  BY TypeStep
<1> QED
  BY <1>1, <1>2, PTL DEF Spec

-----------------------------------------------------------------------------
\* The window of what has been received is a sequence of bytes.
LEMMA WindowTypes ==
  ASSUME NEW m, NEW n \in Nat, NEW g \in Nat
  PROVE  /\ Promise!Window(m, n, g) \in Seq(Nat)
         /\ m # "circular" => Promise!Window(m, n, g) = Bytes(0, g)
         /\ g <= n => Promise!Window(m, n, g) = Bytes(0, g)
         /\ m = "circular" /\ g >= n => Promise!Window(m, n, g) = Bytes(g - n, g)
<1> DEFINE a == IF m = "circular" /\ g > n THEN g - n ELSE 0
<1>1. a \in Nat /\ a <= g
  OBVIOUS
<1>2. Promise!Window(m, n, g) = Bytes(a, g)
  BY DEF Promise!Window, Promise!Bytes, Bytes
<1>3. Bytes(a, g) \in Seq(Nat)
  <2> HIDE DEF a
  <2> QED
    BY <1>1, BytesProperties
<1>4. (m # "circular" \/ g <= n) => a = 0
  OBVIOUS
<1>5. m = "circular" /\ g >= n => a = g - n
  OBVIOUS
<1> HIDE DEF a
<1> QED
  BY <1>2, <1>3, <1>4, <1>5

\* A read changes only the slots it reads into, which are free in buffer
\* mode and hold the oldest bytes of a ring that has wrapped.
LEMMA RingStepOfRead ==
  ASSUME TypeOK, RingHolds, ReadToBuffer \/ ReadToRing
  PROVE  RingHolds'
<1> DEFINE r == Received
<1>1. /\ opt' = opt /\ opt \in Options /\ opt.size \in Nat /\ got \in Nat
      /\ index \in 0..opt.size /\ r \in Nat /\ index + r \in 0..opt.size
      /\ got' = got + r /\ pc' = "check" /\ buffer' = Fill
  <2>1. opt.mode # "stream" /\ opt' = opt /\ got' = got + r /\ pc' = "check" /\ buffer' = Fill
    BY DEF ReadToBuffer, ReadToRing, Read
  <2>2. opt \in Options /\ opt.size \in Nat /\ got \in Nat /\ index \in 0..opt.size
    BY OptionTypes DEF TypeOK
  <2>3. r \in Nat /\ index + r \in 0..opt.size
    BY <2>1, ReadTypes
  <2> QED
    BY <2>1, <2>2, <2>3
<1>2. ASSUME NEW j \in 0..(opt.size - 1)
      PROVE  buffer'[j] = IF j >= index /\ j < index + r
                          THEN got + 1 + (j - index) ELSE buffer[j]
  <2>1. j \in index..(index + r - 1) <=> j >= index /\ j < index + r
    BY <1>1
  <2>2. j \in DOMAIN buffer
    BY DEF TypeOK
  <2> QED
    BY <1>1, <2>1, <2>2 DEF Fill
<1> HIDE DEF r
<1>3. CASE ReadToBuffer
  <2>1. opt.mode = "buffer" /\ ~wrapped /\ ~wrapped' /\ got = index /\ index' = index + r
    BY <1>3 DEF ReadToBuffer, RingHolds, r
  <2>2. \A j \in 0..(opt.size - 1) : j < index' => buffer'[j] = got' - index' + j + 1
    BY <1>1, <1>2, <2>1 DEF RingHolds
  <2> QED
    BY <1>1, <2>1, <2>2 DEF RingHolds
<1>4. CASE ReadToRing
  <2>1. opt.mode = "circular" /\ index < opt.size /\ (~wrapped => got = index)
        /\ (wrapped => got >= opt.size) /\ wrapped \in BOOLEAN
    BY <1>4 DEF ReadToRing, RingHolds, TypeOK
  <2>2. /\ index' = IF index + r = opt.size THEN 0 ELSE index + r
        /\ index + r = opt.size => wrapped' = TRUE
        /\ index + r # opt.size => wrapped' = wrapped
    BY <1>4 DEF ReadToRing, RingIndex, TypeOK, r
  <2>3. index' < opt.size /\ (~wrapped' => got' = index') /\ (wrapped' => got' >= opt.size)
    <3>1. CASE index + r = opt.size
      BY <1>1, <2>1, <2>2, <3>1
    <3>2. CASE index + r # opt.size
      BY <1>1, <2>1, <2>2, <3>2
    <3> QED
      BY <3>1, <3>2
  <2>4. ASSUME NEW j \in 0..(opt.size - 1)
        PROVE  /\ j < index' => buffer'[j] = got' - index' + j + 1
               /\ j >= index' /\ wrapped' => buffer'[j] = got' - opt.size - index' + j + 1
    <3>1. /\ j < index => buffer[j] = got - index + j + 1
          /\ j >= index /\ wrapped => buffer[j] = got - opt.size - index + j + 1
      BY DEF RingHolds
    <3>2. CASE index + r = opt.size
      <4>1. index' = 0 /\ wrapped' = TRUE /\ got' - opt.size = got - index
        BY <1>1, <2>1, <2>2, <3>2
      <4>2. buffer'[j] = got - index + j + 1
        BY <1>1, <1>2, <3>1, <3>2
      <4> QED
        BY <1>1, <4>1, <4>2
    <3>3. CASE index + r # opt.size
      <4>1. index' = index + r /\ wrapped' = wrapped /\ got' - index' = got - index
        BY <1>1, <2>1, <2>2, <3>3
      <4>2. CASE j < index'
        <5>1. buffer'[j] = got - index + j + 1
          BY <1>1, <1>2, <3>1, <4>1, <4>2
        <5> QED
          BY <1>1, <4>1, <4>2, <5>1
      <4>3. CASE j >= index'
        <5>1. wrapped => buffer'[j] = got - opt.size - index + j + 1
          BY <1>1, <1>2, <3>1, <4>1, <4>3
        <5> QED
          BY <1>1, <4>1, <4>3, <5>1
      <4> QED
        BY <1>1, <4>1, <4>2, <4>3
    <3> QED
      BY <3>2, <3>3
  <2> QED
    BY <1>1, <2>1, <2>3, <2>4 DEF RingHolds
<1> QED
  BY <1>3, <1>4

\* Every step keeps the bytes of the buffer where they belong.
LEMMA RingStep ==
  ASSUME TypeOK, RingHolds, [Next]_vars
  PROVE  RingHolds'
<1> USE DEF Goto
<1> opt \in Options /\ opt.size \in Nat /\ index \in 0..opt.size
  BY OptionTypes DEF TypeOK
<1>1. CASE ReadToBuffer \/ ReadToRing
  BY <1>1, RingStepOfRead
<1>2. CASE ReadToFile \/ ReadToFileFails \/ ReadAndRecord
  <2>1. opt' = opt /\ UNCHANGED ring /\ opt.mode = "stream" /\ opt.size = 0
    BY <1>2, OptionTypes DEF ReadToFile, ReadToFileFails, ReadAndRecord
  <2> QED
    BY <2>1 DEF RingHolds, ring
<1>3. CASE ShouldQuit
  <2>1. UNCHANGED <<opt, got, ring>>
    BY <1>3 DEF ShouldQuit
  <2>2. opt.mode = "buffer" /\ pc' = "read" => index < opt.size
    BY <1>3 DEF ShouldQuit, Done
  <2> QED
    BY <2>1, <2>2 DEF RingHolds, ring
<1>4. CASE Setup \/ ReadFails \/ Crash \/ Finish \/ Environment \/ UNCHANGED vars
  <2>1. UNCHANGED <<opt, got, ring>>
    BY <1>4 DEF Setup, SetTimeouts, OpenOutput, OpenBoundaries, InstallHandler,
       ReadFails, Crash, Finish, Save, SaveBoundaries, Close, ExitFailure,
       Environment, PressKey, Interrupt, Arrive, DiskFills, Tick, vars
  <2>2. pc' = "read" => pc = "read"
    BY <1>4 DEF Setup, SetTimeouts, OpenOutput, OpenBoundaries, InstallHandler,
       ReadFails, Crash, Finish, Save, SaveBoundaries, Close, ExitFailure,
       Environment, PressKey, Interrupt, Arrive, DiskFills, Tick, vars
  <2> QED
    BY <2>1, <2>2 DEF RingHolds, ring
<1> QED
  BY <1>1, <1>2, <1>3, <1>4 DEF Next, Process, Loop

-----------------------------------------------------------------------------
\* What main2 writes after its loop is the window, oldest byte first.
LEMMA UnsavedIsWindow ==
  ASSUME TypeOK, RingHolds, opt.mode # "stream"
  PROVE  Unsaved = Promise!Window(opt.mode, opt.size, got)
<1> DEFINE w == Promise!Window(opt.mode, opt.size, got)
<1>1. /\ opt.size \in Nat /\ got \in Nat /\ index \in Nat /\ index <= opt.size
      /\ opt.mode \in {"buffer", "circular"} /\ wrapped \in BOOLEAN
  BY OptionTypes DEF TypeOK
<1>2. CASE ~wrapped
  <2>1. got = index /\ Unsaved = Slice(0, got)
    BY <1>2 DEF RingHolds, Unsaved
  <2>2. w = Bytes(0, got)
    BY <1>1, <2>1, WindowTypes
  <2>3. /\ Slice(0, got) \in Seq(Nat) /\ Len(Slice(0, got)) = got
        /\ \A i \in 1..got : Slice(0, got)[i] = buffer[i - 1]
    <3>1. 0 \in Nat /\ 0 <= got /\ got <= opt.size /\ got - 0 = got
          /\ \A i \in 1..got : 0 + i - 1 = i - 1
      BY <1>1, <2>1
    <3>2. /\ Slice(0, got) \in Seq(Nat) /\ Len(Slice(0, got)) = got - 0
          /\ \A i \in 1..(got - 0) : Slice(0, got)[i] = buffer[0 + i - 1]
      BY <1>1, <3>1, SliceTypes
    <3> QED
      BY <3>1, <3>2
  <2>4. /\ Bytes(0, got) \in Seq(Nat) /\ Len(Bytes(0, got)) = got
        /\ \A i \in 1..got : Bytes(0, got)[i] = i
    <3>1. 0 \in Nat /\ 0 <= got /\ got - 0 = got /\ \A i \in 1..got : 0 + i = i
      BY <1>1
    <3> QED
      BY <1>1, <3>1, BytesProperties
  <2>5. ASSUME NEW i \in 1..got PROVE buffer[i - 1] = i
    <3>1. i - 1 \in 0..(opt.size - 1) /\ i - 1 < index
      BY <1>1, <2>1
    <3> QED
      BY <1>1, <2>1, <3>1 DEF RingHolds
  <2>6. Slice(0, got) = Bytes(0, got)
    BY <2>3, <2>4, <2>5, SeqEqual
  <2> QED
    BY <2>1, <2>2, <2>6
<1>3. CASE wrapped
  <2> DEFINE n == opt.size  p == Slice(index, n)  q == Slice(0, index)
  <2>1. opt.mode = "circular" /\ index < n /\ got >= n /\ Unsaved = p \o q
    BY <1>1, <1>3 DEF RingHolds, Unsaved
  <2>2. w = Bytes(got - n, got)
    BY <1>1, <2>1, WindowTypes
  <2>3. /\ Bytes(got - n, got) \in Seq(Nat) /\ Len(Bytes(got - n, got)) = n
        /\ \A i \in 1..n : Bytes(got - n, got)[i] = got - n + i
    <3>1. got - n \in Nat /\ got - n <= got /\ got - (got - n) = n
      BY <1>1, <2>1
    <3> QED
      BY <1>1, <3>1, BytesProperties
  <2>4. /\ p \in Seq(Nat) /\ Len(p) = n - index
        /\ \A i \in 1..(n - index) : p[i] = buffer[index + i - 1]
    <3>1. n <= opt.size
      BY <1>1
    <3> QED
      BY <1>1, <3>1, SliceTypes
  <2>5. /\ q \in Seq(Nat) /\ Len(q) = index
        /\ \A i \in 1..index : q[i] = buffer[i - 1]
    <3>1. 0 \in Nat /\ 0 <= index /\ index - 0 = index
          /\ \A i \in 1..index : 0 + i - 1 = i - 1
      BY <1>1
    <3>2. /\ q \in Seq(Nat) /\ Len(q) = index - 0
          /\ \A i \in 1..(index - 0) : q[i] = buffer[0 + i - 1]
      BY <1>1, <3>1, SliceTypes
    <3> QED
      BY <3>1, <3>2
  <2> HIDE DEF p, q
  <2>6. /\ p \o q \in Seq(Nat) /\ Len(p \o q) = n
        /\ \A i \in 1..n : (p \o q)[i] = IF i <= n - index THEN p[i] ELSE q[i - (n - index)]
    <3>1. /\ p \o q \in Seq(Nat) /\ Len(p \o q) = Len(p) + Len(q)
          /\ \A i \in 1..(Len(p) + Len(q)) :
                (p \o q)[i] = IF i <= Len(p) THEN p[i] ELSE q[i - Len(p)]
      BY <2>4, <2>5, ConcatProperties
    <3>2. Len(p) + Len(q) = n
      BY <1>1, <2>4, <2>5
    <3> QED
      BY <2>4, <3>1, <3>2
  <2>7. ASSUME NEW i \in 1..n PROVE (p \o q)[i] = got - n + i
    <3>1. CASE i <= n - index
      <4>1. index + i - 1 \in 0..(opt.size - 1) /\ index + i - 1 >= index
        BY <1>1, <3>1
      <4>2. buffer[index + i - 1] = got - n - index + (index + i - 1) + 1
        BY <1>3, <4>1 DEF RingHolds
      <4>3. (p \o q)[i] = buffer[index + i - 1]
        BY <1>1, <2>4, <2>6, <3>1
      <4> QED
        BY <1>1, <4>2, <4>3
    <3>2. CASE ~(i <= n - index)
      <4> DEFINE k == i - (n - index)
      <4>1. k \in 1..index /\ k - 1 \in 0..(opt.size - 1) /\ k - 1 < index
        BY <1>1, <2>1, <3>2
      <4>2. buffer[k - 1] = got - index + (k - 1) + 1
        BY <4>1 DEF RingHolds
      <4>3. (p \o q)[i] = buffer[k - 1]
        BY <2>5, <2>6, <3>2, <4>1
      <4> QED
        BY <1>1, <4>2, <4>3
    <3> QED
      BY <3>1, <3>2
  <2>8. p \o q = Bytes(got - n, got)
    <3>1. \A i \in 1..Len(p \o q) : (p \o q)[i] = Bytes(got - n, got)[i]
      BY <2>3, <2>6, <2>7
    <3> QED
      BY <2>3, <2>6, <3>1, SeqEqual
  <2> QED
    BY <2>1, <2>2, <2>8
<1> QED
  BY <1>2, <1>3

\* Writing data appends all of it to the file; an fwrite that fails, a part.
LEMMA WriteAppends ==
  ASSUME file \in Seq(Nat), NEW data \in Seq(Nat)
  PROVE  /\ WriteDataToFile(data) => file' = file \o data
         /\ WriteDataFails(data) => IsPrefix(file', file \o data) /\ diskfull
<1>1. ASSUME WriteDataFails(data) PROVE IsPrefix(file', file \o data)
  <2>1. PICK k \in 0..(Len(data) - 1) : file' = file \o SubSeq(data, 1, k)
    BY <1>1 DEF WriteDataFails
  <2> QED
    BY <2>1, PartTypes
<1> QED
  BY <1>1 DEF WriteDataToFile, WriteDataFails

\* In stream mode a read and the write of what it returned extend the file
\* by exactly the next bytes, or by a part of them when the disk is full.
LEMMA StreamWrite ==
  ASSUME TypeOK, FileHolds, opt.mode = "stream", Read
  PROVE  /\ Promise!Window(opt.mode, opt.size, got') \in Seq(Nat)
         /\ WriteDataToFile(Chunk) => file' = Promise!Window(opt.mode, opt.size, got')
         /\ WriteDataFails(Chunk) => IsPrefix(file', Promise!Window(opt.mode, opt.size, got'))
<1>1. opt.size \in Nat /\ got \in Nat /\ Received \in Nat /\ got' = got + Received
  BY OptionTypes, ReadTypes DEF TypeOK, Read
<1>2. got' \in Nat /\ 0 \in Nat /\ 0 <= got /\ got <= got'
  BY <1>1
<1>3. /\ file = Bytes(0, got)
      /\ Promise!Window(opt.mode, opt.size, got') = Bytes(0, got')
      /\ Promise!Window(opt.mode, opt.size, got') \in Seq(Nat)
  BY <1>1, <1>2, WindowTypes DEF FileHolds, NotSaved, Read
<1>4. file \o Chunk = Bytes(0, got')
  BY <1>1, <1>2, <1>3, BytesConcat DEF Chunk
<1> QED
  BY <1>3, <1>4, ChunkTypes, WriteAppends DEF TypeOK

\* Every step keeps the file a part of the window.
LEMMA FileStep ==
  ASSUME CaptureInv, [Next]_vars
  PROVE  FileHolds'
<1> USE DEF Goto, NotSaved
<1> DEFINE w == Promise!Window(opt.mode, opt.size, got)
<1>1. TypeOK /\ RingHolds /\ FileHolds /\ TypeOK'
  BY TypeStep DEF CaptureInv
<1>2. w \in Seq(Nat) /\ w' \in Seq(Nat)
  <2>1. opt.size \in Nat /\ got \in Nat /\ opt'.size \in Nat /\ got' \in Nat
    BY <1>1, OptionTypes DEF TypeOK
  <2> QED
    BY <2>1, WindowTypes
<1>3. CASE \/ Setup \/ ShouldQuit \/ ReadFails \/ Crash \/ Close \/ ExitFailure
           \/ Environment \/ UNCHANGED vars
  <2>1. UNCHANGED <<opt, got, file>>
    BY <1>3 DEF Setup, SetTimeouts, OpenOutput, OpenBoundaries, InstallHandler,
       ShouldQuit, ReadFails, Crash, Close, ExitFailure,
       Environment, PressKey, Interrupt, Arrive, DiskFills, Tick, vars
  <2>2. /\ pc' \in NotSaved => pc \in NotSaved
        /\ pc' \in {"close", "success"} => pc \in {"close", "success"}
    BY <1>3 DEF Setup, SetTimeouts, OpenOutput, OpenBoundaries, InstallHandler,
       ShouldQuit, ReadFails, Crash, Close, ExitFailure,
       Environment, PressKey, Interrupt, Arrive, DiskFills, Tick, vars
  <2> QED
    BY <1>1, <2>1, <2>2 DEF FileHolds
<1>4. CASE ReadToBuffer \/ ReadToRing
  <2>1. opt.mode # "stream" /\ opt' = opt /\ file' = file /\ pc = "read" /\ pc' = "check"
    BY <1>4 DEF ReadToBuffer, ReadToRing, Read
  <2>2. file' = << >>
    BY <1>1, <2>1 DEF FileHolds
  <2>3. IsPrefix(file', w')
    BY <1>2, <2>2, PrefixEnds
  <2> QED
    BY <2>1, <2>2, <2>3 DEF FileHolds
<1>5. CASE ReadToFile \/ ReadToFileFails \/ ReadAndRecord
  <2>1. opt.mode = "stream" /\ opt' = opt /\ Read
    BY <1>5 DEF ReadToFile, ReadToFileFails, ReadAndRecord
  <2>2. CASE ReadToFile \/ ReadAndRecord
    <3>1. file' = w' /\ pc' \notin {"close", "success"}
      BY <1>1, <2>1, <2>2, StreamWrite DEF ReadToFile, ReadAndRecord
    <3>2. IsPrefix(file', w')
      BY <1>2, <3>1, PrefixEnds
    <3> QED
      BY <2>1, <3>1, <3>2 DEF FileHolds
  <2>3. CASE ReadToFileFails
    <3>1. IsPrefix(file', w') /\ pc' = "failing"
      BY <1>1, <2>1, <2>3, StreamWrite DEF ReadToFileFails
    <3> QED
      BY <3>1 DEF FileHolds
  <2> QED
    BY <1>5, <2>2, <2>3
<1>6. CASE Save
  <2>1. opt.mode # "stream" /\ opt' = opt /\ got' = got /\ file = << >> /\ w' = w
    BY <1>1, <1>6 DEF Save, FileHolds
  <2>2. Unsaved \in Seq(Nat) /\ file \o Unsaved = w
    <3>1. Unsaved \in Seq(Nat) /\ Unsaved = w
      BY <1>1, <2>1, UnsavedTypes, UnsavedIsWindow
    <3> QED
      BY <2>1, <3>1, ConcatEmptySeq
  <2>3. CASE Goto("save", "close") /\ WriteDataToFile(Unsaved)
    <3>1. file' = w' /\ IsPrefix(file', w')
      BY <1>1, <1>2, <2>1, <2>2, <2>3, WriteAppends, PrefixEnds DEF TypeOK
    <3> QED
      BY <2>3, <3>1 DEF FileHolds
  <2>4. CASE Goto("save", "failing") /\ WriteDataFails(Unsaved)
    <3>1. IsPrefix(file', w')
      BY <1>1, <2>1, <2>2, <2>4, WriteAppends DEF TypeOK
    <3> QED
      BY <2>4, <3>1 DEF FileHolds
  <2> QED
    BY <1>6, <2>3, <2>4 DEF Save
<1>7. CASE SaveBoundaries
  <2>1. opt.mode = "stream" /\ UNCHANGED <<opt, got, file>> /\ pc = "save"
        /\ pc' \in {"close", "failing"}
    BY <1>7 DEF SaveBoundaries
  <2> QED
    BY <1>1, <2>1 DEF FileHolds
<1> QED
  BY <1>3, <1>4, <1>5, <1>6, <1>7 DEF Next, Process, Loop, Finish

LEMMA CaptureInvInit ==
  ASSUME Init
  PROVE  CaptureInv
<1>1. TypeOK
  BY TypeInit
<1>2. RingHolds
  BY <1>1, OptionTypes DEF Init, RingHolds, TypeOK
<1>3. Promise!Window(opt.mode, opt.size, got) = << >>
  <2>1. opt.size \in Nat /\ got = 0 /\ got <= opt.size
    BY OptionTypes DEF Init
  <2>2. Promise!Window(opt.mode, opt.size, got) = Bytes(0, 0)
    BY <2>1, WindowTypes
  <2> QED
    BY <2>2, BytesProperties, EmptySeq
<1>4. FileHolds
  BY <1>1, <1>3, PrefixEnds DEF FileHolds, Init, TypeOK
<1> QED
  BY <1>1, <1>2, <1>4 DEF CaptureInv

\* CaptureInv is inductive.
LEMMA CaptureInvHolds == Spec => []CaptureInv
<1>1. Init => CaptureInv
  BY CaptureInvInit
<1>2. CaptureInv /\ [Next]_vars => CaptureInv'
  BY TypeStep, RingStep, FileStep DEF CaptureInv
<1> QED
  BY <1>1, <1>2, PTL DEF Spec

\* The file main2 writes is a part of the window of what was received, and
\* all of it once the program has succeeded, for every buffer size, however
\* FT_Read cuts up the stream and whenever the capture ends.
THEOREM CaptureCorrect == Spec => []CaptureWindow
<1>1. CaptureInv => CaptureWindow
  BY DEF CaptureInv, FileHolds, CaptureWindow, NotSaved
<1> QED
  BY <1>1, CaptureInvHolds, PTL

\* FT_Read is never given an empty part of the buffer, nor one that ends
\* outside it: the ASSERT of the --circular loop holds.
THEOREM ReadsFit == Spec => []ReadFits
<1>1. CaptureInv => ReadFits
  BY OptionTypes, RecvAssumption DEF CaptureInv, TypeOK, RingHolds, ReadFits, ReadSize
<1> QED
  BY <1>1, CaptureInvHolds, PTL

-----------------------------------------------------------------------------
\* Until it ends, a run is "capturing"; it never returns to that.
LEMMA OutcomeTypes ==
  /\ Outcome \in {"capturing", "saved", "failed"}
  /\ Outcome = "saved" <=> pc = "success"
  /\ Outcome = "failed" <=> pc \in {"failing", "failure", "killed", "aborted"}
BY DEF Outcome

\* What a step may do to the file and to the count of received bytes: the
\* file is only ever appended to, and only while main2 is running its loop or
\* saving.
LEMMA FileGrows ==
  ASSUME CaptureInv, [Next]_vars
  PROVE  /\ opt' = opt
         /\ got' \in Nat /\ got' >= got
         /\ IsPrefix(file, file')
         /\ pc \notin NotSaved => UNCHANGED <<got, file>>
<1> USE DEF Goto, NotSaved
<1> TypeOK /\ TypeOK' /\ file \in Seq(Nat) /\ got \in Nat /\ got' \in Nat
  BY TypeStep DEF CaptureInv, TypeOK
<1>1. IsPrefix(file, file)
  BY PrefixEnds
<1>2. CASE \/ Setup \/ ShouldQuit \/ ReadFails \/ Crash \/ SaveBoundaries \/ Close
           \/ ExitFailure \/ Environment \/ UNCHANGED vars
  <2>1. UNCHANGED <<opt, got, file>>
    BY <1>2 DEF Setup, SetTimeouts, OpenOutput, OpenBoundaries, InstallHandler,
       ShouldQuit, ReadFails, Crash, SaveBoundaries, Close, ExitFailure,
       Environment, PressKey, Interrupt, Arrive, DiskFills, Tick, vars
  <2> QED
    BY <1>1, <2>1
<1>3. ASSUME Read PROVE pc \in NotSaved /\ got' >= got
  <2>1. Received \in Nat
    BY ReadTypes
  <2> QED
    BY <1>3, <2>1 DEF Read
<1>4. ASSUME NEW data \in Seq(Nat), WriteDataToFile(data) \/ WriteDataFails(data)
      PROVE  IsPrefix(file, file')
  <2>1. CASE WriteDataToFile(data)
    BY <2>1, PrefixOfConcat DEF WriteDataToFile
  <2>2. CASE WriteDataFails(data)
    <3>1. PICK k \in 0..(Len(data) - 1) : file' = file \o SubSeq(data, 1, k)
      BY <2>2 DEF WriteDataFails
    <3>2. SubSeq(data, 1, k) \in Seq(Nat)
      <4>1. \A i \in 1..k : data[i] \in Nat
        BY LenProperties, ElementOfSeq
      <4> QED
        BY <4>1, SubSeqProperties
    <3> QED
      BY <3>1, <3>2, PrefixOfConcat
  <2> QED
    BY <1>4, <2>1, <2>2
<1>5. CASE ReadToBuffer \/ ReadToRing
  BY <1>1, <1>3, <1>5 DEF ReadToBuffer, ReadToRing
<1>6. CASE ReadToFile \/ ReadToFileFails \/ ReadAndRecord
  BY <1>3, <1>4, <1>6, ChunkTypes DEF ReadToFile, ReadToFileFails, ReadAndRecord
<1>7. CASE Save
  BY <1>4, <1>7, UnsavedTypes DEF Save
<1> QED
  BY <1>2, <1>5, <1>6, <1>7 DEF Next, Process, Loop, Finish

\* How the outcome changes: main2 succeeds only by closing the files, and a
\* run that has ended stays as it is.
LEMMA OutcomeSteps ==
  ASSUME CaptureInv, [Next]_vars
  PROVE  /\ pc' = "success" /\ pc # "success" => pc = "close" /\ UNCHANGED <<got, file>>
         /\ Outcome # "capturing" => Outcome' = Outcome
<1> USE DEF Goto, Final, Running
<1>1. CASE Setup \/ ShouldQuit \/ ReadFails \/ Crash \/ UNCHANGED vars
  BY <1>1, OutcomeTypes DEF Outcome, Setup, SetTimeouts, OpenOutput, OpenBoundaries,
     InstallHandler, ShouldQuit, ReadFails, Crash, vars
<1>2. CASE ReadToBuffer \/ ReadToRing \/ ReadToFile \/ ReadToFileFails \/ ReadAndRecord
  BY <1>2 DEF Outcome, ReadToBuffer, ReadToRing, ReadToFile, ReadToFileFails,
     ReadAndRecord, Read
<1>3. CASE Finish
  BY <1>3 DEF Outcome, Finish, Save, SaveBoundaries, Close, ExitFailure
<1>4. CASE Environment
  BY <1>4 DEF Outcome, Environment, PressKey, Interrupt, Arrive, DiskFills, Tick
<1> QED
  BY <1>1, <1>2, <1>3, <1>4 DEF Next, Process, Loop

\* What Capture makes of a step of main2.
LEMMA PromiseStep ==
  ASSUME CaptureInv, CaptureInv', [Next]_vars
  PROVE  [Promise!Next]_(Promise!vars)
<1>1. /\ opt' = opt /\ got' \in Nat /\ got' >= got /\ IsPrefix(file, file')
      /\ IsPrefix(file', Promise!Window(opt.mode, opt.size, got'))
      /\ opt.mode = "buffer" => got' <= opt.size
  <2>1. opt.mode = "buffer" => got' <= opt.size
    <3>1. RingHolds' /\ index' \in 0..opt'.size /\ opt' \in Options /\ opt' = opt
      BY FileGrows DEF CaptureInv, TypeOK
    <3>2. opt.mode = "buffer" => got' = index'
      BY <3>1 DEF RingHolds
    <3> QED
      BY <3>1, <3>2, OptionTypes
  <2> QED
    BY <2>1, FileGrows DEF CaptureInv, FileHolds
<1>2. CASE Outcome = "capturing" /\ Outcome' = "capturing"
  BY <1>1, <1>2 DEF Promise!Next, Promise!Receive, Promise!Take, Promise!Extend,
     IsPrefix, Promise!IsPrefix
<1>3. CASE Outcome = "capturing" /\ Outcome' = "failed"
  BY <1>1, <1>3 DEF Promise!Next, Promise!Fail, Promise!Take, Promise!Extend,
     IsPrefix, Promise!IsPrefix
<1>4. CASE Outcome = "capturing" /\ Outcome' = "saved"
  <2>1. pc = "close" /\ UNCHANGED <<got, file>>
    BY <1>4, OutcomeSteps DEF Outcome
  <2>2. file = Promise!Window(opt.mode, opt.size, got)
    BY <2>1 DEF CaptureInv, FileHolds
  <2> QED
    BY <1>1, <1>4, <2>1, <2>2 DEF Promise!Next, Promise!Finish
<1>5. CASE Outcome # "capturing"
  <2>1. Outcome' = Outcome /\ pc \notin NotSaved
    BY <1>5, OutcomeSteps DEF Outcome, NotSaved
  <2> QED
    BY <1>1, <2>1, FileGrows DEF Promise!vars
<1> QED
  BY <1>2, <1>3, <1>4, <1>5 DEF Outcome

\* main2 implements Capture.
THEOREM RecvImplementsCapture == Spec => ImplementsCapture
<1>1. Init => Promise!Init
  BY DEF Init, Promise!Init, Outcome
<1>2. CaptureInv /\ CaptureInv' /\ [Next]_vars => [Promise!Next]_(Promise!vars)
  BY PromiseStep
<1> QED
  BY <1>1, <1>2, CaptureInvHolds, PTL DEF Spec, Promise!Spec, ImplementsCapture
=============================================================================
