-------------------------- MODULE RecvOutputProofs --------------------------
(***************************************************************************)
(* More about Recv: the boundaries file, what reaches the disk and the     *)
(* count on display.                                                       *)
(***************************************************************************)
EXTENDS RecvProofs

\* Only reads, and in stream mode the end of the loop, touch the records.
LEMMA RecordsBystander ==
  ASSUME [Next]_vars,
         ~(ReadToFile \/ ReadToFileFails \/ ReadAndRecord \/ SaveBoundaries),
         opt.mode = "stream"
  PROVE  /\ UNCHANGED <<opt, got, splits, bbuf, bfile>>
         /\ pc' \in NotSaved => pc \in NotSaved
         /\ pc' \in {"close", "success"} => pc' = pc \/ pc = "close"
         /\ pc' \in {"close", "success"} => bopen' = bopen
<1> USE DEF Goto, NotSaved, bounds, setup, Final, Running
<1>1. CASE Setup
  BY <1>1 DEF Setup, SetTimeouts, OpenOutput, OpenBoundaries, InstallHandler
<1>2. CASE ShouldQuit \/ ReadFails \/ Crash \/ Close \/ ExitFailure \/ UNCHANGED vars
  BY <1>2 DEF ShouldQuit, ReadFails, Crash, Close, ExitFailure, vars
<1>3. CASE ReadToBuffer \/ ReadToRing \/ Save
  BY <1>3 DEF ReadToBuffer, ReadToRing, Save
<1>4. CASE Environment
  BY <1>4 DEF Environment, PressKey, Interrupt, Arrive, DiskFills, Tick
<1> QED
  BY <1>1, <1>2, <1>3, <1>4 DEF Next, Process, Loop, Finish

-----------------------------------------------------------------------------
(***************************************************************************)
(* The boundaries file.                                                    *)
(***************************************************************************)
\* Split points count up from 0 and are offsets into what has been received.
SplitsInOrder ==
  /\ opt.boundaries /\ splits = << >> => got = 0
  /\ \A i \in 1..Len(splits) :
       /\ splits[i] <= got
       /\ IF i = 1 THEN splits[i] = 0 ELSE splits[i - 1] <= splits[i]

\* The inductive invariant: until the loop has ended the records add up to
\* the split points, and what is written then is right if all were stored
\* inside boundaries_buffer.
RecordsInv ==
  opt.mode = "stream" =>
    /\ pc \in NotSaved => bfile \o bbuf = splits
    /\ BoundaryPtrInBuffer =>
         /\ IsPrefix(bfile, splits)
         /\ pc \in {"close", "success"} /\ bopen => bfile = splits
    /\ SplitsInOrder

\* What the constants say of the room there is.
LEMMA RoomTypes ==
  /\ BoundariesCap \in Nat /\ RecordsThatFit \in Nat
  /\ RecordsFill => BoundariesCap = 17 * RecordsThatFit /\ RecordsThatFit > 0
  /\ ~RecordsFill => \A n \in Nat \ {0} : 17 * n # BoundariesCap
  /\ \A n \in Nat : 17 * n <= BoundariesCap <=> n <= RecordsThatFit
<1> DEFINE c == BoundariesCap
<1>1. c \in Nat
  BY RecvAssumption DEF RecvConstants, BoundariesCap
<1> HIDE DEF c
<1>2. c \div 17 \in Nat /\ c % 17 \in 0..16 /\ c = 17 * (c \div 17) + (c % 17)
  BY <1>1
<1>3. RecordsThatFit = c \div 17 /\ (RecordsFill <=> c \div 17 > 0 /\ c % 17 = 0)
  BY DEF c, RecordsThatFit, RecordsFill, RecordSize
<1>4. ASSUME NEW n \in Nat PROVE 17 * n <= c <=> n <= c \div 17
  BY <1>1, <1>2
<1>5. ASSUME ~RecordsFill, NEW n \in Nat \ {0} PROVE 17 * n # c
  BY <1>1, <1>2, <1>3, <1>5
<1> QED
  BY <1>1, <1>2, <1>3, <1>4, <1>5 DEF c

\* boundary_ptr is in boundaries_buffer as long as its records fit in there.
LEMMA PtrInBuffer ==
  ASSUME TypeOK
  PROVE  BoundaryPtrInBuffer <=> Len(bbuf) <= RecordsThatFit
BY RoomTypes, LenProperties DEF TypeOK, BoundaryPtrInBuffer, RecordSize

\* A read adds the offset it began at.
LEMMA SplitsStep ==
  ASSUME TypeOK, SplitsInOrder, Read, opt' = opt
  PROVE  /\ SplitsInOrder'
         /\ splits' \in Seq(Nat) /\ IsPrefix(splits, splits')
<1>1. /\ got \in Nat /\ Received \in Nat /\ got' = got + Received
      /\ splits \in Seq(Nat) /\ Len(splits) \in Nat
  BY ReadTypes, LenProperties DEF TypeOK, Read
<1>2. CASE opt.boundaries
  <2>1. splits' = Append(splits, got)
    BY <1>2 DEF Read
  <2>2. /\ splits' \in Seq(Nat) /\ Len(splits') = Len(splits) + 1
        /\ \A i \in 1..Len(splits) : splits'[i] = splits[i]
        /\ splits'[Len(splits) + 1] = got
    BY <1>1, <2>1, AppendProperties
  <2>3. IsPrefix(splits, splits')
    BY <1>1, <2>2, PrefixElements
  <2>4. ASSUME NEW i \in 1..Len(splits')
        PROVE  /\ splits'[i] <= got'
               /\ IF i = 1 THEN splits'[i] = 0 ELSE splits'[i - 1] <= splits'[i]
    <3>1. CASE i <= Len(splits)
      <4>1. i \in 1..Len(splits) /\ splits[i] \in Nat /\ splits'[i] = splits[i]
            /\ splits[i] <= got
        BY <1>1, <2>2, <3>1, ElementOfSeq DEF SplitsInOrder
      <4>2. i # 1 => splits'[i - 1] = splits[i - 1] /\ splits[i - 1] <= splits[i]
        <5>1. i # 1 => splits[i - 1] <= splits[i]
          BY <4>1 DEF SplitsInOrder
        <5>2. i # 1 => i - 1 \in 1..Len(splits)
          BY <1>1, <4>1
        <5> QED
          BY <2>2, <5>1, <5>2
      <4>3. i = 1 => splits[i] = 0
        BY <4>1 DEF SplitsInOrder
      <4> QED
        BY <1>1, <4>1, <4>2, <4>3
    <3>2. CASE ~(i <= Len(splits))
      <4>1. i = Len(splits) + 1 /\ splits'[i] = got
        BY <1>1, <2>2, <3>2
      <4>2. CASE i = 1
        <5>1. splits = << >>
          BY <1>1, <4>1, <4>2, EmptySeq
        <5>2. got = 0
          BY <1>2, <5>1 DEF SplitsInOrder
        <5> QED
          BY <1>1, <4>1, <4>2, <5>2
      <4>3. CASE i # 1
        <5>1. i - 1 \in 1..Len(splits)
          BY <1>1, <4>1, <4>3
        <5>2. splits'[i - 1] = splits[i - 1] /\ splits[i - 1] <= got
          BY <2>2, <5>1 DEF SplitsInOrder
        <5> QED
          BY <1>1, <4>1, <4>3, <5>2
      <4> QED
        BY <4>2, <4>3
    <3> QED
      BY <3>1, <3>2
  <2>5. splits' # << >>
    BY <1>1, <2>2, EmptySeq
  <2> QED
    BY <2>2, <2>3, <2>4, <2>5 DEF SplitsInOrder
<1>3. CASE ~opt.boundaries
  <2>1. splits' = splits /\ ~opt'.boundaries
    BY <1>3 DEF Read
  <2>2. IsPrefix(splits, splits)
    BY <1>1, PrefixEnds
  <2>3. \A i \in 1..Len(splits) : splits[i] \in Nat
    BY <1>1, ElementOfSeq
  <2>4. ASSUME NEW i \in 1..Len(splits) PROVE splits[i] <= got'
    BY <1>1, <2>3 DEF SplitsInOrder
  <2> QED
    BY <1>1, <2>1, <2>2, <2>4 DEF SplitsInOrder
<1> QED
  BY <1>2, <1>3

\* Every step keeps the records.
LEMMA RecordsStep ==
  ASSUME TypeOK, RecordsInv, [Next]_vars
  PROVE  RecordsInv'
<1> USE DEF Goto, NotSaved
<1>0. opt' = opt
  BY DEF Next, Process, Setup, SetTimeouts, OpenOutput, OpenBoundaries, InstallHandler,
     Loop, ShouldQuit, ReadToBuffer, ReadToRing, ReadToFile, ReadToFileFails,
     ReadAndRecord, Finish, Save, SaveBoundaries, Close, ExitFailure, ReadFails, Crash,
     Environment, PressKey, Interrupt, Arrive, DiskFills, Tick, vars
<1> SUFFICES ASSUME opt.mode = "stream" PROVE RecordsInv'
  BY <1>0 DEF RecordsInv
<1>1. /\ pc \in NotSaved => bfile \o bbuf = splits
      /\ BoundaryPtrInBuffer => IsPrefix(bfile, splits)
      /\ BoundaryPtrInBuffer /\ pc \in {"close", "success"} /\ bopen => bfile = splits
      /\ SplitsInOrder
      /\ bfile \in Seq(Nat) /\ bbuf \in Seq(Nat) /\ splits \in Seq(Nat) /\ got \in Nat
  BY DEF RecordsInv, TypeOK
<1>a. pc \in NotSaved => IsPrefix(bfile, splits)
  BY <1>1, PrefixOfConcat
<1>2. CASE ReadToFile \/ ReadToFileFails
  <2>1. Read /\ UNCHANGED bounds /\ pc = "read" /\ pc' \in {"check", "failing"}
        /\ (pc' = "check" => ~opt.boundaries)
    BY <1>2 DEF ReadToFile, ReadToFileFails, Read
  <2>2. SplitsInOrder' /\ IsPrefix(bfile, splits')
    BY <1>0, <1>1, <1>a, <2>1, SplitsStep, PrefixTransitive
  <2>3. ~opt.boundaries => splits' = splits
    BY <2>1 DEF Read
  <2> QED
    BY <1>1, <2>1, <2>2, <2>3 DEF RecordsInv, bounds
<1>3. CASE ReadAndRecord
  <2>1. Read /\ pc = "read" /\ opt.boundaries /\ splits' = Append(splits, got)
    BY <1>3 DEF ReadAndRecord, Read
  <2>2. SplitsInOrder' /\ splits' \in Seq(Nat) /\ IsPrefix(bfile, splits')
    BY <1>0, <1>1, <1>a, <2>1, SplitsStep, PrefixTransitive
  <2>3. Records \in Seq(Nat) /\ bfile \o Records = splits'
    <3>1. Records = bbuf \o <<got>> /\ <<got>> \in Seq(Nat)
          /\ splits' = splits \o <<got>>
      BY <1>1, <2>1, AppendIsConcat DEF Records
    <3>2. (bfile \o bbuf) \o <<got>> = bfile \o (bbuf \o <<got>>)
      BY <1>1, <3>1, Associative
    <3> QED
      BY <1>1, <2>1, <3>1, <3>2, ConcatProperties
  <2>4. /\ \/ bfile' = bfile /\ bbuf' = Records
           \/ bfile' = bfile \o Records /\ bbuf' = << >>
           \/ /\ bbuf' = Records /\ pc' = "failing"
              /\ \E k \in 0..(Len(Records) - 1) : bfile' = bfile \o SubSeq(Records, 1, k)
        /\ pc' \in {"check", "failing", "aborted"}
    <3> HIDE DEF Records, Full
    <3> QED
      BY <1>3 DEF ReadAndRecord
  <2>5. CASE bfile' = bfile /\ bbuf' = Records
    BY <2>2, <2>3, <2>4, <2>5 DEF RecordsInv
  <2>6. CASE bfile' = bfile \o Records /\ bbuf' = << >>
    <3>1. bfile' \o bbuf' = splits' /\ IsPrefix(bfile', splits')
      BY <2>2, <2>3, <2>6, ConcatEmptySeq, PrefixEnds
    <3> QED
      BY <2>2, <2>4, <3>1 DEF RecordsInv
  <2>7. ASSUME NEW k \in 0..(Len(Records) - 1),
               bfile' = bfile \o SubSeq(Records, 1, k), pc' = "failing"
        PROVE  RecordsInv'
    <3>1. IsPrefix(bfile', splits')
      BY <1>1, <2>3, <2>7, PartTypes
    <3> QED
      BY <2>2, <2>7, <3>1 DEF RecordsInv
  <2> QED
    BY <2>4, <2>5, <2>6, <2>7
<1>4. CASE SaveBoundaries
  <2>1. UNCHANGED <<opt, got, splits, bbuf, bopen>> /\ pc = "save"
    BY <1>4 DEF SaveBoundaries, setup
  <2>2. SplitsInOrder' /\ bfile \o bbuf = splits /\ IsPrefix(bfile, splits)
    BY <1>1, <1>a, <2>1 DEF SplitsInOrder
  <2>3. PICK r \in Stored :
          \/ pc' = "close" /\ bfile' = IF bopen THEN bfile \o r ELSE bfile
          \/ pc' = "failing" /\ \E k \in 0..(Len(r) - 1) : bfile' = bfile \o SubSeq(r, 1, k)
    <3> HIDE DEF Stored
    <3> QED
      BY <1>4 DEF SaveBoundaries
  <2>4. BoundaryPtrInBuffer => r = bbuf
    BY PtrInBuffer, StoredTypes
  <2>5. BoundaryPtrInBuffer' => BoundaryPtrInBuffer
    BY <2>1 DEF BoundaryPtrInBuffer
  <2>6. ASSUME BoundaryPtrInBuffer
        PROVE  IsPrefix(bfile', splits') /\ (pc' = "close" /\ bopen' => bfile' = splits')
    <3>1. CASE pc' = "close" /\ bfile' = IF bopen THEN bfile \o r ELSE bfile
      BY <1>1, <2>1, <2>2, <2>4, <2>6, <3>1, PrefixEnds
    <3>2. CASE pc' = "failing" /\ \E k \in 0..(Len(r) - 1) : bfile' = bfile \o SubSeq(r, 1, k)
      BY <1>1, <2>1, <2>2, <2>4, <2>6, <3>2, PartTypes
    <3> QED
      BY <2>3, <3>1, <3>2
  <2>7. pc' \in {"close", "failing"}
    BY <2>3
  <2> QED
    BY <2>1, <2>2, <2>5, <2>6, <2>7 DEF RecordsInv
<1>5. CASE ~(ReadToFile \/ ReadToFileFails \/ ReadAndRecord \/ SaveBoundaries)
  <2>1. /\ UNCHANGED <<opt, got, splits, bbuf, bfile>>
        /\ pc' \in NotSaved => pc \in NotSaved
        /\ pc' \in {"close", "success"} => pc' = pc \/ pc = "close"
        /\ pc' \in {"close", "success"} => bopen' = bopen
    BY <1>5, RecordsBystander
  <2>2. SplitsInOrder'
    BY <1>1, <2>1 DEF SplitsInOrder
  <2>3. BoundaryPtrInBuffer' <=> BoundaryPtrInBuffer
    BY <2>1 DEF BoundaryPtrInBuffer
  <2> QED
    BY <1>1, <2>1, <2>2, <2>3 DEF RecordsInv
<1> QED
  BY <1>2, <1>3, <1>4, <1>5

LEMMA RecordsInit ==
  ASSUME Init
  PROVE  RecordsInv
<1>1. << >> \in Seq(Nat) /\ Len(<< >>) = 0 /\ << >> \o << >> = << >>
      /\ IsPrefix(<< >>, << >>)
  BY EmptySeq, ConcatEmptySeq, PrefixEnds
<1> QED
  BY <1>1 DEF Init, RecordsInv, SplitsInOrder, NotSaved

\* The boundaries file lists where the reads of the file began, in order and
\* none left out, whenever boundaries_buffer was written out and whatever
\* ended the capture, as long as no record was stored outside that buffer.
THEOREM BoundariesCorrect == Spec => []BoundariesFaithful
<1>1. Init => TypeOK /\ RecordsInv
  BY TypeInit, RecordsInit
<1>2. TypeOK /\ RecordsInv /\ [Next]_vars => TypeOK' /\ RecordsInv'
  BY TypeStep, RecordsStep
<1>3. TypeOK /\ RecordsInv => BoundariesFaithful
  BY DEF RecordsInv, SplitsInOrder, BoundariesFaithful, NotSaved
<1> QED
  BY <1>1, <1>2, <1>3, PTL DEF Spec

-----------------------------------------------------------------------------
(***************************************************************************)
(* With the buffer of the program, which is not a multiple of 17 bytes.    *)
(***************************************************************************)
\* No record reaches the boundaries file before the loop has ended.
NoneWritten == pc \in NotSaved => bfile = << >>

\* 17 does not divide the size of boundaries_buffer.
LEMMA NeverFull ==
  ASSUME StreamBuf = 65536, TypeOK
  PROVE  ~Full
<1>1. Len(Records) \in Nat
  BY AppendProperties, LenProperties DEF Records, TypeOK
<1>2. BoundariesCap = 65529
  BY DEF BoundariesCap
<1>3. \A n \in Nat : 17 * n # 65529
  OBVIOUS
<1> QED
  BY <1>1, <1>2, <1>3 DEF Full, RecordSize

\* Only a full boundaries_buffer is written out in the loop.
LEMMA OnlyWhenFull ==
  ASSUME NoneWritten, [Next]_vars, ~Full
  PROVE  NoneWritten'
<1> USE DEF Goto, NotSaved
<1>1. CASE ReadAndRecord
  <2>1. pc \in NotSaved
    BY <1>1 DEF ReadAndRecord, Read
  <2>2. bfile' = bfile \/ pc' = "failing"
    BY <1>1 DEF ReadAndRecord
  <2> QED
    BY <2>1, <2>2 DEF NoneWritten
<1>2. CASE ReadToBuffer \/ ReadToRing \/ ReadToFile \/ ReadToFileFails
  <2>1. pc = "read" /\ bfile' = bfile
    BY <1>2 DEF ReadToBuffer, ReadToRing, ReadToFile, ReadToFileFails, Read, bounds
  <2> QED
    BY <2>1 DEF NoneWritten
<1>3. CASE SaveBoundaries
  BY <1>3 DEF SaveBoundaries, NoneWritten
<1>4. CASE Setup \/ ShouldQuit \/ ReadFails \/ Crash
  BY <1>4 DEF Setup, SetTimeouts, OpenOutput, OpenBoundaries, InstallHandler,
     ShouldQuit, ReadFails, Crash, NoneWritten, bounds
<1>5. CASE Save \/ Close \/ ExitFailure \/ UNCHANGED vars
  BY <1>5 DEF Save, Close, ExitFailure, vars, NoneWritten, bounds
<1>6. CASE Environment
  BY <1>6 DEF Environment, PressKey, Interrupt, Arrive, DiskFills, Tick,
     NoneWritten, bounds
<1> QED
  BY <1>1, <1>2, <1>3, <1>4, <1>5, <1>6 DEF Next, Process, Loop, Finish

\* boundaries_buffer is never exactly full, so that it is not written out: a
\* capture of more reads than it has room for runs past its end.
THEOREM RecordsPileUp ==
  ASSUME StreamBuf = 65536
  PROVE  Spec => []NoneWritten
<1>1. Init => TypeOK /\ NoneWritten
  <2>1. Init => bfile = << >>
    BY DEF Init
  <2> QED
    BY <2>1, TypeInit DEF NoneWritten
<1>2. TypeOK /\ NoneWritten /\ [Next]_vars => TypeOK' /\ NoneWritten'
  BY TypeStep, NeverFull, OnlyWhenFull
<1> QED
  BY <1>1, <1>2, PTL DEF Spec

\* While every read has been recorded.
Keeping == NotSaved \union {"close", "success"}

RoomInv ==
  IF RecordsFill
  THEN /\ Len(bbuf) <= RecordsThatFit
       /\ pc \in NotSaved => Len(bbuf) < RecordsThatFit
  ELSE /\ Len(bbuf) <= Len(splits)
       /\ opt.mode = "stream" /\ pc \in Keeping => Len(bbuf) = Len(splits)

\* A read adds one record to boundaries_buffer and one to the history.
LEMMA RoomStep ==
  ASSUME TypeOK, RoomInv, [Next]_vars
  PROVE  RoomInv'
<1> USE DEF Goto, NotSaved, Keeping
<1> DEFINE n == Len(bbuf)  k == Len(splits)
<1>1. /\ n \in Nat /\ k \in Nat /\ Len(Records) = n + 1 /\ Len(<< >>) = 0
      /\ Len(Append(splits, got)) = k + 1
  BY AppendProperties, LenProperties, EmptySeq DEF Records, TypeOK
<1>2. /\ RecordsFill => n <= RecordsThatFit /\ (pc \in NotSaved => n < RecordsThatFit)
      /\ ~RecordsFill => n <= k /\ (opt.mode = "stream" /\ pc \in Keeping => n = k)
  BY DEF RoomInv
<1>3. CASE ReadAndRecord
  <2>1. /\ pc = "read" /\ opt.mode = "stream" /\ opt' = opt
        /\ splits' = Append(splits, got)
        /\ pc' \in {"check", "failing", "aborted"}
        /\ \/ 17 * Len(Records) < BoundariesCap /\ bbuf' = Records
           \/ 17 * Len(Records) = BoundariesCap /\ bbuf' = << >>
           \/ 17 * Len(Records) = BoundariesCap /\ bbuf' = Records /\ pc' # "check"
           \/ 17 * Len(Records) > BoundariesCap /\ bbuf' = Records
    <3> HIDE DEF Records
    <3> QED
      BY <1>3 DEF ReadAndRecord, Read, Full, RecordSize
  <2>2. CASE RecordsFill
    BY <1>1, <1>2, <2>1, <2>2, RoomTypes DEF RoomInv
  <2>3. CASE ~RecordsFill
    <3>1. n + 1 \in Nat \ {0} /\ 17 * (n + 1) # BoundariesCap
      BY <1>1, <2>3, RoomTypes
    <3>2. bbuf' = Records
      BY <1>1, <2>1, <3>1
    <3> HIDE DEF Records
    <3>3. Len(bbuf') = n + 1 /\ Len(splits') = k + 1 /\ n = k
      BY <1>1, <1>2, <2>1, <2>3, <3>2
    <3>4. Len(bbuf') = Len(splits')
      BY <3>3
    <3> QED
      BY <1>1, <2>3, <3>3, <3>4 DEF RoomInv
  <2> QED
    BY <2>2, <2>3
<1>4. CASE ReadToFile \/ ReadToFileFails \/ ReadToBuffer \/ ReadToRing
  <2>1. /\ pc = "read" /\ bbuf' = bbuf /\ opt' = opt
        /\ splits' = splits \/ (splits' = Append(splits, got) /\
                                (opt.mode # "stream" \/ pc' = "failing"))
        /\ pc' \in {"check", "failing"}
    BY <1>4 DEF ReadToFile, ReadToFileFails, ReadToBuffer, ReadToRing, Read, bounds
  <2> QED
    BY <1>1, <1>2, <2>1 DEF RoomInv
<1>5. CASE ~(ReadAndRecord \/ ReadToFile \/ ReadToFileFails \/ ReadToBuffer \/ ReadToRing)
  <2>1. /\ UNCHANGED <<opt, splits, bbuf>>
        /\ pc' \in NotSaved => pc \in NotSaved
        /\ pc' \in Keeping => pc \in Keeping
    <3>1. CASE Setup
      BY <3>1 DEF Setup, SetTimeouts, OpenOutput, OpenBoundaries, InstallHandler, bounds
    <3>2. CASE ShouldQuit \/ ReadFails \/ Crash
      BY <3>2 DEF ShouldQuit, ReadFails, Crash, bounds
    <3>3. CASE Finish
      BY <3>3 DEF Finish, Save, SaveBoundaries, Close, ExitFailure, bounds
    <3>4. CASE Environment
      BY <3>4 DEF Environment, PressKey, Interrupt, Arrive, DiskFills, Tick, bounds
    <3>5. CASE UNCHANGED vars
      BY <3>5 DEF vars, bounds
    <3> QED
      BY <1>5, <3>1, <3>2, <3>3, <3>4, <3>5 DEF Next, Process, Loop
  <2> QED
    BY <1>2, <2>1 DEF RoomInv
<1> QED
  BY <1>3, <1>4, <1>5

LEMMA RoomInvHolds == Spec => [](TypeOK /\ RoomInv)
<1>1. Init => RoomInv
  <2>1. Init => bbuf = << >> /\ splits = << >> /\ Len(<< >>) = 0
    BY EmptySeq DEF Init
  <2> QED
    BY <2>1, RoomTypes DEF RoomInv
<1> QED
  BY <1>1, TypeInit, TypeStep, RoomStep, PTL DEF Spec

\* The record buffer is overrun by the captures that make more reads than it
\* has room for and by no others, unless its size is a multiple of a record's.
THEOREM RoomIsForRecords == Spec => []RoomForRecords
<1>1. TypeOK /\ RoomInv => RoomForRecords
  <2> SUFFICES ASSUME TypeOK, RoomInv PROVE RoomForRecords
    OBVIOUS
  <2>1. Len(bbuf) \in Nat /\ Len(splits) \in Nat
    BY LenProperties DEF TypeOK
  <2>2. BoundaryPtrInBuffer <=> Len(bbuf) <= RecordsThatFit
    BY PtrInBuffer
  <2> QED
    BY <2>1, <2>2, RoomTypes DEF RoomInv, RoomForRecords, Keeping
<1> QED
  BY <1>1, RoomInvHolds, PTL

\* With the program's buffer that is 3854 reads, no more and no less.
THEOREM ReadsThatFit ==
  ASSUME StreamBuf = 65536
  PROVE  Spec => [](opt.mode = "stream" /\ pc \in NotSaved =>
                      (BoundaryPtrInBuffer <=> Len(splits) <= 3854))
<1>1. ~RecordsFill /\ RecordsThatFit = 3854
  <2>1. BoundariesCap = 65529
    BY DEF BoundariesCap
  <2> QED
    BY <2>1 DEF RecordsFill, RecordsThatFit, RecordSize
<1>2. RoomForRecords => (opt.mode = "stream" /\ pc \in NotSaved =>
                           (BoundaryPtrInBuffer <=> Len(splits) <= 3854))
  BY <1>1 DEF RoomForRecords
<1> QED
  BY <1>2, RoomIsForRecords, PTL

-----------------------------------------------------------------------------
(***************************************************************************)
(* The disk.                                                               *)
(***************************************************************************)
\* The stream's first n bytes are n.
LEMMA FromStart == \A n \in Nat : Len(Bytes(0, n)) = n
<1> SUFFICES ASSUME NEW n \in Nat PROVE Len(Bytes(0, n)) = n
  OBVIOUS
<1>1. 0 \in Nat /\ 0 <= n /\ n - 0 = n
  OBVIOUS
<1> QED
  BY <1>1, BytesProperties

\* The inductive invariant: while the disk has room every byte received in
\* stream mode is in the stream, which the C library empties at the exit.
DiskInv ==
  /\ opt.mode = "stream" /\ ~diskfull =>
       /\ pc \in NotSaved \union {"failing"} => Len(file) = got
       /\ pc = "failure" => disk = got
  /\ pc = "success" /\ ~diskfull => disk = Len(file)

\* A device that is unplugged, or another failure, costs nothing that had
\* been received in stream mode before it.
THEOREM UnplugLosesNothing == Spec => []UnplugKeepsFile
<1>1. Init => DiskInv
  BY EmptySeq DEF Init, DiskInv
<1>2. CaptureInv /\ DiskInv /\ [Next]_vars => DiskInv'
  <2> SUFFICES ASSUME CaptureInv, DiskInv, [Next]_vars
               PROVE  DiskInv'
    OBVIOUS
  <2> USE DEF Goto, NotSaved, Final, Running, world
  <2>1. /\ opt' = opt /\ CaptureInv'
        /\ diskfull \in BOOLEAN /\ diskfull' \in BOOLEAN
    BY FileGrows, TypeStep, RingStep, FileStep DEF CaptureInv, TypeOK
  <2>2. opt.mode = "stream" /\ pc' \in NotSaved => Len(file') = got'
    <3>1. ASSUME opt.mode = "stream", pc' \in NotSaved PROVE Len(file') = got'
      <4>1. file' = (Promise!Window(opt.mode, opt.size, got))' /\ got' \in Nat
            /\ opt.size \in Nat
        BY <2>1, <3>1, FileGrows, OptionTypes DEF CaptureInv, FileHolds, TypeOK
      <4>2. file' = Bytes(0, got')
        BY <2>1, <3>1, <4>1, WindowTypes
      <4> QED
        BY <4>1, <4>2, FromStart
    <3> QED
      BY <3>1
  <2>3. CASE Close \/ ExitFailure
    BY <2>1, <2>3 DEF Close, ExitFailure, FlushAtExit, DiskInv
  <2>4. CASE ReadToFileFails \/ ReadAndRecord \/ SaveBoundaries
    BY <2>1, <2>2, <2>4 DEF ReadToFileFails, WriteDataFails, ReadAndRecord,
       SaveBoundaries, Read, DiskInv
  <2>5. CASE ReadToBuffer \/ ReadToRing \/ Save
    BY <2>1, <2>5 DEF ReadToBuffer, ReadToRing, Save, DiskInv
  <2>6. CASE ReadToFile
    BY <2>2, <2>6 DEF ReadToFile, DiskInv
  <2>7. CASE Setup \/ ShouldQuit \/ ReadFails \/ Crash \/ Environment \/ UNCHANGED vars
    <3>1. /\ UNCHANGED <<got, file, disk>> /\ (diskfull => diskfull')
          /\ pc' \in NotSaved \union {"failing"} => pc \in NotSaved \union {"failing"}
          /\ pc' \in {"failure", "success"} => pc' = pc
      BY <2>7 DEF Setup, SetTimeouts, OpenOutput, OpenBoundaries, InstallHandler,
         ShouldQuit, ReadFails, Crash, Environment, PressKey, Interrupt, Arrive, DiskFills,
         Tick, vars
    <3> QED
      BY <2>1, <3>1 DEF DiskInv
  <2> QED
    BY <2>3, <2>4, <2>5, <2>6, <2>7 DEF Next, Process, Loop, Finish
<1>3. DiskInv => UnplugKeepsFile
  BY DEF DiskInv, UnplugKeepsFile
<1> QED
  BY <1>1, <1>2, <1>3, CaptureInvHolds, PTL DEF Spec

-----------------------------------------------------------------------------
(***************************************************************************)
(* The display.                                                            *)
(***************************************************************************)
\* The inductive invariant.
DisplayInv ==
  /\ shown <= got
  /\ opt.mode = "buffer" /\ index = opt.size => shown = opt.size

\* Every step keeps the count honest.
LEMMA DisplayStep ==
  ASSUME CaptureInv, DisplayInv, [Next]_vars
  PROVE  DisplayInv'
<1> USE DEF progress
<1>1. /\ opt' = opt /\ TypeOK /\ RingHolds /\ RingHolds'
      /\ got \in Nat /\ got' \in Nat /\ got <= got' /\ shown \in Nat
      /\ opt \in Options /\ opt.size \in Nat
      /\ index \in 0..opt.size /\ index' \in 0..opt.size
  <2>1. opt' = opt /\ got' \in Nat /\ got' >= got
    BY FileGrows
  <2>2. TypeOK /\ TypeOK' /\ RingHolds /\ RingHolds'
    BY TypeStep, RingStep DEF CaptureInv
  <2>3. /\ got \in Nat /\ shown \in Nat /\ opt \in Options
        /\ index \in 0..opt.size /\ index' \in 0..opt'.size
    BY <2>2 DEF TypeOK
  <2> QED
    BY <2>1, <2>2, <2>3, OptionTypes
<1>2. CASE ReadToBuffer
  <2>1. /\ opt.mode = "buffer" /\ pc = "read"
        /\ ShowProgress(index' = opt.size, index')
    BY <1>2 DEF ReadToBuffer, Read
  <2>2. got' = index'
    BY <1>1, <2>1 DEF RingHolds
  <2>3. shown' = index' \/ (shown' = shown /\ index' # opt.size)
    BY <2>1 DEF ShowProgress
  <2> QED
    BY <1>1, <2>2, <2>3 DEF DisplayInv
<1>3. CASE ReadToRing
  <2>1. opt.mode = "circular" /\ (shown' = index' \/ shown' = shown)
    BY <1>3 DEF ReadToRing, ShowProgress
  <2>2. index' <= got'
    BY <1>1, <2>1 DEF RingHolds
  <2> QED
    BY <1>1, <2>1, <2>2 DEF DisplayInv
<1>4. CASE ReadToFile \/ ReadToFileFails \/ ReadAndRecord
  <2>1. opt.mode = "stream" /\ (shown' = got' \/ shown' = shown)
    BY <1>4 DEF ReadToFile, ReadToFileFails, ReadAndRecord, ShowProgress
  <2> QED
    BY <1>1, <2>1 DEF DisplayInv
<1>5. CASE \/ Setup \/ ShouldQuit \/ ReadFails \/ Crash \/ Finish \/ Environment
           \/ UNCHANGED vars
  <2>1. UNCHANGED <<shown, index, got>>
    BY <1>5 DEF Setup, SetTimeouts, OpenOutput, OpenBoundaries, InstallHandler,
       ShouldQuit, ReadFails, Crash, Finish, Save, SaveBoundaries, Close, ExitFailure,
       Environment, PressKey, Interrupt, Arrive, DiskFills, Tick, vars, ring
  <2> QED
    BY <1>1, <2>1 DEF DisplayInv
<1> QED
  BY <1>2, <1>3, <1>4, <1>5 DEF Next, Process, Loop

LEMMA DisplayInit ==
  ASSUME Init
  PROVE  DisplayInv
BY OptionTypes DEF Init, DisplayInv

\* The count on display is never more than was received, and that of a
\* full buffer is its size.
THEOREM ProgressIsHonest == Spec => []ProgressHonest
<1>1. Init => DisplayInv
  BY DisplayInit
<1>2. CaptureInv /\ DisplayInv /\ [Next]_vars => DisplayInv'
  BY DisplayStep
<1>3. DisplayInv => ProgressHonest
  BY DEF DisplayInv, ProgressHonest
<1> QED
  BY <1>1, <1>2, <1>3, CaptureInvHolds, PTL DEF Spec

-----------------------------------------------------------------------------
(***************************************************************************)
(* The user who ends a capture.                                            *)
(***************************************************************************)
\* A step of main2 after the user asked it to quit.
LEMMA QuitStep ==
  ASSUME TypeOK, [Next]_vars, pc' # pc, quit
  PROVE  CallsLeft' < CallsLeft
<1> USE DEF Goto
<1>1. CASE Setup
  <2>1. \/ pc = "timeouts" /\ pc' \in {"open", "failing"}
        \/ pc = "open" /\ pc' \in {"boundaries", "handler", "failing"}
        \/ pc = "boundaries" /\ pc' = "handler"
        \/ pc = "handler" /\ pc' \in {"check", "aborted", "failing"}
    BY <1>1 DEF Setup, SetTimeouts, OpenOutput, OpenBoundaries, InstallHandler
  <2> QED
    BY <2>1 DEF CallsLeft
<1>2. CASE ShouldQuit
  <2>1. pc = "check" /\ pc' = "save"
    BY <1>2 DEF ShouldQuit, Done
  <2> QED
    BY <2>1 DEF CallsLeft
<1>3. CASE \/ ReadToBuffer \/ ReadToRing \/ ReadToFile \/ ReadToFileFails
           \/ ReadAndRecord \/ ReadFails
  <2>1. pc = "read" /\ pc' \in {"check", "failing", "aborted"}
    BY <1>3 DEF ReadToBuffer, ReadToRing, ReadToFile, ReadToFileFails, ReadAndRecord,
       ReadFails, Read
  <2> QED
    BY <2>1 DEF CallsLeft
<1>4. CASE Finish
  <2>1. \/ pc = "save" /\ pc' \in {"close", "failing"}
        \/ pc = "close" /\ pc' = "success"
        \/ pc = "failing" /\ pc' = "failure"
    BY <1>4 DEF Finish, Save, SaveBoundaries, Close, ExitFailure
  <2> QED
    BY <2>1 DEF CallsLeft
<1>5. CASE Crash \/ Environment \/ UNCHANGED vars
  <2>1. /\ pc \in {"timeouts", "open", "boundaries", "handler", "check", "read",
                   "save", "close", "failing"}
        /\ pc' \in {"killed", "aborted"}
    BY <1>5 DEF Crash, Environment, PressKey, Interrupt, Arrive, DiskFills, Tick,
       vars, TypeOK, Running
  <2> QED
    BY <2>1 DEF CallsLeft
<1> QED
  BY <1>1, <1>2, <1>3, <1>4, <1>5 DEF Next, Process, Loop

\* A key press or SIGINT leaves main2 the calls of one way to its end and no
\* more, an FT_Read among them at most once.
THEOREM QuitNeverTurnsBack == Spec => QuitMovesOn
<1>1. TypeOK /\ [Next]_vars => [quit => CallsLeft' < CallsLeft]_pc
  BY QuitStep
<1> QED
  BY <1>1, TypeCorrect, PTL DEF Spec, QuitMovesOn
=============================================================================
