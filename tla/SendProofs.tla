----------------------------- MODULE SendProofs -----------------------------
(***************************************************************************)
(* Proofs about Send, for every list of files, chunk and driver queue.     *)
(***************************************************************************)
EXTENDS Send, ByteStreamProofs

USE DEF SendConstants

\* What is known of the files of a run.
LEMMA InputTypes ==
  ASSUME NEW e \in Inputs
  PROVE  /\ Len(e) \in Nat /\ Len(e) >= 1
         /\ \A i \in 1..Len(e) : e[i] \in Nat /\ e[i] <= e[Len(e)]
         /\ \A i \in 2..Len(e) : e[i - 1] <= e[i]
<1>1. e \in Seq(Nat) /\ e # << >>
      /\ \A i \in 1..Len(e), j \in 1..Len(e) : i <= j => e[i] <= e[j]
  BY SendAssumption
<1>2. Len(e) \in Nat /\ Len(e) # 0
  BY <1>1, EmptySeq, LenProperties
<1>3. \A i \in 1..Len(e) : e[i] \in Nat
  BY <1>1, ElementOfSeq
<1>4. ASSUME NEW i \in 1..Len(e) PROVE e[i] <= e[Len(e)]
  <2>1. Len(e) \in 1..Len(e) /\ i <= Len(e)
    BY <1>2
  <2> QED
    BY <1>1, <2>1
<1>5. ASSUME NEW i \in 2..Len(e) PROVE e[i - 1] <= e[i]
  <2>1. i - 1 \in 1..Len(e) /\ i \in 1..Len(e) /\ i - 1 <= i
    BY <1>2
  <2> QED
    BY <1>1, <2>1
<1> QED
  BY <1>2, <1>3, <1>4, <1>5

\* A sequence is what FT_Write accepts of it followed by what is left.
LEMMA SplitChunk ==
  ASSUME NEW c \in Seq(Nat), NEW n \in 0..Len(c)
  PROVE  /\ SubSeq(c, 1, n) \in Seq(Nat) /\ Len(SubSeq(c, 1, n)) = n
         /\ SubSeq(c, n + 1, Len(c)) \in Seq(Nat)
         /\ SubSeq(c, 1, n) \o SubSeq(c, n + 1, Len(c)) = c
<1>1. Len(c) \in Nat /\ n \in Nat /\ n <= Len(c)
  BY LenProperties
<1>2. \A i \in 1..Len(c) : c[i] \in Nat
  BY ElementOfSeq
<1>3. SubSeq(c, 1, n) \in Seq(Nat) /\ Len(SubSeq(c, 1, n)) = n
  <2>1. \A i \in 1..n : c[i] \in Nat
    BY <1>1, <1>2
  <2> QED
    BY <1>1, <2>1, SubSeqProperties
<1>4. SubSeq(c, n + 1, Len(c)) \in Seq(Nat)
  <2>1. \A i \in (n + 1)..Len(c) : c[i] \in Nat
    BY <1>1, <1>2
  <2> QED
    BY <1>1, <2>1, SubSeqProperties
<1>5. SubSeq(c, 1, n) \o SubSeq(c, n + 1, Len(c)) = c
  <2> DEFINE s == SubSeq(c, 1, n)  t == SubSeq(c, n + 1, Len(c))
  <2>1. /\ Len(t) = Len(c) - n
        /\ \A i \in 1..(Len(c) - n) : t[i] = c[n + i]
    <3>1. \A i \in (n + 1)..Len(c) : c[i] \in Nat
      BY <1>1, <1>2
    <3>2. /\ Len(t) = IF n + 1 <= Len(c) THEN Len(c) - (n + 1) + 1 ELSE 0
          /\ \A i \in 1..(Len(c) - (n + 1) + 1) : t[i] = c[n + 1 + i - 1]
      BY <1>1, <3>1, SubSeqProperties
    <3> HIDE DEF t
    <3> QED
      BY <1>1, <3>2
  <2>2. \A i \in 1..n : s[i] = c[i]
    <3>1. \A i \in 1..n : c[i] \in Nat
      BY <1>1, <1>2
    <3>2. \A i \in 1..(n - 1 + 1) : s[i] = c[1 + i - 1]
      BY <1>1, <3>1, SubSeqProperties
    <3> HIDE DEF s
    <3> QED
      BY <1>1, <3>2
  <2>3. s \in Seq(Nat) /\ Len(s) = n /\ t \in Seq(Nat)
    BY <1>3, <1>4
  <2> HIDE DEF s, t
  <2>4. /\ s \o t \in Seq(Nat) /\ Len(s \o t) = Len(s) + Len(t)
        /\ \A i \in 1..(Len(s) + Len(t)) :
              (s \o t)[i] = IF i <= Len(s) THEN s[i] ELSE t[i - Len(s)]
    BY <2>3, ConcatProperties
  <2>5. Len(s \o t) = Len(c)
    BY <1>1, <2>1, <2>3, <2>4
  <2>6. ASSUME NEW i \in 1..Len(c) PROVE (s \o t)[i] = c[i]
    <3>0. (s \o t)[i] = IF i <= n THEN s[i] ELSE t[i - n]
      BY <2>3, <2>4, <2>5
    <3>1. CASE i <= n
      BY <1>1, <2>2, <3>0, <3>1
    <3>2. CASE ~(i <= n)
      <4>1. i - n \in 1..(Len(c) - n) /\ n + (i - n) = i
        BY <1>1, <3>2
      <4> QED
        BY <2>1, <3>0, <3>2, <4>1
    <3> QED
      BY <3>1, <3>2
  <2>7. s \o t = c
    BY <2>4, <2>5, <2>6, SeqEqual
  <2> QED
    BY <2>7 DEF s, t
<1> QED
  BY <1>3, <1>4, <1>5
LEMMA WriteKeeps ==
  ASSUME NEW w \in Seq(Nat), NEW c \in Seq(Nat), NEW n \in 0..Len(c)
  PROVE  (w \o SubSeq(c, 1, n)) \o SubSeq(c, n + 1, Len(c)) = w \o c
<1> DEFINE s == SubSeq(c, 1, n)  t == SubSeq(c, n + 1, Len(c))
<1>1. s \in Seq(Nat) /\ t \in Seq(Nat)
  BY SplitChunk
<1>2. s \o t = c
  BY SplitChunk
<1> HIDE DEF s, t
<1>3. (w \o s) \o t = w \o (s \o t)
  BY <1>1, Associative
<1>4. (w \o s) \o t = w \o c
  BY <1>2, <1>3
<1> QED
  BY <1>4 DEF s, t

-----------------------------------------------------------------------------
\* The inductive invariant.
SendInv == TypeOK /\ NothingDropped /\ FilesInOrder

\* FT_Write accepts the first n bytes of a chunk, for which there is room.
LEMMA WriteTypes ==
  ASSUME TypeOK, WriteChunk
  PROVE  \E n \in 0..Len(chunk) : /\ n <= QueueSize - (Len(wire) - taken)
                                 /\ wire' = wire \o SubSeq(chunk, 1, n)
                                 /\ chunk' = SubSeq(chunk, n + 1, Len(chunk))
<1> DEFINE room == QueueSize - (Len(wire) - taken)
           n == IF Len(chunk) < room THEN Len(chunk) ELSE room
<1>1. Len(wire) \in Nat /\ Len(chunk) \in Nat /\ taken \in Nat /\ QueueSize \in Nat
      /\ Len(wire) - taken <= QueueSize
  BY LenProperties, SendAssumption DEF TypeOK
<1>2. room >= 0 /\ room \in Int
  BY <1>1
<1>3. n \in 0..Len(chunk) /\ n <= room
  <2> HIDE DEF room
  <2> QED
    BY <1>1, <1>2
<1>4. wire' = wire \o SubSeq(chunk, 1, n) /\ chunk' = SubSeq(chunk, n + 1, Len(chunk))
  BY DEF WriteChunk, Left
<1> HIDE DEF n
<1> QED
  BY <1>3, <1>4

\* A read takes the next bytes of the file and stops at its end.
LEMMA ReadTypes ==
  ASSUME SendInv, ReadFile
  PROVE  /\ pos' \in Nat /\ pos <= pos' /\ pos' <= ends[path]
         /\ chunk' = Bytes(pos, pos')
         /\ eof' \in BOOLEAN /\ (eof' => pos' = ends[path])
         /\ chunk' \in Seq(Nat)
<1> DEFINE n == IF FileEnd - pos < ChunkSize THEN FileEnd - pos ELSE ChunkSize
<1>1. pos \in Nat /\ ends[path] \in Nat /\ pos <= ends[path] /\ ChunkSize \in Nat
  BY InputTypes, SendAssumption DEF SendInv, TypeOK, FilesInOrder, ReadFile
<1>2. n \in Nat /\ n <= ends[path] - pos /\ (n < ChunkSize => n = ends[path] - pos)
  BY <1>1 DEF FileEnd
<1>3. pos' = pos + n /\ chunk' = Bytes(pos, pos + n) /\ eof' = (n < ChunkSize)
  BY DEF ReadFile, EofSeen
<1> HIDE DEF n
<1>4. pos' \in Nat /\ pos <= pos' /\ pos' <= ends[path] /\ (eof' => pos' = ends[path])
  <2>1. pos' \in Nat /\ pos <= pos' /\ pos' <= ends[path]
    BY <1>1, <1>2, <1>3
  <2>2. n < ChunkSize => pos' = ends[path]
    BY <1>1, <1>2, <1>3
  <2> QED
    BY <1>3, <2>1, <2>2
<1>5. chunk' \in Seq(Nat)
  BY <1>1, <1>3, <1>4, BytesProperties
<1> QED
  BY <1>3, <1>4, <1>5

\* Every step keeps the variables in their types.
LEMMA TypeStep ==
  ASSUME SendInv, [Next]_vars
  PROVE  TypeOK'
<1> USE DEF file, Ended
<1> /\ TypeOK /\ ends \in Inputs /\ Len(ends) \in Nat /\ Len(wire) \in Nat
    /\ \A i \in 1..Len(ends) : ends[i] \in Nat /\ ends[i] <= ends[Len(ends)]
  BY InputTypes, LenProperties DEF SendInv, TypeOK
<1>1. CASE OpenFile
  BY <1>1, SendAssumption DEF OpenFile, TypeOK
<1>2. CASE GetSize
  BY <1>2 DEF GetSize, TypeOK
<1>3. CASE ReadFile
  <2>1. path \in 1..Len(ends) /\ pos' \in 0..ends[Len(ends)]
    <3>1. path \in 1..Len(ends)
      BY <1>3 DEF SendInv, FilesInOrder, TypeOK, ReadFile
    <3>2. pos' \in Nat /\ pos' <= ends[path] /\ ends[path] <= ends[Len(ends)]
          /\ ends[Len(ends)] \in Nat
      BY <1>3, <3>1, ReadTypes
    <3> QED
      BY <3>1, <3>2
  <2>2. UNCHANGED <<ends, path, opened, wire, taken>> /\ pc' = "write"
    BY <1>3 DEF ReadFile
  <2> QED
    BY <1>3, <2>1, <2>2, ReadTypes DEF TypeOK
<1>4. CASE WriteChunk
  <2>1. PICK n \in 0..Len(chunk) : /\ n <= QueueSize - (Len(wire) - taken)
                                   /\ wire' = wire \o SubSeq(chunk, 1, n)
                                   /\ chunk' = SubSeq(chunk, n + 1, Len(chunk))
    BY <1>4, WriteTypes
  <2>2. /\ SubSeq(chunk, 1, n) \in Seq(Nat) /\ Len(SubSeq(chunk, 1, n)) = n
        /\ chunk' \in Seq(Nat) /\ n \in Nat
    <3>1. chunk \in Seq(Nat) /\ Len(chunk) \in Nat
      BY LenProperties DEF TypeOK
    <3> QED
      BY <2>1, <3>1, SplitChunk
  <2>3. wire' \in Seq(Nat) /\ Len(wire') = Len(wire) + n
    BY <2>1, <2>2, ConcatProperties DEF TypeOK
  <2>4. UNCHANGED <<ends, pc, file, taken>>
    BY <1>4 DEF WriteChunk
  <2>5. taken' \in 0..Len(wire') /\ Len(wire') - taken' <= QueueSize
    BY <2>1, <2>2, <2>3, <2>4, SendAssumption DEF TypeOK
  <2> QED
    BY <2>2, <2>3, <2>4, <2>5 DEF TypeOK
<1>5. CASE ChunkDone \/ Close \/ ExitFailure
  BY <1>5 DEF ChunkDone, Close, ExitFailure, TypeOK
<1>6. CASE NextFile
  <2>1. path' \in 1..(Len(ends) + 1)
    BY <1>6 DEF NextFile, NextPath, SendInv, FilesInOrder, TypeOK
  <2> QED
    BY <1>6, <2>1 DEF NextFile, NextPath, TypeOK
<1>7. CASE Failure
  BY <1>7 DEF Failure, CallFails, TypeOK
<1>8. CASE Interrupt
  BY <1>8 DEF Interrupt, TypeOK
<1>9. CASE DeviceTakes
  BY <1>9, SendAssumption DEF DeviceTakes, TypeOK
<1>10. CASE UNCHANGED vars
  BY <1>10 DEF vars, TypeOK
<1> QED
  BY <1>1, <1>2, <1>3, <1>4, <1>5, <1>6, <1>7, <1>8, <1>9, <1>10 DEF Next, Process

\* Every step keeps the place in the files.
LEMMA OrderStep ==
  ASSUME SendInv, [Next]_vars
  PROVE  FilesInOrder'
<1> USE DEF file, Ended
<1> /\ ends \in Inputs /\ Len(ends) \in Nat /\ Len(ends) >= 1
    /\ path \in 1..(Len(ends) + 1) /\ pos \in Nat /\ eof \in BOOLEAN
    /\ \A i \in 1..Len(ends) : ends[i] \in Nat
    /\ \A i \in 2..Len(ends) : ends[i - 1] <= ends[i]
  BY InputTypes DEF SendInv, TypeOK
<1> FilesInOrder
  BY DEF SendInv
<1>1. CASE OpenFile
  BY <1>1 DEF OpenFile, FilesInOrder
<1>2. CASE GetSize
  <2>1. pos <= ends[path]
    BY <1>2 DEF GetSize, FilesInOrder
  <2> QED
    BY <1>2, <2>1 DEF GetSize, FileEnd, FilesInOrder
<1>3. CASE ReadFile
  BY <1>3, ReadTypes DEF ReadFile, FilesInOrder
<1>4. CASE WriteChunk
  <2>1. UNCHANGED <<ends, pc, file>> /\ pc = "write"
    BY <1>4 DEF WriteChunk
  <2> QED
    BY <2>1 DEF FilesInOrder
<1>5. CASE ChunkDone
  BY <1>5 DEF ChunkDone, FilesInOrder
<1>6. CASE NextFile
  BY <1>6 DEF NextFile, NextPath, FilesInOrder
<1>7. CASE Close \/ ExitFailure \/ Failure \/ Interrupt
  BY <1>7 DEF Close, ExitFailure, Failure, CallFails, Interrupt, FilesInOrder
<1>8. CASE DeviceTakes \/ UNCHANGED vars
  BY <1>8 DEF DeviceTakes, vars, FilesInOrder
<1> QED
  BY <1>1, <1>2, <1>3, <1>4, <1>5, <1>6, <1>7, <1>8 DEF Next, Process

\* Every step keeps the bytes together.
LEMMA DroppedStep ==
  ASSUME SendInv, [Next]_vars
  PROVE  NothingDropped'
<1> USE DEF file
<1> /\ TypeOK /\ NothingDropped /\ ends \in Inputs /\ pos \in Nat
    /\ wire \in Seq(Nat) /\ chunk \in Seq(Nat)
  BY InputTypes DEF SendInv, TypeOK
<1>1. CASE ReadFile
  <2>1. chunk = << >> /\ wire' = wire /\ pc' = "write"
    BY <1>1 DEF ReadFile, SendInv, FilesInOrder
  <2>2. wire = Bytes(0, pos)
    BY <2>1, ConcatEmptySeq DEF NothingDropped
  <2>3. Bytes(0, pos) \o Bytes(pos, pos') = Bytes(0, pos')
    <3>1. 0 \in Nat /\ 0 <= pos
      OBVIOUS
    <3> QED
      BY <1>1, <3>1, ReadTypes, BytesConcat
  <2> QED
    BY <1>1, <2>1, <2>2, <2>3, ReadTypes DEF NothingDropped
<1>2. CASE WriteChunk
  <2>1. PICK n \in 0..Len(chunk) : /\ wire' = wire \o SubSeq(chunk, 1, n)
                                   /\ chunk' = SubSeq(chunk, n + 1, Len(chunk))
    BY <1>2, WriteTypes
  <2>2. wire' \o chunk' = wire \o chunk
    BY <2>1, WriteKeeps
  <2>3. pos' = pos /\ pc' = "write"
    BY <1>2 DEF WriteChunk
  <2> QED
    BY <2>2, <2>3 DEF NothingDropped
<1>3. CASE Close
  <2>1. /\ path = Len(ends) + 1 /\ chunk = << >> /\ Len(ends) >= 1
        /\ pos = IF path = 1 THEN 0 ELSE ends[path - 1]
    BY <1>3, InputTypes DEF Close, SendInv, FilesInOrder, TypeOK
  <2>2. pos = ends[Len(ends)]
    BY <2>1, InputTypes
  <2>3. wire = Bytes(0, pos)
    BY <2>1, ConcatEmptySeq DEF NothingDropped
  <2>4. UNCHANGED <<ends, file, chunk, wire>>
    BY <1>3 DEF Close
  <2> QED
    BY <2>2, <2>3, <2>4 DEF NothingDropped
<1>4. CASE \/ OpenFile \/ GetSize \/ ChunkDone \/ NextFile \/ ExitFailure
           \/ Failure \/ Interrupt \/ DeviceTakes \/ UNCHANGED vars
  <2>1. UNCHANGED <<ends, pos, chunk, wire>> /\ (pc' = "success" => pc = "success")
    BY <1>4 DEF OpenFile, GetSize, ChunkDone, NextFile, ExitFailure, Failure,
       CallFails, Interrupt, DeviceTakes, vars
  <2> QED
    BY <2>1 DEF NothingDropped
<1> QED
  BY <1>1, <1>2, <1>3, <1>4 DEF Next, Process

LEMMA SendInvInit ==
  ASSUME Init
  PROVE  SendInv
<1>1. /\ ends \in Inputs /\ Len(ends) \in Nat /\ Len(ends) >= 1
      /\ ends[Len(ends)] \in Nat
  BY InputTypes DEF Init
<1>2. << >> \in Seq(Nat) /\ Len(<< >>) = 0 /\ << >> \o << >> = << >>
  BY EmptySeq, ConcatEmptySeq
<1>3. Bytes(0, 0) = << >>
  BY BytesProperties, EmptySeq
<1>4. TypeOK
  <2>1. wire \in Seq(Nat) /\ chunk \in Seq(Nat) /\ Len(wire) = 0 /\ taken = 0
    BY <1>2 DEF Init
  <2>2. taken \in 0..Len(wire) /\ Len(wire) - taken <= QueueSize
    BY <2>1, SendAssumption
  <2>3. /\ path \in 1..(Len(ends) + 1) /\ opened \in 0..OpenLimit
        /\ pos \in 0..ends[Len(ends)]
    BY <1>1, SendAssumption DEF Init
  <2> QED
    BY <1>1, <2>1, <2>2, <2>3 DEF Init, TypeOK
<1>5. NothingDropped
  BY <1>2, <1>3 DEF Init, NothingDropped
<1>6. FilesInOrder
  BY <1>1 DEF Init, FilesInOrder
<1> QED
  BY <1>4, <1>5, <1>6 DEF SendInv

LEMMA SendInvHolds == Spec => []SendInv
<1>1. Init => SendInv
  BY SendInvInit
<1>2. SendInv /\ [Next]_vars => SendInv'
  BY TypeStep, OrderStep, DroppedStep DEF SendInv
<1> QED
  BY <1>1, <1>2, PTL DEF Spec

\* Every variable of main2 keeps its type, and the driver's queue its limit.
THEOREM SendTypeCorrect == Spec => []TypeOK
<1>1. SendInv => TypeOK
  BY DEF SendInv
<1> QED
  BY <1>1, SendInvHolds, PTL

\* The files are read one after the other, each from its start to its end.
THEOREM FilesInTheirOrder == Spec => []FilesInOrder
<1>1. SendInv => FilesInOrder
  BY DEF SendInv
<1> QED
  BY <1>1, SendInvHolds, PTL

\* No byte of the files is dropped, repeated or moved on its way to the
\* driver, however FT_Write cuts up the chunks.
THEOREM SendsEverything == Spec => []NothingDropped
<1>1. SendInv => NothingDropped
  BY DEF SendInv
<1> QED
  BY <1>1, SendInvHolds, PTL

\* What comes before the rest of a chunk is the beginning of the files' bytes.
LEMMA WireIsPrefix ==
  ASSUME NEW w \in Seq(Nat), NEW c \in Seq(Nat), NEW p \in Nat, NEW n \in Nat,
         p <= n, w \o c = Bytes(0, p)
  PROVE  IsPrefix(w, Bytes(0, n))
<1>1. Bytes(0, p) \in Seq(Nat) /\ Bytes(p, n) \in Seq(Nat)
      /\ Bytes(0, p) \o Bytes(p, n) = Bytes(0, n)
  <2>1. 0 \in Nat /\ 0 <= p
    OBVIOUS
  <2> QED
    BY <2>1, BytesProperties, BytesConcat
<1>2. IsPrefix(w, Bytes(0, p))
  BY PrefixOfConcat
<1>3. IsPrefix(Bytes(0, p), Bytes(0, n)) /\ Bytes(0, n) \in Seq(Nat)
  BY <1>1, PrefixOfConcat, ConcatProperties
<1> QED
  BY <1>1, <1>2, <1>3, PrefixTransitive

\* The driver is only ever given more.
LEMMA WireGrows ==
  ASSUME TypeOK, [Next]_vars
  PROVE  Len(wire) <= Len(wire')
<1>1. Len(wire) \in Nat
  BY LenProperties DEF TypeOK
<1>2. CASE WriteChunk
  <2>1. PICK n \in 0..Len(chunk) : wire' = wire \o SubSeq(chunk, 1, n)
    BY <1>2, WriteTypes
  <2>2. wire \in Seq(Nat) /\ SubSeq(chunk, 1, n) \in Seq(Nat)
        /\ Len(SubSeq(chunk, 1, n)) = n
    BY <2>1, SplitChunk DEF TypeOK
  <2>3. Len(wire') = Len(wire) + n
    BY <2>1, <2>2, ConcatProperties
  <2> QED
    BY <1>1, <2>3
<1>3. CASE ~WriteChunk
  <2>1. wire' = wire
    BY <1>3 DEF Next, Process, OpenFile, GetSize, ReadFile, ChunkDone, NextFile, Close,
       ExitFailure, Failure, CallFails, Interrupt, DeviceTakes, vars
  <2> QED
    BY <1>1, <2>1
<1> QED
  BY <1>2, <1>3

\* What Transmission makes of a step of main2.
LEMMA PromiseStep ==
  ASSUME SendInv, SendInv', [Next]_vars
  PROVE  [Promise!Next]_(Promise!vars)
<1> USE DEF file
<1>1. CASE WriteChunk
  <2>1. PICK n \in 0..Len(chunk) : wire' = wire \o SubSeq(chunk, 1, n)
    BY <1>1, WriteTypes DEF SendInv
  <2>2. wire \in Seq(Nat) /\ SubSeq(chunk, 1, n) \in Seq(Nat)
    BY <2>1, SplitChunk DEF SendInv, TypeOK
  <2>3. IsPrefix(wire, wire')
    BY <2>1, <2>2, PrefixOfConcat
  <2>4. IsPrefix(wire', Bytes(0, (ends[Len(ends)])'))
    <3> DEFINE total == ends[Len(ends)]
    <3>1. total' \in Nat
      BY InputTypes, <1>1 DEF SendInv, TypeOK, WriteChunk
    <3>2. /\ wire' \in Seq(Nat) /\ chunk' \in Seq(Nat)
          /\ pos' \in 0..total' /\ wire' \o chunk' = Bytes(0, pos')
      BY DEF SendInv, TypeOK, NothingDropped
    <3>3. pos' \in Nat /\ pos' <= total'
      BY <3>1, <3>2
    <3> HIDE DEF total
    <3>4. IsPrefix(wire', Bytes(0, total'))
      BY <3>1, <3>2, <3>3, WireIsPrefix
    <3> QED
      BY <3>4 DEF total
  <2>5. ends' = ends /\ pc = "write" /\ pc' = pc
    BY <1>1 DEF WriteChunk
  <2> QED
    BY <2>3, <2>4, <2>5 DEF Promise!Next, Promise!Send, Outcome,
       IsPrefix, Promise!IsPrefix, Bytes, Promise!Bytes
<1>2. CASE Close
  <2>1. pc = "open" /\ pc' = "success" /\ UNCHANGED <<ends, wire>>
    BY <1>2 DEF Close
  <2>2. wire = Bytes(0, ends[Len(ends)])
    BY <2>1 DEF SendInv, NothingDropped
  <2> QED
    BY <2>1, <2>2 DEF Promise!Next, Promise!Finish, Outcome, Bytes, Promise!Bytes
<1>3. CASE \/ OpenFile \/ GetSize \/ ReadFile \/ ChunkDone \/ NextFile
           \/ ExitFailure \/ Failure \/ Interrupt \/ DeviceTakes \/ UNCHANGED vars
  <2>1. UNCHANGED <<ends, wire>>
    BY <1>3 DEF OpenFile, GetSize, ReadFile, ChunkDone, NextFile, ExitFailure,
       Failure, CallFails, Interrupt, DeviceTakes, vars
  <2>2. Outcome' = Outcome \/ (Outcome = "sending" /\ Outcome' = "failed")
    BY <1>3 DEF OpenFile, GetSize, ReadFile, ChunkDone, NextFile, ExitFailure,
       Failure, CallFails, Interrupt, DeviceTakes, vars, Outcome, Ended
  <2> QED
    BY <2>1, <2>2 DEF Promise!Next, Promise!Fail, Promise!vars
<1> QED
  BY <1>1, <1>2, <1>3 DEF Next, Process

\* d2xx_send implements Transmission.
THEOREM SendImplementsTransmission == Spec => ImplementsTransmission
<1>1. Init => Promise!Init
  BY DEF Init, Promise!Init, Outcome
<1>2. SendInv /\ SendInv' /\ [Next]_vars => [Promise!Next]_(Promise!vars)
  BY PromiseStep
<1> QED
  BY <1>1, <1>2, SendInvHolds, PTL DEF Spec, Promise!Spec, ImplementsTransmission

-----------------------------------------------------------------------------
(***************************************************************************)
(* How long main2 runs.                                                    *)
(***************************************************************************)
LEMMA WorkTypes ==
  ASSUME TypeOK
  PROVE  /\ Len(ends) \in Nat /\ ends[Len(ends)] \in Nat /\ Len(chunk) \in Nat
         /\ FilesLeft \in Nat /\ BytesLeft \in Nat /\ CallsLeft \in 0..6
<1>1. /\ Len(ends) \in Nat /\ path \in 1..(Len(ends) + 1)
      /\ ends[Len(ends)] \in Nat /\ pos \in 0..ends[Len(ends)]
  BY InputTypes DEF TypeOK
<1>2. Len(chunk) \in Nat
  BY LenProperties DEF TypeOK
<1>3. CallsLeft \in 0..6
  BY DEF CallsLeft, TypeOK, Ended
<1>4. FilesLeft \in Nat
  BY <1>1 DEF FilesLeft
<1>5. BytesLeft \in Nat
  BY <1>1, <1>2 DEF BytesLeft
<1> QED
  BY <1>1, <1>2, <1>3, <1>4, <1>5

\* FT_Write takes what it accepts off the chunk.
LEMMA ChunkShrinks ==
  ASSUME NEW c \in Seq(Nat), NEW n \in 0..Len(c), SubSeq(c, n + 1, Len(c)) # c
  PROVE  /\ Len(SubSeq(c, n + 1, Len(c))) \in Nat
         /\ Len(SubSeq(c, n + 1, Len(c))) < Len(c)
<1>1. Len(c) \in Nat
  BY LenProperties
<1>2. n # 0
  BY SubSeqFull
<1>3. \A i \in (n + 1)..Len(c) : c[i] \in Nat
  BY <1>1, ElementOfSeq
<1>4. Len(SubSeq(c, n + 1, Len(c))) = IF n + 1 <= Len(c) THEN Len(c) - (n + 1) + 1 ELSE 0
  BY <1>1, <1>3, SubSeqProperties
<1> QED
  BY <1>1, <1>2, <1>4

\* How much is left is known from the three parts of it.
LEMMA LessLeft ==
  ASSUME FilesLeft \in Int, BytesLeft \in Int, CallsLeft \in Int,
         FilesLeft' \in Int, BytesLeft' \in Int, CallsLeft' \in Int,
         \/ FilesLeft' = FilesLeft /\ BytesLeft' < BytesLeft /\ CallsLeft' = CallsLeft
         \/ FilesLeft' = FilesLeft /\ BytesLeft' + 1 < BytesLeft /\ CallsLeft' <= CallsLeft + 1
         \/ FilesLeft' = FilesLeft /\ BytesLeft' <= BytesLeft /\ CallsLeft' < CallsLeft
         \/ FilesLeft' = FilesLeft - 5 /\ BytesLeft' = BytesLeft /\ CallsLeft' = CallsLeft + 4
  PROVE  Work' < Work
<1>1. PICK f \in Int, b \in Int, c \in Int, g \in Int, d \in Int, e \in Int :
        /\ FilesLeft = f /\ BytesLeft = b /\ CallsLeft = c
        /\ FilesLeft' = g /\ BytesLeft' = d /\ CallsLeft' = e
  OBVIOUS
<1>2. g + d + e < f + b + c
  BY <1>1
<1> QED
  BY <1>1, <1>2 DEF Work

LEMMA WorkFalls ==
  ASSUME SendInv, Process \/ Failure \/ Interrupt,
         <<pc, path, pos, chunk>>' # <<pc, path, pos, chunk>>
  PROVE  Work' < Work
<1> USE DEF file
<1>1. /\ TypeOK /\ TypeOK'
      /\ pc \in {"open", "size", "read", "write", "next", "failing"} \union Ended
  BY TypeStep DEF SendInv, TypeOK, Next
<1>2. /\ FilesLeft \in Nat /\ BytesLeft \in Nat /\ CallsLeft \in 0..6
      /\ Len(chunk) \in Nat /\ Len(ends) \in Nat /\ ends[Len(ends)] \in Nat
  BY <1>1, WorkTypes
<1>3. CASE OpenFile \/ GetSize \/ Close \/ ExitFailure \/ Failure \/ Interrupt \/ ChunkDone
  <2>1. UNCHANGED <<ends, path, pos, chunk>>
    BY <1>3 DEF OpenFile, GetSize, Close, ExitFailure, Failure, CallFails, Interrupt, ChunkDone
  <2>2. CallsLeft' \in Nat /\ CallsLeft' < CallsLeft
    <3>1. CASE OpenFile \/ GetSize \/ Close \/ ExitFailure \/ ChunkDone
      BY <3>1 DEF OpenFile, GetSize, Close, ExitFailure, ChunkDone, CallsLeft
    <3>2. CASE Failure
      BY <3>2 DEF Failure, CallFails, CallsLeft
    <3>3. CASE Interrupt
      BY <1>1, <3>3 DEF Interrupt, CallsLeft, Ended
    <3> QED
      BY <1>3, <3>1, <3>2, <3>3
  <2>3. FilesLeft' = FilesLeft /\ BytesLeft' = BytesLeft
    BY <2>1 DEF FilesLeft, BytesLeft
  <2> QED
    BY <1>2, <2>2, <2>3, LessLeft
<1>4. CASE ReadFile
  <2>1. /\ pos \in Nat /\ pos' \in Nat /\ pos <= pos' /\ chunk' = Bytes(pos, pos')
        /\ ends[path] \in Nat /\ pos <= ends[path]
    BY <1>4, ReadTypes, InputTypes DEF SendInv, TypeOK, FilesInOrder, ReadFile
  <2>2. Len(chunk') = pos' - pos
    BY <2>1, BytesProperties
  <2>3. eof' \/ pos' > pos
    <3>1. ChunkSize \in Nat \ {0}
      BY SendAssumption
    <3>2. CASE ends[path] - pos < ChunkSize
      <4>1. eof' = TRUE
        BY <1>4, <2>1, <3>2 DEF ReadFile, FileEnd, EofSeen
      <4> QED
        BY <4>1
    <3>3. CASE ~(ends[path] - pos < ChunkSize)
      <4>1. pos' = pos + ChunkSize
        BY <1>4, <2>1, <3>3 DEF ReadFile, FileEnd
      <4> QED
        BY <2>1, <3>1, <4>1
    <3> QED
      BY <3>2, <3>3
  <2>4. UNCHANGED <<ends, path>> /\ pc = "read" /\ pc' = "write" /\ Len(chunk) = 0
    BY <1>1, <1>4, EmptySeq DEF ReadFile, SendInv, FilesInOrder
  <2>5. CallsLeft = 4 /\ CallsLeft' = IF eof' THEN 3 ELSE 5
    BY <2>4 DEF CallsLeft
  <2>6. FilesLeft' = FilesLeft
    BY <2>4 DEF FilesLeft
  <2>7. /\ BytesLeft' \in Int /\ BytesLeft' <= BytesLeft
        /\ ~eof' => BytesLeft' + 1 < BytesLeft
    <3>1. PICK t \in Nat, p \in Nat, q \in Nat :
            t = ends[Len(ends)] /\ p = pos /\ q = pos' /\ p <= q /\ (~eof' => q > p)
      BY <1>2, <2>1, <2>3
    <3>2. BytesLeft' = 3 * (t - q) + (q - p)
      BY <2>2, <2>4, <3>1 DEF BytesLeft
    <3>3. BytesLeft = 3 * (t - p) + 0
      BY <2>4, <3>1 DEF BytesLeft
    <3>4. /\ 3 * (t - q) + (q - p) \in Int
          /\ 3 * (t - q) + (q - p) <= 3 * (t - p) + 0
          /\ q > p => 3 * (t - q) + (q - p) + 1 < 3 * (t - p) + 0
      BY <3>1
    <3> QED
      BY <3>1, <3>2, <3>3, <3>4
  <2>8. CASE eof'
    BY <1>2, <2>5, <2>6, <2>7, <2>8, LessLeft
  <2>9. CASE ~eof'
    BY <1>2, <2>5, <2>6, <2>7, <2>9, LessLeft
  <2> QED
    BY <2>8, <2>9
<1>5. CASE WriteChunk
  <2>1. PICK n \in 0..Len(chunk) : chunk' = SubSeq(chunk, n + 1, Len(chunk))
    BY <1>1, <1>5, WriteTypes
  <2>2. UNCHANGED <<ends, path, pos, pc, eof>> /\ chunk \in Seq(Nat)
    BY <1>1, <1>5 DEF WriteChunk, TypeOK
  <2>3. Len(chunk') \in Nat /\ Len(chunk') < Len(chunk)
    BY <2>1, <2>2, ChunkShrinks
  <2>4. CallsLeft' = CallsLeft /\ FilesLeft' = FilesLeft
    BY <2>2 DEF CallsLeft, FilesLeft
  <2>5. BytesLeft' \in Int /\ BytesLeft' < BytesLeft
    <3>1. pos \in Nat
      BY <1>1, <1>2 DEF TypeOK
    <3> QED
      BY <1>2, <2>2, <2>3, <3>1 DEF BytesLeft
  <2> QED
    BY <1>2, <2>4, <2>5, LessLeft
<1>6. CASE NextFile
  <2>1. UNCHANGED <<ends, pos, chunk>> /\ path' = path + 1 /\ pc = "next" /\ pc' = "open"
    BY <1>6 DEF NextFile, NextPath
  <2>2. CallsLeft = 2 /\ CallsLeft' = 6 /\ BytesLeft' = BytesLeft
    BY <2>1 DEF CallsLeft, BytesLeft
  <2>3. FilesLeft' = FilesLeft - 5
    BY <1>1, <1>2, <2>1 DEF FilesLeft, TypeOK
  <2> QED
    BY <1>2, <2>2, <2>3, LessLeft
<1> QED
  BY <1>3, <1>4, <1>5, <1>6 DEF Process

\* Every call of main2 but an FT_Write of which the device takes nothing brings
\* its end nearer, so that it makes no more than Work of them, for any files.
THEOREM SendNeverTurnsBack == Spec => SendMovesOn
<1>1. SendInv /\ [Next]_vars => [Work' < Work]_<<pc, path, pos, chunk>>
  <2> SUFFICES ASSUME SendInv, [Next]_vars,
                      <<pc, path, pos, chunk>>' # <<pc, path, pos, chunk>>
               PROVE  Work' < Work
    OBVIOUS
  <2>1. ~(DeviceTakes \/ UNCHANGED vars)
    BY DEF DeviceTakes, vars, file
  <2> QED
    BY <2>1, WorkFalls DEF Next
<1> QED
  BY <1>1, SendInvHolds, PTL DEF Spec, SendMovesOn
=============================================================================
