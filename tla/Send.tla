-------------------------------- MODULE Send --------------------------------
(***************************************************************************)
(* d2xx_send from the moment OpenDevice has returned a handle: main2 of    *)
(* src/d2xx_send/d2xx_send.cpp, which reads each file in chunks and writes *)
(* each chunk to the device in as many FT_Writes as the driver needs, and  *)
(* main's exit.                                                            *)
(*                                                                         *)
(* The files are one stream of numbered bytes: ends[k] is the number of    *)
(* the last byte of file k.                                                *)
(***************************************************************************)
EXTENDS ByteStreams

CONSTANTS
  Inputs,      \* the lists of files considered, each as its ends
  ChunkSize,   \* sizeof buffer
  QueueSize,   \* bytes the driver holds for the device
  OpenLimit    \* how many files a process may have open

SendConstants ==
  /\ \A e \in Inputs :
       /\ e \in Seq(Nat) /\ e # << >>
       /\ \A i \in 1..Len(e), j \in 1..Len(e) : i <= j => e[i] <= e[j]
  /\ ChunkSize \in Nat \ {0} /\ QueueSize \in Nat \ {0} /\ OpenLimit \in Nat \ {0}

ASSUME SendAssumption == SendConstants

VARIABLES
  ends,      \* the files of this run
  pc,        \* what main2 is about to do, or how the process ended
  path,      \* path_index, from 1
  opened,    \* how many files this process has open
  pos,       \* the bytes before the next one fread returns
  eof,       \* feof(f)
  chunk,     \* the bytes of buffer from p: left of them
  wire,      \* every byte the driver has accepted
  taken      \* how many of them the device has taken

vars == <<ends, pc, path, opened, pos, eof, chunk, wire, taken>>
file == <<path, opened, pos, eof>>

Ended == {"success", "failure", "killed"}

Outcome == CASE pc = "success" -> "sent"
             [] pc \in {"failing", "failure", "killed"} -> "failed"
             [] OTHER -> "sending"

Promise == INSTANCE Transmission
  WITH total <- ends[Len(ends)], sent <- wire, outcome <- Outcome

Init ==
  /\ ends \in Inputs
  /\ pc = "open" /\ path = 1 /\ opened = 0
  /\ pos = 0 /\ eof = FALSE /\ chunk = << >>
  /\ wire = << >> /\ taken = 0

-----------------------------------------------------------------------------
CallFails(from) ==
  /\ pc = from /\ pc' = "failing"
  /\ UNCHANGED <<ends, file, chunk, wire, taken>>

OpenFile ==
  /\ pc = "open" /\ path <= Len(ends)
  /\ IF opened < OpenLimit THEN pc' = "size" /\ opened' = opened + 1
                           ELSE pc' = "failing" /\ UNCHANGED opened
  /\ UNCHANGED <<ends, path, pos, eof, chunk, wire, taken>>

FileEnd == ends[path]

\* The file is rewound and feof(f) is clear.  An empty file is left alone.
GetSize ==
  /\ pc = "size"
  /\ pc' = IF FileEnd > pos THEN "read" ELSE "next"
  /\ eof' = FALSE
  /\ UNCHANGED <<ends, path, opened, pos, chunk, wire, taken>>

\* fread notices the end of the file when it gets less than it asked for,
\* so not yet when a chunk ends where the file does.
EofNever(n) == FALSE
EofAlways(n) == n > 0
EofSeen(n) == n < ChunkSize

ReadFile ==
  /\ pc = "read" /\ ~eof
  /\ LET n == IF FileEnd - pos < ChunkSize THEN FileEnd - pos ELSE ChunkSize IN
       /\ chunk' = Bytes(pos, pos + n)
       /\ pos' = pos + n
       /\ eof' = EofSeen(n)
  /\ pc' = "write"
  /\ UNCHANGED <<ends, path, opened, wire, taken>>

\* FT_Write returns what the driver has accepted when its timeout expires.
NothingLeft(n) == << >>
StaleLeft(n) == SubSeq(chunk, 1, Len(chunk) - n)
Left(n) == SubSeq(chunk, n + 1, Len(chunk))

WriteChunk ==
  /\ pc = "write" /\ chunk # << >>
  /\ LET room == QueueSize - (Len(wire) - taken)
         n == IF Len(chunk) < room THEN Len(chunk) ELSE room IN
       /\ wire' = wire \o SubSeq(chunk, 1, n)
       /\ chunk' = Left(n)
  /\ UNCHANGED <<ends, pc, file, taken>>

ChunkDone ==
  /\ pc = "write" /\ chunk = << >>
  /\ pc' = IF eof THEN "next" ELSE "read"
  /\ UNCHANGED <<ends, file, chunk, wire, taken>>

SecondNextPath == path + 2
NextPath == path + 1

\* The file is not closed.
NextFile ==
  /\ pc = "next" /\ pc' = "open"
  /\ path' = NextPath
  /\ UNCHANGED <<ends, opened, pos, eof, chunk, wire, taken>>

Close ==
  /\ pc = "open" /\ path > Len(ends)
  /\ pc' = "success"
  /\ UNCHANGED <<ends, file, chunk, wire, taken>>

ExitFailure ==
  /\ pc = "failing" /\ pc' = "failure"
  /\ UNCHANGED <<ends, file, chunk, wire, taken>>

-----------------------------------------------------------------------------
Interrupt ==
  /\ pc \notin Ended /\ pc' = "killed"
  /\ UNCHANGED <<ends, file, chunk, wire, taken>>

\* The flow control of the other side lets a byte through.
DeviceTakes ==
  /\ taken < Len(wire) /\ taken' = taken + 1
  /\ UNCHANGED <<ends, pc, file, chunk, wire>>

Process == \/ OpenFile \/ GetSize \/ ReadFile \/ WriteChunk \/ ChunkDone
           \/ NextFile \/ Close \/ ExitFailure

Failure == /\ path <= Len(ends)   \* fopen, fseek or ftell, fread, FT_Write
           /\ \/ CallFails("open") \/ CallFails("size") \/ CallFails("read")
              \/ chunk # << >> /\ CallFails("write")

Next == Process \/ Failure \/ Interrupt \/ DeviceTakes

\* The process is scheduled.
Spec == Init /\ [][Next]_vars /\ WF_vars(Process)

-----------------------------------------------------------------------------
\* The type invariant.
TypeOK ==
  /\ ends \in Inputs
  /\ pc \in {"open", "size", "read", "write", "next", "failing"} \union Ended
  /\ path \in 1..(Len(ends) + 1) /\ opened \in 0..OpenLimit
  /\ pos \in 0..ends[Len(ends)] /\ eof \in BOOLEAN
  /\ chunk \in Seq(Nat) /\ wire \in Seq(Nat)
  /\ taken \in 0..Len(wire) /\ Len(wire) - taken <= QueueSize

\* What the driver has been given and what is left of the chunk are together
\* the files' bytes up to where the reading has got to: no byte is dropped,
\* repeated or moved by FT_Writes that accept a part of a chunk, by chunks
\* that end where a file does, or by empty files.
NothingDropped ==
  /\ wire \o chunk = Bytes(0, pos)
  /\ pc = "success" => wire = Bytes(0, ends[Len(ends)])

\* No file is begun before all of the one before it has been read and written,
\* and no read goes past the end of the file it is for.
FilesInOrder ==
  /\ pc \in {"size", "read", "write", "next"} => path <= Len(ends)
  /\ pc \in {"open", "size"} => pos = IF path = 1 THEN 0 ELSE ends[path - 1]
  /\ pc \in {"read", "write"} => pos <= ends[path] /\ (eof => pos = ends[path])
  /\ pc = "read" => ~eof
  /\ pc = "next" => pos = ends[path]
  /\ pc \in {"open", "size", "read", "next"} => chunk = << >>

\* main2 does what Transmission promises.
ImplementsTransmission == Promise!Spec

\* What is left to do: files to open, bytes to read and to write, calls to make.
CallsLeft == CASE pc = "open" -> 6  [] pc = "size" -> 5
               [] pc = "write" -> IF eof THEN 3 ELSE 5
               [] pc = "read" -> 4  [] pc = "next" -> 2
               [] pc = "failing" -> 1  [] OTHER -> 0
FilesLeft == 5 * (Len(ends) + 1 - path)
BytesLeft == 3 * (ends[Len(ends)] - pos) + Len(chunk)
Work      == FilesLeft + BytesLeft + CallsLeft

\* Only an FT_Write of which the device takes nothing is in vain: every other
\* call brings the end of main2 nearer, also those for the empty chunk of a file
\* whose end fread notices late.
SendMovesOn == [][Work' < Work]_<<pc, path, pos, chunk>>

\* If the device goes on taking bytes, the program ends.
SendEnds == []<>(taken = Len(wire)) => <>(pc \in Ended)
=============================================================================
