-------------------------------- MODULE Recv --------------------------------
(***************************************************************************)
(* d2xx_recv from the moment OpenDevice has returned a handle: main2 of    *)
(* src/d2xx_recv/d2xx_recv.cpp, with its three capture loops (stream,      *)
(* --buffer, --circular), the --boundaries-file, the progress display, the *)
(* key press or SIGINT that ends a capture, and main's exit.               *)
(*                                                                         *)
(* The files are stdio streams: what fwrite has accepted (file) runs ahead *)
(* of what has reached the disk (the first disk bytes of file).            *)
(***************************************************************************)
EXTENDS ByteStreams

CONSTANTS
  Options,     \* the command lines and builds considered, see RecvConstants
  NumToRead,   \* NUM_TO_READ: most bytes one FT_Read asks for, buffer modes
  StreamBuf,   \* sizeof buffer: bytes one FT_Read asks for in stream mode
  MaxBytes,    \* bound: bytes the device sends in all
  MaxReads     \* bound: reads of a run that keeps split points

RecvConstants ==
  /\ \A o \in Options :
       /\ o \in [mode : {"stream", "buffer", "circular"}, size : Nat,
                 boundaries : BOOLEAN, windows : BOOLEAN]
       /\ o.size = 0 <=> o.mode = "stream"
  /\ NumToRead \in Nat \ {0}
  /\ StreamBuf \in Nat \ {0}
  /\ MaxBytes \in Nat
  /\ MaxReads \in Nat

ASSUME RecvAssumption == RecvConstants

VARIABLES
  opt,       \* the Options of this run, and whether SYSTEM_WINDOWS is set
  pc,        \* the call main2 is about to make, or how the process ended
  timeout,   \* FT_SetTimeouts(handle, 250, 0) has succeeded
  handler,   \* the SIGINT handler is installed
  bopen,     \* f_boundaries is not null
  quit,      \* what ShouldQuit() would return
  sent,      \* bytes the device has sent so far
  got,       \* bytes FT_Read has returned so far, total_num_read
  buffer, index, wrapped,   \* buffer, index and ever_wrapped
  file, disk,               \* f: bytes accepted, and how many are on disk
  diskfull,                 \* the disk takes no more bytes
  bbuf,      \* records in boundaries_buffer before boundary_ptr
  bfile,     \* records accepted by f_boundaries
  splits,    \* history: the offset at which each read began
  shown,     \* the byte count last displayed
  due        \* SECONDS_PER_PROGRESS_UPDATE have passed since

ring     == <<buffer, index, wrapped>>
setup    == <<timeout, handler, bopen>>
world    == <<sent, diskfull>>
bounds   == <<bbuf, bfile>>
progress == <<shown, due>>
vars == <<opt, pc, quit, got, file, disk, splits,
          ring, setup, world, bounds, progress>>

Final   == {"success", "failure", "killed", "aborted"}
Running == pc \notin Final

\* StoreUInt64Text writes 16 digits and a newline; boundaries_buffer is
\* dimensioned for records of 9 characters.
RecordSize     == 17
BoundariesCap  == (StreamBuf \div 9) * 9
RecordsThatFit == BoundariesCap \div RecordSize

\* What main2 asserts of boundary_ptr after each record:
\* ASSERT(boundary_ptr <= boundaries_buffer + sizeof boundaries_buffer).
BoundaryPtrInBuffer == RecordSize * Len(bbuf) <= BoundariesCap

\* How Capture sees the state of main2.
Outcome == CASE pc = "success" -> "saved"
             [] pc \in {"failing", "failure", "killed", "aborted"} -> "failed"
             [] OTHER -> "capturing"

Promise == INSTANCE Capture
  WITH mode <- opt.mode, size <- opt.size, saved <- file, outcome <- Outcome

-----------------------------------------------------------------------------
Init ==
  /\ opt \in Options
  /\ pc = "timeouts"
  /\ timeout = FALSE /\ handler = FALSE /\ bopen = FALSE
  /\ quit = FALSE
  /\ sent = 0 /\ got = 0
  /\ buffer = [j \in 0..(opt.size - 1) |-> 0] /\ index = 0 /\ wrapped = FALSE
  /\ file = << >> /\ disk = 0 /\ diskfull = FALSE
  /\ bbuf = << >> /\ bfile = << >> /\ splits = << >>
  /\ shown = 0 /\ due = FALSE

(***************************************************************************)
(* stdio.  A full disk is noticed by the fwrite that has to empty the      *)
(* stream's own buffer; an fwrite that only fills that buffer succeeds.    *)
(***************************************************************************)
WriteDataToFile(data) ==
  /\ file' = file \o data
  /\ disk' \in IF diskfull \/ data = << >> THEN {disk} ELSE disk..Len(file')

WriteDataFails(data) ==
  /\ diskfull /\ data # << >>
  /\ \E k \in 0..(Len(data) - 1) : file' = file \o SubSeq(data, 1, k)
  /\ UNCHANGED disk

NoFlush == UNCHANGED disk
FlushAtExit == disk' \in IF diskfull THEN disk..Len(file) ELSE {Len(file)}

(***************************************************************************)
(* Before the loop.                                                        *)
(***************************************************************************)
Goto(from, to) == pc = from /\ pc' = to

SetTimeouts ==
  /\ \/ Goto("timeouts", "open") /\ timeout' = TRUE
     \/ Goto("timeouts", "failing") /\ UNCHANGED timeout
  /\ UNCHANGED <<opt, quit, got, file, disk, splits, handler, bopen,
                 ring, world, bounds, progress>>

OpenOutput ==
  /\ \/ Goto("open", IF opt.boundaries THEN "boundaries" ELSE "handler")
     \/ Goto("open", "failing")
  /\ UNCHANGED <<opt, quit, got, file, disk, splits,
                 ring, setup, world, bounds, progress>>

\* The check after this fopen looks at f, which is not null: a failure is
\* not noticed.
OpenBoundaries ==
  /\ Goto("boundaries", "handler")
  /\ bopen' \in BOOLEAN
  /\ UNCHANGED <<opt, quit, got, file, disk, splits, timeout, handler,
                 ring, world, bounds, progress>>

\* The buffer is made next: what std::vector throws is not caught.
InstallHandler ==
  /\ \/ Goto("handler", "check") /\ handler' = ~opt.windows
     \/ opt.mode # "stream" /\ Goto("handler", "aborted") /\ handler' = ~opt.windows
     \/ ~opt.windows /\ Goto("handler", "failing") /\ UNCHANGED handler
  /\ UNCHANGED <<opt, quit, got, file, disk, splits, timeout, bopen,
                 ring, world, bounds, progress>>

-----------------------------------------------------------------------------
(***************************************************************************)
(* The loops.                                                              *)
(***************************************************************************)
OnlyQuit == quit
QuitUnlessBuffer == IF opt.mode = "buffer" THEN index = opt.size ELSE quit
Done == quit \/ (opt.mode = "buffer" /\ index = opt.size)

ShouldQuit ==
  /\ Goto("check", IF Done THEN "save" ELSE "read")
  /\ UNCHANGED <<opt, quit, got, file, disk, splits,
                 ring, setup, world, bounds, progress>>

\* How many bytes FT_Read is asked for, and how many there are for it.
UnclippedReadSize == IF opt.mode = "stream" THEN StreamBuf ELSE NumToRead
ReadSize ==
  IF opt.mode = "stream" THEN StreamBuf
  ELSE IF opt.size - index > NumToRead THEN NumToRead ELSE opt.size - index
Received == IF sent - got < ReadSize THEN sent - got ELSE ReadSize

\* FT_Read returns once it has all it was asked for or the timeout expires,
\* with what there is.
FullReadOnly  == Received = ReadSize
FT_ReadReturns == timeout \/ Received = ReadSize

Read ==
  /\ pc = "read"
  /\ FT_ReadReturns
  /\ opt.boundaries => Len(splits) < MaxReads \/ quit
  /\ got' = got + Received
  /\ splits' = IF opt.boundaries THEN Append(splits, got) ELSE splits

ReadFails ==
  /\ Goto("read", "failing")
  /\ UNCHANGED <<opt, quit, got, file, disk, splits,
                 ring, setup, world, bounds, progress>>

Fill == [j \in DOMAIN buffer |->
           IF j \in index..(index + Received - 1)
           THEN got + 1 + (j - index) ELSE buffer[j]]

ShowProgressForced(force, n) ==
  IF force THEN shown' = n /\ due' = FALSE ELSE UNCHANGED progress
ShowProgressDue(force, n) ==
  IF due THEN shown' = n /\ due' = FALSE ELSE UNCHANGED progress
ShowProgress(force, n) ==
  IF force \/ due THEN shown' = n /\ due' = FALSE ELSE UNCHANGED progress

ReadToBuffer ==
  /\ opt.mode = "buffer"
  /\ Read /\ pc' = "check"
  /\ buffer' = Fill
  /\ index' = index + Received
  /\ ShowProgress(index' = opt.size, index')
  /\ UNCHANGED <<opt, quit, file, disk, wrapped, setup, world, bounds>>

IndexUnreset == index + Received
RingIndex == IF index + Received = opt.size THEN 0 ELSE index + Received

ReadToRing ==
  /\ opt.mode = "circular"
  /\ Read /\ pc' = "check"
  /\ buffer' = Fill
  /\ index' = RingIndex
  /\ wrapped' = (wrapped \/ index + Received = opt.size)
  /\ ShowProgress(FALSE, index')
  /\ UNCHANGED <<opt, quit, file, disk, setup, world, bounds>>

Chunk == Bytes(got, got + Received)

\* Stream mode without a boundaries file.
ReadToFile ==
  /\ opt.mode = "stream" /\ ~opt.boundaries
  /\ Read /\ pc' = "check"
  /\ WriteDataToFile(Chunk)
  /\ ShowProgress(FALSE, got')
  /\ UNCHANGED <<opt, quit, ring, setup, world, bounds>>

ReadToFileFails ==
  /\ opt.mode = "stream"
  /\ Read /\ pc' = "failing"
  /\ WriteDataFails(Chunk)
  /\ UNCHANGED <<opt, quit, ring, setup, world, bounds, progress>>

\* Stream mode with a boundaries file: the record of this read goes to
\* boundaries_buffer, which is written out when it is exactly full.
LateRecords == Append(bbuf, got + Received)
RecordsOfBothEnds == bbuf \o <<got, got + Received>>
Records == Append(bbuf, got)
Full    == RecordSize * Len(Records) = BoundariesCap

ReadAndRecord ==
  /\ opt.mode = "stream" /\ opt.boundaries
  /\ Read
  /\ WriteDataToFile(Chunk)
  /\ \/ /\ RecordSize * Len(Records) < BoundariesCap
        /\ pc' = "check" /\ bbuf' = Records /\ UNCHANGED bfile
        /\ ShowProgress(FALSE, got')
     \/ /\ Full /\ bopen
        /\ pc' = "check" /\ bbuf' = << >> /\ bfile' = bfile \o Records
        /\ ShowProgress(FALSE, got')
     \/ /\ Full /\ bopen /\ diskfull
        /\ pc' = "failing" /\ bbuf' = Records
        /\ \E k \in 0..(Len(Records) - 1) : bfile' = bfile \o SubSeq(Records, 1, k)
        /\ UNCHANGED progress
     \/ \* Past the end of boundaries_buffer: into buffer or whatever lies
        \* there.  The ASSERT stops a build that has it.
        /\ RecordSize * Len(Records) > BoundariesCap
        /\ bbuf' = Records /\ UNCHANGED bfile
        /\ \/ pc' = "check" /\ ShowProgress(FALSE, got')
           \/ pc' = "aborted" /\ UNCHANGED progress
     \/ \* fwrite to a null stream
        /\ Full /\ ~bopen
        /\ pc' = "aborted" /\ bbuf' = Records
        /\ UNCHANGED <<bfile, progress>>
  /\ UNCHANGED <<opt, quit, ring, setup, world>>

-----------------------------------------------------------------------------
(***************************************************************************)
(* After the loop.                                                         *)
(***************************************************************************)
Slice(a, b) == [i \in 1..(b - a) |-> buffer[a + i - 1]]

\* What is still to be written to f: nothing in stream mode, the buffer up
\* to index, or the two parts of a ring that has wrapped, oldest first.
UnsavedUnrotated == IF opt.mode = "stream" THEN << >>
                    ELSE Slice(0, IF wrapped THEN opt.size ELSE index)
UnsavedNewestFirst == CASE opt.mode = "stream" -> << >>
                        [] wrapped -> Slice(0, index) \o Slice(index, opt.size)
                        [] OTHER   -> Slice(0, index)
Unsaved == CASE opt.mode = "stream" -> << >>
             [] wrapped -> Slice(index, opt.size) \o Slice(0, index)
             [] OTHER   -> Slice(0, index)

Save ==
  /\ opt.mode # "stream"
  /\ \/ Goto("save", "close") /\ WriteDataToFile(Unsaved)
     \/ Goto("save", "failing") /\ WriteDataFails(Unsaved)
  /\ UNCHANGED <<opt, quit, got, splits, ring, setup, world, bounds, progress>>

\* What memory holds of the records by now.  Those stored outside
\* boundaries_buffer share it with buffer, into which FT_Read has read since.
Garbled == MaxBytes + 1     \* bytes that are no offset of this capture
Stored  == {[i \in DOMAIN bbuf |-> IF i \in g THEN Garbled ELSE bbuf[i]] :
              g \in SUBSET {i \in DOMAIN bbuf : i > RecordsThatFit}}

SaveBoundaries ==
  /\ opt.mode = "stream"
  /\ \E r \in Stored :
       \/ Goto("save", "close") /\ bfile' = IF bopen THEN bfile \o r ELSE bfile
       \/ /\ Goto("save", "failing")
          /\ bopen /\ diskfull /\ r # << >>
          /\ \E k \in 0..(Len(r) - 1) : bfile' = bfile \o SubSeq(r, 1, k)
  /\ UNCHANGED <<opt, quit, got, file, disk, splits, bbuf,
                 ring, setup, world, progress>>

\* fclose twice and FT_Close; what fclose returns is not looked at.
Close ==
  /\ Goto("close", "success")
  /\ FlushAtExit
  /\ UNCHANGED <<opt, quit, got, file, splits, ring, setup, world, bounds, progress>>

\* main2 has returned false: main returns EXIT_FAILURE, and the C library
\* flushes the streams main2 left open.
ExitFailure ==
  /\ Goto("failing", "failure")
  /\ FlushAtExit
  /\ UNCHANGED <<opt, quit, got, file, splits, ring, setup, world, bounds, progress>>

\* What the stores outside boundaries_buffer have hit ends the process.
Crash ==
  /\ ~BoundaryPtrInBuffer
  /\ Running /\ pc' = "aborted"
  /\ UNCHANGED <<opt, quit, got, file, disk, splits,
                 ring, setup, world, bounds, progress>>

-----------------------------------------------------------------------------
(***************************************************************************)
(* The user, the device, the disk and the clock.                           *)
(***************************************************************************)
PressKey ==   \* _kbhit() is true from now on: the key is never read
  /\ opt.windows /\ Running
  /\ quit' = TRUE
  /\ UNCHANGED <<opt, pc, got, file, disk, splits,
                 ring, setup, world, bounds, progress>>

Interrupt ==   \* SIGINT, Ctrl-C
  /\ Running
  /\ IF handler THEN quit' = TRUE /\ UNCHANGED pc
                ELSE pc' = "killed" /\ UNCHANGED quit
  /\ UNCHANGED <<opt, got, file, disk, splits,
                 ring, setup, world, bounds, progress>>

Arrive ==
  /\ Running /\ sent < MaxBytes
  /\ sent' = sent + 1
  /\ UNCHANGED <<opt, pc, quit, got, file, disk, splits, diskfull,
                 ring, setup, bounds, progress>>

DiskFills ==
  /\ Running /\ diskfull' = TRUE
  /\ UNCHANGED <<opt, pc, quit, got, file, disk, splits, sent,
                 ring, setup, bounds, progress>>

Tick ==
  /\ Running /\ due' = TRUE
  /\ UNCHANGED <<opt, pc, quit, got, file, disk, splits, shown,
                 ring, setup, world, bounds>>

-----------------------------------------------------------------------------
Setup   == SetTimeouts \/ OpenOutput \/ OpenBoundaries \/ InstallHandler
Loop    == \/ ShouldQuit \/ ReadToBuffer \/ ReadToRing
           \/ ReadToFile \/ ReadToFileFails \/ ReadAndRecord
Finish  == Save \/ SaveBoundaries \/ Close \/ ExitFailure
Process == Setup \/ Loop \/ Finish
Environment == PressKey \/ Interrupt \/ Arrive \/ DiskFills \/ Tick

Next == Process \/ ReadFails \/ Crash \/ Environment

\* The process is scheduled, FT_Read returns what it has when its timeout
\* expires, and time passes.  No call owes the program a failure, nor damaged
\* memory a crash, and neither the user nor the device owes it anything.
Fairness == WF_vars(Process) /\ WF_vars(Tick)

Spec == Init /\ [][Next]_vars /\ Fairness

-----------------------------------------------------------------------------
(***************************************************************************)
(* What is checked.                                                        *)
(***************************************************************************)
\* The type invariant of main2's variables.
TypeOK ==
  /\ opt \in Options
  /\ pc \in {"timeouts", "open", "boundaries", "handler", "check", "read",
             "save", "close", "failing"} \union Final
  /\ timeout \in BOOLEAN /\ handler \in BOOLEAN /\ bopen \in BOOLEAN
  /\ quit \in BOOLEAN /\ wrapped \in BOOLEAN
  /\ diskfull \in BOOLEAN /\ due \in BOOLEAN
  /\ sent \in Nat /\ got \in 0..sent /\ shown \in Nat
  /\ index \in 0..opt.size
  /\ buffer \in [0..(opt.size - 1) -> Nat]
  /\ file \in Seq(Nat) /\ disk \in 0..Len(file)
  /\ bbuf \in Seq(Nat) /\ bfile \in Seq(Nat) /\ splits \in Seq(Nat)

\* The output file never holds a byte that is wrong, missing or out of
\* order, however the reads were cut up: it grows from the start of the
\* window main2 is to save and, once the loop's output has been written,
\* is that window.  In stream mode nothing read is still in memory.
CaptureWindow ==
  LET window == Promise!Window(opt.mode, opt.size, got) IN
  /\ IsPrefix(file, window)
  /\ pc \in {"close", "success"} => file = window
  /\ opt.mode = "stream" /\ pc \in {"check", "read", "save"} => file = window

\* Every FT_Read is given a non-empty part of the buffer that lies inside
\* it, so that index <= buffer.size() after it, as main2 asserts.
ReadFits ==
  pc = "read" /\ opt.mode # "stream" =>
    ReadSize > 0 /\ index + ReadSize <= opt.size

\* The boundaries file lists where each read of the file began: all of them
\* once main2 has succeeded, the first ones if it fails, whichever part of
\* them was in boundaries_buffer, as long as none was stored outside it.
BoundariesFaithful ==
  opt.mode = "stream" /\ BoundaryPtrInBuffer =>
    /\ IsPrefix(bfile, splits)
    /\ pc \in {"check", "read", "save"} => bfile \o bbuf = splits
    /\ pc = "success" /\ bopen => bfile = splits
    /\ \A i \in 1..Len(splits) :
         /\ splits[i] <= got
         /\ IF i = 1 THEN splits[i] = 0 ELSE splits[i - 1] <= splits[i]

\* Unplugging the device in stream mode loses nothing that was received
\* before, although main2 returns without closing the file.
UnplugKeepsFile ==
  /\ pc = "failure" /\ opt.mode = "stream" /\ ~diskfull => disk = got
  /\ pc = "success" /\ ~diskfull => disk = Len(file)

\* The count on display is never ahead of what was received, and a full
\* buffer is displayed as full however soon that is after the last update.
ProgressHonest ==
  /\ shown <= got
  /\ pc \in {"save", "close", "success"} /\ opt.mode = "buffer" /\ index = opt.size
       => shown = opt.size

\* When the device pauses, the count on display catches up with what was
\* received; the user has only this count to tell that a transfer is done.
\* (A run that keeps split points is stopped from reading by MaxReads.)
ProgressConverges ==
  \A n \in 0..MaxBytes :
    got = n /\ opt.mode # "circular" /\ ~opt.boundaries
      ~> shown = n \/ got # n \/ ~Running

\* The calls main2 makes from here to its end once it is to quit.
CallsLeft == CASE pc = "timeouts" -> 9  [] pc = "open" -> 8  [] pc = "boundaries" -> 7
               [] pc = "handler" -> 6   [] pc = "read" -> 5  [] pc = "check" -> 4
               [] pc = "save" -> 3      [] pc = "close" -> 2 [] pc = "failing" -> 1
               [] OTHER -> 0

\* From a key press or SIGINT on each call is one less to the end, and at most
\* one of them an FT_Read, in whichever call and mode it comes.
QuitMovesOn == [][quit => CallsLeft' < CallsLeft]_pc

\* A key press or SIGINT ends the program even if the device never sends
\* another byte.
QuitExits == quit ~> ~Running

\* With --buffer the program ends by itself once N bytes have been sent.
FullBufferStops == opt.mode = "buffer" /\ sent >= opt.size ~> ~Running

\* main2 does what Capture promises of the file.
ImplementsCapture == Promise!Spec

\* The inductive invariant behind CaptureWindow and ReadFits: slot j of the
\* buffer holds the byte received index - j reads of a byte ago, counting
\* around the ring once it has wrapped, and nothing is written early.
RingHolds ==
  /\ opt.mode = "stream" => index = 0
  /\ opt.mode # "circular" => ~wrapped
  /\ opt.mode # "stream" /\ ~wrapped => got = index
  /\ opt.mode = "circular" => index < opt.size
  /\ opt.mode = "buffer" /\ pc = "read" => index < opt.size
  /\ wrapped => got >= opt.size
  /\ \A j \in 0..(opt.size - 1) :
       /\ j < index => buffer[j] = got - index + j + 1
       /\ j >= index /\ wrapped => buffer[j] = got - opt.size - index + j + 1

NotSaved == {"timeouts", "open", "boundaries", "handler", "check", "read", "save"}

FileHolds ==
  LET window == Promise!Window(opt.mode, opt.size, got) IN
  /\ IsPrefix(file, window)
  /\ pc \in NotSaved => file = IF opt.mode = "stream" THEN window ELSE << >>
  /\ pc \in {"close", "success"} => file = window

CaptureInv == TypeOK /\ RingHolds /\ FileHolds

(***************************************************************************)
(* What the code says of itself and does not keep.                         *)
(***************************************************************************)
\* Exactly when BoundaryPtrInBuffer is kept: always, if whole records fill
\* boundaries_buffer, which is then written out; as they do not, in a capture
\* of no more reads than there is room for, and in no longer one.
RecordsFill == RecordsThatFit > 0 /\ BoundariesCap % RecordSize = 0

RoomForRecords ==
  IF RecordsFill
  THEN BoundaryPtrInBuffer
  ELSE /\ Len(splits) <= RecordsThatFit => BoundaryPtrInBuffer
       /\ opt.mode = "stream" /\ pc \in NotSaved \union {"close", "success"} =>
            (BoundaryPtrInBuffer => Len(splits) <= RecordsThatFit)

\* A boundaries file that cannot be opened is a fatal error.
BoundariesFileNeeded == opt.boundaries /\ pc = "success" => bopen

\* Data that could not be written to the file is a fatal error.
SuccessIsOnDisk == pc = "success" => disk = Len(file)

\* The count on display is that of the bytes received: it never goes back.
ProgressForward == [][shown' >= shown]_vars
=============================================================================
