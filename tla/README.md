# d2xx_tools in TLA+

Specifications of the three d2xx_tools programs, the TLC configurations that
check them on small instances, and proofs of their main properties for
instances of any size.

## The system

The tools are three short-lived command line programs over FTDI's D2XX driver.
Each is a single process: it parses its command line, asks the driver for the
list of devices, finds and opens one, and moves bytes until it is done. They
have no threads, but they are not alone: the device sends when it likes, the
driver queues in both directions, the user presses a key or Ctrl-C, pulls a
plug or runs another tool, and the disk fills.

| part | state it keeps | operations | works with |
|---|---|---|---|
| `d2xx_recv` (`src/d2xx_recv/d2xx_recv.cpp`) | the output file and its stdio buffer; `buffer`, `index`, `ever_wrapped`; `total_num_read`; `boundaries_buffer`, `boundary_ptr`; `last_progress_ticks`; `g_received_SIGINT` | `main2`'s three loops (stream, `--buffer`, `--circular`), `ShouldQuit`, `HandleSIGINT`, `ShowProgress`, `WriteDataToFile`, `StoreUInt64Text` | driver (`FT_SetTimeouts`, `FT_Read`, `FT_Close`), stdio, signal or keyboard |
| `d2xx_send` (`src/d2xx_send/d2xx_send.cpp`) | `path_index`, the open file and its position, `buffer`, `p`, `left`, `num_sent` | `main2`'s loops over files, chunks and writes | driver (`FT_Write`, `FT_Close`), stdio |
| device search (`src/d2xx_shared/d2xx_shared.cpp`) | the device list, a position in it, a handle | `GetDeviceList`, `FindDevice`, `FindDeviceByCOMPortName`, `OpenDevice` | driver; called by send and recv |
| `d2xx_list` (`src/d2xx_list/d2xx_list.cpp`) | the device list, a position, a handle | `main`'s loop | driver |
| `GetThousandsString` (`d2xx_shared.cpp`) | `tmp`, `p`, `n`, `value` | one loop and a copy | called for every count displayed |
| command lines | `Options`, `DeviceSpec`, `DeviceOptions` | `DoCommandLine`, `Add...CommandLineOptions` | the parser of `submodules/shared_lib`; decide what the tools do |
| D2XX driver (`dependencies/ftdi`, vendored) | who has which device open, two byte queues | the `FT_` calls | the device |

What is hard in this code, and what makes each part correct:

- `d2xx_recv`: `FT_Read` returns whatever arrived within 250 ms, so reads are
  cut up arbitrarily, end exactly at the end of a ring or just before it, and
  return nothing at all. *Correct* when the file nevertheless holds exactly
  the bytes received, or the last N in order; when no read leaves its buffer;
  when a quitting user is heard while the device is silent; when a failure
  loses nothing that was to be kept; when the split points are those of the
  reads; when the display can be believed.
- `d2xx_send`: `FT_Write` accepts a part of a chunk, and `feof` is late when a
  file ends where a chunk does. *Correct* when the device gets the files'
  bytes, each once and in order, and the program ends.
- device search: the list is out of date as soon as it is made, and finding
  out a COM port means opening the device, which another tool may notice.
  *Correct* when the device opened is the one asked for, nothing stays open
  behind a search, and a search that fails has a reason.
- `d2xx_list`: the same, for every row.
- the two tools together: there is no protocol between them, and no way for
  `d2xx_recv` to know how much is to come. *Correct* when what arrives is in
  order and, with the same flow control at both ends, without a gap; when a
  user who waits for the count to be right has the file; when the sender is
  not held up by a receiver that goes on receiving.
- `GetThousandsString`: 27 characters, of which the largest number needs
  every one. *Correct* when it stays inside and writes the number it was given.

`PROJECT.json` lists these hazards one by one, each at its line, with the
properties aimed at it.

## The modules

| module | what it is | proofs |
|---|---|---|
| `ByteStreams` | streams of numbered bytes: `Bytes(a, b)` | `ByteStreamProofs`: lemmas on `Bytes`, concatenation and prefixes |
| `Capture` | abstract: what d2xx_recv promises about its file | |
| `Recv` | d2xx_recv | `RecvProofs`: the capture; `RecvOutputProofs`: boundaries file, disk, display |
| `Transmission` | abstract: what d2xx_send promises | |
| `Send` | d2xx_send | `SendProofs` |
| `CommandLine` | what `DoCommandLine` of both tools accepts | |
| `Transfer` | abstract: what the two tools and the line between them promise of the file received | |
| `Link` | `Send` and `Recv` from their command lines on, at two ends of a line | `LinkProofs` |
| `Opening` | abstract: what a search for a device comes to | |
| `Devices` | device search and opening, d2xx_list, any number of tools at once | `DevicesProofs`: handles; `DevicesSearchProofs`: what a search finds and d2xx_list prints |
| `Thousands` | `GetThousandsString` | `ThousandsProofs` |
| `MCRecv`, `MCSend`, `MCLink`, `MCDevices`, `MCThousands` | the instances TLC checks | |

`Link` composes `CommandLine`, `Send` and `Recv`; `Devices` stands beside them,
because a search is over before the first byte moves.

The bytes of a stream are *numbered*: the k-th byte the device sends is k, and
so is the k-th byte of the files to send. A byte that is lost, repeated,
moved or made up is then visible in a file or on the wire by its number, and
the values bytes really have, which the code never looks at, need no model.

Four modules are abstract. `Capture` is d2xx_recv without its reads, buffer and
stdio, `Transmission` d2xx_send without its files, chunks and partial writes;
`Transfer` is both with the line between them, where only the bytes sent, the
file received and the patience of the user are left; `Opening` is the device
search without the list, the probing for ports and the settings: a tool gets a
device it was asked for and no other has, in one step or not at all, and keeps it
to its end or until it is unplugged. Each is a `PROPERTY` of a run of the module
that implements it, under the refinement mapping `Promise` of that module.

### Recv

`pc` is the call `main2` is about to make. One action is one turn of a loop
from one `ShouldQuit` to the next: `ReadToBuffer`, `ReadToRing`, and
`ReadToFile` or `ReadAndRecord` are the bodies of the three loops, each
containing the read, the update of `index`, what is written to the files, and
the progress display. Before the loop come `SetTimeouts`, `OpenOutput`,
`OpenBoundaries`, `InstallHandler`; after it `Save` or `SaveBoundaries`, and
`Close`. Each call that can fail has the branch the code takes then, and
`ExitFailure` is `main`'s. `sent - got` bytes are waiting in the driver's
queue; a read takes as many as it asked for (`ReadSize`) or all there are, in
the second case only once the timeout has been set and has expired
(`FT_ReadReturns`).

- *stdio.* `file` is what `fwrite` has accepted, `disk` how much of it the
  operating system has. `fwrite` may pass on any amount; `fclose` and a normal
  exit pass on the rest, and on a full disk as much as goes. An `fwrite` on a
  full disk may fail or be absorbed by the stream's buffer, an `fclose` fails
  unseen.
- *SIGINT and keys.* Before the handler is installed a SIGINT kills, and on
  Windows it always does; afterwards it only sets `quit`. A pressed key stays
  pressed, because nobody reads it.
- *Memory.* The `std::vector` of `--buffer` and `--circular` may throw, which
  nothing catches: `InstallHandler` has that exit.
- *Storing beyond `boundaries_buffer`* is undefined. The `ASSERT` at once, or
  what was hit at any time later, may end the process (`Crash`, which is no part
  of `Process` and so never needed for a run to end); or the program goes on. The
  records stored outside share their memory with `buffer`, into which the next
  `FT_Read` reads, and each may be garbled by the time they are written out
  (`Stored`, where `Garbled` stands for what is no offset of the capture). The
  assumption behind this is that compilers place the arrays above the scalars, so
  that the locals which steer the loop are not hit. The output file is not
  affected: only bytes the `FT_Read` of the same turn has returned are written.
- *A null stream:* writing an exactly full `boundaries_buffer` to one ends the
  process.
- `splits` records, as a history, where each read began.

### Send

`pc` is again the next call, an action one call with what surrounds it.
`chunk` is the `left` bytes at `p`; `WriteChunk` is one turn of the inner
loop. `EofSeen` is C's rule: `feof` is set by the `fread` that got less than
it asked for. `wire` is what the driver has accepted; it holds `QueueSize`
bytes until the device takes them (`DeviceTakes`). A write that finds no room
returns 0 and the loop turns, which is the same as a write that blocks.

### CommandLine and Link

A command line is a record of what the parser found in it: whether `--help` is
there, whether the rest could be parsed, how many arguments are not options, and
the options' values. `--buffer N` and `--circular N` store N in the same
variable, so there is one `size`. `SendAccepts` and `RecvAccepts` are
`DoCommandLine`; `RecvOptions` is which of `main2`'s loops the options choose.
What `Recv` assumes of its constant `Options` (a mode with a size, and no size
of 0) is here what `RecvAccepts` lets through, and the lemma `OptionsAreRecvs`
of `LinkProofs` proves that it is enough.

`Link` instantiates `Send` and `Recv` and adds what is between them. `stage` is
what has become of each tool: still starting, refused, without a device, or
running, when the actions of `Send` or `Recv` are its steps; `hasty` is a
history of whether the user ended `d2xx_recv` before the count on display was
that of the files (`TooEarly`). `Transmit` moves a byte from the queue of
`d2xx_send`'s driver to that of `d2xx_recv`'s (`RxQueue` bytes). `line[k]` is the
byte that arrived as the k-th, so that `Received` is `Recv`'s file in the numbers
of the files sent.

What the drivers, the devices and the cable do is in no file of the tools and is
an assumption, in the definitions marked external:

- with the same flow control at both ends (`Protected`) a byte leaves only when
  there is room for it at the other, and a device nobody has open asks for none;
- otherwise a byte is lost when there is no room for it;
- XON and XOFF characters do not get through a line they control;
- `FT_Close` may drop what the driver still holds (`Purge`), or may not.

### Devices

`pos[t]` is the pointer `device` or the loop variable of tool `t`. Every
driver call is an action of its own, so that other tools, other programs and
the user act between any two; only the two that make the list,
`FT_CreateDeviceInfoList` and `FT_GetDeviceInfoList`, are one action, because the
second copies out what the first has built. The driver lets one process open a
device, lists a device that is open elsewhere with blank names, and closes a dead
process's handles.

A command line is what the user asks for (`asked`): the tool's `Method` follows
the code, `MethodAsked` the help text. `RightDevice`, `FailsForAReason` and the
requests of `Opening` go by `MethodAsked`, and the first two leave out
`--description`, where the two differ (5 below). `Named` is the comparison of
`FindDevice`: an empty name is that of every blank entry, whose `FT_OpenEx` then
fails; so `FailsForAReason` leaves the empty name out, because a search for it can
fail for a device nobody asked for.

`Serial`, `Description` and `Port` are constants: a device that comes back with
another COM port, or another device with the same serial number, is not modelled.
The port in a row is that of the device just probed because the code prints it in
the same turn; what `RowsRight` is about is the order and the number of the rows.

### Thousands

A pass of the `do` loop is an action. `Power` gives the powers of ten the
reference definition of a digit needs; `Digits` is 20 and `BufferSize` 27 in
the program.

## What is checked

`CaptureInv`, `DevicesInv` and `TextInv` have `TypeOK` as their first conjunct, so
that the runs that check them name no type invariant besides.

TLC's bounds are constants of the MC modules and cfgs. `CHECK_DEADLOCK FALSE`
is set where the programs end; in `Devices` a tool can be run again, so there
deadlock is checked.

| run | question | instance |
|---|---|---|
| `recv` | Is the file right (`CaptureWindow`, `ImplementsCapture`), do reads stay inside (`ReadFits`), are split points right as long as they are stored inside `boundaries_buffer` (`BoundariesFaithful`), does unplugging keep the data (`UnplugKeepsFile`), is the display right (`ProgressHonest`)? Which captures overrun the boundaries buffer (`RoomForRecords`)? Is `CaptureInv` true, before it is proved inductive? | buffers of 1 and 3 bytes, reads of at most 2, 5 bytes sent, every option and both builds |
| `recv_live` | Does the display catch up (`ProgressConverges`), does a key or SIGINT end the program (`QuitExits`) without a call made twice (`QuitMovesOn`), does a full `--buffer` (`FullBufferStops`)? Does a boundaries buffer that is exactly full start over (`BoundariesFaithful`)? | buffers of 1 and 2 bytes, 2 bytes sent; `StreamBuf` = 153, 9 records fill the buffer, 10 reads |
| `send` | Is the stream right (`NothingDropped`, `FilesInOrder`, `ImplementsTransmission`), does the program end if the device takes bytes (`SendEnds`), and is no call in vain but a write nothing is taken of (`SendMovesOn`)? | chunks of 3, a queue of 2; one file of 0 to 7 bytes, two or three of 0 to 4, four of 1 |
| `devices` | `NothingLeftOpen`, `RightDevice`, `FailsForAReason`, `RowsRight`, `DevicesInv` before it is proved inductive, and `ImplementsOpening` | two devices, two tools, on Windows (a lister, a search by port) and elsewhere (a search by serial number, one for an empty name), run any number of times |
| `devices_live` | Does a search end (`SearchEnds`), and is no entry looked at twice (`SearchMovesOn`)? | one tool, devices coming and going; also a search by serial number on Windows and a lister elsewhere, whose steps are those of `devices` on the other system |
| `link` | Is the file received part of the files sent, in order (`NothingInvented`), without a gap when flow control agrees (`NothingMissing`), and all of it for a user who watches the count (`TransferWhole`)? Does that count arrive (`CountArrives`), does the sender get away (`SenderReleased`), is every buffer that `DoCommandLine` lets through usable (`BufferUsable`), and is all this what `Transfer` promises (`ImplementsTransfer`)? | files of 1, 0 and 2 bytes, the first an XOFF character; chunks of 2, queues of 1; `d2xx_send` with RTS/CTS, without flow control, with XON/XOFF and with `--help`; `d2xx_recv` with RTS/CTS, XON/XOFF, `--buffer 3`, `--circular 2` and `--circular 0` |
| `thousands` | `InBuffer`, `Faithful`, and the invariant of their proofs | 0..1001 and the neighbours of larger powers, up to 7 digits in 10 characters |

Why these are enough: the loops of `Recv` treat a buffer as "less than, equal
to, or more than what is left", and the instances contain each: a ring of 1 is
full with every byte, one of 3 takes reads of 2 and 1 in either order, and five
bytes wrap it. Three files with a chunk of 3 contain each way in which a file
can meet a chunk. The command lines of `link` include
one refused for its flow control, one for its size and one for `--help`; the
other refusals (too few arguments, `--buffer` with `--circular`) take the same
branch of `Start`. Its queues of one byte make both tools wait for each other
at every byte, and its second chunk begins while the first is on its way. Two tools and two devices give one device that is wanted and
one in its way, and a competitor for either.

`StreamBuf` is scaled down with `BoundariesCap = (StreamBuf \div 9) * 9` and
`RecordSize = 17` kept as they are. With 36 two records fit and the third
overruns, as in the program the 3855th does; 153 is 9 * 17, so that the flush
for an exactly full buffer happens. In the program, where the buffer has 65529
characters, it never does (`RecordsPileUp` proves it), and the runs' two cases
are there because the code has both. `RoomForRecords` says which captures overrun
the buffer, whatever the length of a record: that some do is what `recv_overflow`
shows.

Bounds: `MaxBytes` stops the device, `MaxReads` stops reading of a run that
records split points (a read can return nothing, so the list could grow for
ever) unless the user quits. `shown`, `file` and the rest are bounded by these.

### Fairness

- `Recv`: `WF(Process)`: a process that can go on is scheduled, and an
  `FT_Read` whose timeout of 250 ms has expired returns. `WF(Tick)`: time
  passes. Nothing is assumed of the device, the user, the disk, or of calls
  failing; `ReadFails` is outside `Process`, so that no property is saved by a
  failure.
- `Send`: `WF(Process)`. No write timeout is set, so the program can end only
  if the device takes bytes: `SendEnds` has that as its premise, and fairness
  does not grant it.
- `Link`: weak fairness of each tool once it runs and of `Recv`'s clock, as
  above, and of `Transmit`: a line that may move a byte does. Nothing is assumed
  of the user, who need not start either tool, and may end it at any time, or of
  a driver that may drop bytes; the properties name those ways out.
- `Devices`: weak fairness for each tool's steps until it has its device. A
  search has no loop that others can prolong.

### Where the code does not do what it says

Each is a run of its own that TLC refutes, with the line quoted in
`PROJECT.json`:

1. `recv_overflow`: `boundaries_buffer` is made for records of 9 characters,
   a record has 17; the 3855th read of a capture stores outside it
   (`d2xx_recv.cpp:310`, the `ASSERT` at 327). `BoundariesFaithful` has no say
   from there on.
2. `recv_boundaries_unopened`: the check after opening the boundaries file
   tests the other file (`d2xx_recv.cpp:201`).
3. `recv_disk_full`: the result of `fclose` is ignored, so that success can be
   reported without the last bytes on disk (`d2xx_recv.cpp:363`).
4. `recv_ring_count`: with `--circular` the "Received bytes" go back to 0 each
   time the ring wraps (`d2xx_recv.cpp:288`).
5. `devices_description`: `--description` searches for a serial number
   (`d2xx_shared.cpp:17`).

Seen while modelling, and without a run, because no text of the project says
otherwise: with `--buffer` or `--circular` a boundaries file is accepted, created
and stays empty (`RecvAccepts`; `bfile` changes in stream mode only); a failing
`FT_Read` in those modes throws the buffer away; `d2xx_send` does not close a
file once it is sent, so that a list longer than the limit on open files fails
(`OpenLimit`); and `d2xx_send` may succeed before, or without, its last bytes
reaching the other end (`Purge`): `CountArrives` holds but for that case.

## What is proved

For every value of the constants that satisfies the module's assumption: sizes
are positive, files' ends ascend, the powers of ten are those, and
(`DevicesAssumption`) there are finitely many devices, no two of which have the
same serial number or the same COM port.

- `RecvProofs`. `TypeCorrect`; `CaptureInvHolds`; from it `CaptureCorrect`
  (the file is a prefix of the window to capture, and the window on success),
  `ReadsFit`, and `RecvImplementsCapture`. `CaptureWindow` is not inductive:
  that `Unsaved` is the window depends on what each slot of the ring holds.
  `CaptureInv` adds `RingHolds` (slot j holds the byte received `index - j`
  bytes ago, counting around the ring once it has wrapped) and `FileHolds`
  (what the file holds at each `pc`). A read fills a stretch of slots; the
  proof distinguishes the slots before, in and behind it, and whether the read
  ended at the end of the ring.
- `RecvOutputProofs`. `BoundariesCorrect`, from `RecordsInv`: before the save,
  the records written and those stored are together the reads of the run, and what
  the save writes is what was stored if all of it is inside `boundaries_buffer`
  (`BoundaryPtrInBuffer`, on which the theorem is conditioned). `RecordsPileUp`: for `StreamBuf` = 65536, 65529 is no multiple of 17,
  so the buffer is never exactly full. `RoomIsForRecords`, from `RoomInv`: the
  captures that overrun `boundaries_buffer` are exactly those that make more
  reads than whole records fit in it (unless records fill it, which they do not:
  `ReadsThatFit`, 3854 reads and no more with the sizes of the program). It is
  the sharp form of finding 1: run `recv_overflow` shows that some capture
  overruns, the theorem which. `UnplugLosesNothing`, from `DiskInv`:
  while the disk has room, every byte received is in the stream. `ProgressIsHonest`,
  from `DisplayInv`: a full `--buffer` is displayed as full by the read that
  fills it. `QuitNeverTurnsBack`: once a key or SIGINT has been received, each
  step of `main2` lowers `CallsLeft`, so that it reads at most once more.
- `SendProofs`. `SendTypeCorrect`, `SendsEverything` (`NothingDropped`),
  `FilesInTheirOrder` and `SendImplementsTransmission`. The inductive invariant
  is `SendInv`, the conjunction of `TypeOK`, `NothingDropped` and
  `FilesInOrder`: that a finished run has sent everything needs that each file
  was at its end when the next was opened. `SendNeverTurnsBack` (`SendMovesOn`)
  needs only types and what a read leaves in the chunk: a step that moves the
  program lowers `Work`, the files still to open, the bytes still to read and to
  write, and the calls to the next file, added up.
- `LinkProofs`. `LinkTypeCorrect`, `NothingIsInvented`, `NothingIsMissing` and
  `TransferIsWhole`, for any command lines, files, chunk, buffer and queue sizes.
  `LinkInv` joins the invariants of the parts, `SendInv`, `CaptureInv` and
  `DisplayInv`, which the steps of `Link` preserve because they are steps of
  `Send` and `Recv` or leave their variables alone, with four of its own:
  `LineInv` (what has arrived was taken from the driver, in order), `StageInv`
  (nothing is written for a command line that was not accepted),
  `ProtectedInv` (with flow control, the k-th byte to arrive is byte k) and
  `QuitInv` (a user who was not hasty saw the count that `ProgressIsHonest`
  bounds, so that many bytes had been received). `TransferIsWhole` follows from
  them: the count is at most what was received, what was received is at most
  what was sent, and so both are the files. `BufferIsUsable` follows from what
  `RecvAccepts` refuses. `ToolsRunAsAlone` is the composition: what a run of
  `Link` is to either tool is a run of that tool's own module, because every
  other step either leaves its variables alone or is one of its environment's
  (`Transmit` is `DeviceTakes` and `Arrive`). `ToolsKeepPromises` draws the
  conclusion for `Transmission` and `Capture`. `LinkImplementsTransfer` takes
  `LinkInv` to a refinement: the file received only ever grows at its end (what
  was in it is not changed by a byte that arrives later), and the step in which
  `d2xx_recv` succeeds has all of it, for a patient user on a protected line.
- `ThousandsProofs`. `ThousandsTypeCorrect`, `ThousandsFits` and `ThousandsFaithful`, from `TextInv`,
  which says after k digits where p is, how far the next comma, what is left
  of the number and which characters tmp holds. The arithmetic is in four
  lemmas: dividing by ten k times is dividing by 10^k; which places are
  commas.
- `DevicesProofs`. `DevicesTypeCorrect`, `NothingStaysOpen` and `DeviceIsRight`,
  from `DevicesInvHolds`, for any number of tools and devices: the entry under
  `pos` has the name from the moment it is found and is a device's from the moment
  it is opened, and a handle is always for the entry under `pos`. `DeviceIsRight`
  is about the method of the help text, for every option but `--description`;
  that the code's is the same there is the lemma `MethodSame`.
- `DevicesSearchProofs`. `FailureHasAReason`, from `SearchInv`: as long as
  nobody disturbs the device asked for, the search has it still ahead, and a
  probe of it stays alive. `RowsAreRight`, from `RowsInv`: the rows printed are
  those of the entries before the one under `pos`, and the port of a live probe
  is its device's. `DevicesImplementOpening`, for command lines without
  `--description` (`NoneByDescription`): the step to `Opening`'s `Get` is the
  second `FT_OpenEx`, and no step before it, the probing for ports included,
  is seen; the three settings and what fails of them come after it and end with
  a `Give`. It needs of `DevicesInv` that a tool holds at most one device, and
  that the entry under `pos` suits what was asked for. `SearchNeverTurnsBack`
  (`SearchMovesOn`): a step after the list was made lowers `Work`, three for each
  entry ahead and the calls to make for this one.
- `ByteStreamProofs`. The lemmas on `Bytes` and prefixes the above cite.

Only model-checked: all liveness (`ProgressConverges`, `QuitExits`,
`FullBufferStops`, `SendEnds`, `SenderReleased`, `CountArrives`, `SearchEnds`),
which TLAPS does not prove. What it can prove of them is their safety half, that
no step goes back: `QuitMovesOn`, `SendMovesOn` and `SearchMovesOn` bound the steps
that `QuitExits`, `SendEnds` and `SearchEnds` wait for; that the next of them is
taken is fairness, and TLC's. Every invariant of a passing run, and every refinement and action property, is
now a theorem, the two named above under their conditions.

## What is not modelled

- Most of the tree is not the tools: about two thirds of the lines of its C and
  C++ files are four copies of the driver's header `ftd2xx.h` and three of a
  sample's `pdConfig.h`, and most of the rest are the driver package's sample
  programs (`dependencies/ftdi`). They are third-party, nothing in the repository
  builds them, and a model of them would say nothing about `d2xx_tools`. The
  modules are about the tools' own sources, some thousand lines, of which the
  map names about three quarters.
- The command line parser and the `ASSERT` macro are in a submodule that is not
  part of the source tree: how text becomes the fields of a command line is not
  modelled, what is done with them is (`CommandLine`). Baud rate, bits, parity
  and stop bits are passed on to the driver unseen.
- The enum tables of `d2xx_shared.inl`, but for the values of `--flow`, are names
  for messages. `configure.py`, the CMake files and the release Makefile keep no
  state of the running tools.
- The wording of messages, and the bytes of the boundaries file's hexadecimal
  numbers: `RecordSize` keeps their length, which is what matters.
- What the driver and the device do behind the calls is known only from how the
  tools use them: line errors are left out, flow control and `FT_Close` are the
  assumptions listed under `Link`.
- The content of files while they are being sent does not change, and the two
  files `d2xx_recv` writes are different files.

## Plan

In order of importance; all of it is done.

1. `Recv` with `Capture`, `RecvProofs`: the capture itself.
2. `Recv`'s boundaries file, progress display and failures.
3. `Devices`: search and opening, several tools.
4. `Send` with `Transmission`, `SendProofs`.
5. `Thousands` with `ThousandsProofs`.
6. `DevicesProofs`: `NothingLeftOpen` and `RightDevice`.
7. `RecvOutputProofs`: `BoundariesFaithful`, `UnplugKeepsFile`,
   `ProgressHonest`, each from an invariant of its own; and that with the
   program's sizes the exactly full boundaries buffer never occurs.
8. `DevicesSearchProofs`: `RowsRight`, `FailsForAReason`.
9. `CommandLine`: which combinations `DoCommandLine` lets through and how they
   become `Options`.
10. `Link`: `Send` and `Recv` joined by the driver's queues, where flow control
    is on and where it is not, and `LinkProofs`.

11. The abstract specifications `Opening` and `Transfer` with the proofs that
    `Devices` and `Link` implement them, the composition theorems of `LinkProofs`,
    which captures overrun the boundaries buffer, and the safety halves of the
    liveness properties.

What could follow: the search of `Devices` before each tool of `Link`, instead of
the choice in `Start`, and `Recv`'s two files on one path.
