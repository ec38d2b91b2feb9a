# A verification of the stateful parts of this repository

The repository is a collection: Android HALs written for an i.MX board (GPS and
sensors), a tester for the link to a vehicle's MCU, device utilities (dd, a
probe of FAT volumes), small pthread, signal and kernel programs, binder and JNI
examples, scripts. Much of it runs straight through one device access. This
directory holds TLA+ models of the parts that keep state between calls, threads
or system calls, model-checked with TLC, and proofs about them checked with
TLAPS. Line numbers are those of `src/`.

## 1. Inventory

| component | state | operations | who calls whom |
|---|---|---|---|
| **Atheros GPS HAL** `testcode/android/libgps/athr_gps.c` | `GpsState` (init, fd, reader, first_fix, fix_sem, control sockets) and the globals `sleep_lock`, `lastcmd`, `started`, `continue_thread`, `bGetFormalNMEA`, `bOrionShutdown`, `g_gpscallback` | init, start, stop, cleanup; wakeup and sleep of the chip; the control, reader and timer threads | the framework calls in; commands go to the control thread through a socket pair; the three threads share `GpsState`; all four call back into the framework |
| **NMEA reader** in the same file (371-945) | sentence buffer `in[83]`, `pos`, `overflow`, fix being assembled, satellite list | addc, tokenizer, parse, update_* | the reader thread; the timer thread delivers what it assembled; the control thread clears it at START |
| **GPS HAL of the emulator** `gps_qemu.c` and its copy `gps_neu.c` | as above without power management | init, start, stop, cleanup; one thread with an epoll loop | the framework calls in, the thread calls back |
| **Input event ring** `libsensors/InputEventReader.cpp` | array, head, current, free space | fill, readEvent, next | each sensor class owns one |
| **Sensors HAL** `libsensors/sensors.cpp`, `AccelSensor`, `MagSensor`, `GyroSensor`, `PressSensor` | poll descriptors, wake pipe; per class the pending mask and event, enable counts | pollEvents, readEvents, activate/setEnable, setDelay | one framework thread polls, another activates |
| **Thread pool** `testcode/linux/pthread/pthread_pool.c` | task list, its size, shutdown, mutex, condition | add, destroy, the worker routine | main and three workers |
| **AutoLink MCU link** `autolink/libtest/src/qemu_mcu.c` | the uart, the frame being received (`mcuinfo`) | init, send with retries, service thread, frame parser | a caller sends; the service thread reads chunks and feeds the parser |
| **dd** `testcode/android/dd/dd.c` and its copy in `mmcbootwrite/` | options, two buffers and their counts, the pending sparse blocks, the statistics | jcl (operands), setup, dd_in, def/block/unblock, dd_out, dd_close | sequential, over reads and writes that come up short or fail |
| **FAT probe** `testcode/linux/blkid/blkid.c` | the superblock buffer and the seek buffer, the position in the cluster chain | get_buffer, full_read, probe_vfat | sequential, over a device that says how much to read and where |
| AutoLink callbacks, pthread, signal, kernel, binder, Java, JNI, device programs | next to none | - | - |

What is hard in it, and what makes each part correct:

* *GPS HAL.* Four threads, one semaphore that guards half of what they share.
  The timer's decision to put the chip to sleep, the control thread's start and
  the reader's restart of a dead chip race with each other and with cleanup.
  Correct means: commands to the chip do not overlap; no thread and no callback
  outlives the session; cleanup returns; the chip ends as the user's last call
  wants it, also after a failed open, write or read; no descriptor is lost.
* *NMEA reader.* A line may start anywhere, be longer than the buffer, be cut,
  or have the buffer cleared under it. A satellite list comes in several
  sentences. Correct means: what is parsed is one whole line as the chip said
  it; no line that fits is dropped; a list is the list announced.
* *Emulator GPS.* Commands come one byte per event to a thread that is busy
  with sentences, that may not exist, or whose callbacks are not stored yet.
  Correct means: the thread ends in the state last asked for; every position is
  delivered once; cleanup joins the thread that init made; callbacks stay in
  their session.
* *Ring.* Two pointers that wrap under different conditions, reads that overrun
  the ring, reads that are rejected after they have written. Correct means: a
  FIFO of whole events.
* *Sensors HAL.* Reports split over reads and calls, an enable count changed by
  another thread in the middle, blocking reads, errors returned as negative
  counts. Correct means: each handle's reports come out once and in order, none
  outside the array, none left behind.
* *Thread pool.* A signal sent outside the lock, a shutdown flag set outside the
  lock. Correct means: the assertions of `thread_routine` hold, no task is lost
  or run twice, destroy returns.
* *MCU link.* A write that is cut short and repeated from the start, lost and
  changed bytes, data that holds the sync bytes. Correct means: an accepted
  frame is an uninterrupted run of bytes of the line with a right checksum; on a
  clean line every message arrives once and in order.
* *dd.* Records that end in the middle of a block, errors skipped with padding,
  short writes, holes. Correct means: the output is the conversion of the input
  however the system calls cut it.
* *FAT probe.* Buffers reused when what is wanted seems to be in them, sizes and
  offsets from the device in 32 bits. Correct means: what the probe looks at is
  what the device holds, and no pointer into a freed buffer is used.

`PROJECT.json` lists every hazard with its line and the properties that watch it.

## 2. Modules

```
GpsSession      <-- AthrGps          <-- AthrGpsProofs
GpsSession      <-. QemuGps          <-- QemuGpsProofs
NmeaSentence    <-- QemuGps          <-- MCQemuGps
NmeaSentence    <-- AthrSentence     <-- NmeaReader <-- NmeaReaderProofs
                                                    <-- MCNmeaReader
EventQueue      <-- InputEventReader <-- MCInputEventReader
SensorChannel   <-- SensorsPoll      <-- MCSensorsPoll
InputEventReader, SensorsPoll        <-- SensorsPollProofs
TaskPool        <-- ThreadPool       <-- ThreadPoolProofs
McuLink         <-- McuLinkProofs, MCMcuLink
DdOptions       <-- Dd               <-- DdProofs, MCDd
DdConvert       <-. Dd
VolumeId        <-- VolumeIdProofs, MCVolumeId
Descent         <-- Dd, VolumeId
```

`GpsSession`, `EventQueue`, `SensorChannel` and `TaskPool` are what a component
promises; the module that instantiates one is the code, and states with
`INSTANCE ... WITH` how it implements it. Both GPS HALs implement the same
`GpsSession`. `DdConvert` is the reference the blocks of `Dd` are compared with: a
conversion of the whole input at once. `NmeaSentence` is the meaning of a
sentence, pure operators on the fix; `QemuGps` composes it with the session and
`NmeaReader` with the sentence buffer. `Descent` is the order by which the two
sequential programs, `Dd` and `VolumeId`, are shown to come to an end. `SensorsPoll`
composes as well: its `ring[d]` is the queue of `EventQueue`, which
`InputEventReader` is proved to implement.

The repository holds copies. `gps_neu.c` differs from `gps_qemu.c` in the debug
switch of line 51 only, and `mmcbootwrite/dd.c` from `dd.c` in the name of its
main and in what it prints; what is shown of the one holds of the other, and the
map refers some definitions to the copy. `MagSensor`/`PressSensor` and
`AccelSensor`/`GyroSensor` are such pairs too.

A mutant is a definition placed just before the one it spoils and not used in
any specification; a comment on each says which mistake it stands for.

### AthrGps

`pc[t]` is where each of the threads `api`, `ctrl`, `nmea`, `tmr` is; a label
stands between two accesses of shared state. The framework makes its calls one
after the other (`api`): that is how Android's location service uses a HAL.

| code | actions |
|---|---|
| `athr_gps_init/start/stop/cleanup`, `gps_checkstate` | `CallInit`, `CallStartStop`, `CallCleanup` |
| `gps_state_init`, `gps_state_done` | `StateInit`; `SendQuit`, `Sleep("api")`, `StateDone` |
| `gps_state_start/stop` | `NoteCommand`, `SendToThread`, `ReportStatus` |
| `gps_wakeup` | `WakeupCheck`, `WakeupLock`, `Open`, `WakeupTime`, `Send`, `NoteSent`, `WakeupUnlock`, run by any of its callers |
| `gps_sleep` | `SleepLock`, `Open`, `Send`, `NoteSent`, `SleepStarted`, `SleepUnlock`, `SleepClose`, likewise |
| `gps_state_thread` | `Create`, `Ready`, `ReceiveStart/Stop/Quit`, `EnterStart`, `TellThreads`, `Join` |
| `gps_nmea_thread` | the `Nmea*` actions |
| `gps_timer_thread` | the `Tmr*` actions |

`fix_sem` is `"destroyed"`, `"free"` or its holder. A section that holds it for
one access of shared state is one step, enabled while it is free; a command keeps
it over the look at `fd`, the open, the write and each of the flags it sets, steps
of their own: the other threads read `sleep_lock`, `bOrionShutdown` and `started`
without the lock, so that a START may come between the resets of `started` and of
`sleep_lock`. The
reader opens without it (`NmeaOpen`, then `Open`): what its `open()` returns is
stored over what another thread has stored since, so that a command may meet no
descriptor, and the tty may be opened twice. `awake` is the chip: the command it
obeyed last. `openTty` counts the descriptors the kernel holds,
`fd` is what the HAL knows of them.

Abstractions. The check, `close` and reset of `gps_closetty` are one step. Sleeps
have no duration. A
read brings one sentence, and a sentence is what it does to the flags: from the
GPG family (`"formal"`), with a position, beginning or completing the satellite
list. `select` on descriptor -1 may return either way, as the `FD_` macros leave
it. `sem_init` and thread creation for the framework's thread do not fail;
everything counted by `FaultKinds` may. `fix_freq` keeps its initial -1, as no
setter is registered.

### NmeaSentence, AthrSentence, NmeaReader

A sentence is its kind, its length and its fields; a field (`Token`) is what the
update functions look at: its length, the number it stands for and its first
character. An absent field is `nmea_tokenizer_get`'s empty token. `NmeaSentence`
has the sentences both HALs understand, each as an operator from the fix before
to the fix after; `AthrSentence` has what `athr_gps.c` does differently, and its
own sentences (PUNV). The comparison `accuracy == 99.99` of a float with a double
is never true and is translated so.

`NmeaReader` is the buffer. A character is its sentence and its place there, so
that every mixture of lines remains visible. `Take`, `Skip`, `Bound`, `Full`,
`Store`, `Lock`, `Parse`, `ParseTorn`, `LeavePosition`, `ZeroPosition` are the
stretches of `nmea_reader_addc` between accesses of `pos` and `overflow`, because `Clear` and
`ClearDate` (`nmea_reader_init`, called by the control thread at START without
`fix_sem`) may come between any two. `Deliver` is the timer thread's report under
`fix_sem`. `Cut` is a line that stops in the middle, as when the chip is put to
sleep. The tty may be opened in the middle of a line. A parse that a clear
interrupts (`ParseTorn`) has told the fix before the clear or after it, or, in the
loop over the satellites of a GSV sentence, some of them before and the others
after. The checksum is not looked at by the code, so a line glued together of two
pieces may mean anything (`Meanings`).

What one sees there: the line feed that is the 84th character finds the buffer
full, and the line after it is swallowed up to its own line feed; `LineKept` is
therefore about the line in the buffer being too long. A clear between the
`memset` and the date lets a parse in between make dates of the year 0.

### QemuGps

One thread beside the framework's. `gps_state_init`, `StoreCallbacks`, `Send`,
`Quit`, `gps_state_done` are the calls; `ThreadBegins`, `epoll_wait`, `HungUp`,
`ReadCommand`, `ReadTty`, `ParseNext`, `NoMore` the thread, from one system call
to the next; `Say` and `HangUp` the tty. Sentences arrive whole. What the model
keeps of the code's own ways:

* the thread is created (1192) before the callbacks are stored (1199), so it may
  run without them for a moment;
* a failed open leaves `init` at 1, so that init fails until a cleanup; a failed
  `set_ttymxc` reports success although no thread was made; cleanup then
  joins a thread that was never made (`JoinNothing`), which is undefined, and the
  model ends there (`pc = "undefined"`);
* a tty that hangs up is seen by `epoll` and ends the thread, or is seen by the
  inner loop, where `read` returns 0 for ever (`CleanupReturns` excepts it);
* a position that came while stopped is delivered at the next start; a GSA
  without satellites counts as a fix; ZDA sets the year to -1, so that the date
  of the host is used after it (`QemuGpsDate.cfg` shows it against the comment
  "no date yet, get current one").

### InputEventReader

Pointers are slot numbers of the array of `2 * numEvents`. `fill(evs)` is a read
of whole events, with the overrun and the copy down; `fillPartial` is the read
that is refused with `-EINVAL` after the bytes were stored; `next` is
`next()`, which every caller calls only after `readEvent()` returned 1. A failed
read changes nothing. `delivered` is the device's side, for the refinement.

### SensorsPoll

One step per input event, so that `activate()` can come between any two. `Fill`
is the blocking read: disabled while the device has nothing, left out when the
ring is full. `Account(nb)` is what `pollEvents()` does with the result, a
negative one too (`FillFails`). `Poll` is `poll()` with the wake message;
`EINTR` is retried by the code and left out. `mPendingMask` is a set of handles
and the loop over its bits takes the lowest first. A report is modelled by which
handles each of its axis events marks and by the time of its `EV_SYN`.
`out[h]` collects the times stored into the framework's array. The enable count
`mUser` of the accelerometer reaches only a `writeEnable()` whose body is
commented out, and is left out; `setDelay()` writes a device file and changes
nothing here. The devices may report at any time, enabled or not: a report made
before a disable may still be in the kernel.

### ThreadPool

One action per stretch of `thread_routine` between two operations on the mutex
or the condition variable, which are modelled by their POSIX meaning, spurious
wakeups included. Allocation and thread creation are taken to succeed, as the
code does without a test. `freed` marks the end of `pool_destroy`.

### McuLink

Bytes are bytes: the parser is translated byte by byte (`autolink_mcu_parse`, one
step each), the checksum is the exclusive or of the code. `autolink_mcu_sendinfo1`
is one non-blocking write, which takes what the line has room for; a short
one is repeated from the start of the frame. `Noise` loses or changes a byte.
`recent` records the bytes parsed, `due` and `dirty` what a clean line owes. An
init that fails leaves the link closed; the descriptor it forgets when the speed
cannot be set (237-245) is not counted.

Seen in it: a frame cut short and sent again is swallowed as the data of the
first piece, although the send returns success; after AA AA 77 the frame is lost,
for the second AA is not taken as a new beginning; a frame of 120 bytes of data or
more never gets through (the array has 128 bytes and the parser stops at
127); the parser has no timeout. `MessagesArrive` and `CleanLineDelivers` are
about lines that carried whole frames since the link was last idle.

### DdOptions, DdConvert, Dd

`DdOptions` is the command line: operands in the order given, with the flags that
exclude each other, and the checks after the last. `Dd` has a step for every
system call (`Read`, `ReadError`, `Write`, `WriteInterrupted`, ...) and for every
record converted (`def`, `block`, `unblock`). A file is a sequence of the few
bytes the conversions tell apart. Left out: tapes and character devices, the
translation tables (set up by options this port dropped), what `progress` prints,
the summary and its signal. `swab` is accepted and turns `bs` off, as in the code,
whose swapping is commented out.

A file opened by `of=` is emptied at the open unless `seek` or `notrunc` is given,
also when `setup` exits afterwards; with `seek` it is cut or filled up to that place,
an error of which is ignored; standard output is left as it is. `U` is 2^32: the
sums of sizes that two buffers are allocated by are cut to `u_int` (217-218).
The code stores sizes unchecked. With a size of 0 or a sum that is cut it writes past
its memory, or its loop never ends; the model runs on as if the memory were there,
and the properties speak of the other sizes (`Sized`): blocks that have a size,
records that have one when there are records, and sums below `U`.
`DdWorstCase.cfg` and `DdBlockInput.cfg` hold the code to what its comments say of
the buffers.

`CopyExact` excepts the combinations that do not copy (`Unreliable`): `osync`
after `block`, where `block_close` pads at the wrong place; `sparse` over what the
output held, which only an `of=` without `seek` and `notrunc` is cleared of; and
`sparse` after a short write. `DdSparse.cfg`
shows in a few steps that a sparse copy may differ from its input, against the
comment at 413.

### VolumeId

A step for every `read` and for every stretch between two requests to
`volume_id_get_buffer`. A device is the fields of its super block and a sequence
of tokens; `sbbuf` and `seekbuf` hold tokens, their lengths are the ones the code
stores. Of a directory entry two tokens are looked at: the name with the attributes,
and the cluster, which a label must not have. A root directory may begin inside the
super block buffer, and there the magic the probe writes (317) can lie on the
cluster of the entry at 0x40, which then is passed over; `LabelFound` excepts that
entry (`Overwritten`). Arithmetic is modulo `W`. Seen in it: the probe writes the FAT32 magic
into the buffer before it compares it, so the magic is never checked, and a super
block with 0 sectors per cluster divides by zero (`pc = "trap"`); the root
directory's chain is followed for up to 99 passes that all read the first
cluster; a next cluster below 2 wraps; a cluster above 64 K is refused and the
probe returns 0; the label found is not copied and main prints an empty one.

## 3. What the runs check

| run | instance | shows |
|---|---|---|
| `ring` | ring of 4, two events, symmetric | `HeadFollowsLive`: the two wrapping rules agree; `LiveEventsWhole`: no unread event is one that was refused; `QueueRefinement` |
| `gps` | 4 calls, or 3 and 1 failure of any kind, fair | `CommandsExclusive`, `ThreadsWithinSession`, `SessionRefinement`, `CleanupReturns` |
| `gps_effect` | 3 calls and 1 failing open, write or read, fair | `FirstStartWakesChip`, `StopEndsStarted` |
| `sensors` | 2 drivers with 3 handles, rings of 2, room 1 or 3, 2 reports, 2 activations, 1 failure, fair | `WithinRoom`, `PollsOnlyWhenDrained`, `ChannelRefinement`, `ReportsHandled` |
| `pool` | 3 workers, 3 tasks, fair | `AssertsHold`, `SomeoneAwake`, `TaskRefinement`, `EveryTaskRuns` |
| `nmea` | 4 sentences, buffer of 3, 3 lines, 1 clear, 1 cut | types; `LineWhole`, `LineKept`, `ListWhole` |
| `qemu_gps` | 8 sentences of which 2 are said, 5 calls, 1 failure of any kind, fair | `JoinsItsThread`, `CommandsHold`, `FixFresh`, `KeepsSession`, `CleanupReturns` |
| `mcu` | 3 messages, an array of 10, chunks of 2, 2 attempts, 2 sends, 1 disturbance, fair | types; `FramesAreRuns`, `CleanLineDelivers`, `MessagesArrive` |
| `dd` | 21 command lines, inputs of up to 5 bytes, 2 outputs, 1 failure, `U` of 16, fair | `BufferBounds`, `NothingLost`, `CopyExact`, `ErrorsKeepOffsets`, `NearerToEnd`, `Ends` |
| `volume_id` | 292 super blocks and 69 directories, buffers of 6 and 4, 1 failure | `CacheExact`, `SuperAlive`, `LabelFound`, `NearerToEnd` |
| `gps_lost_start`, `pool_destroy` | | the two disagreements below |

Bounds. *gps*: four calls reach init, start, stop and a cleanup or a second
start, which is every pair of overlapping commands; one failure reaches every
recovery path beside three calls, init, start and one more.
The two effects are shown of three calls, which is one session: a
retry that fails itself, or what an earlier session left in `sleep_lock`, is outside
them. `GapLimit` is 1 for the code's 100: the settle loop is left by each
of its conditions and by its limit. *ring*: a ring of 4 wraps and overruns at
every offset. *sensors*: a ring of 2 is shorter than a report with two axis
events, so reports are split over reads and over calls, and a room of 1 ends
between the two handles of one `EV_SYN`. *nmea*: a buffer of 3 for the code's 83
has lines shorter than, as long as and longer than itself, and three lines are
one before, in and after a mishap. Two sentences announce a list of
two, a third one a list of its own, and a clear falls at every place of the lines,
also within a parse; that a sentence lists one satellite instead of four keeps the
torn lists few. *qemu_gps*: five calls are
init, start, stop, start, cleanup, or a session and the beginning of another.
*mcu*: the array of 10 admits frames with one byte of data and refuses
two, the data are the sync bytes, and a line of 16 cuts the second frame short.
*dd*: the block sizes 1, 2 and 3 do not divide each other, nor the 5 bytes; every
conversion that changes structure is there with `sync`, `noerror` and `osync`, and
`sparse` with `of=` and without. Five lines have a size of 0 or one that `U` cuts
off: there the run shows only that the model follows the code.
*volume_id*: the fields put the cluster inside, across and behind the superblock
buffer, and the root directory under the magic; the device ends before, in and after it, and `W` of 16 lets the
offsets wrap.

The two effects hold of four calls without a failure as well, which takes too long to
keep.

`CHECK_DEADLOCK FALSE` in every run but `ring`: a program whose framework makes
no further call, whose main has returned or which has nothing more to read, stops.

Fairness. `WF` for each thread as a whole: the operating system runs a thread
that can run, and `fix_sem` and `queue_lock` are held for a few statements, so a
waiter gets its turn. In `QemuGps` it is the thread and the calls under way, in
`McuLink` the service thread, in `Dd` the program. In `ThreadPool` main runs too, but
for the step that sets `shutdown`: how long it sleeps before (183) is left open, and
`EveryTaskRuns` holds though it sleeps for ever. Nobody has to call the HAL, no
device has to report, no line has to be read clean, no system call has to fail or
succeed for ever. The one call assumed is `pollEvents()`, which the framework's
sensor thread repeats in a loop.

### What the code does not keep

Two runs that TLC must find violated, with the line of the code that says
otherwise in `PROJECT.json`:

* `gps_lost_start`: the timer tests `lastcmd` without the semaphore (1473) and
  then sleeps the chip. A start in between is taken for a repeated one, because
  `started` is still set; then SLEEP goes out. The last call was a start and the
  chip sleeps for good.
* `pool_destroy`: the shutdown is broadcast without the mutex; a worker between
  its test and its wait misses it and is joined for ever.

Others have a configuration beside the runs, to be given to TLC by hand:

* `AthrGpsLostRetry.cfg`: when the reader's own wakeup fails too, line 1336 clears
  the flag that recorded it.
* `AthrGpsTtyLeak.cfg`: while cleanup closes the tty, the reader, on its way out,
  finds no descriptor and opens one; `gps_state_done` then zeroes `fd`. Or both
  have looked at `fd` before either opens, and the first descriptor is lost.
* `SensorsLeftovers.cfg`: a call that uses up its room exactly leaves POLLIN set,
  and the next one begins with a blocking read of that device, whatever its ring
  or the other devices hold.
* `SensorsReadError.cfg`: a failed read returns a negative number, which
  `pollEvents()` adds to its bookkeeping: `data` moves before the array.
* `DdBlockInput.cfg`: `block` leaves a rest shorter than `cbs` in the input buffer, and
  a whole block is read behind it. That is more than the `MAX(ibs, cbsz)` of the
  comment at 778; `setup` allocates `cbs` more, so nothing is overrun.
* `DdWorstCase.cfg`: `obs=0` is accepted, `ibs - 1` bytes are allocated (210), and `ibs`
  bytes are read into them, against the "Worst case" of the comment at 721.
* `DdSparse.cfg` and `QemuGpsDate.cfg`, described with their modules.

A lesser one is seen in `AthrGps` and has no run: `started` and `init` are set one
after the other (1263), so a SLEEP of the timer between them and a later stop
leave `STATE_START` with `started` 0; the next start is served normally.

## 4. What is proved

For every value of the constants, from the assumptions named in the modules:
`SizeAssumption`, `NoEventAssumption` (the ring has a slot and the filler is no
event); `BoundsAssumption` (the bounds are naturals); `PoolAssumption` (there are
workers and `Nobody` is none); `SensorsAssumption` (every driver has a ring and
finitely many handles, its own, and the framework gives some room);
`SentencesAssumption`, `TokensAssumption`, `LimitsAssumption` (sentences have a
length and fields, the buffer has a place); `MessagesAssumption`,
`SizesAssumption` (messages are bytes, at most 127, the array is longer than a
header); `BytesAssumption`, `LinesAssumption`, `FilesAssumption`, `WidthAssumption`
(files are sequences of bytes, the values of operands numbers, and `U` is at least
1); `LengthsAssumption`,
`DevicesAssumption` (the magic lies inside the super block and that inside its
buffer, a directory entry has a length, the chain is followed at least twice; the
fields of a super block are numbers, the data a sequence of tokens).

* **AthrGpsProofs.** `IInv` adds to the checked invariants when a session exists
  (`OutsideSession`), during which stretch of the control thread the other two
  can live (`Lifetimes`), and what three labels say about local values
  (`Locals`). It is kept action by action, split over threads and over flags and
  the rest. `SessionInvariant`, `CommandExclusion` and `ThreadsOutlived` follow;
  `CallbacksWithinSession` maps each step to a step of `GpsSession` or a stutter.
* **ThreadPoolProofs.** `IInv` names who holds the mutex, that a waiting worker
  found nothing to do, how `main`'s place relates to `shutdown` and `freed`, that
  the list is counted and holds the newest tasks in order, and that running
  tasks are older and distinct. `AssertionsNeverFail` and `NoWakeupLost` are two
  of its parts; `PoolImplementsTasks` is the refinement.
* **SensorsPollProofs, the ring.** `RingInv` is `RingTypes`, `HeadFollowsLive` and
  `LiveEventsWhole`. The second is needed because neither wrapping rule alone
  says where the free part is: `mHead` rests at `numEvents` while `mCurr` is
  already 0. From it, a stored event lies outside the unread slots unless it is
  behind them, and the copy down moves only the overrun. `RingInvariant` is the
  invariant, `HeadFollows` and `UnreadWhole` its parts; `RingImplementsQueue` adds
  that a fill appends to `Unread` (`FillAppends`) and a next takes its head
  (`NextPops`).
* **SensorsPollProofs, the poll.** `WithinRoom` is inductive with the bounds of `Locals`
  (`readEvents` stays within what is left of the room). `PollsOnlyWhenDrained`
  needs `Leftovers`: while no call has failed, a ring with events has its POLLIN
  set, and the drivers the scan has passed have none unless the room is used up.
  That is what a scan which looks only at POLLIN relies on, and why a POLLIN
  reset too early would lose events. `PollInvariant` is the invariant, one lemma
  per group of actions; `PollTypes`, `PollWithinRoom` and `PollDrained` follow.
  `PollImplementsChannel` is the refinement of `SensorChannel` by every handle. Its
  strengthening `StreamsOrdered` says that the events of a driver, first those in
  its ring and then those of the device, carry marks of its own handles only, with
  the times of their `EV_SYN` increasing, and that nothing later than the clock was
  handed over. The reports on their way to a handle are a function of that stream
  and of the mask (`TimesOf`): reading leaves it alone, an axis event moves its
  marks to the mask (`TimesAfterAxis`), and the `EV_SYN` at the head is the oldest
  (`HeadIsOldest`), given up for one handle after the other (`TimesUnmarked`) and
  consumed with the last (`TimesAfterSyn`).
* **NmeaReaderProofs.** `TypeCorrect`, with `pos` within the buffer at every store.
  `LinesAreWhole` and `LinesAreKept` rest on `Steps`, what each stretch of
  `nmea_reader_addc` knows of the `pos` it has read, and on `InStep`: while nothing
  has come between, the buffer holds the characters of the current sentence up to
  the last one taken, and `overflow` is set only within a line too long.
  `ListsAreWhole` needs `ListKept`, which says of the part of a list heard so far
  what `ListWhole` says of the whole: how many satellites there are and that each
  stands at the place of its number. Sentences of other kinds leave the list alone
  (`OtherSentences`), the first one of a list clears it (`FirstListed`), a further
  one appends its four or what is left (`NextListed`).
* **QemuGpsProofs.** `IInv` is `Lifetime` (the thread lives between the init that
  made it and the join), `OrdersReach` (the last order in the pipe, or the state of
  the thread if there is none, is what the framework asked for; a command lost or
  read twice breaks it), `PositionDue` (the reader's LAT_LONG flag is set exactly
  while the position received last has not been delivered) and `FixFresh`. The last two rest on
  `SentencePlaced`: only GGA, and GLL and RMC with a fix, tell a position.
  `HalInvariant` is the invariant; `ThreadJoined`, `CommandsTaken`,
  `PositionsFresh` are parts of it; `CallbacksWithinSession` maps every step to one
  of `GpsSession` or a stutter.
* **McuLinkProofs.** `TypeCorrect`: the parser never writes outside its array,
  whatever the line carries, and the exclusive or of bytes is a byte
  (`XorIsByte`). `AcceptedFramesAreRuns`: what the parser has in `mcuinfo` is the last `pos` bytes
  it was given, in their order (`ReadAs`), so that an accepted frame is an
  uninterrupted run of the line. `CleanLine`: while the line carries whole frames,
  the bytes held by the parser, in the chunk and on the line are the frames
  still due, one behind the other. Its invariant `CleanInv` adds that what is due
  was encoded by `sendinfo` and fits, and that the parser has not gone past the end
  of its frame; `NextByteOfFrame` shows that on such a line the parser takes each
  byte of a frame in turn and accepts at the last. The concatenation of frames is a
  recursive function; its equations are proved first (`CatOfAppend`, `CatOfTail`).
* **DdProofs.** `TypeCorrect` holds of every command line, the others of those
  whose sizes are `Sized`. `BuffersHold`: what is in the input and the
  output buffer fits what `setup` allocates, for every such size and every conversion
  (its strengthening `Room` says how much each stretch may still add, the longest
  being a record of `cbs` onto a block not yet full); `CopyLosesNothing`:
  in a plain copy, what was written, what is in the buffer and what was read
  agree at every step (`Kept`), through short and repeated writes. `OffsetsKept`
  rests on `PlacesKept`: each block taken starts at a multiple of its size, and is
  what the input has there or padding.
  `CopiesExactly` is the theorem about the end of a copy, in three invariants.
  `SinkKept` is the output side: no byte of the old output lies behind the position
  where a seek over zeros may leave it, at least one block of zeros is pending if
  any, and the position is inside the file except between an interrupted write and
  its repetition. With it, `AllSent` (what is in the file and the zeros still
  pending) grows by what `dd_out` takes from its buffer, whichever of its branches
  runs (`OutMoves`). `StreamKept` is the conversion: `AllSent` and the output buffer
  are the conversion of what was read less what the input buffer holds, where a cut
  record counts as converted while its rest is dropped (`BlockStream`,
  `UnblockStream`). `BlockConverts`, `BlockDrops`, `BlockCloses` and their
  counterparts for `unblock` are one record each; they rest on `BlockedJoin` and
  `UnblockedJoin`, that the conversion of a stream is the conversion of its complete
  records followed by that of the last. `SourceKept` is the input side: without
  faults and padding, what was taken is the input from the skip on.
* **VolumeIdProofs.** `IInv` says what each buffer holds of the device, also half way
  through a read (`BuffersHold`), how the request relates to the buffer it is
  answered from (`Placed`, `Given`), that the super block outlives the requests
  for it (`SuperHeld`), and how far the search is (`Searching`, `Found`,
  `Unreadable`). `ProbeInvariant` is that invariant; `TypeCorrect`, `BuffersExact`,
  `SuperBlockAlive` and `LabelExact` follow, for every device, size of buffer and
  word, and number of passes; the last tells a label from a file by both tokens of
  its entry and the magic over the second. `ReadsWithinBuffers` (`WithinBuffers`) adds
  that neither buffer grows past its limit and that no read goes past what was
  allocated for it.
* **Descent.** `NearerToEnd` says of `Dd` and of `VolumeId` that every step lowers a
  tuple of naturals (`Rank`), compared from the left: no loop of theirs runs idle,
  whatever the input, the device and, of dd, the `Sized` sizes are. dd's tuple is the stretch of the
  program, the failures still to come, the input not yet read, which of reading,
  writing and converting is under way, the bytes in the input buffer, and those in
  the output buffer; that of the probe is the place of the
  search (the passes over the chain count down), the place in the request, what
  `full_read` still wants and the failures. `CopyDescends` and `ProbeDescends` are
  the theorems. The second needs `Bounded` beside `IInv` (no more failures than
  `MaxFaults`), the first `Going`, which also says
  that dd works only on options that were accepted and that what it takes out of
  the output buffer is at least a byte; that is where the positive sizes of
  `Sized` come in. `NoEndlessDescent` says that no sequence of tuples goes
  down for ever, so that each run has finitely many steps.

`DdConvert` and `Concatenated` are recursive functions. What is proved of one is
that a function with its equations exists and that there is only one, by induction
over the naturals: the set of the lengths up to which such a function exists holds 0
and with each number the next (`NatSetInduction`, from the least element of its
complement).

Only model-checked: every liveness property (`CleanupReturns`,
`FirstStartWakesChip`, `StopEndsStarted`, `ReportsHandled`, `EveryTaskRuns`,
`MessagesArrive`, `Ends`), for which the provers have no rule for fairness and none
for `ENABLED`, and the two violations. Of `Ends`, `CopyDescends` proves the part
that needs neither, that dd cannot run for ever; that it does not stop halfway, which
takes `ENABLED`, is what the run adds. Every invariant, every action property and
every refinement that a run checks is a theorem. The types of `Dd` and
`VolumeId` are proved and no run repeats them.

## 5. Not modelled

The `xtra` and `ni` interfaces of the GPS HAL only print or store a pointer; the
attributes of a tty are set once and never read. The opening of input devices is a
search at start, `LightSensor` is never instantiated. `qemu_arm.c` is a table of
callbacks that print their arguments, over a library that is not in the
repository. The main of `mmcboot0write.c` writes three device files around dd.
`gpstest` and the device utilities are loops around one call. The binder, Java, JNI
and kernel examples keep no state between calls. The vim configuration is vendored.

## 6. Plan

1. `AthrGps`: the check and the close of the tty as two steps, with descriptors that
   the kernel reuses, so that two threads that close at once are seen (1385, 1562).
2. `SensorsPoll`: the enable count after a failed `ioctl` (MagSensor.cpp:90).
3. Proofs for what 1 and 2 add.
4. The main of `mmcboot0write.c` around `Dd`: dd's `exit(1)` leaves `force_ro` 0.
