# Verification of the Pyrope black-box recorder

The repository is a board support tree. Its own program logic is the car
recorder in `src/Solution/BlackBoxSolution`: a library of filters that turn
camera, microphone and sensor data into files (`src/libnxfilters`), a manager
that drives them (`src/libnxdvr`) and the application (`apps/nxdvrsol`). The
TLA+ modules here model the recording core: what becomes of an encoded sample
between the multiplexer and the card, who tells it to go into which file, who
is told when the file is done, and who deletes old files; and the way a picture
takes before that, from the camera's pool to the encoder and the driver of the
codec.

Paths below are relative to `src/Solution/BlackBoxSolution`; `filters` is
`src/libnxfilters`, `dvr` is `src/libnxdvr`, `app` is `apps/nxdvrsol`. Two parts
lie elsewhere: `v4l2` is `src/library/src/libnxv4l2`, `vpu` is
`src/modules/coda960`.

## 1. Inventory

    camera -> VIP -> motion -> display -> H.264 \
    microphone -> AAC or MP3                     > Interleaver -> TS muxer -> Buffering -> FileWriter -> card
    GPS, g-sensor -> user data                  /             \-> (MP4: Buffering -> MP4 muxer)
                                                                  ^             |
    application -> DvrManager (thread, state machine) ------------+             v
         ^                                                   DvrNotify (thread) <- every filter
         +------------------ callback ---------------------------+
         +-> DvrFileManager (thread): quota of the card

Every filter is one object with one thread. `Receive` is called on the thread
of the filter upstream, puts the sample into a queue and posts a semaphore; the
filter's `ThreadLoop` takes it out. A sample is reference counted and goes back
to its owner's pool when the last reference is gone.

| component | state it keeps | operations | what is hard | what makes it correct |
|---|---|---|---|---|
| Pre-event buffer, `filters/CNX_BufferingFilter` | input queue, unit being gathered, ring of one-second units, five request flags, mode, status | `Receive`, `ThreadLoop`/`PushStream`, `PopStream`, `PopStreamAll`, `StartFile`, `StopFile`, `ChangeFile`, `PopBufferdData`, `ChangeBufferingMode`, `Run`, `Stop` | three threads; requests are flags answered at key frames; samples are in three places at once; leftovers across restarts | no sample used after release, none leaked, the ring's indexes agree with its content, an event file is gapless and begins with the oldest sample buffered when its event was asked for |
| TS file writer, `filters/CNX_FileWriter` | write buffers, free and full queue, handle, name, mode | `Receive` of start, stop and data, `ThreadLoop`, final flush, `Run`, `Stop` | both threads use `m_OutFd` and no lock; busy wait; disk slower than encoder; failing calls | buffers conserved, bytes in order and in no file older than their own, none lost but where the code gives it up, each file announced once; that it is complete then does not hold |
| Recording control, `dvr/CNX_DvrManager` | mode, event and mode-change requests, `curStatus`, times | `Start`, `Stop`, `SetEvent`, `ChangeMode`, `ThreadLoop` with five writing calls | time read before the lock, requests between key frames, lock held across join | manager, filter and writer agree on what is recorded; one file at a time, of the right name; events are not lost; `Stop` returns |
| Notifier, `dvr/CNX_DvrNotify` | ring of 128 messages, semaphore | `EventNotify`, `Push`, `Pop`, `ThreadLoop`, `Run`, `Stop` | many producers, callback re-enters the manager, semaphore deleted under the thread | once and in order, nothing slept on, delivered, `Stop` returns |
| Storage, `app/NX_DvrFileManager`, `NX_DvrFileQueue` | sorted list of files, sum of sizes, quota | `Init` with `CreateFileList`, `Start`, `Stop`, `Deinit`, `Push`, the quota thread | power cuts, files that vanish, failed deletions, unchecked pop | the sum is right, oldest first, no file out of sight, quota restored |
| Base filter, `filters/CNX_BaseFilter.h` | reference counts, `CNX_SampleQueue`, `CNX_Queue`, `CNX_BufferQueue`, `CNX_Semaphore` | `Deliver`, `Lock`, `Unlock`, push, pop, post, pend | `if` for `while` around the wait, silent overflow | modelled inside the users |
| Interleaver, `filters/CNX_InterleaverFilter` | a queue per channel, started, enabled | `Receive` on every encoder's thread, `Run`, `Stop`, `EnableFilter` with `Flush` | channels that stay silent, queues that fill up, samples left over at `Stop` | output ordered by time unless a full queue forces it, each channel in order, nothing lost, no needless waiting |
| MP4 muxer, `filters/CNX_Mp4MuxerFilter` | two queues of buffers with a semaphore each, the tables of the tracks, name, mode, flags | `Receive` with `StartMuxing`, `MuxEncodedSample`, `StopMuxing`; `GetBuffer` and `FileWriter` as the library calls them; `ThreadLoop`, `Run`, `Stop` | the library blocks inside `Receive`; queues are reset under a running thread; durations are differences | each buffer in one place, a file holds its own data in order, tracks whole and in step, one announcement, no call blocks for ever |
| Camera, `filters/CNX_VIPFilter`, `v4l2/nx_vip.cpp` | pool of samples, memory lent to the driver, semaphore | `ThreadLoop`, `GetDeliverySample`, `ReleaseSample`, `Run`, `Stop` | a picture is released in three steps on any thread; the driver refuses below two blocks | a picture has one reference per holder and comes home, no memory is written while it is read, the driver never starves |
| Motion detector, display, encoder input, `filters/CNX_MotionDetectFilter`, `CNX_VRFilter`, `CNX_H264Encoder` | last picture, input queue, display handle and what it shows | `Receive`, `ThreadLoop`, the calls that switch detector and display, `Run`, `Stop` | the display's lock is held over delivery, wait and release; switching while pictures come | nobody waits for ever, what is shown is not reused |
| VPU driver, `vpu` | open files, slots of instances, power, one mutex, one event, the unit's interrupt | open, close, instance open and close, the commands, the interrupt handler | one unit for all processes, late and missing answers, signals, processes that die | each slot has one owner, power while in use, no answer taken for another's, nothing left behind, every call returns |
| TS muxer, overlay, capture, audio, user data | one queue each, or the state of a prebuilt library | `Receive`, `ThreadLoop` | as in the modelled filters | not modelled |
| Application, `app/NX_DvrMain.c` and managers | command queue, mode, tasks | main loop, card checker, input and event tasks, `ExitApp` | teardown while other threads run | planned |
| HLS, RTP, live555, other managers, graphical and demonstration programs, VPU library, device libraries, boot and flash tools | see `PROJECT.json` | | | not modelled, reasons there |

## 2. Modules

| module | models | actions |
|---|---|---|
| `WritingFlags` | the answer of `PushStream` to the pending requests at a key frame: which start and stop flags it delivers, in which order, and the filter's status after it | operators only, used by the next two |
| `BufferingFilter` | `CNX_BufferingFilter` with sample queue, semaphore and the reference the filter holds | `Receive`, `Enqueue`, `ReceivePost` (upstream thread); `Begin`, `LoopTest`, `Pend`, `Wake`, `GetSample`, `LockPushStream`, `DeliverFlags`, `PopStreamAll`, `DropOldest`, `MoveUnit`, `Gather`, `Drain`, `Clear` (own thread); `Request`, `Run`, `Stop`, `StopPost`, `Join` (manager) |
| `Interleaver` | `CNX_InterleaverFilter` and its queues | `Drop`, `NoBuffer`, `Push` (start of `Receive`, on the thread of an encoder), `Merge`, `Return` (its loop, with the lock held); `Run`, `Stop`, `EnableFilter` |
| `FileWriter` | `CNX_FileWriter` with its two buffer queues, semaphore and the file system calls | start and stop flags, `CopyFull`, `CopyRest`, `CopyDropped` (upstream thread); `Pop`, `TestFd`, `ThreadWrite`, `GiveBack`, `FlushOne`, `FlushLast`, `ExitClose` (writer thread); `Run`, `Stop`, `Join` |
| `DvrRecorder` | `CNX_DvrManager` composed with the control part of the buffering filter and of the writer | `Start`, `Stop`, `SetEvent`, `ChangeMode` (application); `ReadTime`, `TakeRequests`, `Case`, `Call` (manager thread); `PushStream`, `DeliverFlag` (buffering thread) |
| `RecordingSession` | what the recorder promises: files opened and closed one after the other, named and announced as what they are | abstract specification; `SessionSpec` of `DvrRecorder` is the refinement |
| `Mp4Muxer` | `CNX_Mp4MuxerFilter` and, as external code, what the multiplexing library asks of its callbacks | `StartFlag`, `ReceiveSample`, `StopFlag` (upstream thread); `GetPend`, `GetWake`, `GetTake`, `GivePush`, `GivePost`, `LibraryReturns`, `StopMuxing` (the library, inside a call); `LoopTest`, `ThreadPend`, `ThreadWake`, `Pop`, `ThreadWrite`, `ThreadPost` (writer thread); `Run`, `Stop`, `SetExit`, `WakeThread`, `Join` |
| `VideoPath` | one camera's `CNX_VIPFilter` with `nx_vip.cpp`, `CNX_MotionDetectFilter`, `CNX_VRFilter`, the input side of `CNX_H264Encoder`, and the calls of the manager that start, stop and switch them | `Begin`, `GetDeliverySample`, `Capture`, `DeliverToDetector`; `ReleaseMemory`, `ReleaseToQueue` (on whatever thread unlocks last); `GetSample`, `DetectMotion`, `VrReceive`, `DspDequeue`, `Encode`, `DrainInput`; `Start`, `EnableMotionDetect`, `SetDisplay`, `SetPreview`, `TurnOn`, `TurnOff`, `Stop`, `StopVip`, `StopVr`, `StopEnc`, `JoinVip`, `Join` |
| `VpuDriver` | `linux_vpu_drv.c`, `nx_vpu_api.c` and what `vpu_hw_interface.c` waits for; the unit itself is external | `Open`, `OpenInstance`, `Command`, `MoreData`, `CloseInstance`, `Close`, `CloseRest` (a process); `Woken`, `BreaksOff`, `Poll`, `Reset`, `Read`, `Polled` (inside the call that holds the mutex); `UnitDone`, `UnitPauses`, `Handler` (unit and interrupt) |
| `DvrNotify` | `CNX_DvrNotify`, with the manager's lock as its callback and `Stop` see it | `EventNotify`, `Push`, `NotifyPost` (any thread); `Pend`, `Pop`, `Callback` (notifier thread); `Run`, `StopFilters`, `DeleteSemaphore`, `ClearPointer`, `TellThread`, `Join` |
| `DvrFileManager` | `NX_DvrFileManager` and `NX_DvrFileQueue` | `InsertCard`, `Stop`, `Join` (main loop); `Push` (notifier thread); `Lock`, `Pop`, `RemoveFile`, `Unlock` (quota thread); `Record`, `Vanish`, `PowerOff` (outside) |
| `BufferingFilterProofs`, `InterleaverProofs`, `FileWriterProofs`, `Mp4MuxerProofs`, `DvrRecorderProofs`, `DvrNotifyProofs`, `VpuDriverProofs`, `VideoPathProofs` | theorems about the module of that name, section 4 | |
| `MC...` | instances for TLC | |

Variables carry the names of the C++ fields where a field is modelled; program
counters end in `pc` and name the statement to execute next. A step is what one
thread does between two points at which another thread can see a difference:
a critical section is one step, a test and the act that relies on it are two
when no lock covers both (`TestFd` and `ThreadWrite`, `StopWaited` and
`StopClose`, `DeleteSemaphore` and `ClearPointer`).

Abstractions. A sample is its number and one tick of time; the 700 ms between
two units are `Gap` ticks. Bytes are numbered in the order they arrive. A file
is its kind, its name's kind and its content. A file name in the storage is a
number that grows with time. Log output, statistics and name formatting are left
out. In `DvrRecorder` times are kept as differences up to the longest duration.
In `VideoPath` blocks of memory are counted, since nothing tells one from another but who
has it, and the queue of free samples is kept sorted by number for the same reason. A command of the
codec is its number and one of four kinds: the two that wait for an interrupt, those that
are polled, and the end of a sequence.

What callers do. The application alternates `NX_DvrStart` and `NX_DvrStop`,
as `app/NX_DvrMain.c` does, and the manager stops filters from the source to the
file, so that nothing is received by a filter that is being stopped
(`CNX_DvrManager.cpp:949-983`). `DvrFileManagerInit` is only called with
the recorder stopped. The writer and the MP4 muxer receive start flags in the order the
buffering filter sends them (`Kinds`), each after the stop flag of the file before, and data
only after a flag.

The assumption constants `PacedModes` (`DvrRecorder`) and `Paced` (`DvrNotify`)
separate what holds always from what holds when calls do not come in the window
in which the code has a known gap. `PacedEvents` is the set of values of `paced`, which says of one
behaviour whether events, too, come one at a time: `MCRecorderEvents` has behaviours of both kinds,
and the names of files are promised in the paced ones only; `MCRecorderName` shows why. `PacedModes`
is TRUE in every run: a change of mode or a stop comes when all that was asked before is answered.
Without it a change to motion mode before the first key frame leaves a normal file open in motion
mode, because the filter answers the pending start after the stop.

## 3. Runs

`tlc -config <cfg> <module>`; `PROJECT.json` names the module of each. All runs
set `CHECK_DEADLOCK FALSE`: the bounds on samples, messages and runs end every
behaviour, and a stopped recorder may stay stopped.

| cfg | question | bounds and why they are enough | result |
|---|---|---|---|
| `MCBufferingFilter` | ring, references, event file over two runs; nothing leaked; a received sample is taken, `Stop` returns | 4 samples, 2 requests at any moment, a ring of 2 slots that fills, drops and wraps, a queue of 4; the thread is stopped in every state and run over what is left. 1.0 M states | holds |
| `MCFileWriter` | buffers, order, one announcement, bytes accounted for and flushed at `Stop`; the busy wait ends, calls return | 3 buffers of three bytes, two samples of 5 bytes: each crosses a buffer end, two buffers are queued in turn while the thread writes the third, one is flushed in part, and a sample finds no buffer; a normal and an event file, 2 runs, one failure of `open` or `write`, short writes. 1.1 M states | holds |
| `MCFileWriterDone` | a file announced as done is complete | one file, no failure | violated |
| `MCRecorderEvents` | the recorder implements `RecordingSession`; agreement of manager, filter and writer, events recorded | unbounded time; durations 5 and 4 ticks, key frame every 2; events at any moment or one at a time | holds |
| `MCRecorderName` | a file announced as normal has a normal name | events not paced | violated |
| `MCRecorderStop` | `NX_DvrStop` returns | fair | violated |
| `MCInterleaver` | order of the output, order of each channel, nothing lost, what is waited for | three channels, six samples of two times, queues of 3 that are full at 2: two channels can be forced out while the third is silent and then speaks | holds |
| `MCMp4Muxer` | buffers, order of the file, tracks without gap and in step, one announcement, calls return | 2 files over one stream, so that what a file makes of it depends on the sample it starts with: sound, which leaves the older picture out and lets the next one start late; that older picture, which has two successors; a picture that cannot start. Up to one chunk per call of the library, 2 buffers so that it waits, one failure of `open` or `write`. 1.2 M states, some three minutes | holds |
| `MCVideoPath` | references, memory, the driver's supply, nobody waits for ever | 4 pictures, the least with which every holder can have one; every second picture sampled; two calls that start, switch or restart at any moment, with and without a motion detector. 444,287 states, some three minutes | holds |
| `MCVpuDriver` | slots, power, answers, what a call leaves behind; calls return | one encoder and two decoders for two slots, so that the limits refuse; 3 opens, 3 commands, any wait that runs out or is broken off, one answer lost on the way to the user; a decoder out of data leaves its command in the unit while others issue theirs. 584,878 states, some two minutes | holds |
| `MCDvrNotify` | once, in order, delivered unless stopped; stop and restart | ring of 2, four messages so that it wraps, two producers, two runs | holds |
| `MCDvrFileManager` | sums, order, sight, quota restored | four files against a quota of two, sizes 0 to 2, two sessions, power cut at any moment, two files that vanish or stay | holds |

Types are checked inside one property of each run: `NothingLeaked`, `BuffersConserved` (of both
writers), `ManagerAgrees`, `Conserved`, `Counted`, `LeftClean`, `RingExact` and `Accounted` begin with
their module's `TypeOK`.

The three violations are disagreements between the code and what its comments,
messages or the API guide in `doc/` say; `PROJECT.json` quotes the line of each:

1. A file is announced while the writer thread still holds its last buffer: the
   stop flag waits for an empty queue, not for an idle thread.
2. An event between a file change and the next key frame gives the normal file
   an event name, because the name callback changes at once and the file later.
3. `Stop` joins the manager's thread with the lock that thread takes.

Modelling showed more that no run is spent on; where a property is concerned it
is stated with a condition for that reason:

* The ring uses `m_EventBufferedTime + 1` slots of an array of
  `MAX_BUFFERD_TIME`, and `Init` accepts that time itself. The model has as many
  slots as the ring needs.
* The motion-mode gap of `PacedModes`, above.
* The notifier's ring is bounded only by an assertion (`CNX_DvrNotify.cpp:84`).
  `Paced` is TRUE in `MCDvrNotify`; with FALSE a push into a full ring happens as
  soon as the callback is slow.
* Messages in the ring at `Stop` are not delivered, and because the new semaphore
  starts at 0 over the old ring, later ones come late. Hence
  `DeliveredUnlessStopped` speaks of the first run.
* `Stop` joins the notifier with `m_hLock` while the motion callback waits for it
  in `NX_DvrEvent`: the cycle of violation 3 once more.
* An MP4 file, too, can be announced without its tail: the thread does not look
  again after it has seen `m_bThreadExit` (`CNX_Mp4MuxerFilter.cpp:297`). `OwnFileInOrder`
  says that only a tail can be missing.
* A picture before the first key frame is returned without `Unlock`
  (`CNX_Mp4MuxerFilter.cpp:448`), and `m_bEnableMux` stays set over `Stop`, so that a
  sample before the first flag of the next run would meet a closed library.
* `NX_VpuInit` reports success when the unit does not answer in time; a decoder
  that is closed after an incomplete `SEQ_INIT` leaves the unit working; suspend
  does not ask whether the unit is busy.
* The motion detector's `Stop` keeps the picture it compares with. The next run
  queues all memory again, that picture's too, and gets the block a second time
  when the picture is given up. With a detector `VideoPath` therefore makes one run.
* The encoder's `ReleaseSample` hands its output sample out again before it frees
  the buffer (`CNX_H264Encoder.cpp:199`).

Every property of a passing run has a mutant in `PROJECT.json`: the name of an
operator, defined next to the one it replaces, that is a plausible slip in that
line of code. With it the run fails on that property.

### Fairness

Safety runs assume none. Liveness runs assume weak fairness of each thread that
is inside a call or a loop: POSIX threads of the default policy are scheduled.
Nobody has to call the application's functions, to send a sample, to notify or to
stop. Beyond that:

* `DvrRecorder` assumes that samples keep arriving (the camera does not stop), and
  strong fairness of the manager's `TakeRequests`: it needs `m_hLock`, which the
  application holds for moments only.
* `DvrFileManager` assumes no fairness for `DvrFileManagerPush`: its lock is released and
  retaken by a thread that sleeps with it.
* `Mp4Muxer` counts the library's steps and the call of `Stop` as one thread, the writer
  as the other.
* `VpuDriver` assumes weak fairness of the driver's own steps only. The unit and
  its interrupt need never answer: that every call returns is due to the time limits.
* `VideoPath` assumes that each filter's thread runs, which for the camera's includes
  that the camera fills the memory it is given, and strong fairness of
  the manager's call: it takes the display's lock, which other threads release
  again and again.

## 4. Proofs

Every theorem is about the specification of its module, for all values of the constants that satisfy
the named assumptions of that module; an assumption beyond those stands in the theorem. The
invariants the runs check are seldom inductive: each section names what had to be added and why.

### Buffering filter

`BufferingFilterProofs` proves five theorems for every number of samples,
requests and runs, every buffered time, gap and queue depth, with and
without spurious wake-ups of `pthread_cond_wait` (which the liveness
properties do not survive: `Pend` tests with `if`, so the run has `Spurious` FALSE):

* `Typing`: `Spec => []TypeOK`.
* `HeldWhileUsed`: `Spec => []NoUseAfterRelease`. A sample in a queue, in the
  ring or in a hand is locked.
* `RingKept`: `Spec => []RingConsistent`. Head, tail and count describe the
  slots that hold something.
* `NoneLeaked`: `RoomForRuns /\ Spec => []NothingLeaked`. Whatever is locked is in the filter.
* `EventWhole`: `RoomForUnit /\ Spec => []EventFileContiguous`. In the first run an event file begins
  with the oldest sample that was buffered when its event was asked for, and has neither a hole nor
  a repetition.

They rest on the named assumptions `BoundAssumption`, `ConfigAssumption` and
`SpuriousAssumption` of the module; the last two also on the depth of `m_StreamQueue`. A unit ends at
the first key frame after its second is over, so it has at most `Gap + MaxGop - 1` samples.
`RoomForUnit` says that one such unit fits; `RoomForRuns` that one for every run fits, because `Stop`
does not empty the queue and what a run could not finish is there in the next. The code has 384 places
(`CNX_BaseFilter.h:440`) for about a second of pictures and sound, and does not check whether
a push succeeded. `MCBufferingFilter` satisfies both.

None of the five is inductive. `TypeOK` is strengthened to `Typed`: a thread
about to queue a sample has one. `NoUseAfterRelease` says that what is listed is
locked, but `Unlock` of one sample would break it for a second place that lists
it too; the invariant `Placed` therefore says that each sample is in exactly one
place (one slot of the ring, the unit being gathered, the input queue or a hand), and at most
once there, that it is locked, and that only received samples are
locked, so that a new one is in no place yet. `RingConsistent` needs to know
that a unit is moved in only when there is room: `Ring` adds that head is `count`
slots after tail, that slots at distance `count` or more are empty, and that
count is below the buffered time when `MoveUnit` is next; that in turn rests on `Idle`,
which says that the thread is not running while the filter is stopped, since `Run` starts it over
whatever the last run left. Each invariant is proved for the initial states and for
every action by name; PTL combines the parts.

`NothingLeaked` could fail only in a full queue, so the proof bounds what is in it. `Line` puts
the samples in a row (the input queue holds what follows the one in hand, and key frames are not further
apart than the encoder promises), `Spans` says that a unit has not ended before its next sample, and
`Fits` bounds the length of the unit by the room of the runs so far. With that, `Kept`
(all that is locked is in a place) survives every push. For `EventFileContiguous`, `Ordered` says that
units in the ring, the unit being gathered and the sample in hand are one row without a hole,
`Open` in which states an event file is open and which flag opens it, and `Sunk` that what the
event file got last comes just before what `PopStreamAll` hands over next. Where it begins is
`Begun`: the history variable `asked` keeps the oldest sample of the ring at the request, and between
the request and the key frame that answers it nothing is moved into the ring or dropped from it, so it
is what `PopStreamAll` finds first. Before anything was moved into the ring it is sample 1.

### Interleaver

`InterleaverProofs` proves, for every number of channels, samples and times and every queue
depth from 2 on:

* `InOrder`: `Spec => []OrderedUnlessForced`. A delivered sample that is followed by an
  earlier one was forced out of a full queue.
* `SilentOnly`: `Spec => []WaitsForSilentOnly`. Between two calls some channel is empty.
* `Typing`: `Spec => []TypeOK`, which includes that no queue reaches the depth at which
  `PushSample` refuses.
* `NoneLost`: `Spec => []Conserved`. A sample received is queued, delivered or counted as unused, in one
  place, and no channel is reordered.

They rest on `BoundAssumption` and `ConfigAssumption` of the module. `OrderedUnlessForced`
speaks of the past only, so it is not inductive. `Ordered` adds what relates
past and future: every queue is sorted and has nothing newer than the last sample its channel
received (`QueueSorted`), and what was delivered in turn is not newer than anything
queued or any channel's clock (`DeliveredFirst`). The step that matters is `MergeOrdered`: the sample
delivered is the least of all heads and every queue has a head, so it is not newer than any
clock; this is where the code's wait for a silent channel is needed. A forced delivery keeps
`DeliveredFirst` because it is exempt from it, and both parts of `Ordered` survive `Stop`, `Run` and
a flush. That time stamps of one channel never go back is part of the model (`Arrives`): encoders stamp
with a clock that does not go back. `NoneLost` rests on `Balanced`, the same books written out for
each place and each pair of channels: what is queued in a channel is its own, came later than what of it was
delivered, and no two channels hold the same sample.

### File writer

`FileWriterProofs` proves, for any number of bytes, flags, runs and failures and any number and size of
write buffers, from the assumptions of the module alone:

* `Typing`: `Spec => []TypeOK`.
* `Conservation`: `Spec => []BuffersConserved`. No buffer is lost and none has two owners.
* `AnnouncedAsDone`: `Spec => []AnnouncedOnce`. Two threads close files, and each file that was opened
  is announced as done once, as what it was started as.
* `NoneLostOrTwice`: `Spec => []BytesAccounted`. Every byte is on its way, in one file that is not older
  than its own, or was given up: for want of a free buffer, with no file open, or at a write that
  failed or stopped short.
* `FiledInOrder`: `Spec => []OpenFileInOrder`. Until a stop flag overtakes the thread, the open file
  and what is on its way to it are one increasing row.
* `AllFlushed`: `Spec => []FlushedAtStop`. What was received for a file that `Stop` closes is in it,
  but for what was given up.

Giving up is not always noticed: a short write logs nothing (`CNX_FileWriter.cpp:349-355`), nor does the
flush at exit without a handle (lines 371-408). Both are in `lost`, like what is dropped with a message.
A file's last buffer may get into the file after it, or into none, when a stop flag finds the queue empty
and the thread has just popped it (violation 1): the two properties about content therefore
say that no byte gets into a file older than its own, and that what is still to come for an open
file follows what is in it.

`Typed` adds what the program counters say of the buffers in hand; `Shared` states conservation as two
injective queues apart from each other and from the hands. `Handle` says that the open file is the newest
one and the one the buffering filter has started, which needs `Threads` (who runs while the filter
stops), and `Told` follows the announcements. About the bytes, `Row` orders the stages a byte goes through,
`Accounts` says where it is, `OpenFirst` that the open file comes before all of them, and `Own` that
no file has bytes that were received for a newer one: a hand-over in the wrong order, or a write
through an old handle, would break one of them. `DoneFileComplete` is not among them: `MCFileWriterDone` refutes it.

### MP4 muxer

`Mp4MuxerProofs` proves, for any tracks, streams, flags, runs and failures and any number of write buffers,
from the assumptions of the module alone (`StreamAssumption`: the times of a track go up):

* `Typing`: `Spec => []TypeOK`.
* `Conservation`: `Spec => []BuffersConserved`. The two queues, the library and the thread share all
  write buffers, and `GetBuffer` finds one when its semaphore lets it.
* `FiledInOrder`: `Spec => []OwnFileInOrder`. A file holds what was handed over for it, in order and but
  for failed writes without a hole.
* `AnnouncedAsDone`: `Spec => []AnnouncedOnce`. One announcement, of the file's own kind and name.
* `NoGap`: `Spec => []TrackWithoutGap`; `TracksInSync`: `Spec => []InSync`. What is put of a track is
  what it received, from its first key frame or the common start on, and its durations end where the next
  sample begins.

The queues are reset under a thread that may still look at them, so everything rests on when a session
is over: `Session` ties the thread, the library's handle and the flags to the call that is being made.
`Sems` says that a semaphore counts the queue but for the one who is between the two, and `Round` that all
buffers go round; that no buffer is twice among them follows from counting, `NumBuffer` places that hold
`NumBuffer` different ones. What the library hands over is numbered: `Numbered` says that the queue and the
buffer in hand hold the last numbers of the current file, `Piped` that the file got all before them.
`Naming` says that a name kept for the next file is that of no opened one, `Titled` that the thread's
variables speak of the current file, `Announced` what the notes say of those before. For the
tracks, `Tracked` says of a track that nothing of it is put and all it received was too early, or
that one sample is held, the one received last, with a sum of durations that ends where it
begins; `MuxEncodedSample` computes the next duration from that sum alone.

### Recording control

`DvrRecorderProofs` proves, for any durations, units and groups of pictures:

* `Typing`: `Spec => []TypeOK`, whatever the application does.
* `Agreement`: `PacedModes /\ SlowTimers /\ Spec => []ManagerAgrees`. The file of the writer is the one
  the manager believes to be recorded, whenever no request is on its way.
* `Implements`: `PacedModes /\ SlowTimers /\ Spec => SessionSpec`. The manager, the buffering filter and the
  writer together implement `RecordingSession`: initial states map to initial states and every step
  to one of its steps or to a stutter.

`PacedModes` is explained in section 2; `MCRecorderEvents` has it. `SlowTimers` says that the durations of a
file exceed what the answer to a request takes: the rest of a unit, a group of pictures and the lag of
the manager's clock. Durations are tens of seconds, an answer takes one or two; TLC evaluates
`SlowTimers` on every run of the module. Events are restricted in no way; only the name of a file is promised
for paced ones.

The invariant says what the manager has asked for and not yet got. `Predicted` is the file
that will be open when the flags on their way and the requests still pending are answered; `AllAsked`
says that it is the one of `curStatus` once the manager has made its calls, `StillAsking` what is
missing after each of them. `WriterFits` says that the flags on their way open and close in turn,
`RequestsFit` that the requests suit the state in which the next key frame will find the filter, `InTime`
that no timer expires while an answer is outstanding, `Named` which callback the next file
will find.

### Notifier

`DvrNotifyProofs` proves, for every finite set of notifying threads, any depth of the ring and any
number of messages and runs, under `Paced`, that is as long as nobody notifies into a full ring:

* `RingHolds`: `Paced /\ Spec => []RingExact`. The ring holds the newest messages, each once
  and in the order they were pushed.
* `CalledInOrder`: `Paced /\ Spec => OnceInOrder`. The application is called with each message at
  most once and none overtakes another.

They rest on `NotifyAssumption` and `ProducerAssumption`. The inductive invariant is
`Inv == Paced /\ TypeOK /\ Ring /\ Room /\ InTurn`. `Ring` states the ring without the
remainder (`At`) and ties the tail to head and count, without which a push could land on a message.
`Room` is what `Paced` gives: a thread tests for room before it pushes, and so do others meanwhile;
what is kept is that the count together with all messages on their way fits. `InTurn` relates the
ring to what was called: the last message called back is the one before the oldest in the ring,
or the popped message lies between. This survives `Stop` and `Run` because neither
touches the ring and `Stop` joins a thread that holds no message.

### VPU driver

`VpuDriverProofs` proves, for any sets of encoding and decoding processes, any limits and
any number of faults:

* `Typed`: `Spec => []TypeOK`. No count of files or instances goes below zero or past
  its limit.
* `SlotsOwned`: `Spec => []SlotsAgree`. An open instance has one slot and a slot in use one owner,
  unless its answer was lost on the way to the user.
* `Powered`: `Spec => []PoweredWhileUsed`. While a file holds an instance the unit has power and
  its firmware.
* `AnswersOwned`: `Spec => []OwnAnswer`. Unless `adrift`, a command that succeeds was answered by its own
  interrupt.
* `NothingLeft`: `Spec => []LeftClean`. Unless `adrift`, a call that returns leaves no event, no interrupt, no
  reason and no work behind but what a slot remembers and what was dropped.

`adrift` and `dropped` are history variables for these two. A wait that is given up, by the time or by a
signal, is no exception as such: the driver looks at the register once more, clears event and reason and
resets the unit, and both properties hold after it. `adrift` is set in two cases in which
that is not enough: the interrupt came between the end of the wait and that last look and its handler is
still to run, so that the next command finds an event that is not its own; or the call returns from a
unit that it did not bring to rest, by a reset that failed or by a polled command that was missed
in the middle of another's, and that may answer later. It is cleared by a `SEQ_END` that leaves nothing
behind. A decoder that is out of data, an encoder without space for its stream and commands issued to
a unit in the middle of another's are no exceptions either. `dropped` has the commands that are left in
the unit and known to no slot: an encoder's after `BUF_FULL`, and a decoder's whose file was closed.

They rest on `FileAssumption` (a file is of one kind), `LimitAssumption` (the limits are positive and
there are as many slots as the two kinds may have instances together) and `BoundAssumption`. The inductive
invariant is `Inv == TypeOK /\ Phase /\ SlotsAgree /\ PoweredWhileUsed`: `Phase` says that the call
inside the mutex is that of an open file, where a close may be, and that a loaded unit has power. The unit is
switched off when the count of files says that the last one closes, so `PoweredWhileUsed` needs the
counts of `SlotsAgree`, and those need the types. The counts are cardinalities of sets of slots and files;
the steps that open and close use the finite set theorems for one element more or less.

Whose answer it is needs two more invariants. A command is known by its number (`Numbered`: what the unit works on,
what the call waits for and what a slot remembers agree on the slot where they agree on the number), and
`Tied` says, for every place of the call inside the mutex, whether the unit works on its command, has answered
it, or is at rest with nothing pending. A command issued to a unit in the middle of another's either
takes its place, so that `Working` holds, or is missed, and then the unit rests and the call's wait runs
out. `Numbered` is what tells the two apart when the decoder comes back with more data.

### Video path

`VideoPathProofs` proves, for any number of samples, any sampling of the motion detector and any number
of calls, with and without a motion detector, from the assumptions of the module alone:

* `Typing`: `Spec => []TypeOK`.
* `References`: `Spec => []Counted`. A sample has one reference for each place that holds it, is at home or
  on its way there once when it has none, and all are at home after `Stop` but the one that the motion
  detector keeps.
* `Memory`: `Spec => []MemoryOnce`. Until the camera is stopped no block of memory is lost or queued twice.
* `Supply`: `Spec => []EnoughQueued`. The camera's thread never asks a driver that has fewer than two blocks.

The inductive invariant has three layers, each proved on top of the one before. `Base` speaks of
threads only. `There` says of each thread where it may be and what it has in its hand there, since most
labels are reached from several places and the last `Unlock` makes any thread bring a sample home before
it goes on; `Lists` and `StopOrder` say that a Stop goes from the camera to the encoder, so that a filter
that is told to stop has no picture coming any more; `Fresh` that a run begins with empty queues. Without
that order a picture could come to a filter whose thread has emptied its queue and gone.

`Books` has the references. `Counted` counts the threads and filters that hold a sample, and cardinalities of
sets of threads are awkward to follow; `Held` writes the same number out, place by place
(`HeldByHolders`), and `Referenced` says that every step changes the count and the places alike.
`AtHome` does the same for samples without reference: on the queue, or in the hand of one of the four threads
that may be bringing them home. A queue is followed by how often a sample is in it (`Times`): the lemmas
`TimesPushed`, `TimesPopped` and `TimesSorted` say what the queue operations do to that number. That nobody
releases a sample twice is then arithmetic: the count of a sample that a thread holds is not zero.
What `Counted` says of a stopped camera is `Settled`, by counting a queue that has each sample once.

`Store` has the memory. `Pictures` says that a picture is held or about to be given back, that a sample
that is held has a picture unless it is just being captured, and that this one is held by nobody else.
`Semaphore` says that the semaphore counts one less than there are samples at home, since
`Begin` starts it so and `ReleaseToQueue` pushes and posts. Two samples have no picture when
the camera's thread captures, then: the one in its hand and the one that the semaphore keeps at
home. By `MemoryOnce` their two blocks are with the driver or wait for it, which is `Supply`.

### Only model-checked

The invariants of `DvrFileManager`. The listed sizes of `DvrFileManager` add up by a fold
over the list and the list is made by another, over the directory: what folds compute for every list needs
induction over data, which the installed provers cannot do. `DoneFileComplete` and the other
two violated properties are false. Liveness and fairness (`CallReturns`, `EventRecorded`,
`QuotaRestored`, `Progress` and the like) are out of the prover's reach and stay with TLC.

## 5. Not modelled, and plan

Not modelled, with the reason for each, are the components of status
`not_modelled` in `PROJECT.json`. In the modelled parts: statistics, register dumps,
configuration and graph building, which happen before any thread runs. In particular:

* `Mp4Muxer`: the calls that configure it before `Run`, the decoder information and the
  notifications of failures. The library is prebuilt.
* `VideoPath`: `CaptureResize` and `Pause` (called by the MP4 manager only), `ChangeConfig`
  (called by nobody), pictures saved as JPEG, crop and position of the display, the
  comparison of pictures, the encoder's output samples, and a second run with a motion detector.
* `VpuDriver`: JPEG instances (`nx_jpu_api.c`), `DEC_CLR_DSP_FLAG`, suspend and resume, the
  contents of registers.

Done: `WritingFlags`, `BufferingFilter`, `Interleaver`, `FileWriter`, `Mp4Muxer`, `VideoPath`,
`VpuDriver`, `DvrRecorder` with `RecordingSession`, `DvrNotify`, `DvrFileManager`;
`BufferingFilterProofs`, `InterleaverProofs`, `FileWriterProofs`, `Mp4MuxerProofs`, `DvrRecorderProofs` with
the refinement, `DvrNotifyProofs`, `VpuDriverProofs`, `VideoPathProofs`.

Next: `DvrApplication` (`app/NX_DvrMain.c`, `NX_DvrCmdQueue.c`): commands, card checker,
`ExitApp`; composed with `DvrRecorder` through its API.
