----------------------------- MODULE FileWriter -----------------------------
(***************************************************************************)
(* CNX_FileWriter: the last filter of the TS recorder.  Receive, on the    *)
(* buffering filter's thread, opens and closes the file when a flag sample *)
(* asks for it and copies stream samples into a write buffer; full buffers *)
(* are handed to the writer thread, which writes them and gives them back. *)
(* Both threads use m_OutFd and neither takes a lock.                      *)
(*                                                                         *)
(* Bytes are numbered in the order Receive is given them.  A file is a     *)
(* record of the start flag that named it: files[n] belongs to the n-th.   *)
(***************************************************************************)
EXTENDS Integers, Sequences, Functions

CONSTANTS
    MaxByte,        \* bound: bytes received
    Kinds,          \* the kinds of the start flags received, in their order
    MaxRun,         \* bound: times Run starts the thread
    MaxFail,        \* bound: failures of open and write
    Spurious,       \* TRUE: pthread_cond_wait may return without a signal
    NumUnit,        \* NUM_WRITE_UNIT: write buffers
    SizeUnit,       \* SIZE_WRITE_UNIT: bytes in one of them
    Sizes           \* bound: bytes a sample may have

Kind == {"NORMAL", "EVENT"}
ASSUME KindAssumption == Kinds \in Seq(Kind)
ASSUME BoundAssumption ==
    MaxByte \in Nat /\ MaxRun \in Nat /\ MaxFail \in Nat
ASSUME SizeAssumption ==
    NumUnit \in Nat \ {0} /\ SizeUnit \in Nat \ {0}
ASSUME SampleAssumption == Sizes \subseteq Nat \ {0}
ASSUME SpuriousAssumption == Spurious \in BOOLEAN

Byte == 1..MaxByte
Buffer == 1..NumUnit
Chunk == [buf : Buffer \cup {0}, data : Seq(Byte)]
NoChunk == [buf |-> 0, data |-> <<>>]
Code == {"OPEN_FAIL", "WRITE_FAIL", "NORMAL_DONE", "EVENT_DONE"}

VARIABLES
    upc,            \* Receive
    tpc,            \* ThreadLoop
    spc,            \* Run and Stop: "stopped", "running", "post", "join"
    m_bThreadExit,
    sem,            \* m_pSemWriter: m_Value
    last,           \* the newest byte received
    todo,           \* pSrcBuf, dataSize: bytes of the sample still to copy
    flag,           \* kind of the stop flag Receive is answering
    cur,            \* m_CurWriteBuffer and its first m_CurWritePos bytes
    streamQ,        \* m_StreamQueue: free buffers
    writerQ,        \* m_WriterQueue: full buffers
    pBuffer,        \* the buffer the thread popped; no data once written
    m_OutFd,        \* 0 when negative, else the number of the open file
    m_WritingMode,
    files,          \* every file named so far
    want,           \* the file the buffering filter has started, "none"
    lost,           \* bytes that met no free buffer, no handle or an error
    notes,          \* notifications sent
    runs, fails     \* counters for MaxRun and MaxFail

vars == <<upc, tpc, spc, m_bThreadExit, sem, last, todo, flag, cur, streamQ, writerQ,
          pBuffer, m_OutFd, m_WritingMode, files, want, lost, notes, runs, fails>>

Init ==
    /\ upc = "idle" /\ tpc = "none" /\ spc = "stopped" /\ m_bThreadExit = TRUE
    /\ sem = 0
    /\ last = 0 /\ todo = <<>> /\ flag = "NORMAL"
    \* AllocateBuffer
    /\ cur = [buf |-> 1, data |-> <<>>]
    /\ streamQ = [i \in 1..(NumUnit - 1) |-> i + 1]
    /\ writerQ = <<>> /\ pBuffer = NoChunk
    /\ m_OutFd = 0 /\ m_WritingMode = "NORMAL"
    /\ files = <<>> /\ want = "none"
    /\ lost = {} /\ notes = <<>>
    /\ runs = 0 /\ fails = 0

(***************************************************************************)
(* System calls, semaphore and notifier.                                   *)
(***************************************************************************)
Note(code) == Append(notes, [code |-> code, name |-> Len(files)])

DoneCode(kind) == IF kind = "NORMAL" THEN "NORMAL_DONE" ELSE "EVENT_DONE"

(* write( m_OutFd, ... ): it fails on a closed handle and may fail on a full *)
(* or removed card; a failure is notified and the bytes are gone.  A write    *)
(* that stops short is taken for a success.                                   *)
WriteOk(data) ==
    /\ m_OutFd # 0
    /\ files' = [files EXCEPT ![m_OutFd].data = @ \o data]
    /\ UNCHANGED <<lost, notes, fails>>
WriteShort(data) ==
    /\ m_OutFd # 0 /\ fails < MaxFail
    /\ fails' = fails + 1
    /\ \E n \in 1..(Len(data) - 1) :
        /\ files' = [files EXCEPT ![m_OutFd].data = @ \o SubSeq(data, 1, n)]
        /\ lost' = lost \cup Range(SubSeq(data, n + 1, Len(data)))
    /\ UNCHANGED notes
WriteFails(data) ==
    /\ m_OutFd = 0 \/ fails < MaxFail
    /\ fails' = IF m_OutFd = 0 THEN fails ELSE fails + 1
    /\ lost' = lost \cup Range(data)
    /\ notes' = Note("WRITE_FAIL")
    /\ UNCHANGED files
Write(data) == WriteOk(data) \/ WriteShort(data) \/ WriteFails(data)

(* CNX_Semaphore::Post *)
PostWithoutSignal == sem' = sem + 1 /\ UNCHANGED tpc
Post ==
    /\ sem' = sem + 1
    /\ tpc' = IF tpc = "wait" THEN "woken" ELSE tpc

(***************************************************************************)
(* Receive.                                                                *)
(***************************************************************************)
(* Upstream starts a file when none is started; it runs inside Run..Stop.  *)
StartFlag(kind) ==
    /\ upc = "idle" /\ spc = "running" /\ want = "none"
    /\ Len(files) < Len(Kinds) /\ kind = Kinds[Len(files) + 1]
    /\ want' = kind
    /\ m_WritingMode' = kind
    /\ \E ok \in BOOLEAN :
        /\ ok \/ fails < MaxFail
        /\ files' = Append(files, [kind |-> kind, opened |-> ok, bytes |-> {}, data |-> <<>>])
        /\ m_OutFd' = IF ok THEN Len(files) + 1 ELSE 0
        /\ notes' = IF ok THEN notes
                    ELSE Append(notes, [code |-> "OPEN_FAIL", name |-> Len(files) + 1])
        /\ fails' = IF ok THEN fails ELSE fails + 1
    /\ UNCHANGED <<upc, tpc, spc, m_bThreadExit, sem, last, todo, flag, cur, streamQ,
                   writerQ, pBuffer, lost, runs>>

(* A stream sample of some size, with or without an open file. *)
StreamSample(size) ==
    /\ upc = "idle" /\ spc = "running" /\ last + size <= MaxByte
    /\ todo' = [i \in 1..size |-> last + i]
    /\ last' = last + size
    /\ files' = IF m_OutFd = 0 THEN files
                ELSE [files EXCEPT ![m_OutFd].bytes = @ \cup (last + 1)..(last + size)]
    /\ upc' = "copy"
    /\ UNCHANGED <<tpc, spc, m_bThreadExit, sem, flag, cur, streamQ, writerQ, pBuffer,
                   m_OutFd, m_WritingMode, want, lost, notes, runs, fails>>

Fits == Len(cur.data) + Len(todo) <= SizeUnit
Writable == SizeUnit - Len(cur.data)

(* pSrcBuf += writable *)
RestSkipsByte == SubSeq(todo, Writable + 2, Len(todo))
Rest == SubSeq(todo, Writable + 1, Len(todo))

(* m_WriterQueue.Push *)
QueuedInFront(chunk) == <<chunk>> \o writerQ
Queued(chunk) == Append(writerQ, chunk)

(* The rest of the sample fits in the current buffer. *)
CopyRest ==
    /\ upc = "copy" /\ Fits
    /\ cur' = [cur EXCEPT !.data = @ \o todo]
    /\ todo' = <<>>
    /\ upc' = "idle"
    /\ UNCHANGED <<tpc, spc, m_bThreadExit, sem, last, flag, streamQ, writerQ, pBuffer,
                   m_OutFd, m_WritingMode, files, want, lost, notes, runs, fails>>

(* The buffer is filled and handed over, then the semaphore is posted. *)
CopyFull ==
    /\ upc = "copy" /\ ~Fits /\ streamQ # <<>>
    /\ writerQ' = Queued([cur EXCEPT !.data = @ \o SubSeq(todo, 1, Writable)])
    /\ todo' = Rest
    /\ cur' = NoChunk
    /\ upc' = "post"
    /\ UNCHANGED <<tpc, spc, m_bThreadExit, sem, last, flag, streamQ, pBuffer, m_OutFd,
                   m_WritingMode, files, want, lost, notes, runs, fails>>

CopyPost ==
    /\ upc = "post"
    /\ Post
    /\ cur' = [buf |-> Head(streamQ), data |-> <<>>]
    /\ streamQ' = Tail(streamQ)
    /\ upc' = "copy"
    /\ UNCHANGED <<spc, m_bThreadExit, last, todo, flag, writerQ, pBuffer, m_OutFd,
                   m_WritingMode, files, want, lost, notes, runs, fails>>

(* No free buffer: the rest of the sample is dropped, m_CurWritePos stays. *)
CopyDropped ==
    /\ upc = "copy" /\ ~Fits /\ streamQ = <<>>
    /\ lost' = lost \cup Range(todo)
    /\ todo' = <<>>
    /\ upc' = "idle"
    /\ UNCHANGED <<tpc, spc, m_bThreadExit, sem, last, flag, cur, streamQ, writerQ,
                   pBuffer, m_OutFd, m_WritingMode, files, want, notes, runs, fails>>

(* A stop flag is of the kind that was started; one may come with no file. *)
StopFlag(kind) ==
    /\ upc = "idle" /\ spc = "running" /\ want \in {kind, "none"}
    /\ flag' = kind
    /\ want' = "none"
    /\ upc' = "stopWait"
    /\ UNCHANGED <<tpc, spc, m_bThreadExit, sem, last, todo, cur, streamQ, writerQ,
                   pBuffer, m_OutFd, m_WritingMode, files, lost, notes, runs, fails>>

(* while( m_WriterQueue.IsReady() ); *)
StopWaited ==
    /\ upc = "stopWait" /\ writerQ = <<>>
    /\ upc' = "stopWrite"
    /\ UNCHANGED <<tpc, spc, m_bThreadExit, sem, last, todo, flag, cur, streamQ, writerQ,
                   pBuffer, m_OutFd, m_WritingMode, files, want, lost, notes, runs, fails>>

(* What is left in the current buffer is written from this thread. *)
StopWrite ==
    /\ upc = "stopWrite"
    /\ IF cur.data # <<>> THEN Write(cur.data) ELSE UNCHANGED <<files, lost, notes, fails>>
    /\ cur' = [cur EXCEPT !.data = <<>>]
    /\ upc' = "close"
    /\ UNCHANGED <<tpc, spc, m_bThreadExit, sem, last, todo, flag, streamQ, writerQ,
                   pBuffer, m_OutFd, m_WritingMode, want, runs>>

StopCloseKeepsHandle ==
    /\ upc = "close"
    /\ notes' = IF m_OutFd # 0 THEN Note(DoneCode(flag)) ELSE notes
    /\ upc' = "idle"
    /\ UNCHANGED <<tpc, spc, m_bThreadExit, sem, last, todo, flag, cur, streamQ, writerQ,
                   pBuffer, m_OutFd, m_WritingMode, files, want, lost, runs, fails>>
StopClose ==
    /\ upc = "close"
    /\ notes' = IF m_OutFd # 0 THEN Note(DoneCode(flag)) ELSE notes
    /\ m_OutFd' = 0
    /\ upc' = "idle"
    /\ UNCHANGED <<tpc, spc, m_bThreadExit, sem, last, todo, flag, cur, streamQ, writerQ,
                   pBuffer, m_WritingMode, files, want, lost, runs, fails>>

(***************************************************************************)
(* ThreadLoop.                                                             *)
(***************************************************************************)
(* m_StreamQueue.Push *)
FreedNot(buf) == streamQ
Freed(buf) == Append(streamQ, buf)

LoopTestWithoutFlush ==
    /\ tpc = "loop"
    /\ tpc' = IF m_bThreadExit THEN "closing" ELSE "pend"
    /\ UNCHANGED <<upc, spc, m_bThreadExit, sem, last, todo, flag, cur, streamQ, writerQ,
                   pBuffer, m_OutFd, m_WritingMode, files, want, lost, notes, runs, fails>>
LoopTest ==
    /\ tpc = "loop"
    /\ tpc' = IF m_bThreadExit THEN "flush" ELSE "pend"
    /\ UNCHANGED <<upc, spc, m_bThreadExit, sem, last, todo, flag, cur, streamQ, writerQ,
                   pBuffer, m_OutFd, m_WritingMode, files, want, lost, notes, runs, fails>>

(* CNX_Semaphore::Pend; see BufferingFilter. *)
Pend ==
    /\ tpc = "pend"
    /\ tpc' = IF sem = 0 THEN "wait" ELSE "pop"
    /\ sem' = IF sem > 0 THEN sem - 1 ELSE sem
    /\ UNCHANGED <<upc, spc, m_bThreadExit, last, todo, flag, cur, streamQ, writerQ,
                   pBuffer, m_OutFd, m_WritingMode, files, want, lost, notes, runs, fails>>

Wake ==
    /\ tpc = "woken" \/ (Spurious /\ tpc = "wait")
    /\ sem' = sem - 1
    /\ tpc' = "pop"
    /\ UNCHANGED <<upc, spc, m_bThreadExit, last, todo, flag, cur, streamQ, writerQ,
                   pBuffer, m_OutFd, m_WritingMode, files, want, lost, notes, runs, fails>>

Pop ==
    /\ tpc = "pop"
    /\ IF writerQ # <<>>
         THEN pBuffer' = Head(writerQ) /\ writerQ' = Tail(writerQ) /\ tpc' = "test"
         ELSE tpc' = "loop" /\ UNCHANGED <<pBuffer, writerQ>>
    /\ UNCHANGED <<upc, spc, m_bThreadExit, sem, last, todo, flag, cur, streamQ, m_OutFd,
                   m_WritingMode, files, want, lost, notes, runs, fails>>

(* m_OutFd is read here for the test and once more for the write. *)
TestFd ==
    /\ tpc = "test"
    /\ IF m_OutFd # 0
         THEN tpc' = "write" /\ UNCHANGED <<pBuffer, lost>>
         ELSE /\ tpc' = "giveBack"
              /\ lost' = lost \cup Range(pBuffer.data)
              /\ pBuffer' = [pBuffer EXCEPT !.data = <<>>]
    /\ UNCHANGED <<upc, spc, m_bThreadExit, sem, last, todo, flag, cur, streamQ, writerQ,
                   m_OutFd, m_WritingMode, files, want, notes, runs, fails>>

ThreadWrite ==
    /\ tpc = "write"
    /\ Write(pBuffer.data)
    /\ pBuffer' = [pBuffer EXCEPT !.data = <<>>]
    /\ tpc' = "giveBack"
    /\ UNCHANGED <<upc, spc, m_bThreadExit, sem, last, todo, flag, cur, streamQ, writerQ,
                   m_OutFd, m_WritingMode, want, runs>>

GiveBack ==
    /\ tpc = "giveBack"
    /\ streamQ' = Freed(pBuffer.buf)
    /\ pBuffer' = NoChunk
    /\ tpc' = "loop"
    /\ UNCHANGED <<upc, spc, m_bThreadExit, sem, last, todo, flag, cur, writerQ, m_OutFd,
                   m_WritingMode, files, want, lost, notes, runs, fails>>

(* After the loop nobody else uses the writer: one step for each buffer. *)
FlushOne ==
    /\ tpc = "flush" /\ writerQ # <<>>
    /\ IF m_OutFd # 0
         THEN Write(Head(writerQ).data)
         ELSE /\ lost' = lost \cup Range(Head(writerQ).data)
              /\ UNCHANGED <<files, notes, fails>>
    /\ streamQ' = Freed(Head(writerQ).buf)
    /\ writerQ' = Tail(writerQ)
    /\ UNCHANGED <<upc, tpc, spc, m_bThreadExit, sem, last, todo, flag, cur, pBuffer,
                   m_OutFd, m_WritingMode, want, runs>>

FlushLast ==
    /\ tpc = "flush" /\ writerQ = <<>>
    /\ IF cur.data # <<>> /\ m_OutFd # 0
         THEN Write(cur.data)
         ELSE lost' = lost \cup Range(cur.data) /\ UNCHANGED <<files, notes, fails>>
    /\ cur' = [cur EXCEPT !.data = <<>>]
    /\ tpc' = "closing"
    /\ UNCHANGED <<upc, spc, m_bThreadExit, sem, last, todo, flag, streamQ, writerQ,
                   pBuffer, m_OutFd, m_WritingMode, want, runs>>

ExitClose ==
    /\ tpc = "closing"
    /\ notes' = IF m_OutFd # 0 THEN Note(DoneCode(m_WritingMode)) ELSE notes
    /\ m_OutFd' = 0
    /\ tpc' = "done"
    /\ UNCHANGED <<upc, spc, m_bThreadExit, sem, last, todo, flag, cur, streamQ, writerQ,
                   pBuffer, m_WritingMode, files, want, lost, runs, fails>>

(***************************************************************************)
(* Run and Stop.  The filters upstream stop first, so Receive is idle.     *)
(***************************************************************************)
Run ==
    /\ spc = "stopped" /\ runs < MaxRun
    /\ m_bThreadExit' = FALSE
    /\ tpc' = "loop" /\ spc' = "running"
    /\ runs' = runs + 1
    /\ UNCHANGED <<upc, sem, last, todo, flag, cur, streamQ, writerQ, pBuffer, m_OutFd,
                   m_WritingMode, files, want, lost, notes, fails>>

Stop ==
    /\ spc = "running" /\ upc = "idle"
    /\ m_bThreadExit' = TRUE
    /\ spc' = "post"
    /\ UNCHANGED <<upc, tpc, sem, last, todo, flag, cur, streamQ, writerQ, pBuffer,
                   m_OutFd, m_WritingMode, files, want, lost, notes, runs, fails>>

StopPost ==
    /\ spc = "post"
    /\ Post
    /\ spc' = "join"
    /\ UNCHANGED <<upc, m_bThreadExit, last, todo, flag, cur, streamQ, writerQ, pBuffer,
                   m_OutFd, m_WritingMode, files, want, lost, notes, runs, fails>>

Join ==
    /\ spc = "join" /\ tpc = "done"
    /\ tpc' = "none" /\ spc' = "stopped"
    /\ want' = "none"
    /\ UNCHANGED <<upc, m_bThreadExit, sem, last, todo, flag, cur, streamQ, writerQ,
                   pBuffer, m_OutFd, m_WritingMode, files, lost, notes, runs, fails>>

-----------------------------------------------------------------------------
Received ==
    \/ CopyRest \/ CopyFull \/ CopyPost \/ CopyDropped
    \/ StopWaited \/ StopWrite \/ StopClose
Receive ==
    \/ \E kind \in Kind : StartFlag(kind) \/ StopFlag(kind)
    \/ \E size \in Sizes : StreamSample(size)
    \/ Received
ThreadLoop ==
    \/ LoopTest \/ Pend \/ Wake \/ Pop \/ TestFd \/ ThreadWrite \/ GiveBack
    \/ FlushOne \/ FlushLast \/ ExitClose
Control == Run \/ Stop \/ StopPost \/ Join

Next == Receive \/ ThreadLoop \/ Control

(* A call of Receive and the thread go on; nobody has to call or to stop. *)
Fairness == WF_vars(Received) /\ WF_vars(ThreadLoop) /\ WF_vars(StopPost \/ Join)

Spec == Init /\ [][Next]_vars
FairSpec == Spec /\ Fairness

-----------------------------------------------------------------------------
(***************************************************************************)
(* Properties.                                                             *)
(***************************************************************************)
FileRecord == [kind : Kind, opened : BOOLEAN, bytes : SUBSET Byte, data : Seq(Byte)]

TypeOK ==
    /\ upc \in {"idle", "copy", "post", "stopWait", "stopWrite", "close"}
    /\ tpc \in {"none", "loop", "pend", "wait", "woken", "pop", "test", "write",
                "giveBack", "flush", "closing", "done"}
    /\ spc \in {"stopped", "running", "post", "join"}
    /\ m_bThreadExit \in BOOLEAN /\ sem \in Int
    /\ last \in 0..MaxByte /\ todo \in Seq(Byte) /\ flag \in Kind
    /\ cur \in Chunk /\ streamQ \in Seq(Buffer) /\ writerQ \in Seq(Chunk)
    /\ pBuffer \in Chunk
    /\ Len(cur.data) <= SizeUnit /\ \A i \in DOMAIN writerQ : Len(writerQ[i].data) = SizeUnit
    /\ files \in Seq(FileRecord)
    /\ m_OutFd \in 0..Len(files) /\ m_WritingMode \in Kind
    /\ want \in Kind \cup {"none"}
    /\ lost \subseteq Byte
    /\ notes \in Seq([code : Code, name : Nat])
    /\ runs \in Nat /\ fails \in Nat

(* No write buffer is ever in two hands or in none: the free queue, the queue *)
(* of the writer, the thread and Receive share all of them, each one once;    *)
(* and every variable keeps its type.                                         *)
WriterBufs == [i \in 1..Len(writerQ) |-> writerQ[i].buf]
HandBufs == {cur.buf, pBuffer.buf} \ {0}
BuffersConserved ==
    /\ TypeOK
    /\ Range(streamQ) \cup Range(WriterBufs) \cup HandBufs = Buffer
    /\ IsInjective(streamQ) /\ IsInjective(WriterBufs)
    /\ Range(streamQ) \cap Range(WriterBufs) = {}
    /\ HandBufs \cap (Range(streamQ) \cup Range(WriterBufs)) = {}
    /\ cur.buf = pBuffer.buf => cur.buf = 0

(* The stages of the way to the file, from the last one to the first. *)
Stages == 0..(Len(writerQ) + 2)
Stage(k) ==
    CASE k = 0 -> pBuffer.data
      [] k \in 1..Len(writerQ) -> writerQ[k].data
      [] k = Len(writerQ) + 1 -> cur.data
      [] k = Len(writerQ) + 2 -> todo
OnTheWay == UNION {Range(Stage(k)) : k \in Stages}

Increasing(q) == \A i, j \in 1..Len(q) : i < j => q[i] < q[j]
Before(q1, q2) == \A x \in Range(q1), y \in Range(q2) : x < y
Disjoint(q1, q2) == Range(q1) \cap Range(q2) = {}

(* Every byte given to Receive is on its way or in one file, or was given up: *)
(* when no buffer was free, with no file open, or at a write that failed or   *)
(* stopped short, the last two not always with a notice. A hand-over between  *)
(* the threads loses none, writes none twice, and puts none in a file older   *)
(* than the one it was received for.                                          *)
BytesAccounted ==
    /\ 1..last = OnTheWay \cup lost \cup UNION {Range(files[f].data) : f \in DOMAIN files}
    /\ \A f \in DOMAIN files : Range(files[f].data) \cap OnTheWay = {}
    /\ \A f, g \in DOMAIN files : f # g => Disjoint(files[f].data, files[g].data)
    /\ \A f, g \in DOMAIN files : f < g => files[g].bytes \cap Range(files[f].data) = {}

(* What is in the open file and what is on its way to it are in order, until  *)
(* a stop flag writes the current buffer from the other thread.  The file may *)
(* begin with bytes of the one before it: see DoneFileComplete.               *)
OpenFileInOrder ==
    (m_OutFd # 0 /\ upc \notin {"stopWrite", "close"}) =>
        /\ Increasing(files[m_OutFd].data)
        /\ \A k \in Stages :
              /\ Increasing(Stage(k))
              /\ Before(files[m_OutFd].data, Stage(k))
              /\ \A l \in Stages : k < l => Before(Stage(k), Stage(l))

(* The file that is open when Stop is called gets every byte received for it  *)
(* before it is closed, but for the ones given up.                            *)
FlushedAtStop ==
    (tpc = "closing" /\ m_OutFd # 0)
        => files[m_OutFd].bytes \subseteq Range(files[m_OutFd].data) \cup lost

Announced(f) == \E i \in DOMAIN notes :
                    notes[i].name = f /\ notes[i].code \in {"NORMAL_DONE", "EVENT_DONE"}

(* Each file that was opened is announced as done exactly once, when it is    *)
(* closed, by the kind of flag that started it; one that failed to open never.*)
AnnouncedOnce ==
    /\ \A f \in DOMAIN files : Announced(f) <=> files[f].opened /\ f # m_OutFd
    /\ \A i, j \in DOMAIN notes :
        LET n == notes[i]
        IN  n.code \in {"NORMAL_DONE", "EVENT_DONE"}
              => /\ n.code = DoneCode(files[n.name].kind)
                 /\ notes[j] = n => i = j

(* "Writing done" means that all that was received for the file is in it.     *)
DoneFileComplete ==
    \A f \in DOMAIN files : Announced(f) => files[f].bytes \subseteq Range(files[f].data)

(* The busy wait of a stop flag ends, and Stop joins the thread. *)
CallsReturn ==
    /\ (upc = "stopWait") ~> (upc = "idle")
    /\ (spc = "post") ~> (spc = "stopped")
=============================================================================
