--------------------------- MODULE BufferingFilter ---------------------------
(***************************************************************************)
(* CNX_BufferingFilter: the pre-event buffer of the recorder.  Encoded     *)
(* samples arrive in Receive on the thread of the filter upstream, wait in *)
(* m_SampleInQueue and are gathered by ThreadLoop into units of about one  *)
(* second that end at a key frame.  The last m_EventBufferedTime units are *)
(* kept in a ring so that an event file can begin before its event.        *)
(*                                                                         *)
(* Three threads step here: the upstream thread in Receive (rpc), the      *)
(* filter's own thread (wpc) and the manager, which runs and stops the     *)
(* filter (spc) and leaves requests in ctl.                                *)
(*                                                                         *)
(* A sample is its timestamp, in ticks: sample n is the n-th one received, *)
(* and Sync tells which of them are sync points of video channel 0.        *)
(***************************************************************************)
EXTENDS Integers, Sequences, Functions, WritingFlags

CONSTANTS
    MaxSample,      \* bound: samples received
    MaxRun,         \* bound: times Run starts the thread
    MaxRequest,     \* bound: requests of the manager
    MaxGop,         \* the encoder sends a sync point at least every MaxGop samples
    Spurious,       \* TRUE: pthread_cond_wait may return without a signal
    BufferedTime,   \* m_EventBufferedTime: units kept in the ring
    Gap,            \* 700 in the source: least distance of two unit ends, in ticks
    Depth           \* SAMPLE_QUEUE_COUNT: what a CNX_SampleQueue holds

ASSUME BoundAssumption ==
    MaxSample \in Nat /\ MaxRun \in Nat /\ MaxRequest \in Nat
ASSUME ConfigAssumption ==
    /\ BufferedTime \in Nat \ {0} /\ Gap \in Nat \ {0}
    /\ Depth \in Nat \ {0}
    /\ MaxGop \in Nat \ {0}
ASSUME SpuriousAssumption == Spurious \in BOOLEAN

Sample == 1..MaxSample
Slot == 0..BufferedTime

VARIABLES
    rpc,        \* Receive: "idle", "wait" for room, "post"
    wpc,        \* ThreadLoop
    spc,        \* Run and Stop: "stopped", "running", "post", "join"
    m_bThreadExit,
    sem,        \* m_pSemIn: m_Value
    last,       \* the newest sample received
    Sync,       \* the received samples that are sync points of video 0
    locked,     \* samples whose reference this filter holds
    inQ,        \* m_SampleInQueue
    pSample,    \* what ThreadLoop popped, 0 for none
    flags,      \* flag samples PushStream has still to deliver
    streamQ,    \* m_StreamQueue
    eventQ,     \* m_EventQueue
    head, tail, count,      \* m_EventHead, m_EventTail, m_EventCount
    prv, cur,   \* m_PrvTimeStamp, m_CurTimeStamp
    ctl,        \* the control fields, see WritingFlags
    sink,       \* what is downstream: the open file and the samples in it
    runs, reqs, \* counters for MaxRun and MaxRequest
    asked       \* history: the oldest buffered sample when the newest event was asked for

vars == <<rpc, wpc, spc, m_bThreadExit, sem, last, Sync, locked, inQ, pSample,
          flags, streamQ, eventQ, head, tail, count, prv, cur, ctl, sink, runs, reqs, asked>>

WorkerPc == {"none", "begin", "loop", "pend", "wait", "woken", "get", "lock", "flags",
             "popAll", "full", "move", "gather", "drain", "clear", "done"}

(* PushStream holds m_hBufferedLock from "flags" to "gather". *)
HoldsBufferedLock == wpc \in {"flags", "popAll", "full", "move", "gather"}

(***************************************************************************)
(* Queues and downstream.                                                  *)
(***************************************************************************)
(* CNX_SampleQueue::PushSample gives up silently when the queue is full. *)
Pushed(q, s) == IF Len(q) >= Depth THEN q ELSE Append(q, s)

Next1(i) == (i + 1) % (BufferedTime + 1)

(* An empty slot is found for every unit by letting the oldest one go. *)
RingFullLate == count > BufferedTime
RingFull == count >= BufferedTime

(* Deliver of a flag sample: the writer opens or closes its file. *)
AfterFlag(k, f) ==
    CASE f = "NORMAL_START" -> [file |-> "normal", data |-> <<>>]
      [] f = "EVENT_START"  -> [file |-> "event", data |-> <<>>]
      [] OTHER              -> [k EXCEPT !.file = "none"]

(* Deliver of a stream sample: it goes to the file that is open. *)
AfterSample(k, s) ==
    IF k.file = "none" THEN k ELSE [k EXCEPT !.data = Append(@, s)]

(* CNX_Sample::Unlock of the samples in S: at zero one goes back to its owner. *)
Unlock(S) == locked' = locked \ S

(* CNX_Semaphore::Post *)
PostOnlyIfWaiting ==
    IF wpc = "wait" THEN sem' = sem + 1 /\ wpc' = "woken" ELSE UNCHANGED <<sem, wpc>>
PostWithoutSignal == sem' = sem + 1 /\ UNCHANGED wpc
Post ==
    /\ sem' = sem + 1
    /\ wpc' = IF wpc = "wait" THEN "woken" ELSE wpc

Init ==
    /\ rpc = "idle" /\ wpc = "none" /\ spc = "stopped"
    /\ m_bThreadExit = TRUE
    /\ sem = 0
    /\ last = 0 /\ Sync = {}
    /\ locked = {}
    /\ inQ = <<>> /\ pSample = 0 /\ flags = <<>> /\ streamQ = <<>>
    /\ eventQ = [i \in Slot |-> <<>>]
    /\ head = 0 /\ tail = 0 /\ count = 0
    /\ prv = 0 /\ cur = 0
    /\ ctl \in ControlInit
    /\ sink = [file |-> "none", data |-> <<>>]
    /\ runs = 0 /\ reqs = 0 /\ asked = 1

(***************************************************************************)
(* Receive, on the thread of the filter upstream.                          *)
(***************************************************************************)
(* Upstream is started after this filter and stopped before it, and sends  *)
(* a sync point at least every MaxGop samples.                             *)
Receive(sync) ==
    /\ rpc = "idle" /\ spc = "running" /\ last < MaxSample
    /\ sync \/ \E k \in Sync : last + 1 - k < MaxGop
    /\ last' = last + 1
    /\ Sync' = IF sync THEN Sync \cup {last + 1} ELSE Sync
    /\ locked' = locked \cup {last + 1}
    /\ rpc' = "wait"
    /\ UNCHANGED <<wpc, spc, m_bThreadExit, sem, inQ, pSample, flags, streamQ, eventQ,
                   head, tail, count, prv, cur, ctl, sink, runs, reqs, asked>>

(* Receive polls every millisecond until the queue has room. *)
Enqueue ==
    /\ rpc = "wait" /\ Len(inQ) < Depth
    /\ inQ' = Append(inQ, last)
    /\ rpc' = "post"
    /\ UNCHANGED <<wpc, spc, m_bThreadExit, sem, last, Sync, locked, pSample, flags,
                   streamQ, eventQ, head, tail, count, prv, cur, ctl, sink, runs, reqs, asked>>

ReceivePost ==
    /\ rpc = "post"
    /\ Post
    /\ rpc' = "idle"
    /\ UNCHANGED <<spc, m_bThreadExit, last, Sync, locked, inQ, pSample, flags, streamQ,
                   eventQ, head, tail, count, prv, cur, ctl, sink, runs, reqs, asked>>

(***************************************************************************)
(* ThreadLoop outside PushStream.                                          *)
(***************************************************************************)
Begin ==
    /\ wpc = "begin"
    /\ prv' = 0 /\ cur' = 0
    /\ wpc' = "loop"
    /\ UNCHANGED <<rpc, spc, m_bThreadExit, sem, last, Sync, locked, inQ, pSample, flags,
                   streamQ, eventQ, head, tail, count, ctl, sink, runs, reqs, asked>>

LoopTest ==
    /\ wpc = "loop"
    /\ wpc' = IF m_bThreadExit THEN "drain" ELSE "pend"
    /\ UNCHANGED <<rpc, spc, m_bThreadExit, sem, last, Sync, locked, inQ, pSample, flags,
                   streamQ, eventQ, head, tail, count, prv, cur, ctl, sink, runs, reqs, asked>>

(* CNX_Semaphore::Pend: it waits once, with an if, and takes one when it  *)
(* wakes; a value below zero is not waited for and not changed.           *)
Pend ==
    /\ wpc = "pend"
    /\ wpc' = IF sem = 0 THEN "wait" ELSE "get"
    /\ sem' = IF sem > 0 THEN sem - 1 ELSE sem
    /\ UNCHANGED <<rpc, spc, m_bThreadExit, last, Sync, locked, inQ, pSample, flags,
                   streamQ, eventQ, head, tail, count, prv, cur, ctl, sink, runs, reqs, asked>>

Wake ==
    /\ wpc = "woken" \/ (Spurious /\ wpc = "wait")
    /\ sem' = sem - 1
    /\ wpc' = "get"
    /\ UNCHANGED <<rpc, spc, m_bThreadExit, last, Sync, locked, inQ, pSample, flags,
                   streamQ, eventQ, head, tail, count, prv, cur, ctl, sink, runs, reqs, asked>>

(* GetSample ignores what Pend returns and looks at the queue. *)
GetSample ==
    /\ wpc = "get"
    /\ IF inQ # <<>>
         THEN pSample' = Head(inQ) /\ inQ' = Tail(inQ) /\ wpc' = "lock"
         ELSE wpc' = "loop" /\ UNCHANGED <<pSample, inQ>>
    /\ UNCHANGED <<rpc, spc, m_bThreadExit, sem, last, Sync, locked, flags, streamQ,
                   eventQ, head, tail, count, prv, cur, ctl, sink, runs, reqs, asked>>

(* PopStream: the oldest unit of the ring is let go. *)
PopStreamKeepsUnit ==
    /\ Unlock(Range(eventQ[tail]))
    /\ tail' = Next1(tail)
    /\ count' = count - 1
    /\ UNCHANGED eventQ
PopStreamWithoutUnlock ==
    /\ eventQ' = [eventQ EXCEPT ![tail] = <<>>]
    /\ tail' = Next1(tail)
    /\ count' = count - 1
    /\ UNCHANGED locked
PopStream ==
    /\ Unlock(Range(eventQ[tail]))
    /\ eventQ' = [eventQ EXCEPT ![tail] = <<>>]
    /\ tail' = Next1(tail)
    /\ count' = count - 1

Drain ==
    /\ wpc = "drain"
    /\ IF inQ # <<>>
         THEN /\ Unlock({Head(inQ)})
              /\ inQ' = Tail(inQ)
              /\ UNCHANGED wpc
         ELSE wpc' = "clear" /\ UNCHANGED <<locked, inQ>>
    /\ UNCHANGED <<rpc, spc, m_bThreadExit, sem, last, Sync, pSample, flags, streamQ,
                   eventQ, head, tail, count, prv, cur, ctl, sink, runs, reqs, asked>>

(* m_StreamQueue is left as it is. *)
Clear ==
    /\ wpc = "clear"
    /\ IF count > 0
         THEN PopStream /\ UNCHANGED wpc
         ELSE wpc' = "done" /\ UNCHANGED <<locked, eventQ, tail, count>>
    /\ UNCHANGED <<rpc, spc, m_bThreadExit, sem, last, Sync, inQ, pSample, flags, streamQ,
                   head, prv, cur, ctl, sink, runs, reqs, asked>>

(***************************************************************************)
(* PushStream, under m_hBufferedLock.                                      *)
(***************************************************************************)
PrvOf(s) == IF prv = 0 THEN s ELSE prv

EndsUnit(s) == s \in Sync /\ s >= PrvOf(s) + Gap

LockPushStream ==
    /\ wpc = "lock"
    /\ prv' = PrvOf(pSample) /\ cur' = pSample
    /\ IF EndsUnit(pSample)
         THEN wpc' = "flags" /\ flags' = FlagsOf(ctl)
         ELSE wpc' = "gather" /\ UNCHANGED flags
    /\ UNCHANGED <<rpc, spc, m_bThreadExit, sem, last, Sync, locked, inQ, pSample,
                   streamQ, eventQ, head, tail, count, ctl, sink, runs, reqs, asked>>

(* DeliverFlagSample, one at a time, then the requests are cleared. *)
DeliverFlags ==
    /\ wpc = "flags"
    /\ IF flags # <<>>
         THEN /\ sink' = AfterFlag(sink, Head(flags))
              /\ flags' = Tail(flags)
              /\ UNCHANGED <<wpc, ctl>>
         ELSE /\ ctl' = Answered(ctl)
              /\ wpc' = IF ctl.pop THEN "popAll" ELSE "full"
              /\ UNCHANGED <<sink, flags>>
    /\ UNCHANGED <<rpc, spc, m_bThreadExit, sem, last, Sync, locked, inQ, pSample,
                   streamQ, eventQ, head, tail, count, prv, cur, runs, reqs, asked>>

(* An event: every buffered sample goes to the event file, oldest first. *)
PopStreamAll ==
    /\ wpc = "popAll"
    /\ IF count = 0
         THEN wpc' = "full" /\ UNCHANGED <<locked, eventQ, tail, count, sink>>
         ELSE /\ UNCHANGED wpc
              /\ IF eventQ[tail] # <<>>
                   THEN /\ sink' = AfterSample(sink, Head(eventQ[tail]))
                        /\ Unlock({Head(eventQ[tail])})
                        /\ eventQ' = [eventQ EXCEPT ![tail] = Tail(@)]
                        /\ UNCHANGED <<tail, count>>
                   ELSE /\ tail' = Next1(tail)
                        /\ count' = count - 1
                        /\ UNCHANGED <<locked, eventQ, sink>>
    /\ UNCHANGED <<rpc, spc, m_bThreadExit, sem, last, Sync, inQ, pSample, flags,
                   streamQ, head, prv, cur, ctl, runs, reqs, asked>>

DropOldest ==
    /\ wpc = "full"
    /\ wpc' = "move"
    /\ IF RingFull THEN PopStream ELSE UNCHANGED <<locked, eventQ, tail, count>>
    /\ UNCHANGED <<rpc, spc, m_bThreadExit, sem, last, Sync, inQ, pSample, flags,
                   streamQ, head, prv, cur, ctl, sink, runs, reqs, asked>>

(* The unit that just ended moves into the ring, and out if it is wanted. *)
MoveUnit ==
    /\ wpc = "move"
    /\ IF streamQ # <<>>
         THEN /\ streamQ' = Tail(streamQ)
              /\ eventQ' = [eventQ EXCEPT ![head] = Pushed(@, Head(streamQ))]
              /\ sink' = IF DeliversUnit(ctl) THEN AfterSample(sink, Head(streamQ)) ELSE sink
              /\ UNCHANGED <<wpc, head, count, prv>>
         ELSE /\ head' = Next1(head)
              /\ count' = count + 1
              /\ prv' = cur
              /\ wpc' = "gather"
              /\ UNCHANGED <<streamQ, eventQ, sink>>
    /\ UNCHANGED <<rpc, spc, m_bThreadExit, sem, last, Sync, locked, inQ, pSample, flags,
                   tail, cur, ctl, runs, reqs, asked>>

Gather ==
    /\ wpc = "gather"
    /\ streamQ' = Pushed(streamQ, pSample)
    /\ pSample' = 0
    /\ wpc' = "loop"
    /\ UNCHANGED <<rpc, spc, m_bThreadExit, sem, last, Sync, locked, inQ, flags, eventQ,
                   head, tail, count, prv, cur, ctl, sink, runs, reqs, asked>>

(* For the history only: the sample the ring goes back to; while nothing   *)
(* was moved into it yet, the first of all.                                *)
OldestBuffered == IF eventQ[tail] = <<>> THEN 1 ELSE Head(eventQ[tail])

(***************************************************************************)
(* The manager: requests (each takes m_hBufferedLock), Run and Stop.       *)
(***************************************************************************)
Request(c) ==
    /\ spc = "running" /\ reqs < MaxRequest /\ ~HoldsBufferedLock
    /\ ctl' = c
    /\ reqs' = reqs + 1
    /\ asked' = IF c.pop /\ ~ctl.pop THEN OldestBuffered ELSE asked
    /\ UNCHANGED <<rpc, wpc, spc, m_bThreadExit, sem, last, Sync, locked, inQ, pSample,
                   flags, streamQ, eventQ, head, tail, count, prv, cur, sink, runs>>

ChangeBufferingMode(mode) == Request([ctl EXCEPT !.mode = mode])
StopFile == Request([ctl EXCEPT !.stop = TRUE])
(* The manager sets the mode before it asks for anything but a stop. *)
StartFile == ctl.mode \in Modes /\ Request([ctl EXCEPT !.start = TRUE])
ChangeFile == ctl.mode \in Modes /\ Request([ctl EXCEPT !.change = TRUE])
PopBufferdData == ctl.mode \in Modes /\ Request([ctl EXCEPT !.pop = TRUE])

Run ==
    /\ spc = "stopped" /\ runs < MaxRun
    /\ m_bThreadExit' = FALSE
    /\ wpc' = "begin" /\ spc' = "running"
    /\ runs' = runs + 1
    /\ UNCHANGED <<rpc, sem, last, Sync, locked, inQ, pSample, flags, streamQ, eventQ,
                   head, tail, count, prv, cur, ctl, sink, reqs, asked>>

Stop ==
    /\ spc = "running" /\ rpc = "idle"
    /\ m_bThreadExit' = TRUE
    /\ spc' = "post"
    /\ UNCHANGED <<rpc, wpc, sem, last, Sync, locked, inQ, pSample, flags, streamQ, eventQ,
                   head, tail, count, prv, cur, ctl, sink, runs, reqs, asked>>

StopPost ==
    /\ spc = "post"
    /\ Post
    /\ spc' = "join"
    /\ UNCHANGED <<rpc, m_bThreadExit, last, Sync, locked, inQ, pSample, flags, streamQ,
                   eventQ, head, tail, count, prv, cur, ctl, sink, runs, reqs, asked>>

(* The thread is joined; the writer downstream, stopped next, closes its file. *)
Join ==
    /\ spc = "join" /\ wpc = "done"
    /\ wpc' = "none" /\ spc' = "stopped"
    /\ sink' = [sink EXCEPT !.file = "none"]
    /\ UNCHANGED <<rpc, m_bThreadExit, sem, last, Sync, locked, inQ, pSample, flags,
                   streamQ, eventQ, head, tail, count, prv, cur, ctl, runs, reqs, asked>>

-----------------------------------------------------------------------------
Upstream == (\E sync \in BOOLEAN : Receive(sync)) \/ Enqueue \/ ReceivePost
ThreadLoop ==
    \/ Begin \/ LoopTest \/ Pend \/ Wake \/ GetSample \/ Drain \/ Clear
    \/ LockPushStream \/ DeliverFlags \/ PopStreamAll \/ DropOldest \/ MoveUnit \/ Gather
Manager ==
    \/ \E mode \in Modes : ChangeBufferingMode(mode)
    \/ PopBufferdData \/ StartFile \/ StopFile \/ ChangeFile
    \/ Run \/ Stop \/ StopPost \/ Join

Next == Upstream \/ ThreadLoop \/ Manager

(* The threads run: one that can step goes on, but nobody has to receive,  *)
(* to ask or to stop.                                                      *)
Fairness ==
    /\ WF_vars(Enqueue \/ ReceivePost)
    /\ WF_vars(ThreadLoop)
    /\ WF_vars(StopPost \/ Join)

Spec == Init /\ [][Next]_vars
FairSpec == Spec /\ Fairness

-----------------------------------------------------------------------------
(***************************************************************************)
(* Properties.                                                             *)
(***************************************************************************)
File == [file : {"none", "normal", "event"}, data : Seq(Sample)]

TypeOK ==
    /\ rpc \in {"idle", "wait", "post"} /\ wpc \in WorkerPc
    /\ spc \in {"stopped", "running", "post", "join"}
    /\ m_bThreadExit \in BOOLEAN
    /\ sem \in Int
    /\ last \in Nat /\ last <= MaxSample /\ Sync \subseteq Sample
    /\ locked \subseteq Sample
    /\ inQ \in Seq(Sample) /\ pSample \in Sample \cup {0} /\ streamQ \in Seq(Sample)
    /\ flags \in Seq(FileFlags)
    /\ eventQ \in [Slot -> Seq(Sample)]
    /\ head \in Slot /\ tail \in Slot /\ count \in Int
    /\ prv \in Nat /\ cur \in Nat
    /\ ctl \in Control
    /\ sink \in File
    /\ runs \in Nat /\ reqs \in Nat /\ asked \in Sample \cup {1}

(* Slots of the ring that hold a unit, counted from the oldest one. *)
UsedSlots == {(tail + i) % (BufferedTime + 1) : i \in 0..(count - 1)}

(* Every count of the ring agrees with its indexes: the slot a unit is moved  *)
(* into is never one that still holds an older unit, the slot that is let go  *)
(* is the oldest, and no unit is left in a slot the count has forgotten.      *)
RingConsistent ==
    /\ count \in 0..BufferedTime
    /\ head = (tail + count) % (BufferedTime + 1)
    /\ \A i \in Slot : eventQ[i] # <<>> => i \in UsedSlots \/ (wpc = "move" /\ i = head)

InHand == (IF pSample = 0 THEN {} ELSE {pSample}) \cup (IF rpc = "wait" THEN {last} ELSE {})
Buffered == UNION {Range(eventQ[i]) : i \in Slot}
Holders == InHand \cup Range(inQ) \cup Range(streamQ) \cup Buffered

(* No sample the filter will touch again has gone back to its owner: each one *)
(* in a queue, in the ring or in a thread's hand is still locked, through     *)
(* every order of receiving, events, dropping and stopping.                   *)
NoUseAfterRelease == Holders \subseteq locked

(* Units that end in time never fill a queue, so every locked sample is still *)
(* somewhere the filter will release it from: PushSample loses none.          *)
NothingLeaked == TypeOK /\ locked \subseteq Holders

Consecutive(q) == \A i \in 1..(Len(q) - 1) : q[i + 1] = q[i] + 1

(* An event file goes back to the oldest sample that was buffered when its    *)
(* event was asked for, however much later the key frame that opens it comes, *)
(* and has no hole and no repetition: what PopStreamAll delivers is continued *)
(* exactly by the units that end after it, whatever requests arrive meanwhile *)
(* and however the ring wrapped.  Stated for the first run of the thread.     *)
EventFileContiguous ==
    sink.file = "event" /\ runs = 1 =>
        /\ Consecutive(sink.data)
        /\ sink.data # <<>> /\ ~ctl.pop => Head(sink.data) = asked

(* Stop returns: whatever the thread was doing, it reaches its exit test and  *)
(* empties what it drains.                                                    *)
StopReturns == (spc = "post") ~> (spc = "stopped")

(* Received samples do not stay in the input queue, over stops and restarts:  *)
(* as there are only so many samples, each is taken out when the queue is     *)
(* emptied again and again.                                                   *)
SampleTaken == (inQ # <<>>) ~> (inQ = <<>>)
=============================================================================
