---------------------------- MODULE Interleaver ----------------------------
(***************************************************************************)
(* CNX_InterleaverFilter: the streams of all encoders become one stream    *)
(* ordered by time.  Receive is called on the thread of every encoder and  *)
(* holds m_hLock until it returns.  It queues the sample, by channel, and  *)
(* while no queue is empty it delivers the sample with the least time.  A  *)
(* queue that is nearly full delivers its oldest sample out of turn, so    *)
(* that a silent channel does not hold up the others for ever.             *)
(*                                                                         *)
(* A sample is its number, its channel and its time.  Channel 0 is         *)
(* DATA_VIDEO0.                                                            *)
(***************************************************************************)
EXTENDS Integers, Sequences, Functions

CONSTANTS
    MaxSample,      \* bound: samples received
    MaxTime,        \* bound: time stamps
    NumChannel,     \* m_InterleaverChannel
    Depth           \* SAMPLE_QUEUE_COUNT of a CNX_InterleaverQueue

ASSUME BoundAssumption == MaxSample \in Nat /\ MaxTime \in Nat
ASSUME ConfigAssumption == NumChannel \in Nat \ {0} /\ Depth \in Nat /\ Depth > 1

Channel == 0..(NumChannel - 1)
Time == 0..MaxTime
Sample == [id : 1..MaxSample, ch : Channel, ts : Time]

VARIABLES
    rpc,                    \* "idle": m_hLock is free; "merge": Receive holds it
    m_bRun, m_bEnable,
    m_bStartInterleaver,
    m_InterleaverQueue,     \* of each channel
    clock,                  \* time of the newest sample of each channel
    got,                    \* samples received
    out,                    \* what was delivered
    forced,                 \* of these, what a full queue forced out
    unused                  \* samples dropped on arrival or flushed

vars == <<rpc, m_bRun, m_bEnable, m_bStartInterleaver, m_InterleaverQueue, clock, got,
          out, forced, unused>>

Init ==
    /\ rpc = "idle"
    /\ m_bRun = FALSE /\ m_bEnable = TRUE /\ m_bStartInterleaver = FALSE
    /\ m_InterleaverQueue = [c \in Channel |-> <<>>]
    /\ clock = [c \in Channel |-> 0]
    /\ got = 0
    /\ out = <<>> /\ forced = {} /\ unused = {}

(***************************************************************************)
(* CNX_InterleaverQueue.                                                   *)
(***************************************************************************)
IsReady(c) == m_InterleaverQueue[c] # <<>>
IsFull(c) == Len(m_InterleaverQueue[c]) = Depth - 1
GetSampleTimeStamp(c) == Head(m_InterleaverQueue[c]).ts

AllReady == \A c \in Channel : IsReady(c)

(* The first of the channels whose oldest sample is the oldest of all. *)
FastestIsLatest(c) ==
    \A d \in Channel : GetSampleTimeStamp(c) >= GetSampleTimeStamp(d)
Fastest(c) ==
    \A d \in Channel :
        /\ GetSampleTimeStamp(c) <= GetSampleTimeStamp(d)
        /\ d < c => GetSampleTimeStamp(c) < GetSampleTimeStamp(d)

(***************************************************************************)
(* Receive of a sample of channel c, of a time not before the last one's.  *)
(* The encoders run between Run and Stop only.                             *)
(***************************************************************************)
Arrives(c, ts) ==
    /\ rpc = "idle" /\ m_bRun /\ got < MaxSample
    /\ ts >= clock[c]
    /\ got' = got + 1
    /\ clock' = [clock EXCEPT ![c] = ts]

(* Disabled, or not started and the sample is not of the first video. *)
Unwanted(c) == ~m_bEnable \/ (~m_bStartInterleaver /\ c # 0)

Drop(c, ts) ==
    /\ Arrives(c, ts) /\ Unwanted(c)
    /\ unused' = unused \cup {got + 1}
    /\ UNCHANGED <<rpc, m_bRun, m_bEnable, m_bStartInterleaver, m_InterleaverQueue, out,
                   forced>>

(* No memory for the copy: the sample is dropped, but counts as the start. *)
NoBuffer(c, ts) ==
    /\ Arrives(c, ts) /\ ~Unwanted(c)
    /\ m_bStartInterleaver' = TRUE
    /\ unused' = unused \cup {got + 1}
    /\ UNCHANGED <<rpc, m_bRun, m_bEnable, m_InterleaverQueue, out, forced>>

PushedWithoutForce(c, sample) ==
    /\ m_InterleaverQueue' = [m_InterleaverQueue EXCEPT ![c] =
                                IF Len(@) < Depth - 1 THEN Append(@, sample) ELSE @]
    /\ UNCHANGED <<out, forced>>
(* A full queue delivers its oldest sample, then the new one is queued. *)
Pushed(c, sample) ==
    IF IsFull(c)
      THEN /\ out' = Append(out, Head(m_InterleaverQueue[c]))
           /\ forced' = forced \cup {Head(m_InterleaverQueue[c]).id}
           /\ m_InterleaverQueue' = [m_InterleaverQueue EXCEPT ![c] = Append(Tail(@), sample)]
      ELSE /\ m_InterleaverQueue' = [m_InterleaverQueue EXCEPT ![c] = Append(@, sample)]
           /\ UNCHANGED <<out, forced>>

Push(c, ts) ==
    /\ Arrives(c, ts) /\ ~Unwanted(c)
    /\ m_bStartInterleaver' = TRUE
    /\ Pushed(c, [id |-> got + 1, ch |-> c, ts |-> ts])
    /\ rpc' = "merge"
    /\ UNCHANGED <<m_bRun, m_bEnable, unused>>

Merge(c) ==
    /\ rpc = "merge" /\ AllReady /\ Fastest(c)
    /\ out' = Append(out, Head(m_InterleaverQueue[c]))
    /\ m_InterleaverQueue' = [m_InterleaverQueue EXCEPT ![c] = Tail(@)]
    /\ UNCHANGED <<rpc, m_bRun, m_bEnable, m_bStartInterleaver, clock, got, forced, unused>>

ReturnAfterOne ==
    /\ rpc = "merge"
    /\ rpc' = "idle"
    /\ UNCHANGED <<m_bRun, m_bEnable, m_bStartInterleaver, m_InterleaverQueue, clock, got,
                   out, forced, unused>>

(* Some queue is empty. *)
Return ==
    /\ rpc = "merge" /\ ~AllReady
    /\ rpc' = "idle"
    /\ UNCHANGED <<m_bRun, m_bEnable, m_bStartInterleaver, m_InterleaverQueue, clock, got,
                   out, forced, unused>>

(***************************************************************************)
(* Run, Stop and EnableFilter.  Run and Stop leave the queues as they are. *)
(***************************************************************************)
Run ==
    /\ ~m_bRun
    /\ m_bRun' = TRUE /\ m_bStartInterleaver' = FALSE
    /\ UNCHANGED <<rpc, m_bEnable, m_InterleaverQueue, clock, got, out, forced, unused>>

(* The encoders have been stopped, none is in Receive. *)
Stop ==
    /\ m_bRun /\ rpc = "idle"
    /\ m_bRun' = FALSE /\ m_bStartInterleaver' = FALSE
    /\ UNCHANGED <<rpc, m_bEnable, m_InterleaverQueue, clock, got, out, forced, unused>>

QueuedIds == UNION {{s.id : s \in Range(m_InterleaverQueue[c])} : c \in Channel}

EnableFilter(enable) ==
    /\ rpc = "idle"
    \* Flush
    /\ unused' = unused \cup QueuedIds
    /\ m_InterleaverQueue' = [c \in Channel |-> <<>>]
    /\ m_bStartInterleaver' = FALSE
    /\ m_bEnable' = enable
    /\ UNCHANGED <<rpc, m_bRun, clock, got, out, forced>>

-----------------------------------------------------------------------------
Receive == \E c \in Channel, ts \in Time : Drop(c, ts) \/ NoBuffer(c, ts) \/ Push(c, ts)
Next ==
    \/ Receive
    \/ \E c \in Channel : Merge(c)
    \/ Return
    \/ Run \/ Stop
    \/ \E enable \in BOOLEAN : EnableFilter(enable)

Spec == Init /\ [][Next]_vars

-----------------------------------------------------------------------------
(***************************************************************************)
(* Properties.                                                             *)
(***************************************************************************)
TypeOK ==
    /\ rpc \in {"idle", "merge"}
    /\ m_bRun \in BOOLEAN /\ m_bEnable \in BOOLEAN /\ m_bStartInterleaver \in BOOLEAN
    /\ m_InterleaverQueue \in [Channel -> Seq(Sample)]
    /\ \A c \in Channel : Len(m_InterleaverQueue[c]) < Depth
    /\ clock \in [Channel -> Time]
    /\ got \in 0..MaxSample
    /\ out \in Seq(Sample)
    /\ forced \subseteq 1..MaxSample /\ unused \subseteq 1..MaxSample

(* A sample that is followed by an earlier one was forced out of a full       *)
(* queue: the merging itself never delivers in the wrong order, however the   *)
(* encoders' threads alternate and over restarts that leave samples behind.   *)
OrderedUnlessForced ==
    \A i, j \in 1..Len(out) :
        (i < j /\ out[i].ts > out[j].ts) => out[i].id \in forced

(* The samples of a channel keep their numbers' order where they are delivered *)
(* and where they are queued, and what is queued comes after what is delivered. *)
Ascending(q) == \A i, j \in 1..Len(q) : (i < j /\ q[i].ch = q[j].ch) => q[i].id < q[j].id
ChannelOrder ==
    /\ Ascending(out)
    /\ \A c \in Channel :
          LET q == m_InterleaverQueue[c]
          IN  /\ Ascending(q)
              /\ \A i \in 1..Len(q) :
                    /\ q[i].ch = c
                    /\ \A k \in 1..Len(out) : out[k].ch = c => out[k].id < q[i].id

(* No sample vanishes: each one received was delivered, is queued or was      *)
(* dropped on purpose, and only one of these; and each channel comes out in   *)
(* the order it was received in.                                              *)
Conserved ==
    LET delivered == {s.id : s \in Range(out)}
    IN  /\ TypeOK
        /\ ChannelOrder
        /\ delivered \cup QueuedIds \cup unused = 1..got
        /\ delivered \cap QueuedIds = {}
        /\ unused \cap (delivered \cup QueuedIds) = {}

(* Between two calls some channel is empty: all that can be merged has been,  *)
(* so a sample waits for a silent channel only.                               *)
WaitsForSilentOnly == rpc = "idle" => ~AllReady
=============================================================================
