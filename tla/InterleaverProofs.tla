-------------------------- MODULE InterleaverProofs --------------------------
(***************************************************************************)
(* Theorems about CNX_InterleaverFilter, for any number of channels,       *)
(* samples and times and any queue depth: types, the order of what is      *)
(* delivered, what a sample can wait for, and that none vanishes.          *)
(***************************************************************************)
EXTENDS Interleaver, TLAPS

(* q is in order and has nothing newer than t. *)
Sorted(q, t) ==
    /\ \A i, j \in 1..Len(q) : i < j => q[i].ts <= q[j].ts
    /\ \A i \in 1..Len(q) : q[i].ts <= t

(* q has nothing older than t. *)
NotBefore(q, t) == \A i \in 1..Len(q) : t <= q[i].ts

QueueSorted == \A c \in Channel : Sorted(m_InterleaverQueue[c], clock[c])

(* What was delivered in turn is not newer than anything that is queued or  *)
(* can still be received.                                                   *)
DeliveredFirst ==
    \A k \in 1..Len(out) : out[k].id \notin forced =>
        \A c \in Channel :
            out[k].ts <= clock[c] /\ NotBefore(m_InterleaverQueue[c], out[k].ts)

Ordered == QueueSorted /\ DeliveredFirst /\ OrderedUnlessForced

-----------------------------------------------------------------------------
(***************************************************************************)
(* Types.                                                                  *)
(***************************************************************************)
LEMMA InitTyped == Init => TypeOK
<1>1. Depth > 0 /\ 0 \in Time /\ 0 \in 0..MaxSample
  BY BoundAssumption, ConfigAssumption DEF Time
<1> SUFFICES ASSUME Init PROVE TypeOK
  OBVIOUS
<1>2. /\ m_InterleaverQueue \in [Channel -> Seq(Sample)]
      /\ \A c \in Channel : Len(m_InterleaverQueue[c]) < Depth
  BY <1>1 DEF Init
<1>3. clock \in [Channel -> Time] /\ out \in Seq(Sample)
  BY <1>1 DEF Init
<1> QED BY <1>1, <1>2, <1>3 DEF Init, TypeOK

(* A queue of a typed state. *)
LEMMA QueueTyped ==
    ASSUME TypeOK, NEW c \in Channel
    PROVE  /\ m_InterleaverQueue[c] \in Seq(Sample)
           /\ Len(m_InterleaverQueue[c]) \in Nat
           /\ Len(m_InterleaverQueue[c]) < Depth
<1>1. m_InterleaverQueue[c] \in Seq(Sample) /\ Len(m_InterleaverQueue[c]) < Depth
  BY DEF TypeOK
<1>2. Len(m_InterleaverQueue[c]) \in Nat
  BY <1>1
<1> QED BY <1>1, <1>2

(* A queue with one sample more or less keeps its type. *)
LEMMA AppendTyped ==
    ASSUME NEW q \in Seq(Sample), NEW s \in Sample
    PROVE  Append(q, s) \in Seq(Sample) /\ Len(Append(q, s)) = Len(q) + 1
OBVIOUS

LEMMA TailTyped ==
    ASSUME NEW q \in Seq(Sample), q # <<>>
    PROVE  /\ Head(q) \in Sample /\ Head(q) = q[1]
           /\ Tail(q) \in Seq(Sample) /\ Len(Tail(q)) = Len(q) - 1
           /\ \A i \in 1..Len(Tail(q)) : Tail(q)[i] = q[i + 1]
OBVIOUS

(* The new sample of a call. *)
LEMMA NewSample ==
    ASSUME TypeOK, NEW c \in Channel, NEW ts \in Time, Arrives(c, ts)
    PROVE  /\ [id |-> got + 1, ch |-> c, ts |-> ts] \in Sample
           /\ got + 1 \in 1..MaxSample /\ got' \in 0..MaxSample
           /\ clock' \in [Channel -> Time]
           /\ \A d \in Channel : clock'[d] = IF d = c THEN ts ELSE clock[d]
           /\ clock[c] <= ts
<1>1. got \in 0..MaxSample /\ clock \in [Channel -> Time] /\ got < MaxSample
      /\ ts >= clock[c] /\ got' = got + 1 /\ clock' = [clock EXCEPT ![c] = ts]
  BY DEF TypeOK, Arrives
<1>2. got + 1 \in 1..MaxSample /\ got' \in 0..MaxSample
  BY <1>1, BoundAssumption
<1>3. clock[c] <= ts
  BY <1>1, BoundAssumption DEF Time
<1> QED BY <1>1, <1>2, <1>3 DEF Sample

(* What Pushed does to the queues, in a full queue and in any other. *)
LEMMA PushForced ==
    ASSUME TypeOK, NEW c \in Channel, NEW s \in Sample, Pushed(c, s), IsFull(c)
    PROVE  /\ m_InterleaverQueue[c] # <<>>
           /\ m_InterleaverQueue' =
                 [m_InterleaverQueue EXCEPT ![c] = Append(Tail(m_InterleaverQueue[c]), s)]
           /\ out' = Append(out, Head(m_InterleaverQueue[c]))
           /\ forced' = forced \cup {Head(m_InterleaverQueue[c]).id}
<1>1. m_InterleaverQueue[c] \in Seq(Sample) /\ Len(m_InterleaverQueue[c]) > 0
  BY QueueTyped, ConfigAssumption DEF IsFull
<1> QED BY <1>1 DEF Pushed

LEMMA PushQueued ==
    ASSUME TypeOK, NEW c \in Channel, NEW s \in Sample, Pushed(c, s), ~IsFull(c)
    PROVE  /\ m_InterleaverQueue' =
                 [m_InterleaverQueue EXCEPT ![c] = Append(m_InterleaverQueue[c], s)]
           /\ Len(m_InterleaverQueue[c]) + 1 < Depth
           /\ out' = out /\ forced' = forced
<1>1. Len(m_InterleaverQueue[c]) \in Nat /\ Len(m_InterleaverQueue[c]) < Depth
      /\ Len(m_InterleaverQueue[c]) # Depth - 1
  BY QueueTyped DEF IsFull
<1>2. Len(m_InterleaverQueue[c]) + 1 < Depth
  BY <1>1, ConfigAssumption
<1> QED BY <1>2 DEF Pushed

LEMMA PushTyped ==
    ASSUME TypeOK, NEW c \in Channel, NEW ts \in Time, Push(c, ts)
    PROVE  TypeOK'
<1> DEFINE s == [id |-> got + 1, ch |-> c, ts |-> ts]
           q == m_InterleaverQueue[c]
<1>1. Arrives(c, ts) /\ Pushed(c, s)
  BY DEF Push
<1>2. s \in Sample /\ got' \in 0..MaxSample /\ clock' \in [Channel -> Time]
  BY <1>1, NewSample
<1>3. q \in Seq(Sample) /\ Len(q) \in Nat /\ Len(q) < Depth
  BY QueueTyped
<1>4. /\ m_InterleaverQueue' \in [Channel -> Seq(Sample)]
      /\ \A d \in Channel : Len(m_InterleaverQueue'[d]) < Depth
      /\ out' \in Seq(Sample) /\ forced' \subseteq 1..MaxSample
  <2>1. CASE IsFull(c)
    <3>1. /\ q # <<>> /\ m_InterleaverQueue' = [m_InterleaverQueue EXCEPT ![c] = Append(Tail(q), s)]
          /\ out' = Append(out, Head(q)) /\ forced' = forced \cup {Head(q).id}
      BY <1>1, <1>2, <2>1, PushForced
    <3>2. Head(q) \in Sample /\ Tail(q) \in Seq(Sample) /\ Len(Tail(q)) = Len(q) - 1
      BY <1>3, <3>1, TailTyped
    <3>3. Append(Tail(q), s) \in Seq(Sample) /\ Len(Append(Tail(q), s)) = Len(q)
      BY <1>2, <1>3, <3>2, AppendTyped
    <3>4. out' \in Seq(Sample)
      BY <3>1, <3>2, AppendTyped DEF TypeOK
    <3>5. forced' \subseteq 1..MaxSample
      BY <3>1, <3>2 DEF TypeOK, Sample
    <3> HIDE DEF s, q
    <3> QED BY <1>3, <3>1, <3>3, <3>4, <3>5 DEF TypeOK
  <2>2. CASE ~IsFull(c)
    <3>1. /\ m_InterleaverQueue' = [m_InterleaverQueue EXCEPT ![c] = Append(q, s)]
          /\ Len(q) + 1 < Depth /\ out' = out /\ forced' = forced
      BY <1>1, <1>2, <2>2, PushQueued
    <3>2. Append(q, s) \in Seq(Sample) /\ Len(Append(q, s)) = Len(q) + 1
      BY <1>2, <1>3, AppendTyped
    <3> HIDE DEF s, q
    <3> QED BY <3>1, <3>2 DEF TypeOK
  <2> QED BY <2>1, <2>2
<1>5. rpc' = "merge" /\ m_bStartInterleaver' = TRUE /\ UNCHANGED <<m_bRun, m_bEnable, unused>>
  BY DEF Push
<1> QED BY <1>2, <1>4, <1>5 DEF TypeOK

LEMMA MergeTyped ==
    ASSUME TypeOK, NEW c \in Channel, Merge(c)
    PROVE  TypeOK'
<1> DEFINE q == m_InterleaverQueue[c]
<1>1. q \in Seq(Sample) /\ Len(q) \in Nat /\ Len(q) < Depth /\ q # <<>>
  BY QueueTyped DEF Merge, AllReady, IsReady
<1>2. Head(q) \in Sample /\ Tail(q) \in Seq(Sample) /\ Len(Tail(q)) = Len(q) - 1
  BY <1>1, TailTyped
<1>3. Len(Tail(q)) < Depth
  BY <1>1, <1>2, ConfigAssumption
<1>4. out' \in Seq(Sample)
  BY <1>2, AppendTyped DEF Merge, TypeOK
<1>5. /\ m_InterleaverQueue' = [m_InterleaverQueue EXCEPT ![c] = Tail(q)]
      /\ UNCHANGED <<rpc, m_bRun, m_bEnable, m_bStartInterleaver, clock, got, forced, unused>>
  BY DEF Merge
<1> HIDE DEF q
<1> QED BY <1>2, <1>3, <1>4, <1>5 DEF TypeOK

(* The numbers of queued samples are numbers of samples. *)
LEMMA QueuedIdsTyped == TypeOK => QueuedIds \subseteq 1..MaxSample
<1> SUFFICES ASSUME TypeOK, NEW c \in Channel, NEW s \in Range(m_InterleaverQueue[c])
             PROVE  s.id \in 1..MaxSample
  BY DEF QueuedIds
<1>1. m_InterleaverQueue[c] \in Seq(Sample)
  BY QueueTyped
<1>2. s \in Sample
  BY <1>1 DEF Range
<1> QED BY <1>2 DEF Sample

LEMMA StepTyped == TypeOK /\ [Next]_vars => TypeOK'
<1> SUFFICES ASSUME TypeOK, [Next]_vars PROVE TypeOK'
  OBVIOUS
<1>1. ASSUME NEW c \in Channel, NEW ts \in Time, Drop(c, ts) PROVE TypeOK'
  <2>1. got + 1 \in 1..MaxSample /\ got' \in 0..MaxSample /\ clock' \in [Channel -> Time]
    BY <1>1, NewSample DEF Drop
  <2> QED BY <1>1, <2>1 DEF Drop, TypeOK
<1>2. ASSUME NEW c \in Channel, NEW ts \in Time, NoBuffer(c, ts) PROVE TypeOK'
  <2>1. got + 1 \in 1..MaxSample /\ got' \in 0..MaxSample /\ clock' \in [Channel -> Time]
    BY <1>2, NewSample DEF NoBuffer
  <2> QED BY <1>2, <2>1 DEF NoBuffer, TypeOK
<1>3. ASSUME NEW c \in Channel, NEW ts \in Time, Push(c, ts) PROVE TypeOK'
  BY <1>3, PushTyped
<1>4. ASSUME NEW c \in Channel, Merge(c) PROVE TypeOK'
  BY <1>4, MergeTyped
<1>5. CASE Return
  BY <1>5 DEF Return, TypeOK
<1>6. CASE Run
  BY <1>6 DEF Run, TypeOK
<1>7. CASE Stop
  BY <1>7 DEF Stop, TypeOK
<1>8. ASSUME NEW enable \in BOOLEAN, EnableFilter(enable) PROVE TypeOK'
  <2>1. unused' \subseteq 1..MaxSample
    BY <1>8, QueuedIdsTyped DEF EnableFilter, TypeOK
  <2>2. /\ m_InterleaverQueue' \in [Channel -> Seq(Sample)]
        /\ \A c \in Channel : Len(m_InterleaverQueue'[c]) < Depth
    BY <1>8, ConfigAssumption DEF EnableFilter
  <2> QED BY <1>8, <2>1, <2>2 DEF EnableFilter, TypeOK
<1>9. CASE UNCHANGED vars
  BY <1>9 DEF vars, TypeOK
<1> QED BY <1>1, <1>2, <1>3, <1>4, <1>5, <1>6, <1>7, <1>8, <1>9
       DEF Next, Receive

(* Every variable of the interleaver keeps its type, and no queue is filled up *)
(* to the depth at which PushSample would refuse a sample.                     *)
THEOREM Typing == Spec => []TypeOK
<1> QED BY InitTyped, StepTyped, PTL DEF Spec
-----------------------------------------------------------------------------
(***************************************************************************)
(* Order.                                                                  *)
(***************************************************************************)
(* Times are numbers. *)
LEMMA SampleTime == \A s \in Sample : s.ts \in Int
  BY DEF Sample, Time

LEMMA Clock ==
    ASSUME TypeOK, NEW c \in Channel
    PROVE  clock[c] \in Int
  BY DEF TypeOK, Time

LEMMA OutTime ==
    ASSUME TypeOK, NEW k \in 1..Len(out)
    PROVE  out[k] \in Sample /\ out[k].ts \in Int
<1>1. out[k] \in Sample
  BY DEF TypeOK
<1> QED BY <1>1, SampleTime

LEMMA SortedAppend ==
    ASSUME NEW q \in Seq(Sample), NEW s \in Sample, NEW t \in Int, Sorted(q, t), t <= s.ts
    PROVE  Sorted(Append(q, s), s.ts)
<1>1. \A i \in 1..Len(q) : q[i].ts \in Int /\ q[i].ts <= s.ts
  BY SampleTime DEF Sorted
<1>2. \A i \in 1..Len(Append(q, s)) :
         (i \in 1..Len(q) /\ Append(q, s)[i] = q[i]) \/ (i = Len(q) + 1 /\ Append(q, s)[i] = s)
  OBVIOUS
<1>3. s.ts \in Int
  BY SampleTime
<1>4. \A i \in 1..Len(Append(q, s)) : Append(q, s)[i].ts <= s.ts
  BY <1>1, <1>2, <1>3
<1>5. ASSUME NEW i \in 1..Len(Append(q, s)), NEW j \in 1..Len(Append(q, s)), i < j
      PROVE  Append(q, s)[i].ts <= Append(q, s)[j].ts
  <2>1. i \in 1..Len(q) /\ Append(q, s)[i] = q[i]
    BY <1>2, <1>5
  <2>2. CASE j \in 1..Len(q) /\ Append(q, s)[j] = q[j]
    BY <1>5, <2>1, <2>2 DEF Sorted
  <2>3. CASE j = Len(q) + 1 /\ Append(q, s)[j] = s
    BY <1>1, <2>1, <2>3
  <2> QED BY <1>2, <2>2, <2>3
<1> QED BY <1>4, <1>5 DEF Sorted

LEMMA SortedTail ==
    ASSUME NEW q \in Seq(Sample), q # <<>>, NEW t \in Int, Sorted(q, t)
    PROVE  /\ Sorted(Tail(q), t)
           /\ NotBefore(Tail(q), Head(q).ts)
           /\ NotBefore(q, Head(q).ts)
           /\ Head(q).ts <= t
<1>1. /\ Head(q) = q[1] /\ Tail(q) \in Seq(Sample) /\ Len(Tail(q)) = Len(q) - 1
      /\ \A i \in 1..Len(Tail(q)) : Tail(q)[i] = q[i + 1]
  BY TailTyped
<1>2. Len(q) \in Nat /\ Len(q) > 0
  OBVIOUS
<1>3. \A i \in 1..Len(Tail(q)) : i + 1 \in 1..Len(q)
  BY <1>1, <1>2
<1>4. Sorted(Tail(q), t)
  BY <1>1, <1>3 DEF Sorted
<1>5. \A i \in 1..Len(q) : q[1].ts <= q[i].ts
  <2> SUFFICES ASSUME NEW i \in 1..Len(q) PROVE q[1].ts <= q[i].ts
    OBVIOUS
  <2>1. q[1].ts \in Int /\ 1 \in 1..Len(q)
    BY <1>2, SampleTime
  <2>2. CASE i = 1
    BY <2>1, <2>2
  <2>3. CASE i # 1
    BY <2>1, <2>3 DEF Sorted
  <2> QED BY <2>2, <2>3
<1>6. NotBefore(Tail(q), Head(q).ts) /\ NotBefore(q, Head(q).ts)
  BY <1>1, <1>3, <1>5 DEF NotBefore
<1>7. Head(q).ts <= t
  BY <1>1, <1>2 DEF Sorted
<1> QED BY <1>4, <1>6, <1>7

LEMMA NotBeforeAppend ==
    ASSUME NEW q \in Seq(Sample), NEW s \in Sample, NEW t \in Int,
           NotBefore(q, t), t <= s.ts
    PROVE  NotBefore(Append(q, s), t)
<1>1. \A i \in 1..Len(Append(q, s)) :
         (i \in 1..Len(q) /\ Append(q, s)[i] = q[i]) \/ (i = Len(q) + 1 /\ Append(q, s)[i] = s)
  OBVIOUS
<1> QED BY <1>1 DEF NotBefore

LEMMA NotBeforeTail ==
    ASSUME NEW q \in Seq(Sample), q # <<>>, NEW t \in Int, NotBefore(q, t)
    PROVE  NotBefore(Tail(q), t) /\ t <= Head(q).ts
<1>1. /\ Head(q) = q[1] /\ Len(Tail(q)) = Len(q) - 1 /\ 1 \in 1..Len(q)
      /\ \A i \in 1..Len(Tail(q)) : Tail(q)[i] = q[i + 1] /\ i + 1 \in 1..Len(q)
  BY TailTyped
<1> QED BY <1>1 DEF NotBefore

(* A delivery keeps the order when it is not before what came in turn. *)
LEMMA DeliverInOrder ==
    ASSUME TypeOK, OrderedUnlessForced, NEW m \in Sample, out' = Append(out, m),
           forced \subseteq forced',
           \A k \in 1..Len(out) : out[k].id \notin forced => out[k].ts <= m.ts
    PROVE  OrderedUnlessForced'
<1>1. out \in Seq(Sample)
  BY DEF TypeOK
<1>2. \A i \in 1..Len(out') :
         (i \in 1..Len(out) /\ out'[i] = out[i]) \/ (i = Len(out) + 1 /\ out'[i] = m)
  BY <1>1
<1>3. \A k \in 1..Len(out) : out[k].ts \in Int
  BY OutTime
<1>4. m.ts \in Int
  BY SampleTime
<1> SUFFICES ASSUME NEW i \in 1..Len(out'), NEW j \in 1..Len(out'), i < j,
                    out'[i].ts > out'[j].ts
             PROVE  out'[i].id \in forced'
  BY DEF OrderedUnlessForced
<1>5. i \in 1..Len(out) /\ out'[i] = out[i]
  BY <1>1, <1>2
<1>6. CASE j \in 1..Len(out) /\ out'[j] = out[j]
  BY <1>5, <1>6 DEF OrderedUnlessForced
<1>7. CASE j = Len(out) + 1 /\ out'[j] = m
  BY <1>3, <1>4, <1>5, <1>7
<1> QED BY <1>2, <1>6, <1>7
-----------------------------------------------------------------------------
LEMMA InitOrdered == Init => Ordered
<1> SUFFICES ASSUME Init PROVE Ordered
  OBVIOUS
<1>1. QueueSorted
  BY DEF Init, QueueSorted, Sorted
<1>2. DeliveredFirst /\ OrderedUnlessForced
  BY DEF Init, DeliveredFirst, OrderedUnlessForced
<1> QED BY <1>1, <1>2 DEF Ordered

(* The clocks go on, the queues do not change. *)
LEMMA DropOrdered ==
    ASSUME TypeOK, Ordered, NEW c \in Channel, NEW ts \in Time,
           Drop(c, ts) \/ NoBuffer(c, ts)
    PROVE  Ordered'
<1>1. /\ \A d \in Channel : clock'[d] = IF d = c THEN ts ELSE clock[d]
      /\ clock[c] <= ts /\ UNCHANGED <<m_InterleaverQueue, out, forced>>
  BY NewSample DEF Drop, NoBuffer
<1>2. \A d \in Channel : clock[d] <= clock'[d] /\ clock[d] \in Int /\ clock'[d] \in Int
  BY <1>1, Clock DEF Time
<1>3. QueueSorted'
  <2> SUFFICES ASSUME NEW d \in Channel PROVE Sorted(m_InterleaverQueue[d], clock'[d])
    BY <1>1 DEF QueueSorted
  <2>1. Sorted(m_InterleaverQueue[d], clock[d])
    BY DEF Ordered, QueueSorted
  <2>2. \A i \in 1..Len(m_InterleaverQueue[d]) : m_InterleaverQueue[d][i].ts \in Int
    BY QueueTyped, SampleTime
  <2> QED BY <1>2, <2>1, <2>2 DEF Sorted
<1>4. DeliveredFirst'
  BY <1>1, <1>2, OutTime DEF Ordered, DeliveredFirst
<1>5. OrderedUnlessForced'
  BY <1>1 DEF Ordered, OrderedUnlessForced
<1> QED BY <1>3, <1>4, <1>5 DEF Ordered

(* A sample that is not older than its channel's clock goes to the end of its *)
(* queue; q is what is left of that queue when the oldest was forced out.     *)
LEMMA QueueGrows ==
    ASSUME TypeOK, Ordered, NEW c \in Channel, NEW s \in Sample, NEW q \in Seq(Sample),
           clock[c] <= s.ts, Sorted(q, clock[c]),
           m_InterleaverQueue' = [m_InterleaverQueue EXCEPT ![c] = Append(q, s)],
           clock' = [clock EXCEPT ![c] = s.ts]
    PROVE  QueueSorted'
<1> SUFFICES ASSUME NEW d \in Channel PROVE Sorted(m_InterleaverQueue'[d], clock'[d])
  BY DEF QueueSorted
<1>1. CASE d = c
  <2>1. Sorted(Append(q, s), s.ts)
    BY Clock, SortedAppend
  <2>2. m_InterleaverQueue'[c] = Append(q, s) /\ clock'[c] = s.ts
    BY DEF TypeOK
  <2> QED BY <1>1, <2>1, <2>2
<1>2. CASE d # c
  <2>1. m_InterleaverQueue'[d] = m_InterleaverQueue[d] /\ clock'[d] = clock[d]
    BY <1>2 DEF TypeOK
  <2> QED BY <2>1 DEF Ordered, QueueSorted
<1> QED BY <1>1, <1>2

(* What came in turn stays before all that is queued. *)
LEMMA StaysBefore ==
    ASSUME TypeOK, Ordered, NEW c \in Channel, NEW s \in Sample, NEW q \in Seq(Sample),
           clock[c] <= s.ts,
           m_InterleaverQueue' = [m_InterleaverQueue EXCEPT ![c] = Append(q, s)],
           clock' = [clock EXCEPT ![c] = s.ts],
           NEW k \in 1..Len(out), out[k].id \notin forced, NotBefore(q, out[k].ts)
    PROVE  \A d \in Channel :
               out[k].ts <= clock'[d] /\ NotBefore(m_InterleaverQueue'[d], out[k].ts)
<1> SUFFICES ASSUME NEW d \in Channel
             PROVE  out[k].ts <= clock'[d] /\ NotBefore(m_InterleaverQueue'[d], out[k].ts)
  OBVIOUS
<1>1. /\ out[k].ts \in Int /\ s.ts \in Int /\ clock[c] \in Int
      /\ out[k].ts <= clock[c] /\ out[k].ts <= clock[d]
      /\ NotBefore(m_InterleaverQueue[d], out[k].ts)
  BY OutTime, SampleTime, Clock DEF Ordered, DeliveredFirst
<1>2. CASE d = c
  <2>1. m_InterleaverQueue'[c] = Append(q, s) /\ clock'[c] = s.ts
    BY DEF TypeOK
  <2>2. out[k].ts <= s.ts
    BY <1>1
  <2>3. NotBefore(Append(q, s), out[k].ts)
    BY <1>1, <2>2, NotBeforeAppend
  <2> QED BY <1>2, <2>1, <2>2, <2>3
<1>3. CASE d # c
  <2>1. m_InterleaverQueue'[d] = m_InterleaverQueue[d] /\ clock'[d] = clock[d]
    BY <1>3 DEF TypeOK
  <2> QED BY <1>1, <2>1
<1> QED BY <1>2, <1>3

LEMMA PushOrdered ==
    ASSUME TypeOK, Ordered, NEW c \in Channel, NEW ts \in Time, Push(c, ts)
    PROVE  Ordered'
<1> DEFINE s == [id |-> got + 1, ch |-> c, ts |-> ts]
           q == m_InterleaverQueue[c]
<1>1. Arrives(c, ts) /\ Pushed(c, s)
  BY DEF Push
<1>2. s \in Sample /\ clock[c] <= s.ts /\ clock' = [clock EXCEPT ![c] = s.ts]
  BY <1>1, NewSample DEF Arrives
<1>3. q \in Seq(Sample) /\ Sorted(q, clock[c]) /\ clock[c] \in Int
  BY QueueTyped, Clock DEF Ordered, QueueSorted
<1>4. \A k \in 1..Len(out) : out[k].id \notin forced =>
         NotBefore(q, out[k].ts) /\ out[k].ts \in Int
  BY OutTime DEF Ordered, DeliveredFirst
<1>5. CASE IsFull(c)
  <2>1. /\ q # <<>> /\ m_InterleaverQueue' = [m_InterleaverQueue EXCEPT ![c] = Append(Tail(q), s)]
        /\ out' = Append(out, Head(q)) /\ forced' = forced \cup {Head(q).id}
    BY <1>1, <1>2, <1>5, PushForced
  <2>2. Head(q) \in Sample /\ Tail(q) \in Seq(Sample) /\ Sorted(Tail(q), clock[c])
    BY <1>3, <2>1, TailTyped, SortedTail
  <2>3. \A k \in 1..Len(out) : out[k].id \notin forced =>
           NotBefore(Tail(q), out[k].ts) /\ out[k].ts <= Head(q).ts
    BY <1>3, <1>4, <2>1, NotBeforeTail
  <2> HIDE DEF s, q
  <2>4. QueueSorted'
    BY <1>2, <2>1, <2>2, QueueGrows
  <2>5. DeliveredFirst'
    <3> SUFFICES ASSUME NEW k \in 1..Len(out'), out'[k].id \notin forced'
                 PROVE  \A d \in Channel :
                            /\ out'[k].ts <= clock'[d]
                            /\ NotBefore(m_InterleaverQueue'[d], out'[k].ts)
      BY DEF DeliveredFirst
    <3>1. k \in 1..Len(out) /\ out'[k] = out[k] /\ out[k].id \notin forced
      <4>1. out \in Seq(Sample)
        BY DEF TypeOK
      <4>2. (k \in 1..Len(out) /\ out'[k] = out[k]) \/ out'[k] = Head(q)
        BY <2>1, <4>1
      <4> QED BY <2>1, <4>2
    <3> QED BY <1>2, <2>1, <2>2, <2>3, <3>1, StaysBefore
  <2>6. OrderedUnlessForced'
    BY <2>1, <2>2, <2>3, DeliverInOrder DEF Ordered
  <2> QED BY <2>4, <2>5, <2>6 DEF Ordered
<1>6. CASE ~IsFull(c)
  <2>1. /\ m_InterleaverQueue' = [m_InterleaverQueue EXCEPT ![c] = Append(q, s)]
        /\ out' = out /\ forced' = forced
    BY <1>1, <1>2, <1>6, PushQueued
  <2> HIDE DEF s, q
  <2>2. QueueSorted'
    BY <1>2, <1>3, <2>1, QueueGrows
  <2>3. DeliveredFirst'
    <3> SUFFICES ASSUME NEW k \in 1..Len(out), out[k].id \notin forced
                 PROVE  \A d \in Channel :
                            /\ out[k].ts <= clock'[d]
                            /\ NotBefore(m_InterleaverQueue'[d], out[k].ts)
      BY <2>1 DEF DeliveredFirst
    <3> QED BY <1>2, <1>3, <1>4, <2>1, StaysBefore
  <2>4. OrderedUnlessForced'
    BY <2>1 DEF Ordered, OrderedUnlessForced
  <2> QED BY <2>2, <2>3, <2>4 DEF Ordered
<1> QED BY <1>5, <1>6

(* The sample delivered in turn is not newer than the head of any queue. *)
LEMMA MergeOrdered ==
    ASSUME TypeOK, Ordered, NEW c \in Channel, Merge(c)
    PROVE  Ordered'
<1> DEFINE q == m_InterleaverQueue[c]
           m == Head(q)
<1>1. /\ q \in Seq(Sample) /\ q # <<>> /\ out' = Append(out, m)
      /\ m_InterleaverQueue' = [m_InterleaverQueue EXCEPT ![c] = Tail(q)]
      /\ UNCHANGED <<clock, forced>>
  BY QueueTyped DEF Merge, AllReady, IsReady
<1>2. m \in Sample /\ m.ts \in Int /\ Tail(q) \in Seq(Sample)
  BY <1>1, TailTyped, SampleTime
<1>3. \A d \in Channel : m_InterleaverQueue'[d] = IF d = c THEN Tail(q) ELSE m_InterleaverQueue[d]
  BY <1>1 DEF TypeOK
<1>4. QueueSorted'
  <2>1. Sorted(Tail(q), clock[c])
    BY <1>1, Clock, SortedTail DEF Ordered, QueueSorted
  <2> HIDE DEF q
  <2> QED BY <1>1, <1>3, <2>1 DEF Ordered, QueueSorted
<1>5. \A d \in Channel : m.ts <= clock[d] /\ NotBefore(m_InterleaverQueue'[d], m.ts)
  <2> SUFFICES ASSUME NEW d \in Channel
               PROVE  m.ts <= clock[d] /\ NotBefore(m_InterleaverQueue'[d], m.ts)
    OBVIOUS
  <2> DEFINE r == m_InterleaverQueue[d]
  <2>1. r \in Seq(Sample) /\ r # <<>> /\ clock[d] \in Int /\ Sorted(r, clock[d])
    BY QueueTyped, Clock DEF Merge, AllReady, IsReady, Ordered, QueueSorted
  <2>2. Head(r).ts \in Int /\ Head(r).ts <= clock[d] /\ NotBefore(r, Head(r).ts)
    BY <2>1, TailTyped, SampleTime, SortedTail
  <2>3. m.ts <= Head(r).ts
    BY DEF Merge, Fastest, GetSampleTimeStamp
  <2>4. m.ts <= clock[d]
    BY <1>2, <2>1, <2>2, <2>3
  <2>5. NotBefore(r, m.ts)
    <3>1. \A i \in 1..Len(r) : r[i].ts \in Int
      BY <2>1, SampleTime
    <3> HIDE DEF m, r
    <3> QED BY <1>2, <2>2, <2>3, <3>1 DEF NotBefore
  <2>6. NotBefore(Tail(q), m.ts)
    BY <1>1, Clock, SortedTail DEF Ordered, QueueSorted
  <2> HIDE DEF m, q
  <2> QED BY <1>3, <2>4, <2>5, <2>6
<1>6. \A k \in 1..Len(out) : out[k].id \notin forced =>
         /\ out[k].ts <= m.ts
         /\ \A d \in Channel :
               out[k].ts <= clock[d] /\ NotBefore(m_InterleaverQueue'[d], out[k].ts)
  <2> SUFFICES ASSUME NEW k \in 1..Len(out), out[k].id \notin forced
               PROVE  /\ out[k].ts <= m.ts
                      /\ \A d \in Channel : /\ out[k].ts <= clock[d]
                                             /\ NotBefore(m_InterleaverQueue'[d], out[k].ts)
    OBVIOUS
  <2>1. \A d \in Channel : out[k].ts <= clock[d] /\ NotBefore(m_InterleaverQueue[d], out[k].ts)
    BY DEF Ordered, DeliveredFirst
  <2>2. NotBefore(Tail(q), out[k].ts) /\ out[k].ts <= m.ts
    BY <1>1, <2>1, OutTime, NotBeforeTail
  <2> HIDE DEF m, q
  <2> QED BY <1>3, <2>1, <2>2
<1> HIDE DEF m, q
<1>7. DeliveredFirst'
  <2> SUFFICES ASSUME NEW k \in 1..Len(out'), out'[k].id \notin forced
               PROVE  \A d \in Channel :
                          out'[k].ts <= clock[d] /\ NotBefore(m_InterleaverQueue'[d], out'[k].ts)
    BY <1>1 DEF DeliveredFirst
  <2>1. out \in Seq(Sample)
    BY DEF TypeOK
  <2>2. (k \in 1..Len(out) /\ out'[k] = out[k]) \/ out'[k] = m
    BY <1>1, <2>1
  <2> QED BY <1>5, <1>6, <2>2
<1>8. OrderedUnlessForced'
  BY <1>1, <1>2, <1>6, DeliverInOrder DEF Ordered
<1> QED BY <1>4, <1>7, <1>8 DEF Ordered

(* Empty queues are in order. *)
LEMMA FlushOrdered ==
    ASSUME TypeOK, Ordered, NEW enable \in BOOLEAN, EnableFilter(enable)
    PROVE  Ordered'
<1>1. /\ \A d \in Channel : m_InterleaverQueue'[d] = <<>>
      /\ UNCHANGED <<clock, out, forced>>
  BY DEF EnableFilter
<1>2. QueueSorted'
  BY <1>1 DEF QueueSorted, Sorted
<1>3. DeliveredFirst'
  BY <1>1 DEF Ordered, DeliveredFirst, NotBefore
<1>4. OrderedUnlessForced'
  BY <1>1 DEF Ordered, OrderedUnlessForced
<1> QED BY <1>2, <1>3, <1>4 DEF Ordered

LEMMA UnchangedOrdered ==
    ASSUME Ordered, UNCHANGED <<m_InterleaverQueue, clock, out, forced>>
    PROVE  Ordered'
  BY DEF Ordered, QueueSorted, DeliveredFirst, OrderedUnlessForced

LEMMA StepOrdered == TypeOK /\ Ordered /\ [Next]_vars => Ordered'
<1> SUFFICES ASSUME TypeOK, Ordered, [Next]_vars PROVE Ordered'
  OBVIOUS
<1>1. ASSUME NEW c \in Channel, NEW ts \in Time, Drop(c, ts) PROVE Ordered'
  BY <1>1, DropOrdered
<1>2. ASSUME NEW c \in Channel, NEW ts \in Time, NoBuffer(c, ts) PROVE Ordered'
  BY <1>2, DropOrdered
<1>3. ASSUME NEW c \in Channel, NEW ts \in Time, Push(c, ts) PROVE Ordered'
  BY <1>3, PushOrdered
<1>4. ASSUME NEW c \in Channel, Merge(c) PROVE Ordered'
  BY <1>4, MergeOrdered
<1>5. CASE Return
  BY <1>5, UnchangedOrdered DEF Return
<1>6. CASE Run
  BY <1>6, UnchangedOrdered DEF Run
<1>7. CASE Stop
  BY <1>7, UnchangedOrdered DEF Stop
<1>8. ASSUME NEW enable \in BOOLEAN, EnableFilter(enable) PROVE Ordered'
  BY <1>8, FlushOrdered
<1>9. CASE UNCHANGED vars
  BY <1>9, UnchangedOrdered DEF vars
<1> QED BY <1>1, <1>2, <1>3, <1>4, <1>5, <1>6, <1>7, <1>8, <1>9
       DEF Next, Receive

(* Whatever is followed by an earlier sample was forced out of a full queue: *)
(* merging keeps the order for any number of channels and any queue depth,   *)
(* over restarts and flushes.                                                *)
THEOREM InOrder == Spec => []OrderedUnlessForced
<1>1. Ordered => OrderedUnlessForced
  BY DEF Ordered
<1> QED BY InitTyped, InitOrdered, StepTyped, StepOrdered, <1>1, PTL DEF Spec
-----------------------------------------------------------------------------
(***************************************************************************)
(* Waiting.                                                                *)
(***************************************************************************)
LEMMA InitSilent == Init => WaitsForSilentOnly
<1>1. 0 \in Channel
  BY ConfigAssumption DEF Channel
<1> QED BY <1>1 DEF Init, WaitsForSilentOnly, AllReady, IsReady

LEMMA StepSilent == WaitsForSilentOnly /\ [Next]_vars => WaitsForSilentOnly'
<1> SUFFICES ASSUME WaitsForSilentOnly, [Next]_vars, rpc' = "idle" PROVE ~AllReady'
  BY DEF WaitsForSilentOnly
<1> USE DEF WaitsForSilentOnly, AllReady, IsReady
<1>1. ASSUME NEW c \in Channel, NEW ts \in Time, Drop(c, ts) PROVE ~AllReady'
  BY <1>1 DEF Drop, Arrives
<1>2. ASSUME NEW c \in Channel, NEW ts \in Time, NoBuffer(c, ts) PROVE ~AllReady'
  BY <1>2 DEF NoBuffer, Arrives
<1>3. ASSUME NEW c \in Channel, NEW ts \in Time, Push(c, ts) PROVE ~AllReady'
  BY <1>3 DEF Push
<1>4. ASSUME NEW c \in Channel, Merge(c) PROVE ~AllReady'
  BY <1>4 DEF Merge
<1>5. CASE Return
  BY <1>5 DEF Return
<1>6. CASE Run
  BY <1>6 DEF Run
<1>7. CASE Stop
  BY <1>7 DEF Stop
<1>8. ASSUME NEW enable \in BOOLEAN, EnableFilter(enable) PROVE ~AllReady'
  <2>1. 0 \in Channel
    BY ConfigAssumption DEF Channel
  <2> QED BY <1>8, <2>1 DEF EnableFilter
<1>9. CASE UNCHANGED vars
  BY <1>9 DEF vars
<1> QED BY <1>1, <1>2, <1>3, <1>4, <1>5, <1>6, <1>7, <1>8, <1>9
       DEF Next, Receive

(* When no encoder is in Receive, a sample is only kept back because some other *)
(* channel has nothing.                                                        *)
THEOREM SilentOnly == Spec => []WaitsForSilentOnly
<1> QED BY InitSilent, StepSilent, PTL DEF Spec
-----------------------------------------------------------------------------
(***************************************************************************)
(* Conservation.  The books are kept over any queues Q, any delivered      *)
(* samples O, dropped numbers U and count g, so that a step that forces a  *)
(* sample out and queues another one is the one after the other.           *)
(***************************************************************************)
Held(Q) == UNION {{s.id : s \in Range(Q[c])} : c \in Channel}
Sent(O) == {s.id : s \in Range(O)}

InLine(Q, O) ==
    /\ Ascending(O)
    /\ \A c \in Channel :
          /\ Ascending(Q[c])
          /\ \A i \in 1..Len(Q[c]) :
                /\ Q[c][i].ch = c
                /\ \A k \in 1..Len(O) : O[k].ch = c => O[k].id < Q[c][i].id
Apart(Q) ==
    \A c, d \in Channel : c # d =>
        \A i \in 1..Len(Q[c]), j \in 1..Len(Q[d]) : Q[c][i].id # Q[d][j].id
Books(Q, O, U, g) ==
    /\ InLine(Q, O) /\ Apart(Q)
    /\ Sent(O) \cup Held(Q) \cup U = 1..g
    /\ Sent(O) \cap Held(Q) = {}
    /\ U \cap (Sent(O) \cup Held(Q)) = {}

LEMMA HeldAt ==
    ASSUME NEW Q \in [Channel -> Seq(Sample)]
    PROVE  \A x : x \in Held(Q) <=> \E c \in Channel : \E i \in 1..Len(Q[c]) : x = Q[c][i].id
<1> DEFINE Ids(c) == {s.id : s \in Range(Q[c])}
<1>1. \A c \in Channel : DOMAIN Q[c] = 1..Len(Q[c])
  OBVIOUS
<1>2. \A c \in Channel : \A x : x \in Ids(c) <=> \E i \in 1..Len(Q[c]) : x = Q[c][i].id
  BY <1>1 DEF Range
<1>3. \A x : x \in Held(Q) <=> \E c \in Channel : x \in Ids(c)
  BY DEF Held
<1> HIDE DEF Ids
<1> QED BY <1>2, <1>3

LEMMA SentAt ==
    ASSUME NEW O \in Seq(Sample)
    PROVE  \A x : x \in Sent(O) <=> \E k \in 1..Len(O) : x = O[k].id
<1>1. DOMAIN O = 1..Len(O)
  OBVIOUS
<1> QED BY <1>1 DEF Sent, Range

LEMMA AppendAt ==
    ASSUME NEW q \in Seq(Sample), NEW s \in Sample
    PROVE  /\ Len(q) \in Nat /\ Len(Append(q, s)) = Len(q) + 1
           /\ \A i \in 1..Len(q) : i \in 1..Len(Append(q, s)) /\ Append(q, s)[i] = q[i]
           /\ Len(q) + 1 \in 1..Len(Append(q, s)) /\ Append(q, s)[Len(q) + 1] = s
           /\ \A i \in 1..Len(Append(q, s)) : i \in 1..Len(q) \/ i = Len(q) + 1
  OBVIOUS

LEMMA TailAt ==
    ASSUME NEW q \in Seq(Sample), q # <<>>
    PROVE  /\ Len(q) \in Nat \ {0} /\ Head(q) = q[1] /\ 1 \in 1..Len(q) /\ Head(q) \in Sample
           /\ \A i \in 1..Len(Tail(q)) : i + 1 \in 1..Len(q) /\ Tail(q)[i] = q[i + 1] /\ 1 < i + 1
           /\ \A i \in 1..Len(q) : i = 1 \/ (i - 1 \in 1..Len(Tail(q)) /\ Tail(q)[i - 1] = q[i])
<1>1. Len(q) \in Nat \ {0} /\ Head(q) = q[1] /\ Len(Tail(q)) = Len(q) - 1 /\ Head(q) \in Sample
      /\ \A i \in 1..Len(Tail(q)) : Tail(q)[i] = q[i + 1]
  OBVIOUS
<1>2. \A i \in 1..Len(q) : i # 1 => i - 1 \in 1..Len(Tail(q)) /\ Tail(q)[i - 1] = q[i]
  <2> TAKE i \in 1..Len(q)
  <2>1. i # 1 => i - 1 \in 1..Len(Tail(q)) /\ (i - 1) + 1 = i
    BY <1>1
  <2> QED BY <1>1, <2>1
<1> QED BY <1>1, <1>2

(* A new sample at the end of a queue, or of what was delivered. *)
LEMMA AscendingAppend ==
    ASSUME NEW q \in Seq(Sample), NEW s \in Sample, Ascending(q),
           \A i \in 1..Len(q) : q[i].ch = s.ch => q[i].id < s.id
    PROVE  Ascending(Append(q, s))
<1> DEFINE r == Append(q, s)
<1> SUFFICES ASSUME NEW i \in 1..Len(r), NEW j \in 1..Len(r), i < j, r[i].ch = r[j].ch
             PROVE  r[i].id < r[j].id
  BY DEF Ascending
<1>1. i \in 1..Len(q) /\ r[i] = q[i] /\ ((j \in 1..Len(q) /\ r[j] = q[j]) \/ r[j] = s)
  BY AppendAt
<1> HIDE DEF r
<1> QED BY <1>1 DEF Ascending

LEMMA AscendingTail ==
    ASSUME NEW q \in Seq(Sample), q # <<>>, Ascending(q)
    PROVE  Ascending(Tail(q))
<1> DEFINE r == Tail(q)
<1> SUFFICES ASSUME NEW i \in 1..Len(r), NEW j \in 1..Len(r), i < j, r[i].ch = r[j].ch
             PROVE  r[i].id < r[j].id
  BY DEF Ascending
<1>1. /\ r[i] = q[i + 1] /\ r[j] = q[j + 1] /\ i + 1 \in 1..Len(q) /\ j + 1 \in 1..Len(q)
      /\ i + 1 < j + 1
  BY TailAt
<1> HIDE DEF r
<1> QED BY <1>1 DEF Ascending

(* The oldest sample of a queue is delivered. *)
LEMMA BooksDeliver ==
    ASSUME NEW Q \in [Channel -> Seq(Sample)], NEW O \in Seq(Sample), NEW U, NEW g,
           Books(Q, O, U, g), NEW c \in Channel, Q[c] # <<>>
    PROVE  Books([Q EXCEPT ![c] = Tail(Q[c])], Append(O, Head(Q[c])), U, g)
<1> DEFINE m == Head(Q[c])
           R == [Q EXCEPT ![c] = Tail(Q[c])]
           P == Append(O, m)
<1>q. Q[c] \in Seq(Sample) /\ Tail(Q[c]) \in Seq(Sample)
  OBVIOUS
<1>1. /\ R \in [Channel -> Seq(Sample)] /\ R[c] = Tail(Q[c])
      /\ \A d \in Channel : d # c => R[d] = Q[d]
  BY <1>q
<1>2. m \in Sample /\ m = Q[c][1] /\ 1 \in 1..Len(Q[c]) /\ m.ch = c /\ P \in Seq(Sample)
  BY <1>q, TailAt DEF Books, InLine
<1>3. \A d \in Channel : \A i \in 1..Len(R[d]) : \E j \in 1..Len(Q[d]) :
         R[d][i] = Q[d][j] /\ (d = c => 1 < j)
  BY <1>q, <1>1, TailAt
<1>4. \A d \in Channel : \A j \in 1..Len(Q[d]) :
         (d = c /\ j = 1) \/ \E i \in 1..Len(R[d]) : R[d][i] = Q[d][j]
  <2> TAKE d \in Channel
  <2> TAKE j \in 1..Len(Q[d])
  <2>1. CASE d = c /\ j # 1
    <3>1. j - 1 \in 1..Len(R[d]) /\ R[d][j - 1] = Q[d][j]
      BY <1>q, <1>1, <2>1, TailAt
    <3> QED BY <3>1
  <2>2. CASE d # c
    BY <1>1, <2>2
  <2> QED BY <2>1, <2>2
<1>5. \A k \in 1..Len(P) : (k \in 1..Len(O) /\ P[k] = O[k]) \/ P[k] = m
  BY <1>2, AppendAt
<1>6. \A d \in Channel : \A i \in 1..Len(R[d]) : R[d][i].id # m.id /\ (d = c => m.id < R[d][i].id)
  <2> TAKE d \in Channel
  <2> TAKE i \in 1..Len(R[d])
  <2>1. PICK j \in 1..Len(Q[d]) : R[d][i] = Q[d][j] /\ (d = c => 1 < j)
    BY <1>3
  <2>2. CASE d = c
    <3>1. Q[c][1].id < Q[c][j].id
      <4>1. Ascending(Q[c]) /\ Q[c][1].ch = Q[c][j].ch
        BY <1>2, <2>1, <2>2 DEF Books, InLine
      <4> QED BY <1>2, <2>1, <2>2, <4>1 DEF Ascending
    <3>2. Q[c][1].id \in Int
      BY <1>2 DEF Sample
    <3>3. Q[c][j].id \in Int
      <4>1. Q[c][j] \in Sample
        BY <1>q, <2>2
      <4> QED BY <4>1 DEF Sample
    <3> QED BY <1>2, <2>1, <2>2, <3>1, <3>2, <3>3
  <2>3. CASE d # c
    BY <1>2, <2>1, <2>3 DEF Books, Apart
  <2> QED BY <2>2, <2>3
<1> HIDE DEF m, R, P
<1>7. InLine(R, P)
  <2>1. Ascending(P)
    <3>1. \A i \in 1..Len(O) : O[i].ch = m.ch => O[i].id < m.id
      BY <1>2 DEF Books, InLine
    <3> QED BY <1>2, <3>1, AscendingAppend DEF Books, InLine, P
  <2>2. ASSUME NEW d \in Channel PROVE Ascending(R[d])
    BY <1>q, <1>1, AscendingTail DEF Books, InLine
  <2>3. ASSUME NEW d \in Channel, NEW i \in 1..Len(R[d])
        PROVE  R[d][i].ch = d /\ \A k \in 1..Len(P) : P[k].ch = d => P[k].id < R[d][i].id
    <3>1. PICK j \in 1..Len(Q[d]) : R[d][i] = Q[d][j]
      BY <1>3
    <3>2. Q[d][j].ch = d /\ \A k \in 1..Len(O) : O[k].ch = d => O[k].id < Q[d][j].id
      BY DEF Books, InLine
    <3>3. m.ch = d => d = c
      BY <1>2
    <3>4. ASSUME NEW k \in 1..Len(P), P[k].ch = d PROVE P[k].id < R[d][i].id
      <4>1. CASE k \in 1..Len(O) /\ P[k] = O[k]
        BY <3>1, <3>2, <3>4, <4>1
      <4>2. CASE P[k] = m
        BY <1>6, <3>3, <3>4, <4>2
      <4> QED BY <1>5, <4>1, <4>2
    <3> QED BY <3>1, <3>2, <3>4
  <2> QED BY <2>1, <2>2, <2>3 DEF InLine
<1>8. Apart(R)
  <2> SUFFICES ASSUME NEW a \in Channel, NEW b \in Channel, a # b,
                      NEW i \in 1..Len(R[a]), NEW j \in 1..Len(R[b])
               PROVE  R[a][i].id # R[b][j].id
    BY DEF Apart
  <2>1. PICK x \in 1..Len(Q[a]) : R[a][i] = Q[a][x]
    BY <1>3
  <2>2. PICK y \in 1..Len(Q[b]) : R[b][j] = Q[b][y]
    BY <1>3
  <2> QED BY <2>1, <2>2 DEF Books, Apart
<1>9. Held(Q) = Held(R) \cup {m.id} /\ m.id \notin Held(R)
  <2>1. ASSUME NEW x \in Held(Q) PROVE x \in Held(R) \cup {m.id}
    <3>1. PICK d \in Channel : \E j \in 1..Len(Q[d]) : x = Q[d][j].id
      BY HeldAt
    <3>2. PICK j \in 1..Len(Q[d]) : x = Q[d][j].id
      BY <3>1
    <3>3. CASE d = c /\ j = 1
      BY <1>2, <3>2, <3>3
    <3>4. CASE \E i \in 1..Len(R[d]) : R[d][i] = Q[d][j]
      <4>1. \E i \in 1..Len(R[d]) : x = R[d][i].id
        BY <3>2, <3>4
      <4> QED BY <1>1, <4>1, HeldAt
    <3> QED BY <1>4, <3>3, <3>4
  <2>2. ASSUME NEW x \in Held(R) PROVE x \in Held(Q) /\ x # m.id
    <3>1. PICK d \in Channel : \E i \in 1..Len(R[d]) : x = R[d][i].id
      BY <1>1, HeldAt
    <3>2. \E j \in 1..Len(Q[d]) : x = Q[d][j].id
      BY <1>3, <3>1
    <3> QED BY <1>6, <3>1, <3>2, HeldAt
  <2>3. m.id \in Held(Q)
    BY <1>2, HeldAt
  <2> QED BY <2>1, <2>2, <2>3
<1>10. Sent(P) = Sent(O) \cup {m.id}
  <2>1. \A k \in 1..Len(O) : k \in 1..Len(P) /\ P[k] = O[k]
    BY <1>2, AppendAt DEF P
  <2>2. \E k \in 1..Len(P) : P[k] = m
    <3>1. Len(O) + 1 \in 1..Len(P) /\ P[Len(O) + 1] = m
      BY <1>2, AppendAt DEF P
    <3> QED BY <3>1
  <2>3. \A x : x \in Sent(P) <=> x \in Sent(O) \/ x = m.id
    <3>1. ASSUME NEW x, x \in Sent(P) PROVE x \in Sent(O) \/ x = m.id
      <4>1. PICK k \in 1..Len(P) : x = P[k].id
        BY <1>2, <3>1, SentAt
      <4> QED BY <1>5, <4>1, SentAt
    <3>2. ASSUME NEW x, x \in Sent(O) PROVE x \in Sent(P)
      <4>1. PICK k \in 1..Len(O) : x = O[k].id
        BY <3>2, SentAt
      <4> QED BY <1>2, <2>1, <4>1, SentAt
    <3>3. m.id \in Sent(P)
      BY <1>2, <2>2, SentAt
    <3> QED BY <3>1, <3>2, <3>3
  <2> QED BY <2>3
<1> QED BY <1>7, <1>8, <1>9, <1>10 DEF Books, m, R, P

(* A new sample is queued. *)
LEMMA BooksQueue ==
    ASSUME NEW Q \in [Channel -> Seq(Sample)], NEW O \in Seq(Sample), NEW U, NEW g \in Nat,
           Books(Q, O, U, g), NEW c \in Channel, NEW s \in Sample, s.id = g + 1, s.ch = c
    PROVE  Books([Q EXCEPT ![c] = Append(Q[c], s)], O, U, g + 1)
<1> DEFINE R == [Q EXCEPT ![c] = Append(Q[c], s)]
<1>q. Q[c] \in Seq(Sample) /\ Append(Q[c], s) \in Seq(Sample)
  OBVIOUS
<1>1. /\ R \in [Channel -> Seq(Sample)] /\ R[c] = Append(Q[c], s)
      /\ \A d \in Channel : d # c => R[d] = Q[d]
  BY <1>q
<1>2. \A d \in Channel : \A i \in 1..Len(R[d]) :
         (i \in 1..Len(Q[d]) /\ R[d][i] = Q[d][i]) \/ (d = c /\ R[d][i] = s)
  BY <1>q, <1>1, AppendAt
<1>3. /\ \A d \in Channel : \A i \in 1..Len(Q[d]) : i \in 1..Len(R[d]) /\ R[d][i] = Q[d][i]
      /\ \E i \in 1..Len(R[c]) : R[c][i] = s
  BY <1>q, <1>1, AppendAt
<1>4. \A x \in 1..g : x < g + 1 /\ x # g + 1 /\ x \in Int
  OBVIOUS
<1>5. \A d \in Channel : \A i \in 1..Len(Q[d]) : Q[d][i].id < s.id /\ Q[d][i].id # s.id
  <2> SUFFICES ASSUME NEW d \in Channel, NEW i \in 1..Len(Q[d])
               PROVE  Q[d][i].id < s.id /\ Q[d][i].id # s.id
    OBVIOUS
  <2>1. Q[d][i].id \in Held(Q)
    BY HeldAt
  <2> QED BY <1>4, <2>1 DEF Books
<1>6. \A k \in 1..Len(O) : O[k].id < s.id /\ O[k].id # s.id
  <2> SUFFICES ASSUME NEW k \in 1..Len(O) PROVE O[k].id < s.id /\ O[k].id # s.id
    OBVIOUS
  <2>1. O[k].id \in Sent(O)
    BY SentAt
  <2> QED BY <1>4, <2>1 DEF Books
<1> HIDE DEF R
<1>7. InLine(R, O)
  <2>1. ASSUME NEW d \in Channel PROVE Ascending(R[d])
    <3>1. CASE d = c
      BY <1>q, <1>1, <1>5, <3>1, AscendingAppend DEF Books, InLine
    <3>2. CASE d # c
      BY <1>1, <3>2 DEF Books, InLine
    <3> QED BY <3>1, <3>2
  <2>2. ASSUME NEW d \in Channel, NEW i \in 1..Len(R[d])
        PROVE  R[d][i].ch = d /\ \A k \in 1..Len(O) : O[k].ch = d => O[k].id < R[d][i].id
    BY <1>2, <1>6 DEF Books, InLine
  <2> QED BY <2>1, <2>2 DEF Books, InLine
<1>8. Apart(R)
  <2> SUFFICES ASSUME NEW a \in Channel, NEW b \in Channel, a # b,
                      NEW i \in 1..Len(R[a]), NEW j \in 1..Len(R[b])
               PROVE  R[a][i].id # R[b][j].id
    BY DEF Apart
  <2>1. (i \in 1..Len(Q[a]) /\ R[a][i] = Q[a][i]) \/ (a = c /\ R[a][i] = s)
    BY <1>2
  <2>2. (j \in 1..Len(Q[b]) /\ R[b][j] = Q[b][j]) \/ (b = c /\ R[b][j] = s)
    BY <1>2
  <2> QED BY <1>5, <2>1, <2>2 DEF Books, Apart
<1>9. Held(R) = Held(Q) \cup {g + 1}
  <2>1. \A x : x \in Held(R) <=> x \in Held(Q) \/ x = g + 1
    <3>1. ASSUME NEW x, x \in Held(R) PROVE x \in Held(Q) \/ x = g + 1
      <4>1. PICK d \in Channel : \E i \in 1..Len(R[d]) : x = R[d][i].id
        BY <1>1, <3>1, HeldAt
      <4>2. (\E i \in 1..Len(Q[d]) : x = Q[d][i].id) \/ x = s.id
        BY <1>2, <4>1
      <4> QED BY <4>2, HeldAt
    <3>2. ASSUME NEW x, x \in Held(Q) PROVE x \in Held(R)
      <4>1. PICK d \in Channel : \E i \in 1..Len(Q[d]) : x = Q[d][i].id
        BY <3>2, HeldAt
      <4>2. \E i \in 1..Len(R[d]) : x = R[d][i].id
        BY <1>3, <4>1
      <4> QED BY <1>1, <4>2, HeldAt
    <3>3. g + 1 \in Held(R)
      <4>1. \E i \in 1..Len(R[c]) : g + 1 = R[c][i].id
        BY <1>3
      <4> QED BY <1>1, <4>1, HeldAt
    <3> QED BY <3>1, <3>2, <3>3
  <2> QED BY <2>1
<1>10. 1..(g + 1) = 1..g \cup {g + 1} /\ g + 1 \notin 1..g
  OBVIOUS
<1>11. Sent(O) \subseteq 1..g /\ Held(Q) \subseteq 1..g /\ U \subseteq 1..g
  BY DEF Books
<1>12. /\ Sent(O) \cup Held(R) \cup U = 1..(g + 1)
       /\ Sent(O) \cap Held(R) = {} /\ U \cap (Sent(O) \cup Held(R)) = {}
  <2>1. /\ Sent(O) \cup Held(Q) \cup U = 1..g /\ Sent(O) \cap Held(Q) = {}
        /\ U \cap (Sent(O) \cup Held(Q)) = {}
    BY DEF Books
  <2> QED BY <1>9, <1>10, <1>11, <2>1, Zenon
<1> QED BY <1>7, <1>8, <1>12 DEF Books, R

(* A new sample is dropped. *)
LEMMA BooksDrop ==
    ASSUME NEW Q, NEW O, NEW U, NEW g \in Nat, Books(Q, O, U, g)
    PROVE  Books(Q, O, U \cup {g + 1}, g + 1)
<1>1. 1..(g + 1) = 1..g \cup {g + 1} /\ g + 1 \notin 1..g
  OBVIOUS
<1> QED BY <1>1 DEF Books

(* Everything queued is dropped. *)
LEMMA BooksFlush ==
    ASSUME NEW Q, NEW O \in Seq(Sample), NEW U, NEW g, Books(Q, O, U, g)
    PROVE  Books([c \in Channel |-> <<>>], O, U \cup Held(Q), g)
<1> DEFINE R == [c \in Channel |-> <<>>]
<1>1. R \in [Channel -> Seq(Sample)] /\ \A c \in Channel : R[c] = <<>> /\ 1..Len(R[c]) = {}
  OBVIOUS
<1> HIDE DEF R
<1>2. Held(R) = {}
  BY <1>1, HeldAt
<1>3. InLine(R, O) /\ Apart(R)
  BY <1>1 DEF Books, InLine, Apart, Ascending
<1> QED BY <1>2, <1>3 DEF Books, R

-----------------------------------------------------------------------------
Balanced == Books(m_InterleaverQueue, out, unused, got)

LEMMA BalancedMeaning == TypeOK /\ Balanced => Conserved
  BY DEF Balanced, Books, InLine, Conserved, ChannelOrder, Held, QueuedIds, Sent

LEMMA InitBalanced == Init => Balanced
<1> SUFFICES ASSUME Init PROVE Balanced
  OBVIOUS
<1>1. /\ m_InterleaverQueue = [c \in Channel |-> <<>>] /\ out = <<>> /\ unused = {} /\ got = 0
      /\ TypeOK
  BY InitTyped DEF Init
<1>2. m_InterleaverQueue \in [Channel -> Seq(Sample)] /\ out \in Seq(Sample)
  BY <1>1 DEF TypeOK
<1>3. \A c \in Channel : 1..Len(m_InterleaverQueue[c]) = {}
  BY <1>1
<1>4. 1..Len(out) = {} /\ 1..got = {}
  BY <1>1
<1>5. Held(m_InterleaverQueue) = {} /\ Sent(out) = {}
  BY <1>2, <1>3, <1>4, HeldAt, SentAt
<1> QED BY <1>1, <1>3, <1>4, <1>5 DEF Balanced, Books, InLine, Apart, Ascending

LEMMA PushBalanced ==
    ASSUME TypeOK, Balanced, NEW c \in Channel, NEW ts \in Time, Push(c, ts)
    PROVE  Balanced'
<1> DEFINE s == [id |-> got + 1, ch |-> c, ts |-> ts]
           q == m_InterleaverQueue[c]
<1>1. Arrives(c, ts) /\ Pushed(c, s) /\ got' = got + 1 /\ unused' = unused
  BY DEF Push, Arrives
<1>2. s \in Sample /\ s.id = got + 1 /\ s.ch = c
  BY <1>1, NewSample
<1>3. q \in Seq(Sample) /\ out \in Seq(Sample) /\ got \in Nat
      /\ m_InterleaverQueue \in [Channel -> Seq(Sample)]
  BY QueueTyped DEF TypeOK
<1> HIDE DEF s
<1>4. CASE IsFull(c)
  <2> DEFINE R == [m_InterleaverQueue EXCEPT ![c] = Tail(q)]
  <2>1. /\ q # <<>> /\ m_InterleaverQueue' = [m_InterleaverQueue EXCEPT ![c] = Append(Tail(q), s)]
        /\ out' = Append(out, Head(q))
    BY <1>1, <1>2, <1>4, PushForced
  <2>2. Books(R, out', unused, got)
    BY <1>3, <2>1, BooksDeliver DEF Balanced
  <2>3. R \in [Channel -> Seq(Sample)] /\ R[c] = Tail(q) /\ out' \in Seq(Sample)
    <3>1. Tail(q) \in Seq(Sample) /\ Head(q) \in Sample
      BY <1>3, <2>1, TailTyped
    <3> HIDE DEF q
    <3> QED BY <1>3, <2>1, <3>1
  <2>4. [R EXCEPT ![c] = Append(R[c], s)] = m_InterleaverQueue'
    <3> HIDE DEF q
    <3> QED BY <1>3, <2>1, <2>3
  <2> HIDE DEF R, q
  <2>5. Books([R EXCEPT ![c] = Append(R[c], s)], out', unused, got + 1)
    BY <1>2, <1>3, <2>2, <2>3, BooksQueue
  <2> QED BY <1>1, <2>4, <2>5 DEF Balanced
<1>5. CASE ~IsFull(c)
  <2>1. /\ m_InterleaverQueue' = [m_InterleaverQueue EXCEPT ![c] = Append(q, s)]
        /\ out' = out
    BY <1>1, <1>2, <1>5, PushQueued
  <2> QED BY <1>1, <1>2, <1>3, <2>1, BooksQueue DEF Balanced
<1> QED BY <1>4, <1>5

LEMMA StepBalanced == TypeOK /\ Balanced /\ [Next]_vars => Balanced'
<1> SUFFICES ASSUME TypeOK, Balanced, [Next]_vars PROVE Balanced'
  OBVIOUS
<1>t. /\ m_InterleaverQueue \in [Channel -> Seq(Sample)] /\ out \in Seq(Sample) /\ got \in Nat
  BY DEF TypeOK
<1>1. ASSUME NEW c \in Channel, NEW ts \in Time, Drop(c, ts) \/ NoBuffer(c, ts) PROVE Balanced'
  <2>1. /\ unused' = unused \cup {got + 1} /\ got' = got + 1
        /\ UNCHANGED <<m_InterleaverQueue, out>>
    BY <1>1 DEF Drop, NoBuffer, Arrives
  <2> QED BY <1>t, <2>1, BooksDrop DEF Balanced
<1>2. ASSUME NEW c \in Channel, NEW ts \in Time, Push(c, ts) PROVE Balanced'
  BY <1>2, PushBalanced
<1>3. ASSUME NEW c \in Channel, Merge(c) PROVE Balanced'
  <2>1. /\ m_InterleaverQueue[c] # <<>> /\ out' = Append(out, Head(m_InterleaverQueue[c]))
        /\ m_InterleaverQueue' = [m_InterleaverQueue EXCEPT ![c] = Tail(m_InterleaverQueue[c])]
        /\ UNCHANGED <<unused, got>>
    BY <1>3 DEF Merge, AllReady, IsReady
  <2> QED BY <1>t, <2>1, BooksDeliver DEF Balanced
<1>4. ASSUME NEW enable \in BOOLEAN, EnableFilter(enable) PROVE Balanced'
  <2>1. /\ m_InterleaverQueue' = [c \in Channel |-> <<>>] /\ UNCHANGED <<out, got>>
        /\ unused' = unused \cup Held(m_InterleaverQueue)
    BY <1>4 DEF EnableFilter, Held, QueuedIds
  <2> QED BY <1>t, <2>1, BooksFlush DEF Balanced
<1>5. CASE Return \/ Run \/ Stop \/ UNCHANGED vars
  <2>1. UNCHANGED <<m_InterleaverQueue, out, unused, got>>
    BY <1>5 DEF Return, Run, Stop, vars
  <2> QED BY <2>1 DEF Balanced
<1> QED BY <1>1, <1>2, <1>3, <1>4, <1>5 DEF Next, Receive

(* No sample vanishes and none is there twice, and a channel keeps its order, *)
(* however full its queue gets and over restarts and flushes.                 *)
THEOREM NoneLost == Spec => []Conserved
<1> QED BY InitTyped, InitBalanced, StepTyped, StepBalanced, BalancedMeaning, PTL DEF Spec
=============================================================================
