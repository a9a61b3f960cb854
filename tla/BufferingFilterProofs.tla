------------------------ MODULE BufferingFilterProofs ------------------------
(***************************************************************************)
(* Proofs about CNX_BufferingFilter for any number of samples, runs and    *)
(* requests, any size of the ring and of the queues.  Typing, NoUseAfter-  *)
(* Release and RingConsistent need nothing of the constants; that no       *)
(* sample is lost and that an event file is whole need queues with room    *)
(* for what the encoder sends between two ends of a unit.                  *)
(***************************************************************************)
EXTENDS BufferingFilter, TLAPS

USE BoundAssumption, ConfigAssumption, SpuriousAssumption

(* The flags a key frame delivers are flags of files. *)
LEMMA FlagsOfType ==
    ASSUME NEW c \in Control
    PROVE  FlagsOf(c) \in Seq(FileFlags) /\ Answered(c) \in Control
<1>0. /\ <<>> \in Seq(FileFlags)
      /\ \A f \in FileFlags : <<f>> \in Seq(FileFlags)
      /\ \A f, g \in FileFlags : <<f, g>> \in Seq(FileFlags)
  OBVIOUS
<1>a. {"NORMAL_START", "NORMAL_STOP", "EVENT_START", "EVENT_STOP"} = FileFlags
  BY DEF FileFlags
<1>1. StopFlags(c) \in Seq(FileFlags) /\ StartFlags(c) \in Seq(FileFlags)
  BY <1>0, <1>a DEF StopFlags, StartFlags
<1>2. ChangeFlags(c) \in Seq(FileFlags)
  BY <1>0, <1>a DEF ChangeFlags
<1>3. EventFlags(c) \in Seq(FileFlags)
  BY <1>0, <1>a DEF EventFlags
<1>4. FlagsOf(c) \in Seq(FileFlags)
  BY <1>1, <1>2, <1>3 DEF FlagsOf
<1>5. Answered(c) \in Control
  BY DEF Answered, Control, Statuses, StatusAfterStop, Modes
<1> QED BY <1>4, <1>5

(* The index of the next slot stays in the ring. *)
LEMMA Next1Type == \A i \in Slot : Next1(i) \in Slot
  BY DEF Next1, Slot

(***************************************************************************)
(* Typing.  A thread that is about to queue a sample holds one.            *)
(***************************************************************************)
Hands ==
    /\ rpc = "wait" => last \in Sample
    /\ wpc \in {"lock", "flags", "popAll", "full", "move", "gather"} => pSample \in Sample

Typed == TypeOK /\ Hands

LEMMA RequestType ==
    ASSUME ctl \in Control, Manager
    PROVE  (\E c \in Control : Request(c)) \/ Run \/ Stop \/ StopPost \/ Join
  BY DEF Manager, ChangeBufferingMode, PopBufferdData, StartFile, StopFile, ChangeFile,
         Control, Modes

(* Taking a sample from a queue and putting one into it. *)
LEMMA QueueType ==
    ASSUME NEW q \in Seq(Sample)
    PROVE  /\ q # <<>> => Head(q) \in Sample /\ Tail(q) \in Seq(Sample)
           /\ \A s \in Sample : Pushed(q, s) \in Seq(Sample)
  BY DEF Pushed

(* What is downstream stays a file after a flag and after a sample. *)
LEMMA FlagType ==
    ASSUME NEW k \in File, NEW f \in FileFlags
    PROVE  AfterFlag(k, f) \in File
  BY DEF AfterFlag, File, FileFlags

LEMMA SampleType ==
    ASSUME NEW k \in File, NEW s \in Sample
    PROVE  AfterSample(k, s) \in File
<1>1. k.file \in {"none", "normal", "event"} /\ Append(k.data, s) \in Seq(Sample)
  BY DEF File
<1>2. [k EXCEPT !.data = Append(@, s)] \in File
  BY <1>1 DEF File
<1> QED BY <1>2 DEF AfterSample

(* A ring whose units are replaced slot by slot stays a ring. *)
LEMMA RingType ==
    ASSUME NEW r \in [Slot -> Seq(Sample)], NEW i \in Slot, NEW q \in Seq(Sample)
    PROVE  [r EXCEPT ![i] = q] \in [Slot -> Seq(Sample)]
  OBVIOUS

LEMMA PopStreamType ==
    ASSUME TypeOK, PopStream
    PROVE  /\ locked' \subseteq Sample /\ eventQ' \in [Slot -> Seq(Sample)]
           /\ tail' \in Slot /\ count' \in Int
<1>1. <<>> \in Seq(Sample)
  OBVIOUS
<1>2. tail \in Slot /\ eventQ \in [Slot -> Seq(Sample)] /\ locked \subseteq Sample /\ count \in Int
  BY DEF TypeOK
<1>3. eventQ' \in [Slot -> Seq(Sample)]
  BY <1>1, <1>2, RingType DEF PopStream
<1> QED BY <1>2, <1>3, Next1Type DEF PopStream, Unlock

LEMMA InitTyped == Init => Typed
<1> SUFFICES ASSUME Init PROVE Typed
  OBVIOUS
<1>1. ctl \in Control
  BY DEF Init, ControlInit, Control, Statuses, Modes
<1>2. sink \in File /\ eventQ \in [Slot -> Seq(Sample)]
  BY DEF Init, File
<1>3. m_bThreadExit \in BOOLEAN
  BY DEF Init
<1> QED
  BY <1>1, <1>2, <1>3 DEF Init, Typed, TypeOK, Hands, Slot, WorkerPc

LEMMA StepTyped == Typed /\ [Next]_vars => Typed'
<1> SUFFICES ASSUME Typed, [Next]_vars PROVE Typed'
  OBVIOUS
<1> USE DEF Typed, TypeOK, Hands
<1>1. ASSUME NEW sync \in BOOLEAN, Receive(sync) PROVE Typed'
  BY <1>1 DEF Receive, Sample
<1>2. ASSUME Enqueue PROVE Typed'
  BY <1>2 DEF Enqueue
<1>3. ASSUME ReceivePost PROVE Typed'
  BY <1>3 DEF ReceivePost, Post, WorkerPc
<1>4. ASSUME Begin PROVE Typed'
  BY <1>4 DEF Begin, WorkerPc
<1>5. ASSUME LoopTest PROVE Typed'
  BY <1>5 DEF LoopTest, WorkerPc
<1>6. ASSUME Pend PROVE Typed'
  BY <1>6 DEF Pend, WorkerPc
<1>7. ASSUME Wake PROVE Typed'
  BY <1>7 DEF Wake, WorkerPc
<1>8. ASSUME GetSample PROVE Typed'
  BY <1>8, QueueType DEF GetSample, WorkerPc
<1>9. ASSUME Drain PROVE Typed'
  BY <1>9, QueueType DEF Drain, Unlock, WorkerPc
<1>10. ASSUME Clear PROVE Typed'
  <2>1. CASE PopStream
    BY <1>10, <2>1, PopStreamType DEF Clear, WorkerPc
  <2>2. CASE UNCHANGED <<locked, eventQ, tail, count>>
    BY <1>10, <2>2 DEF Clear, WorkerPc
  <2> QED BY <1>10, <2>1, <2>2 DEF Clear
<1>11. ASSUME LockPushStream PROVE Typed'
  BY FlagsOfType, <1>11 DEF LockPushStream, PrvOf, WorkerPc, Sample
<1>12. ASSUME DeliverFlags PROVE Typed'
  <2>1. CASE flags # <<>>
    <3>1. Head(flags) \in FileFlags /\ Tail(flags) \in Seq(FileFlags)
      BY <2>1
    <3> QED
      BY <1>12, <2>1, <3>1, FlagType DEF DeliverFlags, WorkerPc
  <2>2. CASE flags = <<>>
    BY <1>12, <2>2, FlagsOfType DEF DeliverFlags, WorkerPc
  <2> QED BY <2>1, <2>2
<1>13. ASSUME PopStreamAll PROVE Typed'
  <2> DEFINE unit == eventQ[tail]
  <2>1. unit \in Seq(Sample)
    OBVIOUS
  <2>2. CASE count # 0 /\ unit # <<>>
    <3>1. Head(unit) \in Sample /\ Tail(unit) \in Seq(Sample)
      BY <2>1, <2>2
    <3> QED
      <4>1. eventQ' \in [Slot -> Seq(Sample)]
        BY <1>13, <2>2, <3>1, RingType DEF PopStreamAll
      <4>2. sink' \in File
        BY <1>13, <2>2, <3>1, SampleType DEF PopStreamAll
      <4> QED BY <1>13, <2>2, <4>1, <4>2 DEF PopStreamAll, Unlock, WorkerPc
  <2>3. CASE count = 0 \/ unit = <<>>
    BY <1>13, <2>3, Next1Type DEF PopStreamAll, WorkerPc
  <2> QED BY <2>2, <2>3
<1>14. ASSUME DropOldest PROVE Typed'
  <2>1. CASE PopStream
    BY <1>14, <2>1, PopStreamType DEF DropOldest, WorkerPc
  <2>2. CASE UNCHANGED <<locked, eventQ, tail, count>>
    BY <1>14, <2>2 DEF DropOldest, WorkerPc
  <2> QED BY <1>14, <2>1, <2>2 DEF DropOldest
<1>15. ASSUME MoveUnit PROVE Typed'
  <2>1. CASE streamQ # <<>>
    <3>1. Head(streamQ) \in Sample /\ Tail(streamQ) \in Seq(Sample)
      BY <2>1
    <3>2. Pushed(eventQ[head], Head(streamQ)) \in Seq(Sample)
      BY <3>1, QueueType
    <3>3. eventQ' \in [Slot -> Seq(Sample)]
      BY <1>15, <2>1, <3>2, RingType DEF MoveUnit
    <3>4. sink' \in File
      BY <1>15, <2>1, <3>1, SampleType DEF MoveUnit
    <3> QED BY <1>15, <2>1, <3>1, <3>3, <3>4 DEF MoveUnit, WorkerPc
  <2>2. CASE streamQ = <<>>
    BY <1>15, <2>2, Next1Type DEF MoveUnit, WorkerPc
  <2> QED BY <2>1, <2>2
<1>16. ASSUME Gather PROVE Typed'
  BY <1>16 DEF Gather, Pushed, WorkerPc
<1>17. ASSUME NEW c \in Control, Request(c) PROVE Typed'
  <2>1. tail \in Slot /\ eventQ[tail] \in Seq(Sample)
    OBVIOUS
  <2>2. OldestBuffered \in Sample \cup {1}
    BY <2>1 DEF OldestBuffered
  <2>3. asked' \in Sample \cup {1}
    BY <1>17, <2>2 DEF Request
  <2> QED BY <1>17, <2>3 DEF Request
<1>18. ASSUME Run PROVE Typed'
  <2>1. m_bThreadExit' \in BOOLEAN
    BY <1>18 DEF Run
  <2> QED
    BY <1>18, <2>1 DEF Run, WorkerPc
<1>19. ASSUME Stop PROVE Typed'
  BY <1>19 DEF Stop
<1>20. ASSUME StopPost PROVE Typed'
  BY <1>20 DEF StopPost, Post, WorkerPc
<1>21. ASSUME Join PROVE Typed'
  BY <1>21 DEF Join, File, WorkerPc
<1>22. CASE UNCHANGED vars
  BY <1>22 DEF vars
<1> QED
  BY RequestType, <1>1, <1>2, <1>3, <1>4, <1>5, <1>6, <1>7, <1>8, <1>9, <1>10, <1>11, <1>12, <1>13, <1>14, <1>15, <1>16, <1>17, <1>18, <1>19, <1>20, <1>21, <1>22
  DEF Next, Upstream, ThreadLoop

(* Every variable keeps its type: the queues hold samples, the indexes stay   *)
(* inside the ring and no thread queues a sample it does not have.            *)
THEOREM Typing == Spec => []TypeOK
<1>1. Typed => TypeOK
  BY DEF Typed
<1> QED
  BY <1>1, InitTyped, StepTyped, PTL DEF Spec

(***************************************************************************)
(* No use after release.  Each sample the filter holds is in one place: a  *)
(* slot of the ring, the unit being gathered, the input queue or a hand;   *)
(* so giving one back can only concern the place it is taken from.         *)
(***************************************************************************)
LEMMA AppendRange ==
    ASSUME NEW q \in Seq(Sample), NEW s \in Sample
    PROVE  /\ Range(Append(q, s)) = Range(q) \cup {s}
           /\ IsInjective(q) /\ s \notin Range(q) => IsInjective(Append(q, s))
<1> DEFINE r == Append(q, s)
<1>1. /\ DOMAIN q = 1..Len(q) /\ Len(q) \in Nat
      /\ DOMAIN r = DOMAIN q \cup {Len(q) + 1} /\ Len(q) + 1 \notin DOMAIN q
      /\ \A i \in DOMAIN q : r[i] = q[i]
      /\ r[Len(q) + 1] = s
  OBVIOUS
<1> HIDE DEF r
<1>2. Range(r) = Range(q) \cup {s}
  BY <1>1 DEF Range
<1>3. ASSUME IsInjective(q), s \notin Range(q)
      PROVE  IsInjective(r)
  BY <1>1, <1>3 DEF Range, IsInjective
<1> QED BY <1>2, <1>3 DEF r

LEMMA PushedRange ==
    ASSUME NEW q \in Seq(Sample), NEW s \in Sample
    PROVE  /\ Range(Pushed(q, s)) \subseteq Range(q) \cup {s}
           /\ IsInjective(q) /\ s \notin Range(q) => IsInjective(Pushed(q, s))
  BY AppendRange DEF Pushed

LEMMA PoppedRange ==
    ASSUME NEW q \in Seq(Sample), q # <<>>
    PROVE  /\ Range(q) = {Head(q)} \cup Range(Tail(q))
           /\ IsInjective(q) => Head(q) \notin Range(Tail(q)) /\ IsInjective(Tail(q))
<1>1. /\ Len(q) \in Nat \ {0} /\ DOMAIN q = 1..Len(q) /\ Head(q) = q[1]
      /\ DOMAIN Tail(q) = 1..(Len(q) - 1)
      /\ \A i \in 1..(Len(q) - 1) : Tail(q)[i] = q[i + 1]
  OBVIOUS
<1>2. Range(q) = {Head(q)} \cup Range(Tail(q))
  <2>1. \A i \in 1..Len(q) : i = 1 \/ (i - 1 \in 1..(Len(q) - 1) /\ q[i] = Tail(q)[i - 1])
    BY <1>1
  <2>2. ASSUME NEW x \in Range(q) PROVE x = Head(q) \/ x \in Range(Tail(q))
    <3>1. PICK i \in 1..Len(q) : x = q[i]
      BY <1>1 DEF Range
    <3>2. CASE i = 1
      BY <1>1, <3>1, <3>2
    <3>3. CASE i # 1
      BY <1>1, <2>1, <3>1, <3>3 DEF Range
    <3> QED BY <3>2, <3>3
  <2>3. Head(q) \in Range(q) /\ Range(Tail(q)) \subseteq Range(q)
    BY <1>1 DEF Range
  <2> QED BY <2>2, <2>3
<1>3. IsInjective(q) => Head(q) \notin Range(Tail(q)) /\ IsInjective(Tail(q))
  BY <1>1 DEF Range, IsInjective
<1> QED BY <1>2, <1>3

LEMMA EmptyRange == Range(<<>>) = {} /\ IsInjective(<<>>)
  BY DEF Range, IsInjective

(* The places outside the ring that a sample can be in. *)
Waiting == Range(inQ) \cup Range(streamQ) \cup InHand

Placed ==
    /\ locked \subseteq 1..last
    /\ Waiting \subseteq locked /\ \A i \in Slot : Range(eventQ[i]) \subseteq locked
    /\ IsInjective(inQ) /\ IsInjective(streamQ) /\ \A i \in Slot : IsInjective(eventQ[i])
    /\ \A i, j \in Slot : i # j => Range(eventQ[i]) \cap Range(eventQ[j]) = {}
    /\ \A i \in Slot : Range(eventQ[i]) \cap Waiting = {}
    /\ Range(inQ) \cap Range(streamQ) = {}
    /\ InHand \cap (Range(inQ) \cup Range(streamQ)) = {}
    /\ rpc = "wait" => pSample # last

LEMMA InitPlaced == Init => Placed
<1> SUFFICES ASSUME Init PROVE Placed
  OBVIOUS
<1>1. Waiting = {} /\ \A i \in Slot : Range(eventQ[i]) = {} /\ IsInjective(eventQ[i])
  BY EmptyRange DEF Init, Waiting, InHand
<1> QED BY <1>1, EmptyRange DEF Init, Placed, Waiting

(* Steps that move no sample. *)
Unmoved ==
    /\ UNCHANGED <<last, pSample, inQ, streamQ, eventQ, locked>>
    /\ rpc' = "wait" <=> rpc = "wait"

LEMMA UnmovedPlaced == Placed /\ Unmoved => Placed'
  BY DEF Placed, Unmoved, Waiting, InHand

(* The unit in slot tail is let go. *)
LEMMA PopStreamPlaced ==
    ASSUME Typed, Placed, PopStream, UNCHANGED <<rpc, last, pSample, inQ, streamQ>>
    PROVE  Placed'
<1>t. eventQ \in [Slot -> Seq(Sample)] /\ tail \in Slot
  BY DEF Typed, TypeOK
<1>1. /\ \A i \in Slot : eventQ'[i] = IF i = tail THEN <<>> ELSE eventQ[i]
      /\ locked' = locked \ Range(eventQ[tail])
      /\ Waiting' = Waiting /\ InHand' = InHand
  BY <1>t DEF PopStream, Unlock, Waiting, InHand
<1>2. \A i \in Slot : /\ Range(eventQ'[i]) = IF i = tail THEN {} ELSE Range(eventQ[i])
                     /\ IsInjective(eventQ'[i])
  BY <1>1, EmptyRange DEF Placed
<1>3. Waiting' \subseteq locked'
  BY <1>t, <1>1 DEF Placed
<1>4. \A i \in Slot : Range(eventQ'[i]) \subseteq locked' /\ Range(eventQ'[i]) \cap Waiting' = {}
  BY <1>t, <1>1, <1>2 DEF Placed
<1>5. \A i, j \in Slot : i # j => Range(eventQ'[i]) \cap Range(eventQ'[j]) = {}
  BY <1>2 DEF Placed
<1> QED BY <1>1, <1>2, <1>3, <1>4, <1>5 DEF Placed

LEMMA StepPlaced == Typed /\ Typed' /\ Placed /\ [Next]_vars => Placed'
<1> SUFFICES ASSUME Typed, Typed', Placed, [Next]_vars PROVE Placed'
  OBVIOUS
<1>t. /\ inQ \in Seq(Sample) /\ streamQ \in Seq(Sample) /\ eventQ \in [Slot -> Seq(Sample)]
      /\ head \in Slot /\ tail \in Slot
      /\ last \in Nat /\ pSample \in Sample \cup {0}
      /\ rpc = "wait" => last \in Sample
      /\ wpc = "gather" => pSample \in Sample
      /\ ctl \in Control
  BY DEF Typed, TypeOK, Hands
<1> USE <1>t
<1>1. ASSUME NEW sync \in BOOLEAN, Receive(sync) PROVE Placed'
  <2>1. /\ last \in Nat /\ last' = last + 1 /\ locked' = locked \cup {last + 1}
        /\ UNCHANGED <<inQ, streamQ, eventQ, pSample>> /\ rpc = "idle"
    BY <1>1 DEF Receive
  <2>2. Waiting' \subseteq Waiting \cup {last + 1} /\ last + 1 \notin locked
    BY <2>1 DEF Waiting, InHand, Placed
  <2>3. InHand' = InHand \cup {last + 1}
    BY <1>1 DEF Receive, InHand
  <2>4. pSample' # last'
    BY <2>1, <2>2 DEF Placed, Waiting, InHand
  <2>5. locked' \subseteq 1..last' /\ Waiting' \subseteq locked'
    BY <2>1, <2>2 DEF Placed
  <2>6. \A i \in Slot : /\ Range(eventQ'[i]) \subseteq locked'
                       /\ Range(eventQ'[i]) \cap Waiting' = {}
    BY <2>1, <2>2 DEF Placed
  <2>7. InHand' \cap (Range(inQ') \cup Range(streamQ')) = {}
    BY <2>1, <2>2, <2>3 DEF Placed, Waiting
  <2> QED BY <2>1, <2>4, <2>5, <2>6, <2>7 DEF Placed
<1>2. ASSUME Enqueue PROVE Placed'
  <2>1. last \in Sample /\ inQ' = Append(inQ, last) /\ last \in InHand
    BY <1>2 DEF Enqueue, InHand
  <2>2. InHand' = InHand \ {last}
    BY <1>2, <2>1 DEF Enqueue, InHand, Placed
  <2>3. Range(inQ') = Range(inQ) \cup {last} /\ IsInjective(inQ')
    BY <2>1, AppendRange DEF Placed
  <2>4. Waiting' = Waiting
    BY <1>2, <2>1, <2>2, <2>3 DEF Waiting, Enqueue
  <2> QED BY <1>2, <2>1, <2>2, <2>3, <2>4 DEF Placed, Enqueue, Waiting
<1>3. ASSUME GetSample PROVE Placed'
  <2>1. CASE inQ = <<>>
    BY <1>3, <2>1, UnmovedPlaced DEF GetSample, Unmoved
  <2>2. CASE inQ # <<>>
    <3>p. /\ Range(inQ) = {Head(inQ)} \cup Range(Tail(inQ))
          /\ Head(inQ) \notin Range(Tail(inQ)) /\ IsInjective(Tail(inQ))
      BY <2>2, PoppedRange DEF Placed
    <3>1. /\ Range(inQ) = {Head(inQ)} \cup Range(inQ') /\ pSample' = Head(inQ)
          /\ Head(inQ) \notin Range(inQ') /\ IsInjective(inQ')
          /\ UNCHANGED <<rpc, last, locked, streamQ, eventQ>>
      BY <1>3, <2>2, <3>p DEF GetSample
    <3>2. InHand' \subseteq InHand \cup {Head(inQ)} /\ Waiting' \subseteq Waiting
      BY <3>1 DEF InHand, Waiting
    <3>3. rpc' = "wait" => pSample' # last'
      BY <3>1 DEF Placed, InHand
    <3>4. InHand' \cap (Range(inQ') \cup Range(streamQ')) = {}
      BY <3>1, <3>2 DEF Placed
    <3>5. Range(inQ') \cap Range(streamQ') = {}
      BY <3>1 DEF Placed
    <3> QED BY <3>1, <3>2, <3>3, <3>4, <3>5 DEF Placed
  <2> QED BY <2>1, <2>2
<1>4. ASSUME Drain PROVE Placed'
  <2>1. CASE inQ = <<>>
    BY <1>4, <2>1, UnmovedPlaced DEF Drain, Unmoved
  <2>2. CASE inQ # <<>>
    <3>p. /\ Range(inQ) = {Head(inQ)} \cup Range(Tail(inQ))
          /\ Head(inQ) \notin Range(Tail(inQ)) /\ IsInjective(Tail(inQ))
      BY <2>2, PoppedRange DEF Placed
    <3>1. /\ Range(inQ) = {Head(inQ)} \cup Range(inQ')
          /\ Head(inQ) \notin Range(inQ') /\ IsInjective(inQ')
          /\ locked' = locked \ {Head(inQ)}
          /\ UNCHANGED <<rpc, last, pSample, streamQ, eventQ>>
      BY <1>4, <2>2, <3>p DEF Drain, Unlock
    <3>2. InHand' = InHand /\ Waiting' = Waiting \ {Head(inQ)}
      BY <3>1 DEF InHand, Waiting, Placed
    <3> QED BY <3>1, <3>2 DEF Placed, Waiting
  <2> QED BY <2>1, <2>2
<1>5. ASSUME Clear PROVE Placed'
  <2>1. CASE PopStream
    BY <1>5, <2>1, PopStreamPlaced DEF Clear
  <2>2. CASE UNCHANGED <<locked, eventQ, tail, count>>
    BY <1>5, <2>2, UnmovedPlaced DEF Clear, Unmoved
  <2> QED BY <1>5, <2>1, <2>2 DEF Clear
<1>6. ASSUME DropOldest PROVE Placed'
  <2>1. CASE PopStream
    BY <1>6, <2>1, PopStreamPlaced DEF DropOldest
  <2>2. CASE UNCHANGED <<locked, eventQ, tail, count>>
    BY <1>6, <2>2, UnmovedPlaced DEF DropOldest, Unmoved
  <2> QED BY <1>6, <2>1, <2>2 DEF DropOldest
<1>7. ASSUME PopStreamAll PROVE Placed'
  <2> DEFINE unit == eventQ[tail]
  <2>1. CASE count = 0 \/ unit = <<>>
    BY <1>7, <2>1, UnmovedPlaced DEF PopStreamAll, Unmoved
  <2>2. CASE count # 0 /\ unit # <<>>
    <3>1. /\ unit \in Seq(Sample) /\ unit # <<>> /\ IsInjective(unit)
      BY <2>2 DEF Placed
    <3>2. /\ Range(unit) = {Head(unit)} \cup Range(Tail(unit))
          /\ Head(unit) \notin Range(Tail(unit)) /\ IsInjective(Tail(unit))
      BY <3>1, PoppedRange
    <3>3. /\ \A i \in Slot : eventQ'[i] = IF i = tail THEN Tail(unit) ELSE eventQ[i]
          /\ locked' = locked \ {Head(unit)}
          /\ UNCHANGED <<rpc, last, pSample, inQ, streamQ>>
      BY <1>7, <2>2 DEF PopStreamAll, Unlock
    <3>4. Waiting' = Waiting /\ InHand' = InHand
      BY <3>3 DEF Waiting, InHand
    <3> QED BY <3>2, <3>3, <3>4 DEF Placed
  <2> QED BY <2>1, <2>2
<1>8. ASSUME MoveUnit PROVE Placed'
  <2>1. CASE streamQ = <<>>
    BY <1>8, <2>1, UnmovedPlaced DEF MoveUnit, Unmoved
  <2>2. CASE streamQ # <<>>
    <3> DEFINE s == Head(streamQ)
               q == Pushed(eventQ[head], s)
    <3>p. /\ Range(streamQ) = {s} \cup Range(Tail(streamQ))
          /\ s \notin Range(Tail(streamQ)) /\ IsInjective(Tail(streamQ))
      BY <2>2, PoppedRange DEF Placed
    <3>1. /\ Range(streamQ) = {s} \cup Range(streamQ')
          /\ s \notin Range(streamQ') /\ IsInjective(streamQ')
          /\ s \in Sample
      BY <1>8, <2>2, <3>p, QueueType DEF MoveUnit
    <3>2. s \notin Range(eventQ[head])
      BY <3>1 DEF Placed, Waiting
    <3>3. Range(q) \subseteq Range(eventQ[head]) \cup {s} /\ IsInjective(q)
      <4>1. eventQ[head] \in Seq(Sample) /\ IsInjective(eventQ[head])
        BY DEF Placed
      <4> QED BY <3>1, <3>2, <4>1, PushedRange
    <3>4. /\ \A i \in Slot : eventQ'[i] = IF i = head THEN q ELSE eventQ[i]
          /\ UNCHANGED <<rpc, last, locked, pSample, inQ>>
      BY <1>8, <2>2 DEF MoveUnit
    <3>5. InHand' = InHand /\ Waiting' = Waiting \ {s}
      BY <3>1, <3>4 DEF Waiting, InHand, Placed
    <3> HIDE DEF q, s
    <3>6. \A i \in Slot : /\ Range(eventQ'[i]) \subseteq Range(eventQ[i]) \cup (IF i = head THEN {s} ELSE {})
                         /\ IsInjective(eventQ'[i])
      BY <3>3, <3>4 DEF Placed
    <3>7. s \in Waiting /\ s \in locked /\ \A i \in Slot : s \notin Range(eventQ[i])
      BY <3>1 DEF Placed, Waiting
    <3>8. \A i \in Slot : Range(eventQ'[i]) \subseteq locked' /\ Range(eventQ'[i]) \cap Waiting' = {}
      BY <3>4, <3>5, <3>6, <3>7 DEF Placed
    <3>9. ASSUME NEW i \in Slot, NEW j \in Slot, i # j
          PROVE  Range(eventQ'[i]) \cap Range(eventQ'[j]) = {}
      <4>1. Range(eventQ[i]) \cap Range(eventQ[j]) = {}
        BY <3>9 DEF Placed
      <4>2. CASE i = head
        BY <3>6, <3>7, <3>9, <4>1, <4>2
      <4>3. CASE i # head
        BY <3>6, <3>7, <3>9, <4>1, <4>3
      <4> QED BY <4>2, <4>3
    <3>a. /\ locked' \subseteq 1..last' /\ Waiting' \subseteq locked'
          /\ IsInjective(inQ') /\ IsInjective(streamQ')
          /\ rpc' = "wait" => pSample' # last'
      BY <3>1, <3>4, <3>5 DEF Placed
    <3>b. /\ Range(inQ') \cap Range(streamQ') = {}
          /\ InHand' \cap (Range(inQ') \cup Range(streamQ')) = {}
      BY <3>1, <3>4, <3>5 DEF Placed
    <3> QED BY <3>6, <3>8, <3>9, <3>a, <3>b DEF Placed
  <2> QED BY <2>1, <2>2
<1>9. ASSUME Gather PROVE Placed'
  <2>1. /\ pSample \in Sample /\ pSample' = 0 /\ streamQ' = Pushed(streamQ, pSample)
        /\ UNCHANGED <<rpc, last, locked, inQ, eventQ>>
    BY <1>9 DEF Gather
  <2>2. pSample \in InHand /\ InHand' = InHand \ {pSample}
    BY <2>1 DEF InHand, Placed, Sample
  <2>3. Range(streamQ') \subseteq Range(streamQ) \cup {pSample} /\ IsInjective(streamQ')
    BY <2>1, <2>2, PushedRange DEF Placed
  <2>4. Waiting' \subseteq Waiting
    BY <2>1, <2>2, <2>3 DEF Waiting
  <2>5. rpc' = "wait" => pSample' # last'
    BY <2>1 DEF Sample
  <2> QED BY <2>1, <2>2, <2>3, <2>4, <2>5 DEF Placed, Waiting
<1>10. ASSUME ReceivePost \/ Begin \/ LoopTest \/ Pend \/ Wake \/ LockPushStream \/ DeliverFlags
       PROVE Placed'
  <2>1. Unmoved
    BY <1>10 DEF Unmoved, ReceivePost, Begin, LoopTest, Pend, Wake, LockPushStream, DeliverFlags
  <2> QED BY <2>1, UnmovedPlaced
<1>11. ASSUME Manager PROVE Placed'
  <2>1. (\E c \in Control : Request(c)) \/ Run \/ Stop \/ StopPost \/ Join
    BY <1>11, RequestType
  <2>2. Unmoved
    BY <2>1 DEF Unmoved, Request, Run, Stop, StopPost, Join
  <2> QED BY <2>2, UnmovedPlaced
<1>12. CASE UNCHANGED vars
  BY <1>12, UnmovedPlaced DEF vars, Unmoved
<1> QED
  BY <1>1, <1>2, <1>3, <1>4, <1>5, <1>6, <1>7, <1>8, <1>9, <1>10, <1>11, <1>12
  DEF Next, Upstream, ThreadLoop

(* A sample that the filter will touch again has not gone back to its owner. *)
THEOREM HeldWhileUsed == Spec => []NoUseAfterRelease
<1>1. Placed => NoUseAfterRelease
  BY DEF Placed, NoUseAfterRelease, Holders, Waiting, Buffered
<1>2. Typed /\ Placed /\ [Next]_vars => Typed' /\ Placed'
  BY StepTyped, StepPlaced
<1>3. Init => Typed /\ Placed
  BY InitTyped, InitPlaced
<1> QED
  BY <1>1, <1>2, <1>3, PTL DEF Spec

(***************************************************************************)
(* The ring.  Offset is how many units a slot is after the oldest one; a   *)
(* unit is moved in only when the ring has room, and every slot that holds *)
(* something is less than count units from the tail.                       *)
(***************************************************************************)
LEMMA ModOnce ==
    ASSUME NEW n \in Nat \ {0}, NEW x \in 0..(2 * n - 1)
    PROVE  x % n = IF x < n THEN x ELSE x - n
<1>1. CASE x < n
  BY <1>1
<1>2. CASE x >= n
  <2>1. x = n * 1 + (x - n) /\ x - n \in 0..(n - 1)
    BY <1>2
  <2> QED BY <1>2, <2>1
<1> QED BY <1>1, <1>2

Offset(i) == IF i >= tail THEN i - tail ELSE i - tail + BufferedTime + 1
SlotAt(n) == IF tail + n <= BufferedTime THEN tail + n ELSE tail + n - BufferedTime - 1

Ring ==
    /\ count \in 0..BufferedTime
    /\ wpc = "move" => count < BufferedTime
    /\ head = SlotAt(count)
    /\ \A i \in Slot : eventQ[i] # <<>> => Offset(i) < count \/ (wpc = "move" /\ i = head)

LEMMA Next1Value == \A i \in Slot : Next1(i) = IF i = BufferedTime THEN 0 ELSE i + 1
<1> TAKE i \in Slot
<1> DEFINE n == BufferedTime + 1
           x == i + 1
<1>1. n \in Nat \ {0} /\ x \in 0..(2 * n - 1)
  BY DEF Slot
<1>2. x % n = IF x < n THEN x ELSE x - n
  <2> HIDE DEF n, x
  <2> QED BY <1>1, ModOnce
<1> QED BY <1>2 DEF Next1, Slot

LEMMA RingMeaning == Typed /\ Ring => RingConsistent
<1> SUFFICES ASSUME Typed, Ring PROVE RingConsistent
  OBVIOUS
<1>t. tail \in Slot /\ count \in 0..BufferedTime
  BY DEF Typed, TypeOK, Ring
<1>1. ASSUME NEW n \in 0..BufferedTime
      PROVE  (tail + n) % (BufferedTime + 1) = SlotAt(n)
  <2> DEFINE size == BufferedTime + 1
             x == tail + n
  <2>1. size \in Nat \ {0} /\ x \in 0..(2 * size - 1)
    BY <1>t DEF Slot
  <2>2. x % size = IF x < size THEN x ELSE x - size
    <3> HIDE DEF size, x
    <3> QED BY <2>1, ModOnce
  <2> QED BY <1>t, <2>2 DEF SlotAt, Slot
<1>2. head = (tail + count) % (BufferedTime + 1)
  BY <1>t, <1>1 DEF Ring
<1>3. ASSUME NEW i \in Slot, Offset(i) < count
      PROVE  i \in UsedSlots
  <2>1. Offset(i) \in 0..(count - 1) /\ Offset(i) \in 0..BufferedTime
    BY <1>t, <1>3 DEF Offset, Slot
  <2>2. i = SlotAt(Offset(i))
    BY <1>t DEF Offset, SlotAt, Slot
  <2>3. i = (tail + Offset(i)) % (BufferedTime + 1)
    BY <1>1, <2>1, <2>2
  <2> QED BY <2>1, <2>3 DEF UsedSlots
<1> QED BY <1>2, <1>3 DEF Ring, RingConsistent

LEMMA InitRing == Init => Ring
  BY DEF Init, Ring, SlotAt, Slot

(* One unit less in the ring. *)
LEMMA TailRing ==
    ASSUME Typed, Ring, wpc # "move", count > 0,
           head' = head, tail' = Next1(tail), count' = count - 1,
           eventQ' = [eventQ EXCEPT ![tail] = <<>>]
    PROVE  Ring'
<1>t. /\ tail \in Slot /\ head \in Slot /\ eventQ \in [Slot -> Seq(Sample)]
      /\ count \in 1..BufferedTime
      /\ tail' = IF tail = BufferedTime THEN 0 ELSE tail + 1
  BY Next1Value DEF Typed, TypeOK, Ring
<1>1. head' = SlotAt(count)' /\ count' \in 0..BufferedTime /\ count' < BufferedTime
  BY <1>t DEF Ring, SlotAt, Slot
<1>2. ASSUME NEW i \in Slot, eventQ'[i] # <<>> PROVE Offset(i)' < count'
  <2>1. i # tail /\ eventQ[i] # <<>>
    BY <1>t, <1>2
  <2>2. Offset(i) < count
    BY <2>1 DEF Ring
  <2> QED BY <1>t, <2>1, <2>2 DEF Offset, Slot
<1> QED BY <1>1, <1>2 DEF Ring

(* Steps that leave the ring alone. *)
LEMMA SameRing ==
    ASSUME Ring, UNCHANGED <<head, tail, count, eventQ>>, wpc' = "move" <=> wpc = "move"
    PROVE  Ring'
  BY DEF Ring, Offset, SlotAt

(* No thread is left when the filter is stopped, so Run starts the only one. *)
Idle == spc = "stopped" => wpc = "none"

LEMMA StepIdle == Typed /\ Idle /\ [Next]_vars => Idle'
<1> SUFFICES ASSUME Typed, Idle, [Next]_vars PROVE Idle'
  OBVIOUS
<1>t. ctl \in Control
  BY DEF Typed, TypeOK
<1>1. CASE Upstream
  BY <1>1 DEF Upstream, Receive, Enqueue, ReceivePost, Post, Idle
<1>2. CASE ThreadLoop
  BY <1>2 DEF ThreadLoop, Begin, LoopTest, Pend, Wake, GetSample, Drain, Clear, LockPushStream,
     DeliverFlags, PopStreamAll, DropOldest, MoveUnit, Gather, Idle
<1>3. CASE Manager
  <2>1. (\E c \in Control : Request(c)) \/ Run \/ Stop \/ StopPost \/ Join
    BY <1>3, <1>t, RequestType
  <2> QED BY <2>1 DEF Request, Run, Stop, StopPost, Post, Join, Idle
<1>4. CASE UNCHANGED vars
  BY <1>4 DEF vars, Idle
<1> QED BY <1>1, <1>2, <1>3, <1>4 DEF Next

LEMMA StepRing == Typed /\ Typed' /\ Ring /\ Idle /\ [Next]_vars => Ring'
<1> SUFFICES ASSUME Typed, Typed', Ring, Idle, [Next]_vars PROVE Ring'
  OBVIOUS
<1>t. /\ tail \in Slot /\ head \in Slot /\ eventQ \in [Slot -> Seq(Sample)]
      /\ ctl \in Control /\ count \in 0..BufferedTime
  BY DEF Typed, TypeOK, Ring
<1>1. ASSUME Clear PROVE Ring'
  BY <1>1, <1>t, TailRing, SameRing DEF Clear, PopStream
<1>2. ASSUME DropOldest PROVE Ring'
  <2>1. CASE RingFull
    BY <1>2, <1>t, <2>1, TailRing DEF DropOldest, PopStream, RingFull
  <2>2. CASE ~RingFull
    BY <1>2, <1>t, <2>2 DEF DropOldest, RingFull, Ring, Offset, SlotAt
  <2> QED BY <2>1, <2>2
<1>3. ASSUME PopStreamAll PROVE Ring'
  <2>1. CASE count = 0
    BY <1>3, <2>1, SameRing DEF PopStreamAll
  <2>2. CASE count # 0 /\ eventQ[tail] # <<>>
    <3>1. /\ \A i \in Slot : eventQ'[i] # <<>> => eventQ[i] # <<>>
          /\ UNCHANGED <<wpc, head, tail, count>>
      BY <1>3, <1>t, <2>2 DEF PopStreamAll
    <3> QED BY <3>1 DEF Ring, Offset, SlotAt
  <2>3. CASE count # 0 /\ eventQ[tail] = <<>>
    <3>1. eventQ' = [eventQ EXCEPT ![tail] = <<>>]
      BY <1>3, <1>t, <2>3 DEF PopStreamAll
    <3> QED BY <1>3, <1>t, <2>3, <3>1, TailRing DEF PopStreamAll
  <2> QED BY <2>1, <2>2, <2>3
<1>4. ASSUME MoveUnit PROVE Ring'
  <2>1. CASE streamQ # <<>>
    <3>1. /\ \A i \in Slot : eventQ'[i] # <<>> => eventQ[i] # <<>> \/ i = head
          /\ UNCHANGED <<wpc, head, tail, count>> /\ wpc = "move"
      BY <1>4, <1>t, <2>1 DEF MoveUnit
    <3> QED BY <3>1 DEF Ring, Offset, SlotAt
  <2>2. CASE streamQ = <<>>
    <3>1. /\ count' = count + 1 /\ count < BufferedTime /\ wpc' = "gather" /\ wpc = "move"
          /\ head' = IF head = BufferedTime THEN 0 ELSE head + 1
          /\ UNCHANGED <<tail, eventQ>>
      BY <1>4, <1>t, <2>2, Next1Value DEF MoveUnit, Ring
    <3>2. head' = SlotAt(count)' /\ count' \in 0..BufferedTime
      BY <1>t, <3>1 DEF Ring, SlotAt, Slot
    <3>3. ASSUME NEW i \in Slot, eventQ'[i] # <<>> PROVE Offset(i)' < count'
      <4>1. Offset(i) < count \/ i = head
        BY <3>1, <3>3 DEF Ring
      <4> QED BY <1>t, <3>1, <4>1 DEF Ring, Offset, SlotAt, Slot
    <3> QED BY <3>1, <3>2, <3>3 DEF Ring
  <2> QED BY <2>1, <2>2
<1>5. ASSUME \/ \E sync \in BOOLEAN : Receive(sync)
             \/ Enqueue \/ ReceivePost \/ Begin \/ LoopTest \/ Pend \/ Wake \/ GetSample
             \/ Drain \/ LockPushStream \/ DeliverFlags \/ Gather
       PROVE Ring'
  BY <1>5, SameRing DEF Receive, Enqueue, ReceivePost, Post, Begin, LoopTest, Pend, Wake, GetSample,
     Drain, LockPushStream, DeliverFlags, Gather
<1>6. ASSUME Manager PROVE Ring'
  <2>1. (\E c \in Control : Request(c)) \/ Run \/ Stop \/ StopPost \/ Join
    BY <1>6, <1>t, RequestType
  <2>2. UNCHANGED <<head, tail, count, eventQ>>
    BY <2>1 DEF Request, Run, Stop, StopPost, Join
  <2>3. wpc' = "move" <=> wpc = "move"
    BY <2>1 DEF Request, Run, Stop, StopPost, Post, Join, Idle
  <2> QED BY <2>2, <2>3, SameRing
<1>7. CASE UNCHANGED vars
  BY <1>7, SameRing DEF vars
<1> QED
  BY <1>1, <1>2, <1>3, <1>4, <1>5, <1>6, <1>7 DEF Next, Upstream, ThreadLoop

(* The count of the ring agrees with its indexes in every state, whatever is  *)
(* configured and asked: no unit is overwritten and none is forgotten.        *)
THEOREM RingKept == Spec => []RingConsistent
<1>1. Typed /\ Ring /\ Idle /\ [Next]_vars => Typed' /\ Ring' /\ Idle'
  BY StepTyped, StepRing, StepIdle
<1>2. Init => Typed /\ Ring /\ Idle
  BY InitTyped, InitRing DEF Init, Idle
<1> QED
  BY <1>1, <1>2, RingMeaning, PTL DEF Spec

(***************************************************************************)
(* The line of the samples.  What is received is taken out in the order of *)
(* its numbers: newest is the last one that was queued, taken the last one *)
(* that was taken out and gathered the last one that was put into the unit.*)
(***************************************************************************)
newest == IF rpc = "wait" THEN last - 1 ELSE last
taken == newest - Len(inQ)
gathered == IF pSample = 0 THEN taken ELSE taken - 1

Pushing == {"lock", "flags", "popAll", "full", "move", "gather"}
Looping == {"loop", "pend", "wait", "woken", "get", "lock"}
Ending == {"flags", "popAll", "full", "move"}
Active == Looping \cup Ending \cup {"gather"}

Line ==
    /\ Sync \subseteq 1..last
    /\ \A s \in 1..last : \E k \in Sync : k <= s /\ s - k < MaxGop
    /\ taken \in Nat
    /\ \A i \in 1..Len(inQ) : inQ[i] = taken + i
    /\ pSample # 0 => pSample = taken /\ wpc \in Pushing

LEMMA InitLine == Init => Line
  BY DEF Init, Line, taken, newest

LEMMA SameLine ==
    ASSUME Line, UNCHANGED <<last, Sync, inQ, pSample>>, rpc' = "wait" <=> rpc = "wait",
           pSample # 0 /\ wpc \in Pushing => wpc' \in Pushing
    PROVE  Line' /\ taken' = taken /\ gathered' = gathered
<1>1. newest' = newest
  BY DEF newest
<1>2. taken' = taken /\ gathered' = gathered
  BY <1>1 DEF taken, gathered
<1> QED BY <1>2 DEF Line

(* Steps that neither receive, queue, take out nor gather a sample. *)
LEMMA OffLine ==
    ASSUME Typed, Idle,
           \/ ReceivePost \/ Begin \/ LoopTest \/ Pend \/ Wake \/ Clear \/ LockPushStream
           \/ DeliverFlags \/ PopStreamAll \/ DropOldest \/ MoveUnit \/ Manager
           \/ UNCHANGED vars
    PROVE  /\ UNCHANGED <<last, Sync, inQ, pSample>> /\ (rpc' = "wait" <=> rpc = "wait")
           /\ wpc \in Pushing => wpc' \in Pushing
<1>1. CASE Manager
  <2>1. (\E c \in Control : Request(c)) \/ Run \/ Stop \/ StopPost \/ Join
    BY <1>1, RequestType DEF Typed, TypeOK
  <2> QED BY <2>1 DEF Request, Run, Stop, StopPost, Post, Join, Idle, Pushing
<1>2. CASE UNCHANGED vars
  BY <1>2 DEF vars
<1>3. CASE ReceivePost \/ Begin \/ LoopTest \/ Pend \/ Wake
  BY <1>3 DEF ReceivePost, Post, Begin, LoopTest, Pend, Wake, Pushing
<1>4. CASE Clear \/ LockPushStream \/ DeliverFlags \/ PopStreamAll \/ DropOldest \/ MoveUnit
  BY <1>4 DEF Clear, LockPushStream, DeliverFlags, PopStreamAll, DropOldest, MoveUnit, Pushing
<1> QED BY <1>1, <1>2, <1>3, <1>4

LEMMA ReceiveDense ==
    ASSUME NEW sync \in BOOLEAN, Receive(sync)
    PROVE  /\ Sync \subseteq Sync' /\ Sync' \subseteq Sync \cup {last + 1}
           /\ last + 1 \in Sync' \/ \E k \in Sync : last + 1 - k < MaxGop
<1>1. CASE sync
  <2>1. Sync' = Sync \cup {last + 1}
    BY <1>1, Zenon DEF Receive
  <2> QED BY <2>1, Zenon
<1>2. CASE ~sync
  <2>1. Sync' = Sync /\ \E k \in Sync : last + 1 - k < MaxGop
    BY <1>2, Zenon DEF Receive
  <2> QED BY <2>1, Zenon
<1> QED BY <1>1, <1>2

LEMMA StepLine == Typed /\ Idle /\ Line /\ [Next]_vars => Line'
<1> SUFFICES ASSUME Typed, Idle, Line, [Next]_vars PROVE Line'
  OBVIOUS
<1>t. last \in Nat /\ inQ \in Seq(Sample) /\ Len(inQ) \in Nat /\ Sync \subseteq Nat
  BY DEF Typed, TypeOK, Sample
<1>1. CASE \E sync \in BOOLEAN : Receive(sync)
  <2>1. /\ last' = last + 1 /\ rpc = "idle" /\ rpc' = "wait"
        /\ UNCHANGED <<inQ, pSample, wpc>>
    BY <1>1 DEF Receive
  <2>2. taken' = taken
    BY <1>t, <2>1 DEF taken, newest
  <2>3. /\ Sync \subseteq Sync' /\ Sync' \subseteq Sync \cup {last + 1}
        /\ last + 1 \in Sync' \/ \E k \in Sync : last + 1 - k < MaxGop
    BY <1>1, ReceiveDense
  <2>4. Sync' \subseteq 1..last'
    BY <1>t, <2>1, <2>3 DEF Line
  <2>5. ASSUME NEW s \in 1..last' PROVE \E k \in Sync' : k <= s /\ s - k < MaxGop
    <3>1. CASE s \in 1..last
      BY <2>3, <3>1 DEF Line
    <3>2. CASE s \notin 1..last
      <4>1. s = last + 1 /\ \A k \in Sync : k <= last + 1
        BY <1>t, <2>1, <3>2 DEF Line
      <4>2. CASE last + 1 \in Sync'
        <5>1. last + 1 <= s /\ s - (last + 1) < MaxGop
          BY <1>t, <4>1
        <5> QED BY <4>2, <5>1
      <4>3. CASE \E k \in Sync : last + 1 - k < MaxGop
        <5>1. PICK k \in Sync : last + 1 - k < MaxGop
          BY <4>3
        <5>2. k \in Sync' /\ k <= s /\ s - k < MaxGop
          BY <1>t, <2>3, <4>1, <5>1
        <5> QED BY <5>2
      <4> QED BY <2>3, <4>2, <4>3
    <3> QED BY <3>1, <3>2
  <2> QED BY <2>1, <2>2, <2>4, <2>5 DEF Line
<1>2. ASSUME Enqueue PROVE Line'
  <2>1. /\ inQ' = Append(inQ, last) /\ rpc = "wait" /\ rpc' = "post" /\ last \in Sample
        /\ UNCHANGED <<last, Sync, pSample, wpc>>
    BY <1>2 DEF Enqueue, Typed, Hands
  <2>2. /\ Len(inQ') = Len(inQ) + 1 /\ inQ'[Len(inQ) + 1] = last
        /\ \A i \in 1..Len(inQ) : inQ'[i] = inQ[i]
    BY <1>t, <2>1
  <2>3. taken' = taken /\ last = taken + Len(inQ) + 1
    BY <1>t, <2>1, <2>2 DEF taken, newest
  <2>4. ASSUME NEW i \in 1..Len(inQ') PROVE inQ'[i] = taken' + i
    <3>1. taken \in Nat /\ \A j \in 1..Len(inQ) : inQ[j] = taken + j
      BY DEF Line
    <3>2. i \in 1..Len(inQ) \/ i = Len(inQ) + 1
      BY <1>t, <2>2
    <3>3. CASE i \in 1..Len(inQ)
      BY <2>2, <2>3, <3>1, <3>3
    <3>4. CASE i = Len(inQ) + 1
      BY <1>t, <2>2, <2>3, <3>1, <3>4
    <3> QED BY <3>2, <3>3, <3>4
  <2> QED BY <2>1, <2>3, <2>4 DEF Line
<1>3. ASSUME GetSample \/ Drain PROVE Line'
  <2>1. CASE inQ = <<>>
    <3>1. UNCHANGED <<last, Sync, inQ, pSample, rpc>> /\ wpc \notin Pushing
      BY <1>3, <2>1 DEF GetSample, Drain, Pushing
    <3> QED BY <3>1, SameLine
  <2>2. CASE inQ # <<>>
    <3>1. /\ inQ' = Tail(inQ) /\ wpc \notin Pushing /\ UNCHANGED <<rpc, last, Sync>>
          /\ \/ pSample' = pSample
             \/ pSample' = Head(inQ) /\ wpc' \in Pushing
      BY <1>3, <2>2 DEF GetSample, Drain, Pushing
    <3>2. /\ Len(inQ) \in Nat \ {0} /\ Head(inQ) = inQ[1] /\ Len(Tail(inQ)) = Len(inQ) - 1
          /\ \A i \in 1..(Len(inQ) - 1) : Tail(inQ)[i] = inQ[i + 1]
      BY <1>t, <2>2
    <3>3. taken' = taken + 1 /\ taken \in Nat /\ taken' \in Nat
      BY <1>t, <3>1, <3>2 DEF taken, newest, Line
    <3>4. Head(inQ) = taken' /\ \A i \in 1..Len(inQ') : inQ'[i] = taken' + i
      BY <3>1, <3>2, <3>3 DEF Line
    <3>5. pSample = 0
      BY <3>1 DEF Line
    <3> QED BY <3>1, <3>3, <3>4, <3>5 DEF Line
  <2> QED BY <2>1, <2>2
<1>4. ASSUME Gather PROVE Line'
  <2>1. UNCHANGED <<last, Sync, inQ, rpc>> /\ pSample' = 0
    BY <1>4 DEF Gather
  <2>2. taken' = taken
    BY <2>1 DEF taken, newest
  <2> QED BY <2>1, <2>2 DEF Line
<1>5. CASE ~((\E sync \in BOOLEAN : Receive(sync)) \/ Enqueue \/ GetSample \/ Drain \/ Gather)
  <2>1. \/ ReceivePost \/ Begin \/ LoopTest \/ Pend \/ Wake \/ Clear \/ LockPushStream
        \/ DeliverFlags \/ PopStreamAll \/ DropOldest \/ MoveUnit \/ Manager
        \/ UNCHANGED vars
    BY <1>5 DEF Next, Upstream, ThreadLoop
  <2> QED BY <2>1, OffLine, SameLine
<1> QED BY <1>1, <1>2, <1>3, <1>4, <1>5

(***************************************************************************)
(* The span of a unit: it has not ended before its next sample, and it     *)
(* ends within Gap and the distance of two sync points.                    *)
(***************************************************************************)
NoEnd(s) == \A k \in Sync : k >= prv + Gap => k > s
Spans ==
    /\ wpc \in Active /\ prv # 0 => prv <= taken
    /\ wpc \in Looping /\ prv # 0 => prv <= gathered /\ NoEnd(gathered)
    /\ wpc = "gather" => prv # 0 /\ NoEnd(pSample)
    /\ wpc \in Ending => prv # 0 /\ cur = pSample /\ prv + Gap <= pSample /\ NoEnd(pSample - 1)

LEMMA LineTyped ==
    ASSUME Typed, Line
    PROVE  /\ taken \in Nat /\ taken <= last /\ last \in Nat /\ prv \in Nat /\ cur \in Nat
           /\ pSample \in Nat /\ gathered \in Int /\ gathered <= taken
           /\ Sync \subseteq Nat /\ Gap \in Nat \ {0} /\ MaxGop \in Nat \ {0}
           /\ wpc \in Pushing => pSample = taken /\ pSample # 0 /\ gathered = pSample - 1
           /\ wpc \notin Pushing => pSample = 0 /\ gathered = taken
<1>1. inQ \in Seq(Sample) /\ last \in Nat /\ pSample \in Nat /\ prv \in Nat /\ cur \in Nat
      /\ Sync \subseteq Nat /\ (wpc \in Pushing => pSample # 0)
  BY DEF Typed, TypeOK, Hands, Sample, Pushing
<1>2. newest \in Int /\ newest <= last /\ Len(inQ) \in Nat
  BY <1>1 DEF newest
<1>3. taken \in Nat /\ taken <= last
  BY <1>1, <1>2 DEF taken, Line
<1>4. wpc \in Pushing => pSample = taken /\ pSample # 0 /\ gathered = pSample - 1
  BY <1>1, <1>3 DEF gathered, Line
<1>5. wpc \notin Pushing => pSample = 0 /\ gathered = taken
  BY DEF gathered, Line
<1>6. gathered \in Int /\ gathered <= taken
  BY <1>3 DEF gathered
<1>7. Gap \in Nat \ {0} /\ MaxGop \in Nat \ {0}
  OBVIOUS
<1> QED BY <1>1, <1>3, <1>4, <1>5, <1>6, <1>7, Zenon

(* A unit that has not ended has less than the longest one's samples. *)
LEMMA Density ==
    ASSUME Typed, Line, NEW s \in Nat, prv <= s, s <= last, prv # 0, NoEnd(s)
    PROVE  s - prv + 1 <= Gap + MaxGop - 1
<1>1. s \in 1..last /\ prv \in Nat
  BY LineTyped
<1>2. PICK k \in Sync : k <= s /\ s - k < MaxGop
  BY <1>1 DEF Line
<1>3. k < prv + Gap
  BY <1>2, LineTyped DEF NoEnd
<1> QED BY <1>1, <1>2, <1>3, LineTyped

LEMMA InitSpans == Init => Spans
  BY DEF Init, Spans, Active, Looping, Ending

LEMMA SameSpans ==
    ASSUME Spans, UNCHANGED <<Sync, pSample, prv, cur>>, taken' = taken, gathered' = gathered,
           wpc' \in Active => wpc \in Active,
           wpc' \in Looping => wpc \in Looping, wpc' = "gather" => wpc = "gather",
           wpc' \in Ending => wpc \in Ending
    PROVE  Spans'
  BY DEF Spans, NoEnd

LEMMA ReceivedLater ==
    ASSUME Typed, Line, (\E sync \in BOOLEAN : Receive(sync)) \/ Enqueue
    PROVE  /\ taken' = taken /\ gathered' = gathered
           /\ UNCHANGED <<wpc, runs, prv, cur, pSample, streamQ, eventQ, head>>
<1>1. CASE \E sync \in BOOLEAN : Receive(sync)
  BY <1>1, LineTyped DEF Receive, taken, gathered, newest
<1>2. CASE Enqueue
  <2>1. /\ inQ' = Append(inQ, last) /\ rpc = "wait" /\ rpc' = "post" /\ inQ \in Seq(Sample)
        /\ last \in Sample
        /\ UNCHANGED <<last, pSample, wpc, runs, prv, cur, streamQ, eventQ, head>>
    BY <1>2 DEF Enqueue, Typed, TypeOK, Hands
  <2>2. taken' = taken
    <3>1. Len(inQ') = Len(inQ) + 1 /\ Len(inQ) \in Nat
      BY <2>1
    <3> QED BY <2>1, <3>1, LineTyped DEF taken, newest
  <2>3. gathered' = gathered
    BY <2>1, <2>2 DEF gathered
  <2> QED BY <2>1, <2>2, <2>3
<1> QED BY <1>1, <1>2

(* A sample is taken out, and has still to be gathered. *)
LEMMA TakenOut ==
    ASSUME Typed, Line, GetSample
    PROVE  /\ gathered' = gathered /\ taken' \in {taken, taken + 1} /\ wpc = "get"
           /\ wpc' \in {"loop", "lock"} /\ UNCHANGED <<runs, prv, cur, Sync, last>>
<1>1. CASE inQ = <<>>
  <2>1. UNCHANGED <<last, Sync, inQ, pSample, rpc, prv, cur, runs>> /\ wpc = "get" /\ wpc' = "loop"
    BY <1>1 DEF GetSample
  <2> QED BY <2>1, SameLine DEF Pushing
<1>2. CASE inQ # <<>>
  <2>1. /\ inQ' = Tail(inQ) /\ pSample' = Head(inQ) /\ wpc = "get" /\ wpc' = "lock"
        /\ UNCHANGED <<rpc, last, Sync, prv, cur, runs>>
    BY <1>2 DEF GetSample
  <2>2. inQ \in Seq(Sample)
    BY DEF Typed, TypeOK
  <2>3. Head(inQ) \in Sample /\ Len(Tail(inQ)) = Len(inQ) - 1 /\ Len(inQ) \in Nat
    BY <1>2, <2>2
  <2>4. taken' = taken + 1
    BY <2>1, <2>3, LineTyped DEF taken, newest
  <2>5. gathered' = gathered /\ gathered = taken
    BY <2>1, <2>3, <2>4, LineTyped DEF gathered, Pushing, Sample
  <2> QED BY <2>1, <2>4, <2>5
<1> QED BY <1>1, <1>2

LEMMA StepSpans == Typed /\ Idle /\ Line /\ Spans /\ [Next]_vars => Spans'
<1> SUFFICES ASSUME Typed, Idle, Line, Spans, [Next]_vars PROVE Spans'
  OBVIOUS
<1> USE LineTyped
<1>1. ASSUME NEW sync \in BOOLEAN, Receive(sync) PROVE Spans'
  <2>1. /\ last' = last + 1 /\ rpc = "idle" /\ rpc' = "wait"
        /\ Sync' \subseteq Sync \cup {last + 1}
        /\ UNCHANGED <<inQ, pSample, wpc, prv, cur>>
    BY <1>1 DEF Receive
  <2>2. taken' = taken /\ gathered' = gathered
    BY <1>1, ReceivedLater
  <2>3. \A s \in Int : s <= last /\ NoEnd(s) => NoEnd(s)'
    BY <2>1 DEF NoEnd
  <2> QED BY <2>1, <2>2, <2>3 DEF Spans, Ending, Pushing
<1>2. ASSUME Enqueue PROVE Spans'
  <2>1. UNCHANGED Sync
    BY <1>2 DEF Enqueue
  <2> QED BY <1>2, <2>1, ReceivedLater, SameSpans
<1>3. ASSUME GetSample PROVE Spans'
  <2>1. NoEnd(gathered) => NoEnd(gathered)'
    BY <1>3, TakenOut DEF NoEnd
  <2> QED BY <1>3, <2>1, TakenOut DEF Spans, Looping, Active, Ending
<1>4. ASSUME Drain PROVE Spans'
  BY <1>4 DEF Drain, Spans, Looping, Active, Ending
<1>5. ASSUME Gather PROVE Spans'
  <2>1. /\ UNCHANGED <<last, Sync, inQ, rpc, prv, cur>> /\ pSample' = 0
        /\ wpc = "gather" /\ wpc' = "loop"
    BY <1>5 DEF Gather
  <2>2. taken' = taken /\ gathered' = taken /\ pSample = taken
    BY <2>1 DEF taken, newest, gathered, Pushing
  <2>3. NoEnd(gathered)' /\ prv' <= gathered'
    BY <2>1, <2>2 DEF Spans, NoEnd, Active
  <2> QED BY <2>1, <2>2, <2>3 DEF Spans, Looping, Active, Ending
<1>6. ASSUME LockPushStream PROVE Spans'
  <2>1. /\ UNCHANGED <<last, Sync, inQ, rpc, pSample>> /\ wpc = "lock"
        /\ prv' = PrvOf(pSample) /\ cur' = pSample
        /\ \/ EndsUnit(pSample) /\ wpc' = "flags"
           \/ ~EndsUnit(pSample) /\ wpc' = "gather"
    BY <1>6 DEF LockPushStream
  <2>2. pSample \in Nat \ {0} /\ pSample = taken /\ gathered = pSample - 1 /\ taken' = taken
    BY <2>1 DEF Pushing, taken, newest
  <2>3. prv' # 0 /\ prv' <= taken /\ prv' \in Nat
    BY <2>1, <2>2 DEF PrvOf, Spans, Looping, Active
  <2>4. \A k \in Sync : k >= prv' + Gap => k > pSample - 1
    BY <2>1, <2>2 DEF PrvOf, Spans, Looping, NoEnd
  <2>5. CASE EndsUnit(pSample)
    BY <2>1, <2>2, <2>3, <2>4, <2>5 DEF Spans, Looping, Active, Ending, NoEnd, EndsUnit
  <2>6. CASE ~EndsUnit(pSample)
    <3>1. \A k \in Sync : k >= prv' + Gap => k > pSample
      BY <2>1, <2>2, <2>4, <2>6 DEF EndsUnit
    <3> QED BY <2>1, <2>2, <2>3, <2>6, <3>1 DEF Spans, Looping, Active, Ending, NoEnd
  <2> QED BY <2>5, <2>6
<1>7. ASSUME MoveUnit PROVE Spans'
  <2>1. /\ UNCHANGED <<last, Sync, inQ, rpc, pSample, cur>> /\ wpc = "move"
        /\ \/ wpc' = "move" /\ prv' = prv
           \/ wpc' = "gather" /\ prv' = cur
    BY <1>7 DEF MoveUnit
  <2>2. taken' = taken /\ gathered' = gathered
    BY <2>1 DEF taken, newest, gathered
  <2>3. CASE wpc' = "move" /\ prv' = prv
    BY <2>1, <2>2, <2>3, SameSpans
  <2>4. CASE wpc' = "gather" /\ prv' = cur
    <3>1. cur = pSample /\ pSample = taken /\ pSample # 0
      BY <2>1 DEF Spans, Ending, Pushing
    <3> QED BY <2>1, <2>2, <2>4, <3>1 DEF Spans, Looping, Active, Ending, NoEnd
  <2> QED BY <2>1, <2>3, <2>4
<1>8. ASSUME Begin PROVE Spans'
  BY <1>8 DEF Begin, Spans, Looping, Active, Ending
<1>9. ASSUME \/ ReceivePost \/ LoopTest \/ Pend \/ Wake \/ Clear
             \/ DeliverFlags \/ PopStreamAll \/ DropOldest \/ Manager
             \/ UNCHANGED vars
      PROVE Spans'
  <2>1. taken' = taken /\ gathered' = gathered /\ UNCHANGED <<Sync, pSample>>
    BY <1>9, OffLine, SameLine
  <2>2. CASE Manager
    <3>1. (\E c \in Control : Request(c)) \/ Run \/ Stop \/ StopPost \/ Join
      BY <2>2, RequestType DEF Typed, TypeOK
    <3>2. /\ UNCHANGED <<prv, cur>> /\ (wpc' \in Active => wpc \in Active)
          /\ (wpc' \in Looping => wpc \in Looping) /\ (wpc' = "gather" => wpc = "gather")
          /\ (wpc' \in Ending => wpc \in Ending)
      BY <3>1 DEF Idle, Request, Run, Stop, StopPost, Post, Join, Looping, Active, Ending
    <3> QED BY <2>1, <3>2, SameSpans
  <2>3. CASE UNCHANGED vars
    <3>1. UNCHANGED <<prv, cur, wpc>>
      BY <2>3 DEF vars
    <3> QED BY <2>1, <3>1, SameSpans
  <2>4. CASE \/ ReceivePost \/ LoopTest \/ Pend \/ Wake \/ Clear
             \/ DeliverFlags \/ PopStreamAll \/ DropOldest
    <3>1. /\ UNCHANGED <<prv, cur>> /\ (wpc' \in Active => wpc \in Active)
          /\ (wpc' \in Looping => wpc \in Looping) /\ (wpc' = "gather" => wpc = "gather")
          /\ (wpc' \in Ending => wpc \in Ending)
      BY <2>4 DEF ReceivePost, Post, LoopTest, Pend, Wake, Clear, DeliverFlags,
                  PopStreamAll, DropOldest, Looping, Active, Ending
    <3> QED BY <2>1, <3>1, SameSpans
  <2> QED BY <1>9, <2>2, <2>3, <2>4
<1> QED
  BY <1>1, <1>2, <1>3, <1>4, <1>5, <1>6, <1>7, <1>8, <1>9 DEF Next, Upstream, ThreadLoop

(***************************************************************************)
(* The room of a unit.  A run of the thread gathers no more than one       *)
(* longest unit beside what the runs before it left in m_StreamQueue.      *)
(***************************************************************************)
Unit == Gap + MaxGop - 1
Room(r) == r * Unit
InUnit == Len(streamQ) + (IF wpc = "move" THEN Len(eventQ[head]) ELSE 0)
Fits ==
    /\ runs <= MaxRun /\ (wpc # "none" => runs >= 1)
    /\ InUnit <= Room(runs)
    /\ wpc = "begin" \/ (wpc \in Looping /\ prv = 0) => InUnit <= Room(runs - 1)
    /\ wpc \in Looping /\ prv # 0 => InUnit <= Room(runs - 1) + gathered - prv + 1
    /\ wpc = "gather" => InUnit <= Room(runs - 1) + pSample - prv

LEMMA Rooms ==
    /\ Unit \in Nat \ {0} /\ MaxRun \in Nat /\ Room(0) = 0
    /\ \A r \in Nat : Room(r) \in Nat /\ Room(r + 1) = Room(r) + Unit
    /\ \A r \in Nat : r >= 1 => Room(r) = Room(r - 1) + Unit /\ Room(r - 1) \in Nat
    /\ \A r \in Nat : r <= MaxRun => Room(r) <= Room(MaxRun)
<1>1. Unit \in Nat \ {0} /\ MaxRun \in Nat
  BY DEF Unit
<1>2. \A u \in Nat : \A r \in Nat : r * u \in Nat /\ (r + 1) * u = r * u + u
  OBVIOUS
<1>3. \A u \in Nat : \A r, d \in Nat : (r + d) * u = r * u + d * u
  OBVIOUS
<1>4. \A r \in Nat : Room(r) \in Nat /\ Room(r + 1) = Room(r) + Unit
  BY <1>1, <1>2 DEF Room
<1>5. \A r \in Nat : r >= 1 => Room(r) = Room(r - 1) + Unit /\ Room(r - 1) \in Nat
  <2> SUFFICES ASSUME NEW r \in Nat, r >= 1
               PROVE  Room(r) = Room(r - 1) + Unit /\ Room(r - 1) \in Nat
    OBVIOUS
  <2>1. r - 1 \in Nat /\ (r - 1) + 1 = r
    OBVIOUS
  <2> QED BY <1>4, <2>1
<1>6. \A r \in Nat : r <= MaxRun => Room(r) <= Room(MaxRun)
  <2> SUFFICES ASSUME NEW r \in Nat, r <= MaxRun PROVE Room(r) <= Room(MaxRun)
    OBVIOUS
  <2> DEFINE d == MaxRun - r
  <2>1. d \in Nat /\ MaxRun = r + d
    BY <1>1
  <2> HIDE DEF d
  <2>2. MaxRun * Unit = r * Unit + d * Unit
    BY <1>1, <1>3, <2>1
  <2>3. d * Unit \in Nat /\ r * Unit \in Nat
    BY <1>1, <1>2, <2>1
  <2> QED BY <2>2, <2>3 DEF Room
<1>7. Room(0) = 0
  BY <1>1 DEF Room
<1> QED BY <1>1, <1>4, <1>5, <1>6, <1>7

LEMMA Lengths ==
    ASSUME Typed
    PROVE  /\ Len(streamQ) \in Nat /\ Len(eventQ[head]) \in Nat /\ InUnit \in Nat /\ runs \in Nat
           /\ wpc # "move" => InUnit = Len(streamQ)
           /\ wpc = "move" => InUnit = Len(streamQ) + Len(eventQ[head])
<1>1. streamQ \in Seq(Sample) /\ eventQ[head] \in Seq(Sample) /\ runs \in Nat
  BY DEF Typed, TypeOK
<1>2. Len(streamQ) \in Nat /\ Len(eventQ[head]) \in Nat
  BY <1>1
<1> QED BY <1>1, <1>2 DEF InUnit

LEMMA PushedLength ==
    ASSUME NEW q \in Seq(Sample), NEW s \in Sample
    PROVE  Len(Pushed(q, s)) <= Len(q) + 1
<1>1. Len(Append(q, s)) = Len(q) + 1 /\ Len(q) \in Nat
  OBVIOUS
<1> QED BY <1>1 DEF Pushed

(* Outside the moving of a unit the slot it goes to is empty. *)
LEMMA HeadEmpty ==
    ASSUME Typed, Ring, wpc # "move"
    PROVE  eventQ[head] = <<>>
<1>1. /\ tail \in Slot /\ head \in Slot /\ count \in 0..BufferedTime /\ head = SlotAt(count)
  BY DEF Typed, TypeOK, Ring
<1>2. Offset(head) = count
  BY <1>1 DEF SlotAt, Offset, Slot
<1> QED BY <1>1, <1>2 DEF Ring

LEMMA InitFits == Init => Fits
  BY Rooms, HeadEmpty DEF Init, Fits, InUnit, Looping

LEMMA SameFits ==
    ASSUME Fits, UNCHANGED <<runs, prv, pSample>>, gathered' = gathered, InUnit' = InUnit,
           wpc' # "none" => wpc # "none", wpc' = "begin" => wpc = "begin",
           wpc' \in Looping => wpc \in Looping, wpc' = "gather" => wpc = "gather"
    PROVE  Fits'
  BY DEF Fits

(* There is room for the sample that is gathered next. *)
LEMMA UnitFits ==
    ASSUME Typed, Line, Spans, Fits, wpc = "gather"
    PROVE  InUnit < Room(runs)
<1>1. /\ pSample \in Nat /\ prv \in Nat /\ prv <= pSample /\ pSample <= last
      /\ NoEnd(pSample) /\ prv # 0
  BY LineTyped DEF Spans, Pushing, Active
<1>2. pSample - prv + 1 <= Unit
  BY <1>1, Density DEF Unit
<1>3. runs >= 1 /\ InUnit <= Room(runs - 1) + pSample - prv
  BY DEF Fits
<1>4. InUnit \in Nat /\ runs \in Nat
  BY Lengths
<1>5. Room(runs) = Room(runs - 1) + Unit /\ Room(runs - 1) \in Nat /\ Unit \in Nat
  BY <1>3, <1>4, Rooms
<1> QED BY <1>1, <1>2, <1>3, <1>4, <1>5

LEMMA StepFits == Typed /\ Typed' /\ Ring /\ Idle /\ Line /\ Spans /\ Fits /\ [Next]_vars => Fits'
<1> SUFFICES ASSUME Typed, Typed', Ring, Idle, Line, Spans, Fits, [Next]_vars PROVE Fits'
  OBVIOUS
<1>t. /\ streamQ \in Seq(Sample) /\ eventQ \in [Slot -> Seq(Sample)] /\ runs \in Nat
      /\ head \in Slot /\ pSample \in Nat
      /\ wpc \in Pushing => pSample \in Sample
  <2>1. wpc \in Pushing => pSample \in Sample
    BY DEF Typed, Hands, Pushing
  <2> QED BY <2>1, LineTyped DEF Typed, TypeOK
<1>u. \A r \in Nat : r >= 1 => Room(r) = Room(r - 1) + Unit /\ Room(r - 1) \in Nat
  BY Rooms
<1>1. CASE (\E sync \in BOOLEAN : Receive(sync)) \/ Enqueue
  <2>1. InUnit' = InUnit
    BY <1>1, ReceivedLater DEF InUnit
  <2> QED BY <1>1, <2>1, ReceivedLater, SameFits
<1>2. CASE GetSample
  <2>1. InUnit' = InUnit /\ prv' = prv
    BY <1>2 DEF GetSample, InUnit
  <2> QED BY <1>2, <2>1, TakenOut DEF Fits, Looping
<1>3. CASE Drain \/ Clear
  <2>1. /\ wpc \in {"drain", "clear"} /\ wpc' \in {"drain", "clear", "done"}
        /\ UNCHANGED <<runs, streamQ>>
    BY <1>3 DEF Drain, Clear
  <2> QED BY <2>1 DEF Fits, InUnit, Looping
<1>4. CASE LoopTest \/ Pend \/ Wake \/ ReceivePost \/ DeliverFlags \/ PopStreamAll
  <2>1. UNCHANGED <<last, Sync, inQ, pSample>> /\ gathered' = gathered
    BY <1>4, OffLine, SameLine
  <2>2. InUnit' = InUnit
    BY <1>4 DEF LoopTest, Pend, Wake, ReceivePost, Post, DeliverFlags, PopStreamAll, InUnit
  <2>3. /\ UNCHANGED <<runs, prv>> /\ (wpc' # "none" => wpc # "none")
        /\ (wpc' = "begin" => wpc = "begin")
        /\ (wpc' \in Looping => wpc \in Looping) /\ (wpc' = "gather" => wpc = "gather")
    BY <1>4 DEF LoopTest, Pend, Wake, ReceivePost, Post, DeliverFlags, PopStreamAll, Looping
  <2> QED BY <2>1, <2>2, <2>3, SameFits
<1>5. CASE Begin
  <2>1. InUnit' = InUnit /\ wpc = "begin" /\ wpc' = "loop" /\ prv' = 0 /\ runs' = runs
    BY <1>5 DEF Begin, InUnit
  <2> QED BY <2>1 DEF Fits, Looping
<1>6. CASE LockPushStream
  <2>1. /\ InUnit' = InUnit /\ wpc = "lock" /\ prv' = PrvOf(pSample) /\ UNCHANGED <<runs, pSample>>
        /\ wpc' \in {"flags", "gather"}
    BY <1>6 DEF LockPushStream, InUnit
  <2>2. InUnit <= Room(runs) /\ gathered + 1 = pSample /\ pSample \in Nat /\ pSample # 0
    BY <2>1, LineTyped DEF Fits, Looping, Pushing
  <2>3. runs >= 1 /\ Room(runs - 1) \in Nat /\ InUnit \in Nat /\ prv \in Nat
    BY <1>t, <1>u, <2>1, Lengths, LineTyped DEF Fits
  <2>4. InUnit <= Room(runs - 1) + pSample - prv'
    BY <2>1, <2>2, <2>3, LineTyped DEF Fits, PrvOf, Looping
  <2> QED BY <2>1, <2>2, <2>4 DEF Fits, Looping
<1>7. CASE DropOldest
  <2>1. /\ wpc = "full" /\ wpc' = "move" /\ UNCHANGED <<runs, streamQ, head>>
        /\ eventQ' = eventQ \/ eventQ' = [eventQ EXCEPT ![tail] = <<>>]
    BY <1>7 DEF DropOldest, PopStream
  <2>2. eventQ'[head] = <<>>
    BY <1>t, <2>1, HeadEmpty
  <2>3. InUnit' = InUnit
    BY <1>t, <2>1, <2>2, Lengths DEF InUnit
  <2> QED BY <2>1, <2>3 DEF Fits, Looping
<1>8. CASE MoveUnit
  <2>1. CASE streamQ # <<>>
    <3> DEFINE m == Head(streamQ)
    <3>1. /\ wpc = "move" /\ wpc' = "move" /\ streamQ' = Tail(streamQ)
          /\ eventQ' = [eventQ EXCEPT ![head] = Pushed(@, m)] /\ UNCHANGED <<runs, head>>
      BY <1>8, <2>1 DEF MoveUnit
    <3>2. m \in Sample /\ Len(streamQ') = Len(streamQ) - 1
      BY <1>t, <2>1, <3>1
    <3>3. eventQ'[head'] = Pushed(eventQ[head], m)
      BY <1>t, <3>1
    <3>4. Len(eventQ'[head']) <= Len(eventQ[head]) + 1
      BY <1>t, <3>2, <3>3, PushedLength
    <3>5. Len(eventQ'[head']) \in Nat
      BY Lengths, <1>t, <3>2, <3>3, QueueType
    <3>6. InUnit' <= InUnit
      <4>1. InUnit' = Len(streamQ') + Len(eventQ'[head'])
        BY <3>1 DEF InUnit
      <4>2. InUnit = Len(streamQ) + Len(eventQ[head])
        BY <3>1, Lengths
      <4> HIDE DEF m
      <4> QED BY <3>2, <3>4, <3>5, <4>1, <4>2, Lengths
    <3>7. InUnit' \in Int /\ InUnit \in Int /\ Room(runs) \in Int
      BY <1>t, <3>1, <3>2, <3>5, Lengths, Rooms DEF InUnit
    <3>8. InUnit' <= Room(runs)
      BY <3>6, <3>7 DEF Fits
    <3> QED BY <3>1, <3>8 DEF Fits, Looping
  <2>2. CASE streamQ = <<>>
    <3>1. /\ wpc = "move" /\ wpc' = "gather" /\ prv' = cur /\ UNCHANGED <<runs, streamQ, pSample>>
          /\ cur = pSample
      BY <1>8, <2>2 DEF MoveUnit, Spans, Ending
    <3>2. InUnit' = 0 /\ runs >= 1
      BY <2>2, <3>1 DEF InUnit, Fits
    <3>3. 0 <= Room(runs) /\ 0 <= Room(runs - 1) + pSample - prv'
      <4>1. Room(runs) \in Nat /\ Room(runs - 1) \in Nat
        BY <1>t, <1>u, <3>2, Rooms
      <4>2. prv' = pSample
        BY <3>1
      <4> QED BY <1>t, <4>1, <4>2
    <3> QED BY <3>1, <3>2, <3>3 DEF Fits, Looping
  <2> QED BY <2>1, <2>2
<1>9. CASE Gather
  <2>1. /\ wpc = "gather" /\ wpc' = "loop" /\ streamQ' = Pushed(streamQ, pSample) /\ pSample' = 0
        /\ UNCHANGED <<runs, prv, inQ, rpc, last>>
    BY <1>9 DEF Gather
  <2>2. pSample \in Sample /\ gathered' = pSample
    <3>1. taken' = taken /\ pSample = taken
      BY <2>1, LineTyped DEF taken, newest, Pushing
    <3> QED BY <1>t, <2>1, <3>1 DEF gathered, Pushing
  <2>3. Len(streamQ') <= Len(streamQ) + 1 /\ Len(streamQ') \in Nat
    BY <1>t, <2>1, <2>2, PushedLength, QueueType
  <2>4. InUnit' <= InUnit + 1 /\ InUnit' \in Nat /\ InUnit \in Nat
    BY <2>1, <2>3, Lengths DEF InUnit
  <2>5. InUnit < Room(runs) /\ InUnit <= Room(runs - 1) + pSample - prv /\ prv # 0 /\ runs >= 1
    BY <2>1, UnitFits DEF Fits, Spans
  <2>6. Room(runs) \in Nat /\ Room(runs - 1) \in Nat /\ prv \in Nat /\ pSample \in Nat
    BY <1>t, <1>u, <2>5, Rooms, LineTyped
  <2>7. InUnit' <= Room(runs) /\ InUnit' <= Room(runs - 1) + gathered' - prv + 1
    BY <2>2, <2>4, <2>5, <2>6
  <2> QED BY <2>1, <2>5, <2>7 DEF Fits, Looping
<1>10. CASE Manager
  <2>1. (\E c \in Control : Request(c)) \/ Run \/ Stop \/ StopPost \/ Join
    BY <1>10, RequestType DEF Typed, TypeOK
  <2>2. CASE Run
    <3>1. /\ wpc = "none" /\ wpc' = "begin" /\ runs' = runs + 1 /\ runs < MaxRun
          /\ UNCHANGED <<streamQ, prv, pSample>>
      BY <2>2 DEF Run, Idle
    <3>2. InUnit' = InUnit /\ InUnit \in Nat
      BY <3>1, Lengths DEF InUnit
    <3>3. Room(runs') = Room(runs) + Unit /\ runs' - 1 = runs /\ Room(runs) \in Nat /\ Unit \in Nat
      <4>1. Room(runs + 1) = Room(runs) + Unit /\ Room(runs) \in Nat /\ Unit \in Nat
        BY <1>t, Rooms
      <4>2. runs' - 1 = runs
        BY <1>t, <3>1
      <4> QED BY <3>1, <4>1, <4>2
    <3> QED BY <1>t, <3>1, <3>2, <3>3 DEF Fits, Looping
  <2>3. CASE ~Run
    <3>1. UNCHANGED <<last, Sync, inQ, pSample>> /\ gathered' = gathered
      BY <1>10, OffLine, SameLine
    <3>2. InUnit' = InUnit /\ UNCHANGED <<runs, prv>>
      BY <2>1, <2>3 DEF Request, Stop, StopPost, Post, Join, InUnit
    <3>3. /\ (wpc' # "none" => wpc # "none") /\ (wpc' = "begin" => wpc = "begin")
          /\ (wpc' \in Looping => wpc \in Looping) /\ (wpc' = "gather" => wpc = "gather")
      BY <2>1, <2>3 DEF Request, Stop, StopPost, Post, Join, Looping
    <3> QED BY <3>1, <3>2, <3>3, SameFits
  <2> QED BY <2>2, <2>3
<1>11. CASE UNCHANGED vars
  <2>1. gathered' = gathered
    BY <1>11, OffLine, SameLine
  <2>2. InUnit' = InUnit /\ UNCHANGED <<runs, prv, pSample, wpc>>
    BY <1>11 DEF vars, InUnit
  <2> QED BY <2>1, <2>2, SameFits
<1> QED
  BY <1>1, <1>2, <1>3, <1>4, <1>5, <1>6, <1>7, <1>8, <1>9, <1>10, <1>11
  DEF Next, Upstream, ThreadLoop

(***************************************************************************)
(* Nothing is leaked where the queues have room for what the runs of the   *)
(* thread can leave in a unit: Stop does not empty m_StreamQueue, so what  *)
(* a run could not finish is still there in the next.                      *)
(***************************************************************************)
RoomForRuns == MaxRun * (Gap + MaxGop - 1) <= Depth
Kept == locked \subseteq Holders

LEMMA PushedWhole ==
    ASSUME NEW q \in Seq(Sample), NEW s \in Sample, Len(q) < Depth
    PROVE  Pushed(q, s) = Append(q, s) /\ Range(Pushed(q, s)) = Range(q) \cup {s}
<1>1. Len(q) \in Nat
  OBVIOUS
<1>2. Pushed(q, s) = Append(q, s)
  BY <1>1 DEF Pushed
<1> QED BY <1>2, AppendRange

LEMMA BufferedAt == \A x : x \in Buffered <=> \E i \in Slot : x \in Range(eventQ[i])
  BY DEF Buffered

LEMMA BufferedNext == \A x : x \in Buffered' <=> \E i \in Slot : x \in Range(eventQ'[i])
  BY DEF Buffered

LEMMA UnmovedKept == Kept /\ Unmoved => Kept'
<1> SUFFICES ASSUME Kept, Unmoved PROVE Kept'
  OBVIOUS
<1>1. InHand' = InHand /\ Buffered' = Buffered
  BY DEF Unmoved, InHand, Buffered
<1> QED BY <1>1 DEF Kept, Holders, Unmoved

LEMMA PopStreamKept ==
    ASSUME Typed, Kept, PopStream, UNCHANGED <<rpc, last, pSample, inQ, streamQ>>
    PROVE  Kept'
<1>1. /\ \A i \in Slot : eventQ'[i] = IF i = tail THEN <<>> ELSE eventQ[i]
      /\ locked' = locked \ Range(eventQ[tail]) /\ InHand' = InHand
  BY DEF PopStream, Unlock, InHand, Typed, TypeOK
<1>2. \A x \in Buffered : x \in Buffered' \/ x \in Range(eventQ[tail])
  BY <1>1, BufferedAt, BufferedNext
<1> QED BY <1>1, <1>2 DEF Kept, Holders

LEMMA StepKept ==
    RoomForRuns /\ Typed /\ Ring /\ Idle /\ Line /\ Spans /\ Fits /\ Kept /\ [Next]_vars => Kept'
<1> SUFFICES ASSUME RoomForRuns, Typed, Ring, Idle, Line, Spans, Fits, Kept, [Next]_vars
             PROVE  Kept'
  OBVIOUS
<1>t. /\ inQ \in Seq(Sample) /\ streamQ \in Seq(Sample) /\ eventQ \in [Slot -> Seq(Sample)]
      /\ head \in Slot /\ tail \in Slot
  BY DEF Typed, TypeOK
<1>r. Room(runs) <= Depth /\ Room(runs) \in Nat
  <2>1. Room(MaxRun) <= Depth /\ Room(MaxRun) \in Nat /\ Room(runs) \in Nat
    BY Rooms, Lengths DEF RoomForRuns, Room, Unit
  <2>2. Room(runs) <= Room(MaxRun)
    BY Rooms, Lengths DEF Fits
  <2> QED BY <2>1, <2>2
<1>1. CASE \E sync \in BOOLEAN : Receive(sync)
  <2>1. /\ last' = last + 1 /\ rpc' = "wait" /\ rpc = "idle" /\ locked' = locked \cup {last + 1}
        /\ UNCHANGED <<inQ, streamQ, eventQ, pSample>>
    BY <1>1 DEF Receive
  <2>2. InHand' = InHand \cup {last + 1} /\ Buffered' = Buffered
    BY <2>1 DEF InHand, Buffered
  <2> QED BY <2>1, <2>2 DEF Kept, Holders
<1>2. CASE Enqueue
  <2>1. /\ rpc = "wait" /\ rpc' = "post" /\ inQ' = Append(inQ, last) /\ last \in Sample
        /\ UNCHANGED <<locked, streamQ, eventQ, pSample, last>>
    BY <1>2 DEF Enqueue, Typed, Hands
  <2>2. Range(inQ') = Range(inQ) \cup {last}
    BY <1>t, <2>1, AppendRange
  <2>3. InHand \subseteq InHand' \cup {last} /\ Buffered' = Buffered
    BY <2>1 DEF InHand, Buffered
  <2> QED BY <2>1, <2>2, <2>3 DEF Kept, Holders
<1>3. CASE GetSample
  <2>1. CASE inQ = <<>>
    BY <1>3, <2>1, UnmovedKept DEF GetSample, Unmoved
  <2>2. CASE inQ # <<>>
    <3>1. /\ pSample' = Head(inQ) /\ inQ' = Tail(inQ) /\ wpc = "get"
          /\ UNCHANGED <<locked, streamQ, eventQ, last, rpc>>
      BY <1>3, <2>2 DEF GetSample
    <3>2. Range(inQ) = {Head(inQ)} \cup Range(inQ') /\ Head(inQ) \in Sample
      BY <1>t, <2>2, <3>1, PoppedRange, QueueType
    <3>3. pSample = 0
      BY <3>1, LineTyped DEF Pushing
    <3>4. InHand' = InHand \cup {Head(inQ)} /\ Buffered' = Buffered
      BY <3>1, <3>2, <3>3 DEF InHand, Buffered, Sample
    <3> QED BY <3>1, <3>2, <3>4 DEF Kept, Holders
  <2> QED BY <2>1, <2>2
<1>4. CASE Drain
  <2>1. CASE inQ = <<>>
    BY <1>4, <2>1, UnmovedKept DEF Drain, Unmoved
  <2>2. CASE inQ # <<>>
    <3>1. /\ locked' = locked \ {Head(inQ)} /\ inQ' = Tail(inQ)
          /\ UNCHANGED <<pSample, streamQ, eventQ, last, rpc>>
      BY <1>4, <2>2 DEF Drain, Unlock
    <3>2. Range(inQ) = {Head(inQ)} \cup Range(inQ')
      BY <1>t, <2>2, <3>1, PoppedRange
    <3>3. InHand' = InHand /\ Buffered' = Buffered
      BY <3>1 DEF InHand, Buffered
    <3> QED BY <3>1, <3>2, <3>3 DEF Kept, Holders
  <2> QED BY <2>1, <2>2
<1>5. CASE Clear \/ DropOldest
  <2>1. UNCHANGED <<rpc, last, pSample, inQ, streamQ>>
    BY <1>5 DEF Clear, DropOldest
  <2>2. CASE PopStream
    BY <2>1, <2>2, PopStreamKept
  <2>3. CASE UNCHANGED <<locked, eventQ, tail, count>>
    BY <2>1, <2>3, UnmovedKept DEF Unmoved
  <2> QED BY <1>5, <2>2, <2>3 DEF Clear, DropOldest
<1>6. CASE PopStreamAll
  <2> DEFINE unit == eventQ[tail]
  <2>1. CASE count = 0 \/ unit = <<>>
    BY <1>6, <2>1, UnmovedKept DEF PopStreamAll, Unmoved
  <2>2. CASE count # 0 /\ unit # <<>>
    <3>1. /\ \A i \in Slot : eventQ'[i] = IF i = tail THEN Tail(unit) ELSE eventQ[i]
          /\ locked' = locked \ {Head(unit)}
          /\ UNCHANGED <<rpc, last, pSample, inQ, streamQ>>
      BY <1>6, <1>t, <2>2 DEF PopStreamAll, Unlock
    <3>2. Range(unit) = {Head(unit)} \cup Range(Tail(unit))
      BY <1>t, <2>2, PoppedRange
    <3>3. InHand' = InHand
      BY <3>1 DEF InHand
    <3> HIDE DEF unit
    <3>4. \A x \in Buffered : x \in Buffered' \/ x = Head(unit)
      <4>1. \A i \in Slot : Range(eventQ[i]) \subseteq Range(eventQ'[i]) \cup {Head(unit)}
        BY <3>1, <3>2 DEF unit
      <4> QED BY <4>1, BufferedAt, BufferedNext
    <3> QED BY <3>1, <3>3, <3>4 DEF Kept, Holders
  <2> QED BY <2>1, <2>2
<1>7. CASE MoveUnit
  <2>1. CASE streamQ = <<>>
    BY <1>7, <2>1, UnmovedKept DEF MoveUnit, Unmoved
  <2>2. CASE streamQ # <<>>
    <3> DEFINE m == Head(streamQ)
               q == Pushed(eventQ[head], m)
    <3>1. /\ wpc = "move" /\ \A i \in Slot : eventQ'[i] = IF i = head THEN q ELSE eventQ[i]
          /\ streamQ' = Tail(streamQ) /\ UNCHANGED <<rpc, last, pSample, inQ, locked>>
      BY <1>7, <1>t, <2>2 DEF MoveUnit
    <3>2. m \in Sample /\ Range(streamQ) = {m} \cup Range(streamQ') /\ Len(streamQ) >= 1
      <4>1. m \in Sample /\ Range(streamQ) = {m} \cup Range(Tail(streamQ))
        BY <1>t, <2>2, PoppedRange, QueueType
      <4>2. Len(streamQ) >= 1
        BY <1>t, <2>2
      <4> QED BY <3>1, <4>1, <4>2
    <3>3. Len(eventQ[head]) < Depth
      BY <1>r, <3>1, <3>2, Lengths DEF Fits
    <3>4. Range(q) = Range(eventQ[head]) \cup {m}
      BY <1>t, <3>2, <3>3, PushedWhole
    <3>5. InHand' = InHand
      BY <3>1 DEF InHand
    <3> HIDE DEF q, m
    <3>6. /\ \A i \in Slot : Range(eventQ[i]) \subseteq Range(eventQ'[i])
          /\ m \in Range(eventQ'[head])
      BY <1>t, <3>1, <3>4
    <3>7. Buffered \cup {m} \subseteq Buffered'
      BY <1>t, <3>6, BufferedAt, BufferedNext
    <3> QED BY <3>1, <3>2, <3>5, <3>7 DEF Kept, Holders
  <2> QED BY <2>1, <2>2
<1>8. CASE Gather
  <2>1. /\ wpc = "gather" /\ streamQ' = Pushed(streamQ, pSample) /\ pSample' = 0
        /\ UNCHANGED <<rpc, last, inQ, locked, eventQ>>
    BY <1>8 DEF Gather
  <2>2. pSample \in Sample
    BY <2>1 DEF Typed, Hands
  <2>3. Len(streamQ) < Depth
    BY <1>r, <2>1, UnitFits, Lengths
  <2>4. Range(streamQ') = Range(streamQ) \cup {pSample}
    BY <1>t, <2>1, <2>2, <2>3, PushedWhole
  <2>5. InHand \subseteq InHand' \cup {pSample} /\ Buffered' = Buffered
    BY <2>1 DEF InHand, Buffered
  <2> QED BY <2>1, <2>4, <2>5 DEF Kept, Holders
<1>9. CASE \/ ReceivePost \/ Begin \/ LoopTest \/ Pend \/ Wake \/ LockPushStream \/ DeliverFlags
           \/ Manager \/ UNCHANGED vars
  <2>1. CASE Manager
    <3>1. (\E c \in Control : Request(c)) \/ Run \/ Stop \/ StopPost \/ Join
      BY <2>1, RequestType DEF Typed, TypeOK
    <3>2. Unmoved
      BY <3>1 DEF Unmoved, Request, Run, Stop, StopPost, Join
    <3> QED BY <3>2, UnmovedKept
  <2>2. CASE UNCHANGED vars
    BY <2>2, UnmovedKept DEF vars, Unmoved
  <2>3. CASE ReceivePost \/ Begin \/ LoopTest \/ Pend \/ Wake \/ LockPushStream \/ DeliverFlags
    <3>1. Unmoved
      BY <2>3 DEF Unmoved, ReceivePost, Begin, LoopTest, Pend, Wake, LockPushStream, DeliverFlags
    <3> QED BY <3>1, UnmovedKept
  <2> QED BY <1>9, <2>1, <2>2, <2>3
<1> QED
  BY <1>1, <1>2, <1>3, <1>4, <1>5, <1>6, <1>7, <1>8, <1>9 DEF Next, Upstream, ThreadLoop

Ranged == Typed /\ Ring /\ Idle /\ Line /\ Spans /\ Fits
LEMMA InitRanged == Init => Ranged
  BY InitTyped, InitRing, InitLine, InitSpans, InitFits DEF Ranged, Init, Idle
LEMMA StepRanged == Ranged /\ [Next]_vars => Ranged'
  BY StepTyped, StepRing, StepIdle, StepLine, StepSpans, StepFits DEF Ranged

(* No sample is lost in a full queue, however the key frames fall within what *)
(* the encoder promises and whenever the filter is stopped: as long as the    *)
(* queue has room for the longest unit once for every run of the thread.      *)
THEOREM NoneLeaked == RoomForRuns /\ Spec => []NothingLeaked
<1> DEFINE KeptInv == RoomForRuns /\ Ranged /\ Kept
<1>1. RoomForRuns /\ Init => KeptInv
  <2>1. Init => Kept
    BY DEF Init, Kept
  <2> QED BY <2>1, InitRanged
<1>2. KeptInv /\ [Next]_vars => KeptInv'
  BY StepRanged, StepKept DEF Ranged, RoomForRuns
<1>3. KeptInv => NothingLeaked
  BY DEF Ranged, Typed, Kept, NothingLeaked
<1> QED BY <1>1, <1>2, <1>3, PTL DEF Spec

(***************************************************************************)
(* The order of the samples in the first run of the thread: the units of   *)
(* the ring, the unit that is gathered and the sample in hand are one line *)
(* without a hole.  front is the sample that leaves m_StreamQueue next.    *)
(***************************************************************************)
RoomForUnit == Gap + MaxGop - 1 <= Depth

front == gathered - Len(streamQ) + 1
Begins(i) == IF eventQ[i] # <<>> THEN eventQ[i][1] ELSE front
InOrder(q) == \A k \in 1..Len(q) : q[k] = q[1] + k - 1
Gathering == runs = 1 /\ wpc \in Active

UnitOrdered(i) ==
    /\ Offset(i) < count => eventQ[i] # <<>> \/ (wpc = "popAll" /\ i = tail)
    /\ InOrder(eventQ[i])
    /\ eventQ[i] # <<>> =>
          eventQ[i][Len(eventQ[i])] + 1 =
             IF wpc = "move" /\ i = head THEN front ELSE Begins(Next1(i))
StreamOrdered ==
    /\ \A i \in 1..Len(streamQ) : streamQ[i] = front + i - 1
    /\ prv = 0 => streamQ = <<>>
    /\ prv # 0 /\ wpc # "move" => front = prv
    /\ wpc = "move" => eventQ[head] # <<>> \/ streamQ # <<>>
Ordered == Gathering => StreamOrdered /\ \A i \in Slot : UnitOrdered(i)

(* Before its first sample the thread finds everything empty. *)
Fresh ==
    runs = 0 \/ (runs = 1 /\ wpc = "begin") =>
        /\ streamQ = <<>> /\ count = 0 /\ \A i \in Slot : eventQ[i] = <<>>
        /\ sink.file = "none"

LEMMA FirstIn ==
    ASSUME NEW q \in Seq(Sample), NEW s \in Sample, InOrder(q), q # <<>> => q[Len(q)] + 1 = s
    PROVE  /\ InOrder(Append(q, s)) /\ Append(q, s) # <<>>
           /\ Append(q, s)[1] = IF q = <<>> THEN s ELSE q[1]
           /\ Append(q, s)[Len(Append(q, s))] = s
<1> DEFINE r == Append(q, s)
<1>1. /\ Len(q) \in Nat /\ Len(r) = Len(q) + 1 /\ r[Len(q) + 1] = s
      /\ \A k \in 1..Len(q) : r[k] = q[k] /\ q[k] \in Nat
      /\ s \in Nat /\ r # <<>> /\ (q = <<>> <=> Len(q) = 0)
  BY DEF Sample
<1> HIDE DEF r
<1>2. r[1] = IF q = <<>> THEN s ELSE q[1]
  BY <1>1
<1>3. InOrder(r)
  <2> SUFFICES ASSUME NEW k \in 1..Len(r) PROVE r[k] = r[1] + k - 1
    BY DEF InOrder
  <2>1. CASE k \in 1..Len(q)
    BY <1>1, <1>2, <2>1 DEF InOrder
  <2>2. CASE k = Len(q) + 1 /\ q # <<>>
    <3>1. q[Len(q)] = q[1] + Len(q) - 1 /\ q[1] \in Nat
      BY <1>1, <2>2 DEF InOrder
    <3> QED BY <1>1, <1>2, <2>2, <3>1
  <2>3. CASE k = Len(q) + 1 /\ q = <<>>
    BY <1>1, <1>2, <2>3
  <2> QED BY <1>1, <2>1, <2>2, <2>3
<1> QED BY <1>1, <1>2, <1>3 DEF r

LEMMA FirstOut ==
    ASSUME NEW q \in Seq(Sample), InOrder(q), q # <<>>
    PROVE  /\ InOrder(Tail(q)) /\ Head(q) = q[1] /\ q[1] \in Sample
           /\ Tail(q) # <<>> => Tail(q)[1] = q[1] + 1 /\ Tail(q)[Len(Tail(q))] = q[Len(q)]
           /\ Tail(q) = <<>> => q[Len(q)] = q[1]
<1> DEFINE r == Tail(q)
<1>1. /\ Len(q) \in Nat \ {0} /\ Len(r) = Len(q) - 1 /\ Head(q) = q[1]
      /\ \A k \in 1..Len(r) : r[k] = q[k + 1]
      /\ \A k \in 1..Len(q) : q[k] \in Sample
      /\ (r = <<>> <=> Len(r) = 0)
  <2>1. r \in Seq(Sample)
    OBVIOUS
  <2>2. r = <<>> <=> Len(r) = 0
    <3> HIDE DEF r
    <3> QED BY <2>1
  <2> QED BY <2>2
<1> HIDE DEF r
<1>2. q[1] \in Nat /\ q[1] \in Sample
  BY <1>1 DEF Sample
<1>3. r # <<>> => r[1] = q[1] + 1 /\ r[Len(r)] = q[Len(q)]
  BY <1>1, <1>2 DEF InOrder
<1>4. InOrder(r)
  <2> SUFFICES ASSUME NEW k \in 1..Len(r) PROVE r[k] = r[1] + k - 1
    BY DEF InOrder
  <2>1. r[k] = q[k + 1] /\ q[k + 1] = q[1] + k /\ r[1] = q[2] /\ q[2] = q[1] + 1
    BY <1>1, <1>2 DEF InOrder
  <2> QED BY <1>1, <1>2, <2>1
<1>5. r = <<>> => q[Len(q)] = q[1]
  <2>1. r = <<>> => Len(q) = 1
    BY <1>1
  <2> QED BY <2>1
<1> QED BY <1>1, <1>2, <1>3, <1>4, <1>5 DEF r

(* The slots of the ring. *)
LEMMA Places ==
    ASSUME Typed, Ring
    PROVE  /\ \A i \in Slot : Offset(i) \in 0..BufferedTime /\ Next1(i) \in Slot /\ Next1(i) # i
           /\ Offset(tail) = 0 /\ Offset(head) = count
           /\ \A i \in Slot : Offset(i) = 0 => i = tail
           /\ \A i \in Slot : Offset(i) = count => i = head
           /\ \A i \in Slot : Offset(i) < BufferedTime => Offset(Next1(i)) = Offset(i) + 1
           /\ \A i \in Slot : Offset(i) = BufferedTime <=> Next1(i) = tail
<1>1. /\ tail \in Slot /\ head \in Slot /\ count \in 0..BufferedTime /\ head = SlotAt(count)
  BY DEF Typed, TypeOK, Ring
<1>2. \A i \in Slot : Next1(i) = IF i = BufferedTime THEN 0 ELSE i + 1
  BY Next1Value
<1> QED BY <1>1, <1>2 DEF Offset, SlotAt, Slot

LEMMA Holding ==
    ASSUME Typed, Ring, NEW i \in Slot, eventQ[i] # <<>>
    PROVE  /\ Offset(i) < count \/ (wpc = "move" /\ i = head)
           /\ Offset(i) < BufferedTime /\ Next1(i) # tail
<1>1. Offset(i) < count \/ (wpc = "move" /\ i = head)
  BY DEF Ring
<1>2. count \in 0..BufferedTime /\ (wpc = "move" => count < BufferedTime)
  BY DEF Ring
<1>3. Offset(i) < BufferedTime
  BY <1>1, <1>2, Places
<1> QED BY <1>1, <1>3, Places

LEMMA LineStays ==
    ASSUME gathered' = gathered, streamQ' = streamQ
    PROVE  front' = front
  BY DEF front

LEMMA SameOrdered ==
    ASSUME Typed, Ring, Ordered, UNCHANGED <<runs, streamQ, eventQ, head, tail, count>>, gathered' = gathered,
           wpc' \in Active => wpc \in Active /\ (prv' = prv \/ (prv = 0 /\ prv' = front)),
           wpc' = "move" <=> wpc = "move", wpc = "popAll" => wpc' = "popAll" \/ count = 0
    PROVE  Ordered'
<1>1. front' = front
  BY LineStays
<1> SUFFICES ASSUME Gathering' PROVE (StreamOrdered /\ \A i \in Slot : UnitOrdered(i))'
  BY DEF Ordered
<1>2. StreamOrdered /\ \A i \in Slot : UnitOrdered(i)
  BY DEF Ordered, Gathering
<1>3. StreamOrdered'
  BY <1>1, <1>2 DEF StreamOrdered, Gathering
<1>4. ASSUME NEW i \in Slot PROVE UnitOrdered(i)'
  <2>1. Begins(Next1(i))' = Begins(Next1(i)) /\ Offset(i)' = Offset(i)
    BY <1>1 DEF Begins, Offset
  <2>2. Offset(i)' < count' => eventQ'[i] # <<>> \/ (wpc' = "popAll" /\ i = tail')
    BY <1>2, <2>1, Places DEF UnitOrdered
  <2>3. InOrder(eventQ'[i])
    BY <1>2 DEF UnitOrdered
  <2>4. eventQ'[i] # <<>> =>
          eventQ'[i][Len(eventQ'[i])] + 1 =
             IF wpc' = "move" /\ i = head' THEN front' ELSE Begins(Next1(i))'
    BY <1>1, <1>2, <2>1 DEF UnitOrdered
  <2> QED BY <2>2, <2>3, <2>4 DEF UnitOrdered
<1> QED BY <1>3, <1>4

(* The oldest unit is let go, or found empty. *)
LEMMA TailOrdered ==
    ASSUME Typed, Ring, Ordered, wpc # "move", count > 0,
           UNCHANGED <<runs, streamQ, head, prv>>, gathered' = gathered,
           tail' = Next1(tail), count' = count - 1,
           eventQ' = [eventQ EXCEPT ![tail] = <<>>],
           wpc' \in Active => wpc \in Active,
           wpc' = "move" => prv # 0 /\ streamQ # <<>>
    PROVE  Ordered'
<1>1. front' = front
  BY LineStays
<1>t. /\ eventQ \in [Slot -> Seq(Sample)] /\ tail \in Slot /\ head \in Slot
      /\ tail' = IF tail = BufferedTime THEN 0 ELSE tail + 1
  BY Next1Value DEF Typed, TypeOK
<1> SUFFICES ASSUME Gathering' PROVE (StreamOrdered /\ \A i \in Slot : UnitOrdered(i))'
  BY DEF Ordered
<1>2. StreamOrdered /\ \A i \in Slot : UnitOrdered(i)
  BY DEF Ordered, Gathering
<1>3. StreamOrdered'
  BY <1>1, <1>2 DEF StreamOrdered
<1>4. ASSUME NEW i \in Slot PROVE UnitOrdered(i)'
  <2>1. eventQ'[i] = IF i = tail THEN <<>> ELSE eventQ[i]
    BY <1>t
  <2>2. Offset(i)' = IF i = tail THEN BufferedTime ELSE Offset(i) - 1
    BY <1>t DEF Offset, Slot
  <2>3. count \in 0..BufferedTime /\ Offset(i) \in 0..BufferedTime
    BY Places DEF Ring
  <2>4. Offset(i)' < count' => eventQ'[i] # <<>>
    BY <1>2, <2>1, <2>2, <2>3 DEF UnitOrdered
  <2>5. InOrder(eventQ'[i])
    BY <1>2, <2>1 DEF UnitOrdered, InOrder
  <2>6. ASSUME eventQ'[i] # <<>>
        PROVE  eventQ'[i][Len(eventQ'[i])] + 1 =
                  IF wpc' = "move" /\ i = head' THEN front' ELSE Begins(Next1(i))'
    <3>1. i # tail /\ eventQ'[i] = eventQ[i] /\ eventQ[i] # <<>>
      BY <2>1, <2>6
    <3>2. Next1(i) # tail /\ Next1(i) \in Slot /\ i # head
      BY <3>1, Holding, HeadEmpty, Places
    <3>3. Begins(Next1(i))' = Begins(Next1(i))
      BY <1>t, <1>1, <3>2 DEF Begins
    <3> QED BY <1>2, <3>1, <3>2, <3>3 DEF UnitOrdered
  <2> QED BY <2>4, <2>5, <2>6 DEF UnitOrdered
<1> QED BY <1>3, <1>4

(* A sample of the oldest unit is delivered. *)
LEMMA OutOrdered ==
    ASSUME Typed, Ring, Ordered, wpc = "popAll", wpc' = "popAll", eventQ[tail] # <<>>,
           UNCHANGED <<runs, streamQ, head, tail, count, prv>>, gathered' = gathered,
           eventQ' = [eventQ EXCEPT ![tail] = Tail(@)]
    PROVE  Ordered'
<1>1. front' = front
  BY LineStays
<1>t. /\ eventQ \in [Slot -> Seq(Sample)] /\ tail \in Slot /\ head \in Slot
  BY DEF Typed, TypeOK
<1> SUFFICES ASSUME Gathering' PROVE (StreamOrdered /\ \A i \in Slot : UnitOrdered(i))'
  BY DEF Ordered
<1>2. StreamOrdered /\ \A i \in Slot : UnitOrdered(i)
  BY DEF Ordered, Gathering, Active, Ending
<1>3. StreamOrdered'
  BY <1>1, <1>2 DEF StreamOrdered
<1>4. ASSUME NEW i \in Slot PROVE UnitOrdered(i)'
  <2>1. eventQ'[i] = IF i = tail THEN Tail(eventQ[tail]) ELSE eventQ[i]
    BY <1>t
  <2>2. Offset(i)' = Offset(i)
    BY DEF Offset
  <2>3. InOrder(eventQ[tail]) /\ eventQ[tail] \in Seq(Sample)
    BY <1>t, <1>2 DEF UnitOrdered
  <2>4. Offset(i)' < count' => eventQ'[i] # <<>> \/ (wpc' = "popAll" /\ i = tail')
    BY <1>2, <2>1, <2>2 DEF UnitOrdered
  <2>5. InOrder(eventQ'[i])
    BY <1>2, <2>1, <2>3, FirstOut DEF UnitOrdered
  <2>6. ASSUME eventQ'[i] # <<>>
        PROVE  eventQ'[i][Len(eventQ'[i])] + 1 =
                  IF wpc' = "move" /\ i = head' THEN front' ELSE Begins(Next1(i))'
    <3>1. eventQ[i] # <<>> /\ eventQ'[i][Len(eventQ'[i])] = eventQ[i][Len(eventQ[i])]
      BY <2>1, <2>3, <2>6, FirstOut
    <3>2. Next1(i) # tail /\ Next1(i) \in Slot
      BY <3>1, Holding, Places
    <3>3. Begins(Next1(i))' = Begins(Next1(i))
      BY <1>t, <1>1, <3>2 DEF Begins
    <3> QED BY <1>2, <3>1, <3>3 DEF UnitOrdered
  <2> QED BY <2>4, <2>5, <2>6 DEF UnitOrdered
<1> QED BY <1>3, <1>4

(* The first sample of the unit that ended moves into the ring. *)
LEMMA MoveOrdered ==
    ASSUME Typed, Ring, Ordered, Gathering, wpc = "move", wpc' = "move", streamQ # <<>>,
           Len(eventQ[head]) < Depth,
           UNCHANGED <<runs, head, tail, count, prv>>, gathered' = gathered,
           streamQ' = Tail(streamQ),
           eventQ' = [eventQ EXCEPT ![head] = Pushed(@, Head(streamQ))]
    PROVE  Ordered' /\ Head(streamQ) = front /\ front' = front + 1
<1> DEFINE m == Head(streamQ)
<1>t. /\ eventQ \in [Slot -> Seq(Sample)] /\ tail \in Slot /\ head \in Slot
      /\ streamQ \in Seq(Sample)
  BY DEF Typed, TypeOK
<1>2. StreamOrdered /\ \A i \in Slot : UnitOrdered(i)
  BY DEF Ordered
<1>3. /\ Len(streamQ) \in Nat \ {0} /\ m = streamQ[1] /\ Len(streamQ') = Len(streamQ) - 1
      /\ \A i \in 1..Len(streamQ') : streamQ'[i] = streamQ[i + 1]
      /\ m \in Sample
  BY <1>t
<1>4. m = front /\ front \in Nat
  <2>1. streamQ[1] = front + 1 - 1
    BY <1>2, <1>3 DEF StreamOrdered
  <2>2. front + 1 - 1 = front
    <3>1. taken \in Int
      BY DEF Typed, TypeOK, taken, newest
    <3>2. gathered \in Int
      BY <3>1 DEF gathered
    <3> QED BY <1>3, <3>2 DEF front
  <2> QED BY <1>3, <2>1, <2>2 DEF Sample
<1>5. front' = front + 1
  <2>1. gathered \in Int
    BY DEF Typed, TypeOK, gathered, taken, newest
  <2> QED BY <1>3, <2>1 DEF front
<1>6. eventQ'[head] = Append(eventQ[head], m) /\ eventQ[head] \in Seq(Sample)
  BY <1>t, <1>3, PushedWhole
<1>7. /\ InOrder(eventQ'[head]) /\ eventQ'[head] # <<>>
      /\ eventQ'[head][1] = IF eventQ[head] = <<>> THEN m ELSE eventQ[head][1]
      /\ eventQ'[head][Len(eventQ'[head])] = m
  <2>1. InOrder(eventQ[head]) /\ (eventQ[head] # <<>> => eventQ[head][Len(eventQ[head])] + 1 = m)
    BY <1>t, <1>2, <1>4 DEF UnitOrdered
  <2> DEFINE q == eventQ[head]
  <2>2. q \in Seq(Sample) /\ m \in Sample /\ InOrder(q) /\ (q # <<>> => q[Len(q)] + 1 = m)
    BY <1>3, <1>6, <2>1
  <2> HIDE DEF m, q
  <2>3. /\ InOrder(Append(q, m)) /\ Append(q, m) # <<>>
        /\ Append(q, m)[1] = IF q = <<>> THEN m ELSE q[1]
        /\ Append(q, m)[Len(Append(q, m))] = m
    BY <2>2, FirstIn
  <2> QED BY <1>6, <2>3 DEF q
<1> HIDE DEF m
<1>8. StreamOrdered'
  BY <1>2, <1>3, <1>4, <1>5, <1>7 DEF StreamOrdered
<1>9. ASSUME NEW i \in Slot PROVE UnitOrdered(i)'
  <2>1. i # head => eventQ'[i] = eventQ[i]
    BY <1>t
  <2>2. Offset(i)' = Offset(i)
    BY DEF Offset
  <2>3. Offset(i)' < count' => eventQ'[i] # <<>>
    BY <1>2, <1>7, <2>1, <2>2 DEF UnitOrdered
  <2>4. InOrder(eventQ'[i])
    BY <1>2, <1>7, <2>1 DEF UnitOrdered
  <2>5. CASE i = head
    BY <1>4, <1>5, <1>7, <2>3, <2>4, <2>5 DEF UnitOrdered
  <2>6. CASE i # head /\ eventQ[i] # <<>>
    <3>1. eventQ[i][Len(eventQ[i])] + 1 = Begins(Next1(i)) /\ Offset(i) < count
      BY <1>2, <2>6, Holding DEF UnitOrdered
    <3>2. Next1(i) \in Slot /\ (Next1(i) = head \/ Offset(Next1(i)) < count)
      BY <2>6, <3>1, Places, Holding DEF Ring
    <3>3. Begins(Next1(i))' = Begins(Next1(i))
      <4>1. CASE Next1(i) = head
        BY <1>4, <1>7, <4>1 DEF Begins
      <4>2. CASE Next1(i) # head
        <5>1. eventQ[Next1(i)] # <<>> /\ eventQ'[Next1(i)] = eventQ[Next1(i)]
          BY <1>t, <1>2, <3>2, <4>2 DEF UnitOrdered
        <5> QED BY <5>1 DEF Begins
      <4> QED BY <4>1, <4>2
    <3> QED BY <2>1, <2>3, <2>4, <2>6, <3>1, <3>3 DEF UnitOrdered
  <2>7. CASE i # head /\ eventQ[i] = <<>>
    BY <2>1, <2>3, <2>4, <2>7 DEF UnitOrdered
  <2> QED BY <2>5, <2>6, <2>7
<1> QED BY <1>4, <1>5, <1>8, <1>9 DEF Ordered, m

(* The unit is complete in the ring, and the next one begins. *)
LEMMA UnitOrders ==
    ASSUME Typed, Ring, Line, Ordered, wpc = "move", wpc' = "gather", streamQ = <<>>,
           UNCHANGED <<runs, tail, streamQ, eventQ>>, gathered' = gathered,
           head' = Next1(head), count' = count + 1, prv' = cur, cur = pSample
    PROVE  Ordered'
<1>1. front' = front
  BY LineStays
<1>t. /\ eventQ \in [Slot -> Seq(Sample)] /\ tail \in Slot /\ head \in Slot
  BY DEF Typed, TypeOK
<1> SUFFICES ASSUME Gathering' PROVE (StreamOrdered /\ \A i \in Slot : UnitOrdered(i))'
  BY DEF Ordered
<1>2. StreamOrdered /\ \A i \in Slot : UnitOrdered(i)
  BY DEF Ordered, Gathering, Active, Ending
<1>3. StreamOrdered'
  <2>1. gathered = pSample - 1 /\ pSample \in Nat /\ pSample # 0
    BY LineTyped DEF Pushing
  <2>2. front = pSample
    BY <2>1 DEF front
  <2> QED BY <1>1, <2>1, <2>2 DEF StreamOrdered
<1>4. ASSUME NEW i \in Slot PROVE UnitOrdered(i)'
  <2>1. Offset(i)' = Offset(i) /\ Offset(i) \in 0..BufferedTime /\ count < BufferedTime
        /\ count \in Nat
    BY Places DEF Offset, Ring
  <2>2. Offset(i)' < count' => eventQ'[i] # <<>>
    <3>1. Offset(i) = count => eventQ[i] # <<>>
      BY <1>2, Places DEF StreamOrdered
    <3> QED BY <1>2, <2>1, <3>1 DEF UnitOrdered
  <2>3. ASSUME eventQ'[i] # <<>>
        PROVE  eventQ'[i][Len(eventQ'[i])] + 1 = Begins(Next1(i))'
    <3>1. CASE i = head
      <4>1. Next1(i) \in Slot /\ Offset(Next1(i)) = count + 1 /\ Next1(i) # head
        BY <2>1, <3>1, Places
      <4>2. eventQ[Next1(i)] = <<>>
        BY <2>1, <4>1 DEF Ring
      <4> QED BY <1>1, <1>2, <2>3, <3>1, <4>2 DEF UnitOrdered, Begins
    <3>2. CASE i # head
      BY <1>1, <1>2, <2>3, <3>2 DEF UnitOrdered, Begins
    <3> QED BY <3>1, <3>2
  <2> QED BY <1>2, <2>2, <2>3 DEF UnitOrdered
<1> QED BY <1>3, <1>4

(* The sample in hand is gathered. *)
LEMMA GatherOrdered ==
    ASSUME Typed, Ring, Line, Spans, Ordered, Gather, Len(streamQ) < Depth
    PROVE  Ordered'
<1>t. /\ streamQ \in Seq(Sample) /\ Len(streamQ) \in Nat
      /\ UNCHANGED <<runs, eventQ, head, tail, count, prv, last, rpc, inQ>>
      /\ wpc = "gather" /\ wpc' = "loop" /\ pSample \in Sample /\ pSample' = 0
      /\ streamQ' = Append(streamQ, pSample)
  BY PushedWhole DEF Typed, TypeOK, Hands, Gather
<1>1. /\ gathered = pSample - 1 /\ gathered' = pSample /\ pSample \in Nat /\ prv # 0
      /\ Len(streamQ') = Len(streamQ) + 1
  <2>1. taken' = taken /\ pSample = taken /\ gathered = pSample - 1 /\ pSample \in Nat
    BY <1>t, LineTyped DEF taken, newest, Pushing
  <2>2. gathered' = pSample
    BY <1>t, <2>1 DEF gathered
  <2> QED BY <1>t, <2>1, <2>2 DEF Spans
<1>2. front' = front /\ front \in Int
  BY <1>t, <1>1 DEF front
<1> SUFFICES ASSUME Gathering' PROVE (StreamOrdered /\ \A i \in Slot : UnitOrdered(i))'
  BY DEF Ordered
<1>3. StreamOrdered /\ \A i \in Slot : UnitOrdered(i)
  BY <1>t DEF Ordered, Gathering, Active
<1>4. StreamOrdered'
  <2>1. ASSUME NEW i \in 1..Len(streamQ') PROVE streamQ'[i] = front' + i - 1
    <3>1. CASE i \in 1..Len(streamQ)
      <4>1. streamQ'[i] = streamQ[i]
        BY <1>t, <3>1
      <4> QED BY <1>2, <1>3, <3>1, <4>1 DEF StreamOrdered
    <3>2. CASE i = Len(streamQ) + 1
      <4>1. streamQ'[i] = pSample
        BY <1>t, <3>2
      <4> QED BY <1>t, <1>1, <1>2, <3>2, <4>1 DEF front
    <3> QED BY <1>t, <1>1, <3>1, <3>2
  <2> QED BY <1>t, <1>1, <1>2, <1>3, <2>1 DEF StreamOrdered
<1>5. ASSUME NEW i \in Slot PROVE UnitOrdered(i)'
  <2>1. Begins(Next1(i))' = Begins(Next1(i)) /\ Offset(i)' = Offset(i)
    BY <1>t, <1>2 DEF Begins, Offset
  <2> QED BY <1>t, <1>2, <1>3, <2>1 DEF UnitOrdered
<1> QED BY <1>4, <1>5

LEMMA InitOrdered == Init => Ordered /\ Fresh
  BY DEF Init, Ordered, Gathering, Fresh

LEMMA StepFresh == Typed /\ Ring /\ Idle /\ Line /\ Fits /\ Fresh /\ [Next]_vars => Fresh'
<1> SUFFICES ASSUME Typed, Ring, Idle, Line, Fits, Fresh, [Next]_vars,
                    runs' = 0 \/ (runs' = 1 /\ wpc' = "begin")
             PROVE  /\ streamQ' = <<>> /\ count' = 0 /\ \A i \in Slot : eventQ'[i] = <<>>
                    /\ sink'.file = "none"
  BY DEF Fresh
<1>t. runs \in Nat /\ (wpc # "none" => runs >= 1)
  BY DEF Typed, TypeOK, Fits
<1>1. CASE Upstream \/ UNCHANGED vars
  BY <1>1 DEF Upstream, Receive, Enqueue, ReceivePost, Post, vars, Fresh
<1>2. CASE ThreadLoop
  BY <1>2, <1>t DEF ThreadLoop, Begin, LoopTest, Pend, Wake, GetSample, Drain, Clear, LockPushStream,
     DeliverFlags, PopStreamAll, DropOldest, MoveUnit, Gather
<1>3. CASE Manager
  <2>1. (\E c \in Control : Request(c)) \/ Run \/ Stop \/ StopPost \/ Join
    BY <1>3, RequestType DEF Typed, TypeOK
  <2>2. UNCHANGED <<streamQ, count, eventQ>>
    BY <2>1 DEF Request, Run, Stop, StopPost, Join
  <2>3. sink' = sink /\ (runs = 0 \/ (runs = 1 /\ wpc = "begin"))
    BY <1>t, <2>1 DEF Request, Run, Stop, StopPost, Post, Join
  <2> QED BY <2>2, <2>3 DEF Fresh
<1> QED BY <1>1, <1>2, <1>3 DEF Next

LEMMA StepOrdered ==
    RoomForUnit /\ Ranged /\ Ordered /\ Fresh /\ [Next]_vars => Ordered'
<1> SUFFICES ASSUME RoomForUnit, Ranged, Ordered, Fresh, [Next]_vars, Gathering'
             PROVE  Ordered'
  BY DEF Ordered
<1>i. Typed /\ Ring /\ Idle /\ Line /\ Spans /\ Fits
  BY DEF Ranged
<1>t. /\ runs \in Nat /\ streamQ \in Seq(Sample) /\ Len(streamQ) \in Nat
      /\ eventQ \in [Slot -> Seq(Sample)] /\ tail \in Slot
  BY <1>i DEF Typed, TypeOK
<1>r. runs = 1 => Room(runs) <= Depth /\ Room(runs) \in Nat
  <2>1. Unit \in Nat /\ 1 * Unit = Unit
    BY Rooms
  <2> QED BY <2>1 DEF RoomForUnit, Room, Unit
<1>1. CASE (\E sync \in BOOLEAN : Receive(sync)) \/ Enqueue
  <2>1. gathered' = gathered /\ UNCHANGED <<runs, prv, streamQ, eventQ, head, wpc>>
    BY <1>i, <1>1, ReceivedLater
  <2>2. UNCHANGED <<tail, count>>
    BY <1>1 DEF Receive, Enqueue
  <2> QED BY <1>i, <2>1, <2>2, SameOrdered
<1>2. CASE GetSample
  <2>1. UNCHANGED <<streamQ, eventQ, head, tail, count>>
    BY <1>2 DEF GetSample
  <2> QED BY <1>i, <1>2, <2>1, TakenOut, SameOrdered DEF Active, Looping
<1>3. CASE Drain \/ Clear
  BY <1>3 DEF Drain, Clear, Gathering, Active, Looping, Ending
<1>4. CASE LoopTest \/ Pend \/ Wake \/ ReceivePost \/ DeliverFlags
  <2>1. gathered' = gathered
    BY <1>i, <1>4, OffLine, SameLine
  <2>2. /\ UNCHANGED <<runs, streamQ, eventQ, head, tail, count, prv>>
        /\ (wpc' \in Active => wpc \in Active) /\ (wpc' = "move" <=> wpc = "move")
        /\ (wpc = "popAll" => wpc' = "popAll")
    BY <1>4 DEF LoopTest, Pend, Wake, ReceivePost, Post, DeliverFlags, Active, Looping, Ending
  <2> QED BY <1>i, <2>1, <2>2, SameOrdered
<1>5. CASE Begin
  <2>1. /\ wpc = "begin" /\ wpc' = "loop" /\ prv' = 0
        /\ UNCHANGED <<runs, streamQ, eventQ, head, tail, count>>
    BY <1>5 DEF Begin
  <2>2. streamQ = <<>> /\ count = 0 /\ \A i \in Slot : eventQ[i] = <<>>
    BY <2>1 DEF Fresh, Gathering
  <2>3. StreamOrdered'
    BY <2>1, <2>2 DEF StreamOrdered
  <2>4. \A i \in Slot : Offset(i)' = Offset(i) /\ Offset(i) \in Nat
    BY <1>i, <2>1, Places DEF Offset
  <2>5. \A i \in Slot : UnitOrdered(i)'
    BY <2>1, <2>2, <2>4 DEF UnitOrdered, InOrder
  <2> QED BY <2>3, <2>5 DEF Ordered
<1>6. CASE LockPushStream
  <2>1. gathered' = gathered
    BY <1>i, <1>6, OffLine, SameLine
  <2>2. /\ UNCHANGED <<runs, streamQ, eventQ, head, tail, count>> /\ wpc = "lock"
        /\ wpc' \in {"flags", "gather"} /\ prv' = PrvOf(pSample)
    BY <1>6 DEF LockPushStream
  <2>3. prv = 0 => front = pSample
    <3>1. gathered = pSample - 1 /\ pSample \in Nat
      BY <1>i, <2>2, LineTyped DEF Pushing
    <3>2. prv = 0 => streamQ = <<>>
      BY <2>2 DEF Ordered, Gathering, StreamOrdered, Active, Looping
    <3> QED BY <3>1, <3>2 DEF front
  <2> QED BY <1>i, <2>1, <2>2, <2>3, SameOrdered DEF PrvOf, Active, Looping, Ending
<1>7. CASE PopStreamAll
  <2>1. gathered' = gathered
    BY <1>i, <1>7, OffLine, SameLine
  <2>2. /\ UNCHANGED <<runs, streamQ, head, prv>> /\ wpc = "popAll"
        /\ count \in Nat
    BY <1>i, <1>7 DEF PopStreamAll, Ring
  <2>3. CASE count = 0
    <3>1. UNCHANGED <<eventQ, tail, count>> /\ wpc' = "full"
      BY <1>7, <2>3 DEF PopStreamAll
    <3> QED BY <1>i, <2>1, <2>2, <2>3, <3>1, SameOrdered DEF Active, Ending
  <2>4. CASE count # 0 /\ eventQ[tail] # <<>>
    <3>1. /\ UNCHANGED <<tail, count, wpc>>
          /\ eventQ' = [eventQ EXCEPT ![tail] = Tail(@)]
      BY <1>7, <2>4 DEF PopStreamAll
    <3> QED BY <1>i, <2>1, <2>2, <2>4, <3>1, OutOrdered
  <2>5. CASE count # 0 /\ eventQ[tail] = <<>>
    <3>1. tail' = Next1(tail) /\ count' = count - 1 /\ UNCHANGED <<wpc, eventQ>>
      BY <1>7, <2>5 DEF PopStreamAll
    <3>2. eventQ' = [eventQ EXCEPT ![tail] = <<>>]
      BY <1>t, <2>5, <3>1
    <3>3. /\ wpc # "move" /\ count > 0 /\ (wpc' \in Active => wpc \in Active)
          /\ (wpc' = "move" => prv # 0 /\ streamQ # <<>>)
      BY <2>2, <2>5, <3>1
    <3>4. UNCHANGED <<runs, streamQ, head, prv>> /\ tail' = Next1(tail) /\ count' = count - 1
      BY <2>2, <3>1
    <3> QED BY <1>i, <2>1, <3>2, <3>3, <3>4, TailOrdered
  <2> QED BY <2>3, <2>4, <2>5
<1>8. CASE DropOldest
  <2>1. gathered' = gathered
    BY <1>i, <1>8, OffLine, SameLine
  <2>2. UNCHANGED <<runs, streamQ, head, prv>> /\ wpc = "full" /\ wpc' = "move"
    BY <1>8 DEF DropOldest
  <2>3. prv # 0 /\ streamQ # <<>>
    <3>1. /\ prv # 0 /\ prv + Gap <= pSample /\ prv \in Nat /\ pSample \in Nat
          /\ gathered = pSample - 1
      BY <1>i, <2>2, LineTyped DEF Spans, Ending, Pushing
    <3>2. front = prv
      BY <2>2, <3>1 DEF Ordered, Gathering, StreamOrdered, Active, Ending
    <3>3. Len(streamQ) = pSample - prv
      BY <1>t, <3>1, <3>2 DEF front
    <3> QED BY <3>1, <3>3
  <2>4. CASE RingFull
    <3>1. /\ count > 0 /\ tail' = Next1(tail) /\ count' = count - 1
          /\ eventQ' = [eventQ EXCEPT ![tail] = <<>>]
      BY <1>i, <1>8, <2>4 DEF DropOldest, PopStream, RingFull, Ring
    <3> QED BY <1>i, <2>1, <2>2, <2>3, <3>1, TailOrdered DEF Active, Ending
  <2>5. CASE ~RingFull
    <3>1. UNCHANGED <<eventQ, tail, count>>
      BY <1>8, <2>5 DEF DropOldest
    <3>2. front' = front
      BY <2>1, <2>2, LineStays
    <3>3. StreamOrdered /\ \A i \in Slot : UnitOrdered(i)
      BY <2>2 DEF Ordered, Gathering, Active, Ending
    <3>4. StreamOrdered'
      BY <2>2, <2>3, <3>2, <3>3 DEF StreamOrdered
    <3>5. eventQ[head] = <<>>
      BY <1>i, <2>2, HeadEmpty
    <3>6. ASSUME NEW i \in Slot PROVE UnitOrdered(i)'
      <4>1. Begins(Next1(i))' = Begins(Next1(i)) /\ Offset(i)' = Offset(i)
        BY <3>1, <3>2 DEF Begins, Offset
      <4> QED BY <2>2, <3>1, <3>2, <3>3, <3>5, <4>1 DEF UnitOrdered
    <3> QED BY <3>4, <3>6 DEF Ordered
  <2> QED BY <2>4, <2>5
<1>9. CASE MoveUnit
  <2>1. gathered' = gathered
    BY <1>i, <1>9, OffLine, SameLine
  <2>2. CASE streamQ # <<>>
    <3>1. /\ wpc = "move" /\ wpc' = "move" /\ UNCHANGED <<runs, head, tail, count, prv>>
          /\ streamQ' = Tail(streamQ)
          /\ eventQ' = [eventQ EXCEPT ![head] = Pushed(@, Head(streamQ))]
      BY <1>9, <2>2 DEF MoveUnit
    <3>2. Len(eventQ[head]) < Depth
      <4>1. Len(streamQ) >= 1
        BY <1>t, <2>2
      <4> QED BY <1>i, <1>r, <3>1, <4>1, Lengths DEF Fits, Gathering
    <3>3. Gathering
      BY <3>1 DEF Gathering, Active, Ending
    <3> QED BY <1>i, <2>1, <2>2, <3>1, <3>2, <3>3, MoveOrdered
  <2>3. CASE streamQ = <<>>
    <3>1. /\ wpc = "move" /\ wpc' = "gather" /\ UNCHANGED <<runs, tail, streamQ, eventQ>>
          /\ head' = Next1(head) /\ count' = count + 1 /\ prv' = cur
      BY <1>9, <2>3 DEF MoveUnit
    <3>2. cur = pSample
      BY <1>i, <3>1 DEF Spans, Ending
    <3> QED BY <1>i, <2>1, <2>3, <3>1, <3>2, UnitOrders
  <2> QED BY <2>2, <2>3
<1>10. CASE Gather
  <2>1. Len(streamQ) < Depth
    <3>1. InUnit < Room(runs) /\ InUnit = Len(streamQ) /\ runs = 1
      BY <1>i, <1>10, UnitFits, Lengths DEF Gather, Gathering
    <3> QED BY <1>r, <1>t, <3>1
  <2> QED BY <1>i, <1>10, <2>1, GatherOrdered
<1>11. CASE Manager
  <2>1. (\E c \in Control : Request(c)) \/ Run \/ Stop \/ StopPost \/ Join
    BY <1>i, <1>11, RequestType DEF Typed, TypeOK
  <2>2. gathered' = gathered
    BY <1>i, <1>11, OffLine, SameLine
  <2>3. ~Run /\ ~Join
    BY DEF Run, Join, Gathering, Active, Looping, Ending
  <2>4. /\ UNCHANGED <<runs, streamQ, eventQ, head, tail, count, prv>>
        /\ (wpc' \in Active => wpc \in Active) /\ (wpc' = "move" <=> wpc = "move")
        /\ (wpc = "popAll" => wpc' = "popAll")
    BY <2>1, <2>3 DEF Request, Stop, StopPost, Post, Active, Looping
  <2> QED BY <1>i, <2>2, <2>4, SameOrdered
<1>12. CASE UNCHANGED vars
  <2>1. gathered' = gathered
    BY <1>i, <1>12, OffLine, SameLine
  <2>2. UNCHANGED <<runs, streamQ, eventQ, head, tail, count, prv, wpc>>
    BY <1>12 DEF vars
  <2> QED BY <1>i, <2>1, <2>2, SameOrdered
<1> QED
  BY <1>1, <1>2, <1>3, <1>4, <1>5, <1>6, <1>7, <1>8, <1>9, <1>10, <1>11, <1>12
  DEF Next, Upstream, ThreadLoop

(***************************************************************************)
(* The event file.  While it is open the thread delivers: the mode is set, *)
(* the status is that of an event, and only a fresh file is open when the  *)
(* buffered samples are asked for.                                         *)
(***************************************************************************)
ModeSet == ctl.pop \/ ctl.start \/ ctl.change \/ ctl.status = "EVENT" => ctl.mode \in Modes

Open ==
    /\ sink.file = "event" /\ wpc # "flags" => ctl.status = "EVENT"
    /\ wpc = "flags" /\ flags = <<>> /\ sink.file = "event" => Answered(ctl).status = "EVENT"
    /\ wpc = "flags" /\ flags = <<>> /\ ctl.pop => sink.data = <<>>
    /\ wpc = "flags" /\ flags # <<>> => (flags[Len(flags)] = "EVENT_START" <=> ctl.pop)
    /\ wpc # "flags" => flags = <<>>

(* The sample the event file is to get next. *)
Out ==
    IF wpc # "popAll" THEN front
    ELSE IF eventQ[tail] # <<>> THEN eventQ[tail][1]
    ELSE IF count = 0 THEN front ELSE Begins(Next1(tail))

Sunk ==
    runs = 1 /\ sink.file = "event" =>
        /\ InOrder(sink.data)
        /\ wpc \in Active /\ sink.data # <<>> => sink.data[Len(sink.data)] + 1 = Out

LEMMA LastJoined ==
    ASSUME NEW S, NEW a \in Seq(S), NEW b \in Seq(S), b # <<>>
    PROVE  a \o b # <<>> /\ (a \o b)[Len(a \o b)] = b[Len(b)]
<1>1. Len(a) \in Nat /\ Len(b) \in Nat /\ Len(a \o b) = Len(a) + Len(b) /\ Len(b) > 0
  OBVIOUS
<1>2. (a \o b)[Len(a) + Len(b)] = b[Len(b)]
  BY <1>1
<1> QED BY <1>1, <1>2

(* An event file is opened by the last flag of a key frame, and only when the *)
(* buffered samples were asked for.                                           *)
LEMMA LastFlag ==
    ASSUME NEW c \in Control
    PROVE  /\ c.pop => FlagsOf(c) # <<>>
           /\ FlagsOf(c) # <<>> => (FlagsOf(c)[Len(FlagsOf(c))] = "EVENT_START" <=> c.pop)
           /\ FlagsOf(c) = <<>> => ~c.pop /\ ~c.stop
<1> DEFINE S == FileFlags \ {"EVENT_START"}
           a == StopFlags(c) \o StartFlags(c) \o ChangeFlags(c)
           b == EventFlags(c)
<1>0. /\ <<>> \in Seq(S) /\ "NORMAL_START" \in S /\ "NORMAL_STOP" \in S /\ "EVENT_STOP" \in S
      /\ \A f \in S : <<f>> \in Seq(S)
      /\ \A f, g \in S : <<f, g>> \in Seq(S)
  BY DEF FileFlags
<1>1. StopFlags(c) \in Seq(S) /\ StartFlags(c) \in Seq(S)
  <2> HIDE DEF S
  <2> QED BY <1>0 DEF StopFlags, StartFlags
<1>2. ChangeFlags(c) \in Seq(S)
  <2> HIDE DEF S
  <2> QED BY <1>0 DEF ChangeFlags
<1>3. a \in Seq(S)
  <2> HIDE DEF S
  <2> QED BY <1>1, <1>2
<1>4. a \in Seq(FileFlags)
  BY <1>3
<1>5. FlagsOf(c) = a \o b
  BY DEF FlagsOf
<1>6. CASE c.pop
  <2>1. b \in Seq(FileFlags) /\ b # <<>> /\ b[Len(b)] = "EVENT_START"
    <3>1. b = <<"NORMAL_STOP", "EVENT_START">> \/ b = <<"EVENT_START">>
      BY <1>6 DEF EventFlags
    <3>2. "NORMAL_STOP" \in FileFlags /\ "EVENT_START" \in FileFlags
      BY DEF FileFlags
    <3> HIDE DEF b
    <3>3. CASE b = <<"NORMAL_STOP", "EVENT_START">>
      <4>1. Len(b) = 2 /\ b[2] = "EVENT_START" /\ b # <<>>
        BY <3>3
      <4>2. b \in Seq(FileFlags)
        BY <3>2, <3>3
      <4> QED BY <4>1, <4>2
    <3>4. CASE b = <<"EVENT_START">>
      <4>1. Len(b) = 1 /\ b[1] = "EVENT_START" /\ b # <<>>
        BY <3>4
      <4>2. b \in Seq(FileFlags)
        BY <3>2, <3>4
      <4> QED BY <4>1, <4>2
    <3> QED BY <3>1, <3>3, <3>4
  <2> HIDE DEF a, b
  <2>2. a \o b # <<>> /\ (a \o b)[Len(a \o b)] = b[Len(b)]
    BY <1>4, <2>1, LastJoined
  <2> QED BY <1>5, <1>6, <2>1, <2>2
<1>7. CASE ~c.pop
  <2>1. b = <<>>
    BY <1>7 DEF EventFlags
  <2>2. FlagsOf(c) = a
    <3> HIDE DEF a, b, S
    <3> QED BY <1>3, <1>5, <2>1
  <2>3. a # <<>> => a[Len(a)] \in S
    <3> HIDE DEF a, S
    <3> QED BY <1>3
  <2>4. c.stop => a # <<>>
    <3>1. c.stop => Len(StopFlags(c)) = 1
      BY DEF StopFlags
    <3>2. /\ Len(StopFlags(c)) \in Nat /\ Len(StartFlags(c)) \in Nat /\ Len(ChangeFlags(c)) \in Nat
          /\ Len(a) = Len(StopFlags(c)) + Len(StartFlags(c)) + Len(ChangeFlags(c))
      <4> HIDE DEF S
      <4> QED BY <1>1, <1>2
    <3>3. a = <<>> => Len(a) = 0
      OBVIOUS
    <3> HIDE DEF a
    <3> QED BY <3>1, <3>2, <3>3
  <2> QED BY <1>7, <2>2, <2>3, <2>4
<1> QED BY <1>6, <1>7

LEMMA InitOpen == Init => ModeSet /\ Open /\ Sunk
<1> SUFFICES ASSUME Init PROVE ModeSet /\ Open /\ Sunk
  OBVIOUS
<1>1. ctl.status = "NORMAL" /\ ~ctl.pop /\ ~ctl.start /\ ~ctl.change
  BY DEF Init, ControlInit
<1>2. sink.file = "none" /\ wpc = "none" /\ flags = <<>>
  BY DEF Init
<1> QED BY <1>1, <1>2 DEF ModeSet, Open, Sunk

(* The requests keep the status, and set the mode before anything but a stop. *)
LEMMA RequestKeeps ==
    ASSUME ctl \in Control, ModeSet, Manager
    PROVE  ModeSet' /\ ctl'.status = ctl.status
<1>1. CASE \E mode \in Modes : ChangeBufferingMode(mode)
  BY <1>1 DEF ChangeBufferingMode, Request, ModeSet, Control
<1>2. CASE PopBufferdData \/ StartFile \/ StopFile \/ ChangeFile
  BY <1>2 DEF PopBufferdData, StartFile, StopFile, ChangeFile, Request, ModeSet, Control
<1>3. CASE Run \/ Stop \/ StopPost \/ Join
  BY <1>3 DEF Run, Stop, StopPost, Join, ModeSet
<1> QED BY <1>1, <1>2, <1>3 DEF Manager

LEMMA ManagerKeeps ==
    ASSUME Typed, Idle, Open, Manager
    PROVE  /\ (wpc = "flags" <=> wpc' = "flags") /\ UNCHANGED flags
           /\ wpc = "flags" => UNCHANGED ctl
           /\ sink' = sink \/ (sink'.file = "none" /\ wpc = "done")
<1>1. (\E c \in Control : Request(c)) \/ Run \/ Stop \/ StopPost \/ Join
  BY RequestType DEF Typed, TypeOK
<1>2. CASE \E c \in Control : Request(c)
  BY <1>2 DEF Request, HoldsBufferedLock
<1>3. CASE Run \/ Stop \/ StopPost
  BY <1>3 DEF Run, Stop, StopPost, Post, Idle
<1>4. CASE Join
  BY <1>4 DEF Join, Typed, TypeOK, File
<1> QED BY <1>1, <1>2, <1>3, <1>4

LEMMA StepModeSet == Typed /\ ModeSet /\ [Next]_vars => ModeSet'
<1> SUFFICES ASSUME Typed, ModeSet, [Next]_vars PROVE ModeSet'
  OBVIOUS
<1>t. ctl \in Control
  BY DEF Typed, TypeOK
<1>1. CASE Manager
  BY <1>t, <1>1, RequestKeeps
<1>2. CASE DeliverFlags
  BY <1>t, <1>2 DEF DeliverFlags, ModeSet, Answered, StatusAfterStop, Control
<1>3. CASE Upstream \/ UNCHANGED vars
  BY <1>3 DEF Upstream, Receive, Enqueue, ReceivePost, vars, ModeSet
<1>4. CASE ThreadLoop /\ ~DeliverFlags
  BY <1>4 DEF ThreadLoop, Begin, LoopTest, Pend, Wake, GetSample, Drain, Clear, LockPushStream,
     PopStreamAll, DropOldest, MoveUnit, Gather, ModeSet
<1> QED BY <1>1, <1>2, <1>3, <1>4 DEF Next

(* What is open after a flag. *)
LEMMA AfterAFlag ==
    ASSUME NEW k \in File, NEW f \in FileFlags
    PROVE  /\ AfterFlag(k, f).file = "event" <=> f = "EVENT_START"
           /\ f = "EVENT_START" => AfterFlag(k, f).data = <<>>
  BY DEF AfterFlag, File, FileFlags

LEMMA AfterASample ==
    ASSUME NEW k \in File, NEW s \in Sample
    PROVE  /\ AfterSample(k, s).file = k.file
           /\ k.file = "event" => AfterSample(k, s).data = Append(k.data, s)
  BY DEF AfterSample, File

LEMMA StepOpen == Typed /\ Idle /\ ModeSet /\ Open /\ [Next]_vars => Open'
<1> SUFFICES ASSUME Typed, Idle, ModeSet, Open, [Next]_vars PROVE Open'
  OBVIOUS
<1>t. ctl \in Control /\ sink \in File /\ flags \in Seq(FileFlags) /\ eventQ \in [Slot -> Seq(Sample)]
      /\ streamQ \in Seq(Sample) /\ tail \in Slot
  BY DEF Typed, TypeOK
<1>1. CASE Manager
  <2>1. ctl'.status = ctl.status
    BY <1>t, <1>1, RequestKeeps
  <2>2. CASE wpc = "flags"
    BY <1>1, <2>2, ManagerKeeps DEF Open
  <2>3. CASE wpc # "flags"
    BY <1>1, <2>1, <2>3, ManagerKeeps DEF Open
  <2> QED BY <2>2, <2>3
<1>2. CASE DeliverFlags /\ flags # <<>>
  <2> DEFINE f == Head(flags)
  <2>1. /\ wpc = "flags" /\ wpc' = "flags" /\ sink' = AfterFlag(sink, f) /\ flags' = Tail(flags)
        /\ ctl' = ctl
    BY <1>2 DEF DeliverFlags
  <2>2. /\ f \in FileFlags
        /\ flags' # <<>> => flags'[Len(flags')] = flags[Len(flags)]
        /\ flags' = <<>> => f = flags[Len(flags)]
    <3>1. Len(flags) \in Nat /\ Len(flags) > 0 /\ f = flags[1] /\ f \in FileFlags
      BY <1>t, <1>2
    <3>2. Len(flags') = Len(flags) - 1 /\ \A i \in 1..(Len(flags) - 1) : flags'[i] = flags[i + 1]
      BY <1>t, <1>2, <2>1
    <3>3. flags' = <<>> <=> Len(flags') = 0
      <4>1. flags' \in Seq(FileFlags)
        BY <1>t, <1>2, <2>1
      <4> QED BY <4>1
    <3> QED BY <3>1, <3>2, <3>3
  <2> HIDE DEF f
  <2>3. flags[Len(flags)] = "EVENT_START" <=> ctl.pop
    BY <1>2, <2>1 DEF Open
  <2>4. flags' = <<>> /\ sink'.file = "event" => Answered(ctl).status = "EVENT"
    BY <1>t, <2>1, <2>2, <2>3, AfterAFlag DEF Answered, Control
  <2>5. flags' = <<>> /\ ctl.pop => sink'.data = <<>>
    BY <1>t, <2>1, <2>2, <2>3, AfterAFlag
  <2> QED BY <2>1, <2>2, <2>3, <2>4, <2>5 DEF Open
<1>3. CASE DeliverFlags /\ flags = <<>>
  <2>1. /\ wpc = "flags" /\ wpc' \in {"popAll", "full"} /\ ctl' = Answered(ctl)
        /\ UNCHANGED <<sink, flags>>
    BY <1>3 DEF DeliverFlags
  <2> QED BY <1>3, <2>1 DEF Open
<1>4. CASE LockPushStream
  <2>1. /\ wpc = "lock" /\ UNCHANGED <<sink, ctl>> /\ flags = <<>>
        /\ (wpc' = "gather" /\ flags' = flags) \/ (wpc' = "flags" /\ flags' = FlagsOf(ctl))
    BY <1>4 DEF LockPushStream, Open
  <2>2. CASE wpc' = "gather"
    BY <2>1, <2>2 DEF Open
  <2>3. CASE wpc' = "flags"
    <3>1. sink.file = "event" => ctl.status = "EVENT"
      BY <2>1 DEF Open
    <3>2. ctl.status = "EVENT" /\ ~ctl.stop /\ ~ctl.pop /\ ~ctl.change => Answered(ctl).status = "EVENT"
      BY <1>t DEF Answered, StatusAfterStop, Control
    <3>3. FlagsOf(ctl) = <<>> /\ ctl.status = "EVENT" => ~ctl.change
      <4> SUFFICES ASSUME ctl.change, ctl.status = "EVENT", ~ctl.stop, ~ctl.pop PROVE FlagsOf(ctl) # <<>>
        BY <1>t, LastFlag
      <4>1. ctl.mode \in Modes
        BY DEF ModeSet
      <4>2. ChangeFlags(ctl) = <<"EVENT_STOP">> \/ ChangeFlags(ctl) = <<"EVENT_STOP", "NORMAL_START">>
        BY <4>1 DEF ChangeFlags, StatusAfterStop
      <4>3. StopFlags(ctl) = <<>> /\ EventFlags(ctl) = <<>>
        BY DEF StopFlags, EventFlags
      <4>4. StartFlags(ctl) \in Seq(FileFlags) /\ ChangeFlags(ctl) \in Seq(FileFlags) /\ ChangeFlags(ctl) # <<>>
        <5>1. /\ <<>> \in Seq(FileFlags) /\ "NORMAL_START" \in FileFlags /\ "EVENT_STOP" \in FileFlags
              /\ \A f \in FileFlags : <<f>> \in Seq(FileFlags) /\ <<f>> # <<>>
              /\ \A f, g \in FileFlags : <<f, g>> \in Seq(FileFlags) /\ <<f, g>> # <<>>
          BY DEF FileFlags
        <5> QED BY <4>2, <5>1 DEF StartFlags
      <4>5. FlagsOf(ctl) = StartFlags(ctl) \o ChangeFlags(ctl)
        BY <4>3, <4>4 DEF FlagsOf
      <4> QED BY <4>4, <4>5, LastJoined
    <3> QED BY <1>t, <2>1, <2>3, <3>1, <3>2, <3>3, LastFlag DEF Open
  <2> QED BY <2>1, <2>2, <2>3
<1>5. CASE PopStreamAll \/ MoveUnit
  <2>1. sink' = sink \/ \E s \in Sample : sink' = AfterSample(sink, s)
    BY <1>t, <1>5, QueueType DEF PopStreamAll, MoveUnit
  <2>2. sink'.file = sink.file
    BY <1>t, <2>1, AfterASample
  <2>3. wpc # "flags" /\ wpc' # "flags" /\ UNCHANGED <<flags, ctl>>
    BY <1>5 DEF PopStreamAll, MoveUnit
  <2> QED BY <2>2, <2>3 DEF Open
<1>6. CASE Begin \/ LoopTest \/ Pend \/ Wake \/ GetSample \/ Drain \/ Clear \/ DropOldest \/ Gather
  <2>1. wpc # "flags" /\ wpc' # "flags" /\ UNCHANGED <<flags, ctl, sink>>
    BY <1>6 DEF Begin, LoopTest, Pend, Wake, GetSample, Drain, Clear, DropOldest, Gather
  <2> QED BY <2>1 DEF Open
<1>7. CASE Upstream \/ UNCHANGED vars
  <2>1. (wpc = "flags" <=> wpc' = "flags") /\ UNCHANGED <<flags, ctl, sink>>
    BY <1>7 DEF Upstream, Receive, Enqueue, ReceivePost, Post, vars
  <2> QED BY <2>1 DEF Open
<1> QED BY <1>1, <1>2, <1>3, <1>4, <1>5, <1>6, <1>7 DEF Next, ThreadLoop

(* Steps that touch neither the file nor what it is to get next. *)
LEMMA SameSunk ==
    ASSUME Sunk, UNCHANGED <<runs, streamQ, eventQ, tail, count>>, gathered' = gathered,
           sink' = sink \/ sink'.file # "event",
           wpc' \in Active => wpc \in Active, wpc = "popAll" <=> wpc' = "popAll"
    PROVE  Sunk'
<1>1. front' = front
  BY LineStays
<1>2. Out' = Out
  BY <1>1 DEF Out, Begins
<1> QED BY <1>2 DEF Sunk

(* Steps after which nothing is delivered before the next event. *)
LEMMA StillSunk ==
    ASSUME Sunk, UNCHANGED <<runs, sink>>, wpc' \notin Active
    PROVE  Sunk'
  BY DEF Sunk

(* One sample is delivered to the event file. *)
LEMMA GrownSunk ==
    ASSUME sink \in File, Sunk, runs' = runs, wpc \in Active,
           NEW s \in Sample, s = Out, sink' = AfterSample(sink, s), Out' = s + 1
    PROVE  Sunk'
<1> SUFFICES ASSUME runs = 1, sink'.file = "event" PROVE
        /\ InOrder(sink'.data)
        /\ sink'.data # <<>> => sink'.data[Len(sink'.data)] + 1 = Out'
  BY DEF Sunk
<1> DEFINE d == sink.data
<1>1. sink.file = "event" /\ sink'.data = Append(d, s) /\ d \in Seq(Sample)
  BY AfterASample DEF File
<1>2. InOrder(d) /\ (d # <<>> => d[Len(d)] + 1 = s)
  BY <1>1 DEF Sunk
<1> HIDE DEF d
<1>3. InOrder(Append(d, s)) /\ Append(d, s)[Len(Append(d, s))] = s
  BY <1>1, <1>2, FirstIn
<1> QED BY <1>1, <1>3

(* PopStreamAll delivers what the file is to get next, one sample after the other. *)
LEMMA PoppedOut ==
    ASSUME Ranged, Ordered, PopStreamAll, runs' = 1
    PROVE  /\ UNCHANGED runs /\ wpc' \in {"popAll", "full"}
           /\ \/ UNCHANGED sink /\ Out' = Out
              \/ \E s \in Sample : s = Out /\ sink' = AfterSample(sink, s) /\ Out' = s + 1
<1>i. Typed /\ Ring /\ Idle /\ Line /\ Spans /\ Fits
  BY DEF Ranged
<1>t. /\ runs \in Nat /\ streamQ \in Seq(Sample) /\ Len(streamQ) \in Nat
      /\ eventQ \in [Slot -> Seq(Sample)] /\ tail \in Slot
  BY <1>i DEF Typed, TypeOK
<1>0. PopStreamAll
  OBVIOUS
<1>1. gathered' = gathered /\ front' = front
  <2>1. gathered' = gathered
    BY <1>i, <1>0, OffLine, SameLine
  <2> QED BY <1>0, <2>1, LineStays DEF PopStreamAll
<1>2. UNCHANGED <<runs, streamQ, head>> /\ wpc = "popAll" /\ wpc \in Active /\ runs = 1
      /\ count \in 0..BufferedTime
  BY <1>i, <1>0 DEF PopStreamAll, Active, Ending, Ring
<1>3. \A i \in Slot : UnitOrdered(i)
  BY <1>2 DEF Ordered, Gathering
<1>4. CASE count = 0
  <2>1. wpc' = "full" /\ UNCHANGED sink
    BY <1>0, <1>4 DEF PopStreamAll
  <2>2. eventQ[tail] = <<>>
    BY <1>i, <1>t, <1>2, <1>4, Places DEF Ring
  <2>3. Out' = Out
    BY <1>1, <1>2, <1>4, <2>1, <2>2 DEF Out
  <2> QED BY <1>2, <2>1, <2>3
<1>5. CASE count # 0 /\ eventQ[tail] # <<>>
  <2> DEFINE s == Head(eventQ[tail])
  <2>1. /\ UNCHANGED <<tail, count, wpc>> /\ sink' = AfterSample(sink, s)
        /\ eventQ' = [eventQ EXCEPT ![tail] = Tail(@)]
    BY <1>0, <1>5 DEF PopStreamAll
  <2>2. eventQ[tail] \in Seq(Sample) /\ InOrder(eventQ[tail])
        /\ eventQ[tail][Len(eventQ[tail])] + 1 = Begins(Next1(tail))
    BY <1>t, <1>2, <1>3, <1>5 DEF UnitOrdered
  <2>3. s = Out /\ s \in Sample
    BY <1>2, <1>5, <2>2, FirstOut DEF Out
  <2>4. eventQ'[tail] = Tail(eventQ[tail]) /\ \A i \in Slot : i # tail => eventQ'[i] = eventQ[i]
    BY <1>t, <2>1
  <2>5. Out' = s + 1
    <3>1. CASE Tail(eventQ[tail]) # <<>>
      <4>1. Tail(eventQ[tail])[1] = s + 1
        BY <1>5, <2>2, <3>1, FirstOut
      <4> QED BY <1>2, <2>1, <2>4, <3>1, <4>1 DEF Out
    <3>2. CASE Tail(eventQ[tail]) = <<>>
      <4>1. Begins(Next1(tail)) = s + 1
        BY <1>5, <2>2, <3>2, FirstOut
      <4>2. Next1(tail) \in Slot /\ Next1(tail) # tail
        BY <1>i, <1>t, Places
      <4>3. Begins(Next1(tail))' = Begins(Next1(tail))
        BY <1>1, <2>1, <2>4, <4>2 DEF Begins
      <4> QED BY <1>2, <1>5, <2>1, <2>4, <3>2, <4>1, <4>3 DEF Out
    <3> QED BY <3>1, <3>2
  <2> HIDE DEF s
  <2> QED BY <1>2, <2>1, <2>3, <2>5
<1>6. CASE count # 0 /\ eventQ[tail] = <<>>
  <2>1. tail' = Next1(tail) /\ count' = count - 1 /\ UNCHANGED <<wpc, eventQ, sink>>
    BY <1>0, <1>6 DEF PopStreamAll
  <2>2. Out = Begins(Next1(tail))
    BY <1>2, <1>6 DEF Out
  <2>3. Next1(tail) \in Slot /\ Next1(tail) # tail /\ Offset(tail) = 0
        /\ (Offset(Next1(tail)) = 1 \/ count = 1)
    <3>1. Offset(tail) = 0 /\ Next1(tail) \in Slot /\ Next1(tail) # tail
          /\ (Offset(tail) < BufferedTime => Offset(Next1(tail)) = Offset(tail) + 1)
      BY <1>i, <1>t, Places
    <3> QED BY <1>2, <1>6, <3>1
  <2>4. count' # 0 => eventQ[Next1(tail)] # <<>>
    <3>1. count' # 0 => 1 < count
      BY <1>2, <1>6, <2>1
    <3> QED BY <1>3, <2>3, <3>1 DEF UnitOrdered
  <2>5. Out' = Out
    <3>1. CASE eventQ[Next1(tail)] # <<>>
      BY <1>2, <2>1, <2>2, <3>1 DEF Out, Begins
    <3>2. CASE eventQ[Next1(tail)] = <<>>
      BY <1>1, <1>2, <2>1, <2>2, <2>4, <3>2 DEF Out, Begins
    <3> QED BY <3>1, <3>2
  <2> QED BY <1>2, <2>1, <2>5
<1> QED BY <1>4, <1>5, <1>6

(* So does MoveUnit, where the unit is wanted. *)
LEMMA MovedOut ==
    ASSUME RoomForUnit, Ranged, Ordered, MoveUnit, runs' = 1
    PROVE  /\ UNCHANGED <<runs, ctl>>
           /\ \/ wpc' = "gather" /\ streamQ = <<>> /\ UNCHANGED sink /\ Out' = Out
              \/ /\ wpc' = "move"
                 /\ \E s \in Sample :
                       /\ s = Out /\ Out' = s + 1
                       /\ sink' = IF DeliversUnit(ctl) THEN AfterSample(sink, s) ELSE sink
<1>i. Typed /\ Ring /\ Idle /\ Line /\ Spans /\ Fits
  BY DEF Ranged
<1>t. /\ runs \in Nat /\ streamQ \in Seq(Sample) /\ Len(streamQ) \in Nat
      /\ eventQ \in [Slot -> Seq(Sample)] /\ tail \in Slot
  BY <1>i DEF Typed, TypeOK
<1>r. Room(1) <= Depth /\ Room(1) \in Nat
  <2>1. Unit \in Nat /\ 1 * Unit = Unit
    BY Rooms
  <2> QED BY <2>1 DEF RoomForUnit, Room, Unit
<1>0. MoveUnit
  OBVIOUS
<1>1. gathered' = gathered
  BY <1>i, <1>0, OffLine, SameLine
<1>2. /\ wpc = "move" /\ wpc' \in {"move", "gather"} /\ wpc \in Active
      /\ UNCHANGED <<runs, ctl>> /\ runs = 1
  BY <1>0 DEF MoveUnit, Active, Ending
<1>3. CASE streamQ # <<>>
  <2>1. /\ wpc' = "move" /\ UNCHANGED <<runs, head, tail, count, prv>>
        /\ streamQ' = Tail(streamQ)
        /\ eventQ' = [eventQ EXCEPT ![head] = Pushed(@, Head(streamQ))]
        /\ sink' = IF DeliversUnit(ctl) THEN AfterSample(sink, Head(streamQ)) ELSE sink
    BY <1>0, <1>3 DEF MoveUnit
  <2>2. Len(eventQ[head]) < Depth
    <3>1. Len(streamQ) >= 1
      BY <1>t, <1>3
    <3> QED BY <1>i, <1>r, <1>2, <3>1, Lengths DEF Fits
  <2>3. Head(streamQ) = front /\ front' = front + 1 /\ Head(streamQ) \in Sample
    <3>1. Gathering
      BY <1>2 DEF Gathering
    <3>2. Head(streamQ) = front /\ front' = front + 1
      BY <1>i, <1>1, <1>2, <1>3, <2>1, <2>2, <3>1, MoveOrdered
    <3> QED BY <1>t, <1>3, <3>2
  <2>4. Out = front /\ Out' = front'
    BY <1>2, <2>1 DEF Out
  <2> QED BY <1>2, <1>3, <2>1, <2>3, <2>4
<1>4. CASE streamQ = <<>>
  <2>1. wpc' = "gather" /\ UNCHANGED <<streamQ, sink>>
    BY <1>0, <1>4 DEF MoveUnit
  <2>2. front' = front
    BY <1>1, <2>1, LineStays
  <2>3. Out' = Out
    BY <1>2, <2>1, <2>2 DEF Out
  <2> QED BY <1>2, <1>4, <2>1, <2>3
<1> QED BY <1>3, <1>4

(* A gathered sample is put behind the ones that leave m_StreamQueue before it. *)
LEMMA GatheredFront ==
    ASSUME RoomForUnit, Ranged, Gather, runs' = 1
    PROVE  front' = front
<1>i. Typed /\ Ring /\ Idle /\ Line /\ Spans /\ Fits
  BY DEF Ranged
<1>t. /\ runs \in Nat /\ streamQ \in Seq(Sample) /\ Len(streamQ) \in Nat
      /\ eventQ \in [Slot -> Seq(Sample)] /\ tail \in Slot
  BY <1>i DEF Typed, TypeOK
<1>r. Room(1) <= Depth /\ Room(1) \in Nat
  <2>1. Unit \in Nat /\ 1 * Unit = Unit
    BY Rooms
  <2> QED BY <2>1 DEF RoomForUnit, Room, Unit
<1>0. Gather
  OBVIOUS
<1>1. /\ wpc = "gather" /\ wpc' = "loop" /\ wpc \in Active /\ pSample' = 0
      /\ streamQ' = Pushed(streamQ, pSample)
      /\ UNCHANGED <<runs, last, rpc, inQ>> /\ pSample \in Sample
  BY <1>i, <1>0 DEF Gather, Active, Typed, Hands
<1>2. Len(streamQ) < Depth
  <2>1. InUnit < Room(runs) /\ InUnit = Len(streamQ) /\ runs = 1
    BY <1>i, <1>1, UnitFits, Lengths
  <2> QED BY <1>r, <1>t, <2>1
<1>3. Len(streamQ') = Len(streamQ) + 1
  BY <1>t, <1>1, <1>2, PushedWhole
<1>4. gathered' = gathered + 1 /\ gathered \in Int
  <2>1. taken' = taken /\ gathered = pSample - 1 /\ pSample = taken /\ pSample \in Nat
    BY <1>i, <1>1, LineTyped DEF taken, newest, Pushing
  <2> QED BY <1>1, <2>1 DEF gathered
<1>5. front' = front
  BY <1>t, <1>3, <1>4 DEF front
<1> QED BY <1>5

LEMMA StepSunk ==
    RoomForUnit /\ Ranged /\ Ordered /\ Fresh /\ ModeSet /\ Open /\ Sunk /\ [Next]_vars => Sunk'
<1> SUFFICES ASSUME RoomForUnit, Ranged, Ordered, Fresh, ModeSet, Open, Sunk, [Next]_vars,
                    runs' = 1, sink'.file = "event"
             PROVE  Sunk'
  BY DEF Sunk
<1>i. Typed /\ Ring /\ Idle /\ Line /\ Spans /\ Fits
  BY DEF Ranged
<1>t. /\ runs \in Nat /\ streamQ \in Seq(Sample) /\ Len(streamQ) \in Nat
      /\ eventQ \in [Slot -> Seq(Sample)] /\ tail \in Slot /\ sink \in File
      /\ ctl \in Control /\ flags \in Seq(FileFlags)
  BY <1>i DEF Typed, TypeOK
<1>1. CASE (\E sync \in BOOLEAN : Receive(sync)) \/ Enqueue
  <2>1. gathered' = gathered /\ UNCHANGED <<runs, streamQ, eventQ, wpc>>
    BY <1>i, <1>1, ReceivedLater
  <2>2. UNCHANGED <<tail, count, sink>>
    BY <1>1 DEF Receive, Enqueue
  <2> QED BY <2>1, <2>2, SameSunk
<1>2. CASE GetSample
  <2>1. UNCHANGED <<streamQ, eventQ, tail, count, sink>>
    BY <1>2 DEF GetSample
  <2> QED BY <1>i, <1>2, <2>1, TakenOut, SameSunk DEF Active, Looping
<1>3. CASE Drain \/ Clear
  <2>1. UNCHANGED <<runs, sink>> /\ wpc' \in {"drain", "clear", "done"}
    BY <1>3 DEF Drain, Clear
  <2> QED BY <2>1, StillSunk DEF Active, Looping, Ending
<1>4. CASE LoopTest \/ Pend \/ Wake \/ ReceivePost \/ LockPushStream
  <2>1. gathered' = gathered
    BY <1>i, <1>4, OffLine, SameLine
  <2>2. UNCHANGED <<runs, streamQ, eventQ, tail, count, sink>>
    BY <1>4 DEF LoopTest, Pend, Wake, ReceivePost, LockPushStream
  <2>3. (wpc' \in Active => wpc \in Active) /\ (wpc = "popAll" <=> wpc' = "popAll")
    BY <1>4 DEF LoopTest, Pend, Wake, ReceivePost, Post, LockPushStream, Active, Looping, Ending
  <2> QED BY <2>1, <2>2, <2>3, SameSunk
<1>5. CASE Begin
  BY <1>5 DEF Begin, Fresh
<1>6. CASE DeliverFlags /\ flags # <<>>
  <2>1. Head(flags) \in FileFlags /\ runs' = runs /\ sink' = AfterFlag(sink, Head(flags))
    BY <1>t, <1>6 DEF DeliverFlags
  <2>2. sink'.data = <<>>
    BY <1>t, <2>1, AfterAFlag
  <2> QED BY <2>2 DEF Sunk, InOrder
<1>7. CASE DeliverFlags /\ flags = <<>>
  <2>1. /\ wpc = "flags" /\ UNCHANGED <<runs, streamQ, eventQ, tail, count, sink>>
        /\ wpc' = IF ctl.pop THEN "popAll" ELSE "full"
    BY <1>7 DEF DeliverFlags
  <2>2. gathered' = gathered
    BY <1>i, <1>7, OffLine, SameLine
  <2>3. CASE ctl.pop
    <3>1. sink'.data = <<>>
      BY <1>7, <2>1, <2>3 DEF Open
    <3> QED BY <3>1 DEF Sunk, InOrder
  <2>4. CASE ~ctl.pop
    BY <2>1, <2>2, <2>4, SameSunk DEF Active, Ending
  <2> QED BY <2>3, <2>4
<1>8. CASE PopStreamAll
  <2>1. wpc \in Active /\ PopStreamAll
    BY <1>8 DEF PopStreamAll, Active, Ending
  <2>2. CASE UNCHANGED sink /\ Out' = Out
    BY <2>1, <2>2, PoppedOut DEF Sunk
  <2>3. CASE \E s \in Sample : s = Out /\ sink' = AfterSample(sink, s) /\ Out' = s + 1
    BY <1>t, <2>1, <2>3, PoppedOut, GrownSunk
  <2> QED BY <2>1, <2>2, <2>3, PoppedOut
<1>9. CASE DropOldest
  <2>1. gathered' = gathered
    BY <1>i, <1>9, OffLine, SameLine
  <2>2. UNCHANGED <<runs, streamQ, sink>> /\ wpc = "full" /\ wpc' = "move"
    BY <1>9 DEF DropOldest
  <2>3. front' = front
    BY <2>1, <2>2, LineStays
  <2>4. Out' = Out /\ wpc \in Active
    BY <2>2, <2>3 DEF Out, Active, Ending
  <2> QED BY <2>2, <2>4 DEF Sunk
<1>10. CASE MoveUnit
  <2>1. wpc = "move" /\ wpc \in Active /\ MoveUnit
    BY <1>10 DEF MoveUnit, Active, Ending
  <2>2. CASE UNCHANGED sink /\ Out' = Out
    BY <2>1, <2>2, MovedOut DEF Sunk
  <2>3. ASSUME NEW s \in Sample, s = Out, Out' = s + 1,
               sink' = IF DeliversUnit(ctl) THEN AfterSample(sink, s) ELSE sink
        PROVE  Sunk'
    <3>1. sink.file = "event"
      BY <1>t, <2>3, AfterASample
    <3>2. ctl.status = "EVENT" /\ ctl.mode \in Modes
      BY <2>1, <3>1 DEF Open, ModeSet
    <3>3. DeliversUnit(ctl)
      BY <3>2 DEF DeliversUnit, Modes
    <3> QED BY <1>t, <2>1, <2>3, <3>3, MovedOut, GrownSunk
  <2> QED BY <2>1, <2>2, <2>3, MovedOut
<1>11. CASE Gather
  <2>1. /\ wpc = "gather" /\ wpc' = "loop" /\ wpc \in Active
        /\ UNCHANGED <<runs, sink>>
    BY <1>11 DEF Gather, Active
  <2>2. Out' = Out
    BY <1>11, <2>1, GatheredFront DEF Out
  <2> QED BY <2>1, <2>2 DEF Sunk
<1>12. CASE Manager
  <2>1. gathered' = gathered
    BY <1>i, <1>12, OffLine, SameLine
  <2>2. (\E c \in Control : Request(c)) \/ Run \/ Stop \/ StopPost \/ Join
    BY <1>t, <1>12, RequestType
  <2>3. ~Run /\ ~Join
    <3>1. Run => runs = 0 /\ UNCHANGED sink
      BY <1>t DEF Run
    <3>2. Join => sink'.file = "none"
      BY <1>t DEF Join, File
    <3> QED BY <3>1, <3>2 DEF Fresh
  <2>4. /\ UNCHANGED <<runs, streamQ, eventQ, tail, count, sink>>
        /\ (wpc' \in Active => wpc \in Active) /\ (wpc = "popAll" <=> wpc' = "popAll")
    BY <2>2, <2>3 DEF Request, Stop, StopPost, Post, Active, Looping
  <2> QED BY <2>1, <2>4, SameSunk
<1>13. CASE UNCHANGED vars
  <2>1. gathered' = gathered
    BY <1>i, <1>13, OffLine, SameLine
  <2>2. UNCHANGED <<runs, streamQ, eventQ, tail, count, sink, wpc>>
    BY <1>13 DEF vars
  <2> QED BY <2>1, <2>2, SameSunk
<1> QED
  BY <1>1, <1>2, <1>3, <1>4, <1>5, <1>6, <1>7, <1>8, <1>9, <1>10, <1>11, <1>12, <1>13
  DEF Next, Upstream, ThreadLoop

(***************************************************************************)
(* Where an event file begins.  From the request to the key frame that     *)
(* answers it the ring is left alone, so what was its oldest sample is the *)
(* first one PopStreamAll finds.                                           *)
(***************************************************************************)
Asking == Looping \cup {"flags", "gather"}

Begun ==
    /\ runs = 0 \/ (runs = 1 /\ wpc = "begin") => gathered = 0 /\ asked = 1
    /\ runs = 1 /\ wpc \in Asking =>
          /\ eventQ[tail] # <<>> \/ front = 1
          /\ ctl.pop => OldestBuffered = asked
    /\ wpc \in {"popAll", "full", "move"} => ~ctl.pop
    /\ runs = 1 /\ sink.file = "event" =>
          /\ sink.data # <<>> /\ ~ctl.pop => sink.data[1] = asked
          /\ sink.data = <<>> /\ wpc \in Active =>
                /\ wpc \in Ending
                /\ wpc = "flags" => flags # <<>> \/ ctl.pop
                /\ wpc # "flags" => Out = asked
                /\ wpc = "move" => eventQ[head] = <<>>

LEMMA InitBegun == Init => Begun
<1> SUFFICES ASSUME Init PROVE Begun
  OBVIOUS
<1>1. gathered = 0
  <2>1. rpc = "idle" /\ last = 0 /\ inQ = <<>> /\ pSample = 0
    BY DEF Init
  <2>2. newest = 0 /\ Len(inQ) = 0
    BY <2>1 DEF newest
  <2>3. taken = 0
    BY <2>2 DEF taken
  <2> QED BY <2>1, <2>3 DEF gathered
<1> QED BY <1>1 DEF Init, Begun, Asking, Active, Looping, Ending

(* Steps that leave the ring, the file and the requests alone. *)
LEMMA SameBegun ==
    ASSUME Begun, UNCHANGED <<runs, streamQ, eventQ, head, tail, count, ctl, asked>>,
           gathered' = gathered, sink' = sink \/ sink'.file # "event",
           wpc' = "begin" => wpc = "begin", wpc' \in Asking => wpc \in Asking,
           wpc' \in Active => wpc \in Active, wpc' \in {"popAll", "full", "move"} => wpc' = wpc,
           wpc \in Ending => wpc' = wpc /\ flags' = flags
    PROVE  Begun'
<1>1. front' = front
  BY LineStays
<1>2. wpc' = wpc => Out' = Out
  BY <1>1 DEF Out, Begins
<1>3. OldestBuffered' = OldestBuffered
  BY DEF OldestBuffered
<1> QED BY <1>1, <1>2, <1>3 DEF Begun, Ending

(* The manager never takes back an event; a new one notes the oldest sample. *)
LEMMA RequestAsks ==
    ASSUME ctl \in Control, Manager
    PROVE  /\ ctl.pop => ctl'.pop
           /\ ctl'.pop /\ ~ctl.pop => asked' = OldestBuffered /\ ~HoldsBufferedLock
           /\ ctl.pop \/ ~ctl'.pop => asked' = asked
<1>1. CASE \E mode \in Modes : ChangeBufferingMode(mode)
  BY <1>1 DEF ChangeBufferingMode, Request, Control
<1>2. CASE PopBufferdData \/ StartFile \/ StopFile \/ ChangeFile
  BY <1>2 DEF PopBufferdData, StartFile, StopFile, ChangeFile, Request, Control
<1>3. CASE Run \/ Stop \/ StopPost \/ Join
  BY <1>3 DEF Run, Stop, StopPost, Join
<1> QED BY <1>1, <1>2, <1>3 DEF Manager

LEMMA ManagerBegun ==
    ASSUME Ranged, Fresh, Begun, Manager
    PROVE  Begun'
<1>t. /\ Typed /\ Idle /\ Line /\ Fits /\ ctl \in Control /\ sink \in File /\ runs \in Nat
      /\ eventQ \in [Slot -> Seq(Sample)] /\ tail \in Slot /\ (wpc # "none" => runs >= 1)
  BY DEF Ranged, Typed, TypeOK, Fits
<1>1. (\E c \in Control : Request(c)) \/ Run \/ Stop \/ StopPost \/ Join
  BY <1>t, RequestType
<1>2. UNCHANGED <<streamQ, eventQ, head, tail, count, flags>> /\ gathered' = gathered
  <2>1. gathered' = gathered
    BY <1>t, OffLine, SameLine
  <2> QED BY <1>1, <2>1 DEF Request, Run, Stop, StopPost, Join
<1>3. front' = front /\ OldestBuffered' = OldestBuffered
  BY <1>2, LineStays DEF OldestBuffered
<1>4. CASE \E c \in Control : Request(c)
  <2>1. UNCHANGED <<wpc, runs, sink>> /\ ~HoldsBufferedLock
    BY <1>4 DEF Request
  <2>2. Out' = Out
    BY <1>2, <1>3, <2>1 DEF Out, Begins
  <2>3. runs = 0 \/ (runs = 1 /\ wpc = "begin") => OldestBuffered = 1
    BY <1>t DEF Fresh, OldestBuffered
  <2>4. wpc \notin Ending
    BY <2>1 DEF HoldsBufferedLock, Ending
  <2>5. /\ ctl.pop => ctl'.pop
        /\ ctl'.pop /\ ~ctl.pop => asked' = OldestBuffered
        /\ ctl.pop \/ ~ctl'.pop => asked' = asked
    BY <1>t, RequestAsks
  <2> QED BY <1>2, <1>3, <2>1, <2>2, <2>3, <2>4, <2>5 DEF Begun, Ending
<1>5. CASE Run
  <2>1. wpc' = "begin" /\ runs' = runs + 1 /\ UNCHANGED <<sink, ctl, asked>>
    BY <1>5 DEF Run
  <2>2. runs' = 1 => runs = 0 /\ sink.file = "none"
    BY <1>t, <2>1 DEF Fresh
  <2> QED BY <1>t, <1>2, <2>1, <2>2 DEF Begun, Asking, Active, Looping, Ending
<1>6. CASE Stop \/ StopPost
  <2>1. UNCHANGED <<runs, sink, ctl, asked>> /\ (wpc' = wpc \/ (wpc = "wait" /\ wpc' = "woken"))
    BY <1>6 DEF Stop, StopPost, Post
  <2> QED BY <1>2, <2>1, SameBegun DEF Asking, Active, Looping, Ending
<1>7. CASE Join
  <2>1. /\ wpc = "done" /\ wpc' = "none" /\ UNCHANGED <<runs, ctl, asked>>
        /\ sink'.file = "none"
    BY <1>t, <1>7 DEF Join, File
  <2> QED BY <1>2, <2>1, SameBegun DEF Asking, Active, Looping, Ending
<1> QED BY <1>1, <1>4, <1>5, <1>6, <1>7

(* The key frame that answers a request opens the file empty, and the first *)
(* sample to go into it is the one that was noted.                          *)
LEMMA FlagsBegun ==
    ASSUME Ranged, Ordered, Open, Begun, DeliverFlags
    PROVE  Begun'
<1>t. /\ Typed /\ Ring /\ Idle /\ Line /\ Fits /\ ctl \in Control /\ sink \in File
      /\ flags \in Seq(FileFlags) /\ wpc = "flags" /\ runs >= 1 /\ runs \in Nat /\ tail \in Slot
  BY DEF Ranged, Typed, TypeOK, Fits, DeliverFlags
<1>1. UNCHANGED <<runs, streamQ, eventQ, head, tail, count, asked>> /\ gathered' = gathered
  <2>1. gathered' = gathered
    BY <1>t, OffLine, SameLine
  <2> QED BY <2>1 DEF DeliverFlags
<1>2. front' = front /\ OldestBuffered' = OldestBuffered
  BY <1>1, LineStays DEF OldestBuffered
<1>3. CASE flags # <<>>
  <2> DEFINE f == Head(flags)
  <2>1. /\ wpc' = "flags" /\ sink' = AfterFlag(sink, f) /\ flags' = Tail(flags) /\ ctl' = ctl
    BY <1>3 DEF DeliverFlags
  <2>2. f \in FileFlags /\ (Tail(flags) = <<>> => f = flags[Len(flags)])
    <3>1. Len(flags) \in Nat \ {0} /\ f = flags[1] /\ f \in FileFlags
          /\ Len(Tail(flags)) = Len(flags) - 1
      BY <1>t, <1>3
    <3>2. Tail(flags) = <<>> => Len(Tail(flags)) = 0
      <4> DEFINE r == Tail(flags)
      <4>1. r \in Seq(FileFlags)
        BY <1>t, <1>3
      <4> HIDE DEF r
      <4>2. r = <<>> => Len(r) = 0
        BY <4>1
      <4> QED BY <4>2 DEF r
    <3> QED BY <3>1, <3>2
  <2> HIDE DEF f
  <2>3. sink'.file = "event" => sink'.data = <<>> /\ (flags' # <<>> \/ ctl.pop)
    BY <1>t, <1>3, <2>1, <2>2, AfterAFlag DEF Open
  <2> QED BY <1>t, <1>1, <1>2, <2>1, <2>3 DEF Begun, Asking, Ending
<1>4. CASE flags = <<>>
  <2>1. /\ UNCHANGED <<sink, flags>> /\ wpc' = IF ctl.pop THEN "popAll" ELSE "full"
        /\ ~ctl'.pop
    BY <1>t, <1>4 DEF DeliverFlags, Answered, Control
  <2>2. ASSUME runs = 1, ctl.pop PROVE sink'.data = <<>> /\ Out' = asked
    <3>1. sink.data = <<>>
      BY <1>t, <1>4, <2>2 DEF Open
    <3>2. OldestBuffered = asked /\ (eventQ[tail] # <<>> \/ front = 1)
      BY <1>t, <2>2 DEF Begun, Asking
    <3>3. eventQ[tail] # <<>> => OldestBuffered = eventQ[tail][1]
      <4>1. eventQ[tail] \in Seq(Sample)
        BY <1>t DEF Typed, TypeOK
      <4> QED BY <4>1 DEF OldestBuffered
    <3>4. eventQ[tail] = <<>> => count = 0
      <4>1. Gathering /\ count \in 0..BufferedTime /\ Offset(tail) = 0
        BY <1>t, <2>2, Places DEF Gathering, Active, Ending, Ring
      <4>2. UnitOrdered(tail)
        BY <1>t, <4>1 DEF Ordered
      <4> QED BY <1>t, <4>1, <4>2 DEF UnitOrdered
    <3> QED BY <1>1, <1>2, <2>1, <2>2, <3>1, <3>2, <3>3, <3>4 DEF Out, OldestBuffered
  <2>3. ASSUME runs = 1, ~ctl.pop, sink.file = "event" PROVE sink.data # <<>>
    BY <1>t, <1>4, <2>3 DEF Begun, Active, Ending
  <2> QED BY <1>t, <1>1, <2>1, <2>2, <2>3 DEF Begun, Asking, Looping, Ending
<1> QED BY <1>3, <1>4

(* What is delivered first is the noted sample; nothing later comes before it. *)
LEMMA FirstDelivered ==
    ASSUME NEW s \in Sample, sink \in File, sink' = AfterSample(sink, s),
           sink.file = "event", sink.data # <<>> => sink.data[1] = asked,
           sink.data = <<>> => s = asked
    PROVE  sink'.data # <<>> /\ sink'.data[1] = asked
<1> DEFINE d == sink.data
<1>1. d \in Seq(Sample) /\ sink'.data = Append(d, s)
  BY AfterASample DEF File
<1> HIDE DEF d
<1>2. Append(d, s) # <<>> /\ Append(d, s)[1] = IF d = <<>> THEN s ELSE d[1]
  <2> DEFINE r == Append(d, s)
  <2>1. /\ Len(d) \in Nat /\ r[Len(d) + 1] = s /\ \A k \in 1..Len(d) : r[k] = d[k]
        /\ r # <<>> /\ (d = <<>> <=> Len(d) = 0)
    BY <1>1
  <2> HIDE DEF r
  <2>2. r # <<>> /\ r[1] = IF d = <<>> THEN s ELSE d[1]
    BY <2>1
  <2> QED BY <2>2 DEF r
<1> QED BY <1>1, <1>2 DEF d

LEMMA StepBegun ==
    /\ RoomForUnit /\ Ranged /\ Ordered /\ Fresh /\ ModeSet /\ Open /\ Begun
    /\ [Next]_vars /\ Ranged' /\ Ordered'
    => Begun'
<1> SUFFICES ASSUME RoomForUnit, Ranged, Ordered, Fresh, ModeSet, Open, Begun, [Next]_vars,
                    Ranged', Ordered'
             PROVE  Begun'
  OBVIOUS
<1>t. /\ Typed /\ Ring /\ Idle /\ Line /\ Fits /\ ctl \in Control /\ sink \in File
      /\ (wpc # "none" => runs >= 1) /\ runs \in Nat /\ tail \in Slot /\ head \in Slot
      /\ eventQ \in [Slot -> Seq(Sample)] /\ streamQ \in Seq(Sample)
  BY DEF Ranged, Typed, TypeOK, Fits
<1>1. CASE (\E sync \in BOOLEAN : Receive(sync)) \/ Enqueue
  <2>1. gathered' = gathered /\ UNCHANGED <<runs, streamQ, eventQ, wpc, head>>
    BY <1>t, <1>1, ReceivedLater
  <2>2. UNCHANGED <<tail, count, sink, ctl, flags, asked>>
    BY <1>1 DEF Receive, Enqueue
  <2> QED BY <2>1, <2>2, SameBegun
<1>2. CASE GetSample
  <2>1. UNCHANGED <<streamQ, eventQ, head, tail, count, sink, ctl, flags, asked>>
    BY <1>2 DEF GetSample
  <2> QED BY <1>t, <1>2, <2>1, TakenOut, SameBegun DEF Asking, Active, Looping, Ending
<1>3. CASE LoopTest \/ Pend \/ Wake \/ ReceivePost \/ LockPushStream
  <2>1. gathered' = gathered
    BY <1>t, <1>3, OffLine, SameLine
  <2>2. UNCHANGED <<runs, streamQ, eventQ, head, tail, count, sink, ctl, asked>>
    BY <1>3 DEF LoopTest, Pend, Wake, ReceivePost, LockPushStream
  <2>3. /\ wpc' \in Active => wpc \in Active
        /\ wpc' \in {"popAll", "full", "move"} => wpc' = wpc
        /\ wpc \in Ending => wpc' = wpc /\ flags' = flags
    BY <1>3 DEF LoopTest, Pend, Wake, ReceivePost, Post, LockPushStream, Asking, Active, Looping, Ending
  <2>4. wpc' = "begin" => wpc = "begin"
    BY <1>3 DEF LoopTest, Pend, Wake, ReceivePost, Post, LockPushStream
  <2>5. wpc' \in Asking => wpc \in Asking
    BY <1>3 DEF LoopTest, Pend, Wake, ReceivePost, Post, LockPushStream, Asking, Looping
  <2> QED BY <2>1, <2>2, <2>3, <2>4, <2>5, SameBegun
<1>4. CASE Begin
  <2>1. /\ wpc = "begin" /\ wpc' = "loop"
        /\ UNCHANGED <<runs, streamQ, eventQ, tail, sink, ctl, asked>>
    BY <1>4 DEF Begin
  <2>2. gathered' = gathered
    BY <1>t, <1>4, OffLine, SameLine
  <2>3. ASSUME runs = 1
        PROVE  front' = 1 /\ OldestBuffered' = 1 /\ asked' = 1 /\ sink'.file = "none"
    <3>1. streamQ = <<>> /\ gathered = 0 /\ asked = 1 /\ eventQ[tail] = <<>> /\ sink.file = "none"
      BY <1>t, <2>1, <2>3 DEF Begun, Fresh
    <3> QED BY <2>1, <2>2, <3>1 DEF front, OldestBuffered
  <2> QED BY <1>t, <2>1, <2>3 DEF Begun
<1>5. CASE Drain \/ Clear
  <2>1. /\ UNCHANGED <<runs, sink, ctl, asked>> /\ wpc' \in {"drain", "clear", "done"}
        /\ wpc # "none"
    BY <1>5 DEF Drain, Clear
  <2> QED BY <1>t, <2>1 DEF Begun, Asking, Active, Looping, Ending
<1>6. CASE DeliverFlags
  BY <1>6, FlagsBegun
<1>7. CASE PopStreamAll
  <2>1. /\ wpc = "popAll" /\ wpc' \in {"popAll", "full"} /\ wpc \in Active /\ runs >= 1
        /\ UNCHANGED <<runs, ctl, asked>> /\ ~ctl.pop
    BY <1>t, <1>7 DEF PopStreamAll, Active, Ending, Begun
  <2>2. CASE runs = 1
    <3>1. CASE UNCHANGED sink /\ Out' = Out
      BY <2>1, <2>2, <3>1 DEF Begun, Asking, Looping, Ending
    <3>2. ASSUME NEW s \in Sample, s = Out, sink' = AfterSample(sink, s) PROVE Begun'
      <4>1. sink'.file = sink.file
        BY <1>t, <3>2, AfterASample
      <4>2. sink.file = "event" => sink'.data # <<>> /\ sink'.data[1] = asked
        BY <1>t, <2>1, <2>2, <3>2, FirstDelivered DEF Begun
      <4> QED BY <2>1, <2>2, <4>1, <4>2 DEF Begun, Asking, Looping
    <3> QED BY <1>7, <2>1, <2>2, <3>1, <3>2, PoppedOut
  <2>3. CASE runs # 1
    BY <2>1, <2>3 DEF Begun
  <2> QED BY <2>2, <2>3
<1>8. CASE DropOldest
  <2>1. /\ wpc = "full" /\ wpc' = "move" /\ runs >= 1
        /\ UNCHANGED <<runs, streamQ, head, sink, ctl, asked>> /\ ~ctl.pop
    BY <1>t, <1>8 DEF DropOldest, Begun
  <2>2. Out' = Out
    <3>1. gathered' = gathered
      BY <1>t, <1>8, OffLine, SameLine
    <3> QED BY <2>1, <3>1, LineStays DEF Out
  <2>3. eventQ'[head] = <<>>
    <3>1. eventQ[head] = <<>>
      BY <1>t, <2>1, Holding, Places
    <3>2. eventQ' = eventQ \/ eventQ' = [eventQ EXCEPT ![tail] = <<>>]
      BY <1>8 DEF DropOldest, PopStream
    <3> QED BY <1>t, <3>1, <3>2
  <2> QED BY <2>1, <2>2, <2>3 DEF Begun, Asking, Active, Looping, Ending
<1>9. CASE MoveUnit
  <2>1. /\ wpc = "move" /\ wpc' \in {"move", "gather"} /\ wpc \in Active /\ runs >= 1
        /\ UNCHANGED <<runs, ctl, asked>> /\ ~ctl.pop
    BY <1>t, <1>9 DEF MoveUnit, Active, Ending, Begun
  <2>2. CASE runs = 1 /\ wpc' = "gather"
    <3>1. streamQ = <<>> /\ UNCHANGED <<sink, eventQ>> /\ count' = count + 1 /\ head' = Next1(head)
      BY <1>9, <2>2 DEF MoveUnit
    <3>2. eventQ[head] # <<>>
      BY <2>1, <2>2, <3>1 DEF Ordered, Gathering, StreamOrdered
    <3>3. sink.file = "event" => sink.data # <<>>
      BY <2>1, <2>2, <3>2 DEF Begun
    <3>4. eventQ'[tail'] # <<>>
      <4>1. Typed' /\ Ring' /\ count \in 0..BufferedTime /\ tail' \in Slot
        BY <1>t DEF Ranged, Ring, Typed, TypeOK
      <4>2. ASSUME NEW i \in Slot, i = tail, tail' = tail PROVE eventQ'[i] # <<>>
        <5>0. Offset(i) = 0
          BY <1>t, <4>2, Places
        <5>1. Offset(i)' = Offset(i)
          BY <4>2 DEF Offset
        <5>2. UnitOrdered(i)'
          BY <2>1, <2>2 DEF Ordered, Gathering, Active
        <5> QED BY <2>2, <3>1, <4>1, <5>0, <5>1, <5>2 DEF UnitOrdered
      <4>3. tail' = tail
        BY <1>9 DEF MoveUnit
      <4> QED BY <1>t, <4>2, <4>3
    <3> QED BY <2>1, <2>2, <3>1, <3>3, <3>4 DEF Begun
  <2>3. CASE runs = 1 /\ wpc' = "move"
    <3>1. PICK s \in Sample : s = Out /\ sink' = IF DeliversUnit(ctl) THEN AfterSample(sink, s) ELSE sink
      BY <1>9, <2>1, <2>3, MovedOut
    <3>2. sink'.file = sink.file
      BY <1>t, <3>1, AfterASample
    <3>3. sink.file = "event" => DeliversUnit(ctl)
      <4>1. sink.file = "event" => ctl.status = "EVENT" /\ ctl.mode \in Modes
        BY <2>1 DEF Open, ModeSet
      <4> QED BY <4>1 DEF DeliversUnit, Modes
    <3>4. sink.file = "event" => sink'.data # <<>> /\ sink'.data[1] = asked
      BY <1>t, <2>1, <2>3, <3>1, <3>3, FirstDelivered DEF Begun
    <3> QED BY <2>1, <2>3, <3>2, <3>4 DEF Begun, Asking, Looping
  <2>4. CASE runs # 1
    BY <2>1, <2>4 DEF Begun
  <2> QED BY <2>1, <2>2, <2>3, <2>4
<1>10. CASE Gather
  <2>1. /\ wpc = "gather" /\ wpc' = "loop" /\ runs >= 1
        /\ UNCHANGED <<runs, eventQ, tail, sink, ctl, asked>>
    BY <1>t, <1>10 DEF Gather
  <2>2. runs = 1 => front' = front
    BY <1>10, <2>1, GatheredFront
  <2>3. OldestBuffered' = OldestBuffered
    BY <2>1 DEF OldestBuffered
  <2>4. runs = 1 /\ sink.file = "event" => sink.data # <<>>
    BY <2>1 DEF Begun, Active, Ending
  <2> QED BY <2>1, <2>2, <2>3, <2>4 DEF Begun, Asking, Looping
<1>11. CASE Manager
  BY <1>11, ManagerBegun
<1>12. CASE UNCHANGED vars
  <2>1. gathered' = gathered
    BY <1>t, <1>12, OffLine, SameLine
  <2> QED BY <1>12, <2>1, SameBegun DEF vars
<1> QED
  BY <1>1, <1>2, <1>3, <1>4, <1>5, <1>6, <1>7, <1>8, <1>9, <1>10, <1>11, <1>12
  DEF Next, Upstream, ThreadLoop

(* An event file begins with the oldest sample that was buffered when its     *)
(* event was asked for and has neither a hole nor a repetition, whatever is   *)
(* asked while it is written, wherever the ring stands and however the key    *)
(* frames fall, as long as a queue has room for the longest unit.             *)
THEOREM EventWhole == RoomForUnit /\ Spec => []EventFileContiguous
<1> DEFINE EventInv == RoomForUnit /\ Ranged /\ Ordered /\ Fresh /\ ModeSet /\ Open /\ Sunk /\ Begun
<1>1. RoomForUnit /\ Init => EventInv
  BY InitRanged, InitOrdered, InitOpen, InitBegun
<1>2. EventInv /\ [Next]_vars => EventInv'
  <2> SUFFICES ASSUME EventInv, [Next]_vars PROVE EventInv'
    OBVIOUS
  <2>1. Typed /\ Ring /\ Idle /\ Line /\ Fits
    BY DEF Ranged
  <2>2. Ranged' /\ Ordered' /\ Sunk'
    BY StepRanged, StepOrdered, StepSunk
  <2>3. Fresh' /\ ModeSet' /\ Open'
    BY <2>1, StepFresh, StepModeSet, StepOpen
  <2>4. RoomForUnit'
    BY DEF RoomForUnit
  <2>5. Begun'
    BY <2>2, StepBegun
  <2> QED BY <2>2, <2>3, <2>4, <2>5
<1>3. EventInv => EventFileContiguous
  <2> SUFFICES ASSUME EventInv, sink.file = "event", runs = 1
               PROVE  /\ Consecutive(sink.data)
                      /\ sink.data # <<>> /\ ~ctl.pop => Head(sink.data) = asked
    BY DEF EventFileContiguous
  <2> DEFINE d == sink.data
  <2>1. InOrder(d) /\ d \in Seq(Sample) /\ (d # <<>> /\ ~ctl.pop => d[1] = asked)
    BY DEF Sunk, Begun, Ranged, Typed, TypeOK, File
  <2> HIDE DEF d
  <2>2. ASSUME NEW i \in 1..(Len(d) - 1) PROVE d[i + 1] = d[i] + 1
    <3>1. Len(d) \in Nat /\ d[1] \in Nat
      BY <2>1 DEF Sample
    <3>2. d[i] = d[1] + i - 1 /\ d[i + 1] = d[1] + (i + 1) - 1
      BY <2>1, <3>1 DEF InOrder
    <3> QED BY <3>1, <3>2
  <2>3. d # <<>> => Head(d) = d[1]
    BY <2>1
  <2> QED BY <2>1, <2>2, <2>3 DEF Consecutive, d
<1> QED BY <1>1, <1>2, <1>3, PTL DEF Spec
=============================================================================
