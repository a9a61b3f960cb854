--------------------------- MODULE DvrNotifyProofs ---------------------------
(***************************************************************************)
(* Proofs about CNX_DvrNotify for any number of notifying threads, of      *)
(* messages and of runs, and any depth of the ring, as long as nobody      *)
(* notifies while the ring is full.                                        *)
(***************************************************************************)
EXTENDS DvrNotify, FiniteSetTheorems, TLAPS

USE NotifyAssumption

(* The slot that is i after slot h. *)
At(h, i) == IF h + i < Depth THEN h + i ELSE h + i - Depth

(* The slots from head to tail hold the last messages that were pushed. *)
Ring ==
    /\ m_nMsgCount \in 0..Depth
    /\ m_iTailIndex = At(m_iHeadIndex, m_nMsgCount)
    /\ \A i \in 0..(m_nMsgCount - 1) :
        m_pEventMsg[At(m_iHeadIndex, i)].id = sent - m_nMsgCount + 1 + i

(* There is room for every message that is on its way into the ring. *)
Room ==
    /\ NumInFlight \in Nat
    /\ m_nMsgCount + NumInFlight <= Depth
    /\ sent + NumInFlight <= MaxMessage

(* The thread has the message after the last one it called back with, or    *)
(* none; there is no thread while the recorder is stopped.                  *)
InTurn ==
    /\ tpc = "call" => pMsg.id = sent - m_nMsgCount /\ called = pMsg.id - 1
    /\ tpc # "call" => called = sent - m_nMsgCount
    /\ spc = "stopped" => tpc = "none"

Inv == Paced /\ TypeOK /\ Ring /\ Room /\ InTurn

(***************************************************************************)
(* Indexes of the ring.                                                    *)
(***************************************************************************)
LEMMA ModOnce ==
    ASSUME NEW x \in 0..(2 * Depth - 1)
    PROVE  x % Depth = IF x < Depth THEN x ELSE x - Depth
<1>1. CASE x < Depth
  BY <1>1
<1>2. CASE x >= Depth
  <2>1. x = Depth * 1 + (x - Depth) /\ x - Depth \in 0..(Depth - 1)
    BY <1>2
  <2> QED BY <1>2, <2>1
<1> QED BY <1>1, <1>2

LEMMA AtValue ==
    ASSUME NEW h \in Slot, NEW i \in 0..(Depth - 1)
    PROVE  (h + i) % Depth = At(h, i) /\ At(h, i) \in Slot
<1> DEFINE x == h + i
<1>1. x \in 0..(2 * Depth - 1)
  BY DEF Slot
<1>2. x % Depth = IF x < Depth THEN x ELSE x - Depth
  <2> HIDE DEF x
  <2> QED BY <1>1, ModOnce
<1> QED BY <1>1, <1>2 DEF At, Slot

LEMMA Next1Value ==
    ASSUME NEW h \in Slot
    PROVE  Next1(h) = At(h, 1) /\ Next1(h) \in Slot
<1> DEFINE x == h + 1
<1>1. x \in 0..(2 * Depth - 1)
  BY DEF Slot
<1>2. x % Depth = IF x < Depth THEN x ELSE x - Depth
  <2> HIDE DEF x
  <2> QED BY <1>1, ModOnce
<1> QED BY <1>1, <1>2 DEF At, Slot, Next1

LEMMA RingMeaning == Inv => RingExact
<1> SUFFICES ASSUME Inv, NEW i \in 0..(m_nMsgCount - 1)
             PROVE  m_pEventMsg[(m_iHeadIndex + i) % Depth].id = sent - m_nMsgCount + 1 + i
  BY DEF Inv, RingExact
<1>1. m_iHeadIndex \in Slot /\ i \in 0..(Depth - 1)
  BY DEF Inv, TypeOK, Ring
<1> QED BY <1>1, AtValue DEF Inv, Ring

(***************************************************************************)
(* Messages in flight.                                                     *)
(***************************************************************************)
LEMMA InFlightFinite == IsFiniteSet(InFlight) /\ NumInFlight \in Nat
  BY ProducerAssumption, FS_Subset, FS_CardinalityType DEF InFlight, NumInFlight

LEMMA InFlightGrows ==
    ASSUME TypeOK, NEW p \in Producer, ppc[p] = "idle", ppc' = [ppc EXCEPT ![p] = "push"]
    PROVE  NumInFlight' = NumInFlight + 1
<1>1. InFlight' = InFlight \cup {p} /\ p \notin InFlight
  BY DEF InFlight, TypeOK
<1> QED BY <1>1, InFlightFinite, FS_AddElement DEF NumInFlight

LEMMA InFlightShrinks ==
    ASSUME TypeOK, NEW p \in Producer, ppc[p] = "push", ppc' = [ppc EXCEPT ![p] = "post"]
    PROVE  NumInFlight' = NumInFlight - 1
<1>1. InFlight' = InFlight \ {p} /\ p \in InFlight
  BY DEF InFlight, TypeOK
<1> QED BY <1>1, InFlightFinite, FS_RemoveElement DEF NumInFlight

LEMMA InFlightSame ==
    ASSUME TypeOK, NEW p \in Producer, ppc[p] = "post", ppc' = [ppc EXCEPT ![p] = "idle"]
    PROVE  NumInFlight' = NumInFlight
<1>1. InFlight' = InFlight
  BY DEF InFlight, TypeOK
<1> QED BY <1>1 DEF NumInFlight

LEMMA InFlightKept == ppc' = ppc => NumInFlight' = NumInFlight
  BY DEF InFlight, NumInFlight

(***************************************************************************)
(* The invariant.                                                          *)
(***************************************************************************)
LEMMA InitInv == Paced /\ Init => Inv
<1> SUFFICES ASSUME Paced, Init PROVE Inv
  OBVIOUS
<1>1. TypeOK
  <2>1. NoMessage \in Message
    BY DEF NoMessage, Message
  <2>2. 0 \in Slot
    BY DEF Slot
  <2>3. m_pEventMsg \in [Slot -> Message]
    BY <2>1 DEF Init
  <2>4. ppc \in [Producer -> {"idle", "push", "post"}] /\ msg \in [Producer -> Codes \cup {"NONE"}]
    BY DEF Init
  <2>5. m_bThreadExit \in BOOLEAN /\ crashed \in BOOLEAN
    BY Zenon DEF Init
  <2>6. sent \in 0..MaxMessage /\ called \in 0..MaxMessage
    BY DEF Init
  <2>7. sem \in Int /\ m_nMsgCount \in Int /\ runs \in Nat
    BY DEF Init
  <2>8. m_iHeadIndex \in Slot /\ m_iTailIndex \in Slot /\ pMsg \in Message
    BY <2>1, <2>2, Zenon DEF Init
  <2>9. tpc = "none" /\ spc = "stopped" /\ m_pSem = "null"
    BY Zenon DEF Init
  <2> QED BY <2>3, <2>4, <2>5, <2>6, <2>7, <2>8, <2>9 DEF TypeOK
<1>2. Ring
  BY DEF Init, Ring, At
<1>3. InFlight = {}
  BY DEF Init, InFlight
<1>4. Room
  BY <1>3, FS_EmptySet DEF Init, Room, NumInFlight
<1>5. InTurn
  BY DEF Init, InTurn, NoMessage
<1> QED BY <1>1, <1>2, <1>4, <1>5 DEF Inv

(* What leaves the ring, its counters and the messages alone keeps it. *)
LEMMA RingUntouched ==
    ASSUME Inv, UNCHANGED <<ring, sent>>
    PROVE  Ring'
  BY DEF Inv, Ring, ring, At

LEMMA RoomUntouched ==
    ASSUME Inv, UNCHANGED <<ppc, m_nMsgCount, sent>>
    PROVE  Room'
  BY InFlightKept DEF Inv, Room

LEMMA NotifyStep ==
    ASSUME Inv, NEW p \in Producer, NEW code \in Codes, EventNotify(p, code)
    PROVE  Inv'
<1>1. TypeOK'
  BY DEF Inv, TypeOK, EventNotify, ring
<1>2. Ring'
  BY RingUntouched DEF EventNotify
<1>3. Room'
  <2>1. NumInFlight' = NumInFlight + 1
    BY InFlightGrows DEF Inv, EventNotify
  <2>2. m_nMsgCount + NumInFlight < Depth /\ sent + NumInFlight < MaxMessage
    BY DEF Inv, EventNotify
  <2>3. m_nMsgCount' = m_nMsgCount /\ sent' = sent /\ m_nMsgCount \in Int /\ sent \in Int
    BY DEF Inv, TypeOK, EventNotify, ring
  <2> QED BY <2>1, <2>2, <2>3 DEF Inv, Room
<1>4. InTurn'
  BY DEF Inv, InTurn, EventNotify, ring
<1> QED BY <1>1, <1>2, <1>3, <1>4 DEF Inv

(* A message is put in the slot after the last one. *)
LEMMA PushStep ==
    ASSUME Inv, NEW p \in Producer, Push(p)
    PROVE  Inv'
<1> DEFINE m == [id |-> sent + 1, code |-> msg[p]]
<1>1. /\ m_iHeadIndex \in Slot /\ m_iTailIndex \in Slot /\ m_nMsgCount \in 0..Depth
      /\ sent \in 0..MaxMessage /\ ppc[p] = "push" /\ msg[p] \in Codes \cup {"NONE"}
      /\ m_pEventMsg \in [Slot -> Message]
  BY DEF Inv, TypeOK, Ring, Push
<1>2. NumInFlight' = NumInFlight - 1 /\ NumInFlight \in Nat
  BY InFlightShrinks, InFlightFinite DEF Inv, Push
<1>3. NumInFlight >= 1
  <2>1. p \in InFlight
    BY <1>1 DEF InFlight
  <2> QED BY <2>1, <1>2, InFlightFinite, FS_EmptySet DEF NumInFlight
<1>4. m_nMsgCount < Depth /\ sent < MaxMessage
  BY <1>1, <1>2, <1>3 DEF Inv, Room
<1>5. m \in Message
  BY <1>1, <1>4 DEF Message
<1>6. /\ m_iTailIndex' = At(m_iTailIndex, 1) /\ m_iTailIndex' \in Slot
      /\ m_iHeadIndex' = m_iHeadIndex /\ m_nMsgCount' = m_nMsgCount + 1 /\ sent' = sent + 1
      /\ m_pEventMsg' = [m_pEventMsg EXCEPT ![m_iTailIndex] = m]
  BY <1>1, Next1Value DEF Push
<1>7. TypeOK'
  <2>1. ppc' \in [Producer -> {"idle", "push", "post"}]
    BY DEF Inv, TypeOK, Push
  <2>2. m_pEventMsg' \in [Slot -> Message]
    BY <1>1, <1>5, <1>6
  <2>3. m_nMsgCount' \in Int /\ sent' \in 0..MaxMessage
    BY <1>1, <1>4, <1>6
  <2> QED BY <1>6, <2>1, <2>2, <2>3 DEF Inv, TypeOK, Push
<1>8. Ring'
  <2>1. m_nMsgCount' \in 0..Depth
    BY <1>1, <1>4, <1>6
  <2>2. m_iTailIndex = At(m_iHeadIndex, m_nMsgCount)
    BY DEF Inv, Ring
  <2>3. m_iTailIndex' = At(m_iHeadIndex, m_nMsgCount + 1)
    BY <1>1, <1>4, <1>6, <2>2 DEF At, Slot
  <2>4. ASSUME NEW i \in 0..m_nMsgCount
        PROVE  m_pEventMsg'[At(m_iHeadIndex, i)].id = sent - m_nMsgCount + 1 + i
    <3>1. CASE i = m_nMsgCount
      BY <1>1, <1>6, <2>2, <3>1
    <3>2. CASE i \in 0..(m_nMsgCount - 1)
      <4>1. At(m_iHeadIndex, i) # m_iTailIndex /\ At(m_iHeadIndex, i) \in Slot
        BY <1>1, <1>4, <2>2, <3>2 DEF At, Slot
      <4>2. m_pEventMsg[At(m_iHeadIndex, i)].id = sent - m_nMsgCount + 1 + i
        BY <3>2 DEF Inv, Ring
      <4> QED BY <1>1, <1>6, <4>1, <4>2
    <3> QED BY <1>1, <3>1, <3>2
  <2>5. ASSUME NEW i \in 0..(m_nMsgCount' - 1)
        PROVE  m_pEventMsg'[At(m_iHeadIndex, i)].id = sent' - m_nMsgCount' + 1 + i
    BY <1>1, <1>6, <2>4
  <2> QED BY <1>6, <2>1, <2>3, <2>5 DEF Ring, At
<1>9. Room'
  BY <1>1, <1>2, <1>3, <1>6 DEF Inv, Room
<1>10. InTurn'
  BY <1>1, <1>6 DEF Inv, InTurn, Push
<1> QED BY <1>7, <1>8, <1>9, <1>10 DEF Inv

LEMMA PostStep ==
    ASSUME Inv, NEW p \in Producer, NotifyPost(p)
    PROVE  Inv'
<1>1. TypeOK'
  BY DEF Inv, TypeOK, NotifyPost, Post, ring
<1>2. Ring'
  BY RingUntouched DEF NotifyPost
<1>3. Room'
  BY InFlightSame DEF Inv, Room, NotifyPost, ring
<1>4. InTurn'
  BY DEF Inv, InTurn, NotifyPost, Post, ring
<1> QED BY <1>1, <1>2, <1>3, <1>4 DEF Inv

(* The oldest message leaves the ring: it is the next to be called back. *)
LEMMA PopStep ==
    ASSUME Inv, Pop
    PROVE  Inv'
<1>1. CASE m_nMsgCount > 0
  <2>1. /\ m_iHeadIndex \in Slot /\ m_nMsgCount \in 1..Depth
        /\ m_pEventMsg \in [Slot -> Message] /\ sent \in 0..MaxMessage
    BY <1>1 DEF Inv, TypeOK, Ring
  <2>2. /\ pMsg' = m_pEventMsg[m_iHeadIndex] /\ m_iHeadIndex' = At(m_iHeadIndex, 1)
        /\ m_iHeadIndex' \in Slot /\ m_nMsgCount' = m_nMsgCount - 1
        /\ UNCHANGED <<m_pEventMsg, m_iTailIndex, sent, called, ppc, msg, spc>>
        /\ tpc = "pop" /\ tpc' = "call"
    BY <1>1, <2>1, Next1Value DEF Pop, TakeMessage
  <2>3. TypeOK'
    BY <2>1, <2>2 DEF Inv, TypeOK, Pop
  <2>4. Ring'
    <3>1. m_nMsgCount' \in 0..Depth
      BY <2>1, <2>2
    <3>2. m_iTailIndex = At(m_iHeadIndex', m_nMsgCount')
      BY <2>1, <2>2 DEF Inv, Ring, At, Slot
    <3>3. ASSUME NEW i \in 0..(m_nMsgCount' - 1)
          PROVE  m_pEventMsg[At(m_iHeadIndex', i)].id = sent - m_nMsgCount' + 1 + i
      <4>1. i + 1 \in 0..(m_nMsgCount - 1)
        BY <2>1, <2>2
      <4>2. At(m_iHeadIndex', i) = At(m_iHeadIndex, i + 1)
        BY <2>1, <2>2, <4>1 DEF At, Slot
      <4>3. m_pEventMsg[At(m_iHeadIndex, i + 1)].id = sent - m_nMsgCount + 1 + (i + 1)
        BY <4>1 DEF Inv, Ring
      <4> QED BY <2>1, <2>2, <4>2, <4>3
    <3> QED BY <2>2, <3>1, <3>2, <3>3 DEF Ring, At
  <2>5. Room'
    BY <2>1, <2>2, InFlightKept DEF Inv, Room
  <2>6. InTurn'
    <3>1. At(m_iHeadIndex, 0) = m_iHeadIndex /\ 0 \in 0..(m_nMsgCount - 1)
      BY <2>1 DEF At, Slot
    <3>2. m_pEventMsg[m_iHeadIndex].id = sent - m_nMsgCount + 1 + 0
      BY <3>1 DEF Inv, Ring
    <3>3. called = sent - m_nMsgCount /\ spc # "stopped"
      BY <2>2 DEF Inv, InTurn
    <3> QED BY <2>1, <2>2, <3>2, <3>3 DEF InTurn
  <2> QED BY <2>3, <2>4, <2>5, <2>6 DEF Inv
<1>2. CASE ~(m_nMsgCount > 0)
  <2>1. TypeOK'
    BY <1>2 DEF Inv, TypeOK, Pop
  <2>2. Ring' /\ Room'
    BY <1>2, RingUntouched, RoomUntouched DEF Pop, ring
  <2>3. InTurn'
    BY <1>2 DEF Inv, InTurn, Pop
  <2> QED BY <2>1, <2>2, <2>3 DEF Inv
<1> QED BY <1>1, <1>2

LEMMA CallbackStep ==
    ASSUME Inv, Callback
    PROVE  Inv' /\ called' = called + 1
<1>1. /\ called' = pMsg.id /\ pMsg.id = sent - m_nMsgCount /\ called = pMsg.id - 1
      /\ pMsg.id \in 0..MaxMessage /\ called \in 0..MaxMessage
  BY DEF Inv, InTurn, TypeOK, Message, Callback
<1>2. TypeOK'
  BY <1>1 DEF Inv, TypeOK, Callback, NoMessage, Message, ring
<1>3. Ring' /\ Room'
  BY RingUntouched, RoomUntouched DEF Callback, ring
<1>4. InTurn'
  BY <1>1 DEF Inv, InTurn, Callback, ring
<1> QED BY <1>1, <1>2, <1>3, <1>4 DEF Inv

(* The other steps of the thread and of Run and Stop. *)
Quiet == LoopTest \/ Pend \/ PendDeleted \/ Wake \/ Run \/ Stop

LEMMA QuietStep ==
    ASSUME Inv, Quiet
    PROVE  Inv' /\ called' = called
<1> USE DEF ring
<1>1. CASE LoopTest
  BY <1>1, RingUntouched, RoomUntouched DEF Inv, TypeOK, InTurn, LoopTest
<1>2. CASE Pend
  BY <1>2, RingUntouched, RoomUntouched DEF Inv, TypeOK, InTurn, Pend
<1>3. CASE PendDeleted
  <2>1. TypeOK'
    BY <1>3 DEF Inv, TypeOK, PendDeleted
  <2>2. Ring' /\ Room'
    BY <1>3, RingUntouched, RoomUntouched DEF PendDeleted
  <2>3. InTurn' /\ called' = called
    BY <1>3 DEF Inv, InTurn, PendDeleted
  <2> QED BY <2>1, <2>2, <2>3 DEF Inv
<1>4. CASE Wake
  <2>1. TypeOK'
    <3>1. crashed' \in BOOLEAN
      BY <1>4, Zenon DEF Wake
    <3>2. tpc' = "pop" /\ sem' \in Int
      BY <1>4 DEF Inv, TypeOK, Wake
    <3> QED BY <1>4, <3>1, <3>2 DEF Inv, TypeOK, Wake
  <2>2. Ring' /\ Room'
    BY <1>4, RingUntouched, RoomUntouched DEF Wake
  <2>3. InTurn' /\ called' = called
    BY <1>4 DEF Inv, InTurn, Wake
  <2> QED BY <2>1, <2>2, <2>3 DEF Inv
<1>5. CASE Run
  <2>1. TypeOK'
    <3>1. m_bThreadExit' \in BOOLEAN
      BY <1>5, Zenon DEF Run
    <3>2. sem' \in Int /\ runs' \in Nat /\ m_pSem' = "live" /\ tpc' = "test" /\ spc' = "running"
      BY <1>5 DEF Inv, TypeOK, Run
    <3>3. UNCHANGED <<ppc, msg, ring, pMsg, sent, called, crashed>>
      BY <1>5, Zenon DEF Run
    <3> QED BY <3>1, <3>2, <3>3 DEF Inv, TypeOK
  <2>2. Ring' /\ Room'
    BY <1>5, RingUntouched, RoomUntouched DEF Run
  <2>3. InTurn' /\ called' = called
    BY <1>5 DEF Inv, InTurn, Run
  <2> QED BY <2>1, <2>2, <2>3 DEF Inv
<1>6. CASE StopFilters
  BY <1>6, RingUntouched, RoomUntouched DEF Inv, TypeOK, InTurn, StopFilters
<1>7. CASE DeleteSemaphore
  BY <1>7, RingUntouched, RoomUntouched DEF Inv, TypeOK, InTurn, DeleteSemaphore
<1>8. CASE ClearPointer
  BY <1>8, RingUntouched, RoomUntouched DEF Inv, TypeOK, InTurn, ClearPointer
<1>9. CASE TellThread
  BY <1>9, RingUntouched, RoomUntouched DEF Inv, TypeOK, InTurn, TellThread
<1>10. CASE Join
  BY <1>10, RingUntouched, RoomUntouched DEF Inv, TypeOK, InTurn, Join
<1> QED
  BY <1>1, <1>2, <1>3, <1>4, <1>5, <1>6, <1>7, <1>8, <1>9, <1>10 DEF Quiet, Stop

LEMMA StepInv == Inv /\ [Next]_vars => Inv' /\ (called' # called => called' = called + 1)
<1> SUFFICES ASSUME Inv, [Next]_vars
             PROVE  Inv' /\ (called' # called => called' = called + 1)
  OBVIOUS
<1>1. ASSUME NEW p \in Producer, NEW code \in Codes, EventNotify(p, code)
      PROVE  Inv' /\ called' = called
  BY <1>1, NotifyStep DEF EventNotify
<1>2. ASSUME NEW p \in Producer, Push(p)
      PROVE  Inv' /\ called' = called
  BY <1>2, PushStep DEF Push
<1>3. ASSUME NEW p \in Producer, NotifyPost(p)
      PROVE  Inv' /\ called' = called
  BY <1>3, PostStep DEF NotifyPost
<1>4. CASE Pop
  BY <1>4, PopStep DEF Pop
<1>5. CASE Callback
  BY <1>5, CallbackStep
<1>6. CASE Quiet
  BY <1>6, QuietStep
<1>7. CASE UNCHANGED vars
  <2>1. Ring' /\ Room'
    BY <1>7, RingUntouched, RoomUntouched DEF vars, ring
  <2> QED BY <1>7, <2>1 DEF Inv, TypeOK, InTurn, vars
<1> QED
  BY <1>1, <1>2, <1>3, <1>4, <1>5, <1>6, <1>7 DEF Next, Notifying, ThreadLoop, Quiet

(* While nobody notifies into a full ring it holds the newest messages, each *)
(* once and in the order of the pushes, over any number of runs.             *)
THEOREM RingHolds == Paced /\ Spec => []RingExact
<1>1. Inv /\ [Next]_vars => Inv'
  BY StepInv
<1> QED BY InitInv, <1>1, RingMeaning, PTL DEF Spec

(* The application is called with every message at most once and in the     *)
(* order of the pushes, whatever threads push and however often the recorder *)
(* is stopped with messages left in the ring.                                *)
THEOREM CalledInOrder == Paced /\ Spec => OnceInOrder
<1>1. Inv /\ [Next]_vars => Inv'
  BY StepInv
<1>2. Inv /\ [Next]_vars => [called' # called => called' = called + 1]_vars
  BY StepInv
<1> QED BY InitInv, <1>1, <1>2, PTL DEF Spec, OnceInOrder
=============================================================================
