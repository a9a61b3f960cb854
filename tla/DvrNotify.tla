------------------------------ MODULE DvrNotify ------------------------------
(***************************************************************************)
(* CNX_DvrNotify: any thread of the recorder leaves a message in a ring,   *)
(* and the notifier's own thread calls the application back with it.  The  *)
(* application may call the recorder from there: on a motion message it    *)
(* calls NX_DvrEvent, which takes the m_hLock that CNX_DvrManager::Stop    *)
(* holds while it stops the filters and then the notifier.                 *)
(*                                                                         *)
(* Stop deletes the semaphore before it tells the thread to leave.  What   *)
(* the thread does with a deleted one is one of what the build can do.     *)
(***************************************************************************)
EXTENDS Integers, FiniteSets

CONSTANTS
    Producer,       \* threads that notify
    Codes,          \* of "DONE", "MOTION": what they notify
    Depth,          \* MAX_EVENT_QUEUE_DEPTH
    Paced,          \* TRUE: nothing is notified while the ring is full
    MaxMessage,     \* bound: messages pushed
    MaxRun          \* bound: times Run starts the thread

ASSUME NotifyAssumption ==
    /\ Codes \subseteq {"DONE", "MOTION"} /\ Depth \in Nat \ {0} /\ Paced \in BOOLEAN
    /\ MaxMessage \in Nat /\ MaxRun \in Nat
ASSUME ProducerAssumption == IsFiniteSet(Producer)

Slot == 0..(Depth - 1)
Message == [id : 0..MaxMessage, code : Codes \cup {"NONE"}]
NoMessage == [id |-> 0, code |-> "NONE"]

VARIABLES
    ppc,            \* EventNotify of each producer: "idle", "push", "post"
    msg,            \* the code each of them notifies
    tpc,            \* ThreadLoop
    spc,            \* the manager's Start and Stop
    m_bThreadExit,
    m_pSem,         \* "null", "live", or "dead" once deleted
    sem,            \* its m_Value; a deleted one has m_bReset
    m_pEventMsg, m_iHeadIndex, m_iTailIndex, m_nMsgCount,
    pMsg,           \* the message ThreadLoop popped
    sent,           \* messages pushed: the last one's number
    called,         \* number of the message the application was last called with
    crashed,        \* the program has died of a deleted semaphore
    runs

vars == <<ppc, msg, tpc, spc, m_bThreadExit, m_pSem, sem, m_pEventMsg, m_iHeadIndex,
          m_iTailIndex, m_nMsgCount, pMsg, sent, called, crashed, runs>>
ring == <<m_pEventMsg, m_iHeadIndex, m_iTailIndex, m_nMsgCount>>

Init ==
    /\ ppc = [p \in Producer |-> "idle"] /\ msg = [p \in Producer |-> "NONE"]
    /\ tpc = "none" /\ spc = "stopped"
    /\ m_bThreadExit = TRUE
    /\ m_pSem = "null" /\ sem = 0
    /\ m_pEventMsg = [i \in Slot |-> NoMessage]
    /\ m_iHeadIndex = 0 /\ m_iTailIndex = 0 /\ m_nMsgCount = 0
    /\ pMsg = NoMessage
    /\ sent = 0 /\ called = 0
    /\ crashed = FALSE /\ runs = 0

(* m_hLock of the manager. *)
LockFree == spc \in {"stopped", "running"}

InFlight == {p \in Producer : ppc[p] = "push"}
NumInFlight == Cardinality(InFlight)

(***************************************************************************)
(* EventNotify, on the thread of a filter.                                 *)
(***************************************************************************)
(* The filters notify until Stop has stopped them.  *)
EventNotify(p, code) ==
    /\ ppc[p] = "idle" /\ spc \in {"running", "filters"} /\ sent + NumInFlight < MaxMessage
    /\ Paced => m_nMsgCount + NumInFlight < Depth
    /\ ~m_bThreadExit /\ m_pSem # "null"
    /\ ppc' = [ppc EXCEPT ![p] = "push"]
    /\ msg' = [msg EXCEPT ![p] = code]
    /\ UNCHANGED <<tpc, spc, m_bThreadExit, m_pSem, sem, ring, pMsg, sent, called, crashed, runs>>

Next1(i) == (i + 1) % Depth

(* The room is asserted, and an assertion of this library is compiled out. *)
Push(p) ==
    /\ ppc[p] = "push"
    /\ m_pEventMsg' = [m_pEventMsg EXCEPT ![m_iTailIndex] = [id |-> sent + 1, code |-> msg[p]]]
    /\ m_iTailIndex' = Next1(m_iTailIndex)
    /\ m_nMsgCount' = m_nMsgCount + 1
    /\ sent' = sent + 1
    /\ ppc' = [ppc EXCEPT ![p] = "post"]
    /\ UNCHANGED <<msg, tpc, spc, m_bThreadExit, m_pSem, sem, m_iHeadIndex, pMsg, called,
                   crashed, runs>>

PostWithoutSignal == sem' = sem + 1 /\ UNCHANGED tpc
Post ==
    /\ sem' = sem + 1
    /\ tpc' = IF tpc = "wait" THEN "woken" ELSE tpc

NotifyPost(p) ==
    /\ ppc[p] = "post"
    /\ Post
    /\ ppc' = [ppc EXCEPT ![p] = "idle"]
    /\ msg' = [msg EXCEPT ![p] = "NONE"]
    /\ UNCHANGED <<spc, m_bThreadExit, m_pSem, ring, pMsg, sent, called, crashed, runs>>

(***************************************************************************)
(* ThreadLoop.                                                             *)
(***************************************************************************)
LoopTest ==
    /\ tpc = "test"
    /\ tpc' = IF m_bThreadExit THEN "done" ELSE "pend"
    /\ UNCHANGED <<ppc, msg, spc, m_bThreadExit, m_pSem, sem, ring, pMsg, sent, called,
                   crashed, runs>>

Pend ==
    /\ tpc = "pend" /\ m_pSem = "live"
    /\ tpc' = IF sem = 0 THEN "wait" ELSE IF sem < 0 THEN "done" ELSE "pop"
    /\ sem' = IF sem > 0 THEN sem - 1 ELSE sem
    /\ UNCHANGED <<ppc, msg, spc, m_bThreadExit, m_pSem, ring, pMsg, sent, called, crashed, runs>>

(* On a deleted semaphore Pend sees m_bReset if its memory is still what it *)
(* was; otherwise, and through a null pointer, the program dies.            *)
PendDeleted ==
    /\ tpc = "pend" /\ m_pSem # "live"
    /\ tpc' = "done"
    /\ crashed' \in {TRUE, m_pSem = "null"}
    /\ UNCHANGED <<ppc, msg, spc, m_bThreadExit, m_pSem, sem, ring, pMsg, sent, called, runs>>

(* Pend returns 0 after its wait, also when the wait was ended by the delete: *)
(* then it unlocks a mutex that is freed.                                     *)
Wake ==
    /\ tpc = "woken"
    /\ sem' = sem - 1
    /\ tpc' = "pop"
    /\ crashed' \in {FALSE, m_pSem # "live"}
    /\ UNCHANGED <<ppc, msg, spc, m_bThreadExit, m_pSem, ring, pMsg, sent, called, runs>>

PopKeepsHead ==
    /\ pMsg' = m_pEventMsg[m_iHeadIndex]
    /\ m_nMsgCount' = m_nMsgCount - 1
    /\ UNCHANGED m_iHeadIndex
TakeMessage ==
    /\ pMsg' = m_pEventMsg[m_iHeadIndex]
    /\ m_iHeadIndex' = Next1(m_iHeadIndex)
    /\ m_nMsgCount' = m_nMsgCount - 1

Pop ==
    /\ tpc = "pop"
    /\ IF m_nMsgCount > 0
         THEN TakeMessage /\ tpc' = "call"
         ELSE tpc' = "test" /\ UNCHANGED <<pMsg, m_iHeadIndex, m_nMsgCount>>
    /\ UNCHANGED <<ppc, msg, spc, m_bThreadExit, m_pSem, sem, m_pEventMsg, m_iTailIndex, sent,
                   called, crashed, runs>>

(* NotifyCallback: on motion the application calls NX_DvrEvent. *)
Callback ==
    /\ tpc = "call"
    /\ pMsg.code = "MOTION" => LockFree
    /\ called' = pMsg.id
    /\ pMsg' = NoMessage
    /\ tpc' = "test"
    /\ UNCHANGED <<ppc, msg, spc, m_bThreadExit, m_pSem, sem, ring, sent, crashed, runs>>

(***************************************************************************)
(* Run and Stop of the notifier, within Start and Stop of the manager.     *)
(***************************************************************************)
Run ==
    /\ spc = "stopped" /\ runs < MaxRun
    /\ m_bThreadExit' = FALSE
    /\ m_pSem' = "live" /\ sem' = 0
    /\ tpc' = "test" /\ spc' = "running"
    /\ runs' = runs + 1
    /\ UNCHANGED <<ppc, msg, ring, pMsg, sent, called, crashed>>

StopFilters ==
    /\ spc = "running"
    /\ spc' = "filters"
    /\ UNCHANGED <<ppc, msg, tpc, m_bThreadExit, m_pSem, sem, ring, pMsg, sent, called,
                   crashed, runs>>

(* delete m_pSem: its destructor wakes the thread. *)
DeleteSemaphore ==
    /\ spc = "filters" /\ \A p \in Producer : ppc[p] = "idle"
    /\ m_pSem' = "dead"
    /\ tpc' = IF tpc = "wait" THEN "woken" ELSE tpc
    /\ spc' = "deleted"
    /\ UNCHANGED <<ppc, msg, m_bThreadExit, sem, ring, pMsg, sent, called, crashed, runs>>

ClearPointer ==
    /\ spc = "deleted"
    /\ m_pSem' = "null"
    /\ spc' = "cleared"
    /\ UNCHANGED <<ppc, msg, tpc, m_bThreadExit, sem, ring, pMsg, sent, called, crashed, runs>>

TellThread ==
    /\ spc = "cleared"
    /\ m_bThreadExit' = TRUE
    /\ spc' = "join"
    /\ UNCHANGED <<ppc, msg, tpc, m_pSem, sem, ring, pMsg, sent, called, crashed, runs>>

Join ==
    /\ spc = "join" /\ tpc = "done"
    /\ tpc' = "none" /\ spc' = "stopped"
    /\ UNCHANGED <<ppc, msg, m_bThreadExit, m_pSem, sem, ring, pMsg, sent, called, crashed, runs>>

-----------------------------------------------------------------------------
Notifying == \E p \in Producer : (\E code \in Codes : EventNotify(p, code)) \/ Push(p) \/ NotifyPost(p)
ThreadLoop == LoopTest \/ Pend \/ PendDeleted \/ Wake \/ Pop \/ Callback
Stop == StopFilters \/ DeleteSemaphore \/ ClearPointer \/ TellThread \/ Join

Next == ~crashed /\ (Notifying \/ ThreadLoop \/ Run \/ Stop)

(* Threads that can go on do; nobody has to notify, to start or to stop. *)
Fairness ==
    /\ \A p \in Producer : WF_vars(~crashed /\ (Push(p) \/ NotifyPost(p)))
    /\ WF_vars(~crashed /\ ThreadLoop)
    /\ WF_vars(~crashed /\ (DeleteSemaphore \/ ClearPointer \/ TellThread \/ Join))

Spec == Init /\ [][Next]_vars
FairSpec == Spec /\ Fairness

-----------------------------------------------------------------------------
(***************************************************************************)
(* Properties.                                                             *)
(***************************************************************************)
TypeOK ==
    /\ ppc \in [Producer -> {"idle", "push", "post"}]
    /\ msg \in [Producer -> Codes \cup {"NONE"}]
    /\ tpc \in {"none", "test", "pend", "wait", "woken", "pop", "call", "done"}
    /\ spc \in {"stopped", "running", "filters", "deleted", "cleared", "join"}
    /\ m_bThreadExit \in BOOLEAN /\ m_pSem \in {"null", "live", "dead"} /\ sem \in Int
    /\ m_pEventMsg \in [Slot -> Message]
    /\ m_iHeadIndex \in Slot /\ m_iTailIndex \in Slot /\ m_nMsgCount \in Int
    /\ pMsg \in Message
    /\ sent \in 0..MaxMessage /\ called \in 0..MaxMessage
    /\ crashed \in BOOLEAN /\ runs \in Nat

(* While the ring is not overrun it holds the newest messages, each once and *)
(* in the order they were pushed, whichever thread pushed them and whatever  *)
(* an earlier run left behind; every variable keeps its type.                *)
RingExact ==
    /\ TypeOK
    /\ \A i \in 0..(m_nMsgCount - 1) :
        m_pEventMsg[(m_iHeadIndex + i) % Depth].id = sent - m_nMsgCount + 1 + i

(* The application is called with every message at most once, and in the    *)
(* order of the pushes: none overtakes another across threads and restarts. *)
OnceInOrder == [][called' # called => called' = called + 1]_vars

(* A message that is pushed reaches the application unless Stop comes. *)
DeliveredUnlessStopped ==
    \A n \in 1..MaxMessage :
        (sent >= n /\ runs = 1) ~> (called >= n \/ spc # "running")
=============================================================================
