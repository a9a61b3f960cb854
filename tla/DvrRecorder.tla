---------------------------- MODULE DvrRecorder ----------------------------
(***************************************************************************)
(* The recording control path: the application calls CNX_DvrManager, whose *)
(* thread turns events, mode changes and elapsed time into calls of the    *)
(* buffering filter and of the file writer; the buffering filter answers   *)
(* at the next key frame with start and stop flags; the writer opens and   *)
(* closes files.  Stream data is left out, see BufferingFilter and         *)
(* FileWriter.                                                             *)
(*                                                                         *)
(* Time is m_CurTimeStamp of the buffering filter and passes with the      *)
(* samples it takes, one tick each.  Differences of times are kept instead *)
(* of times, up to Cap, beyond which no comparison tells them apart.       *)
(***************************************************************************)
EXTENDS Integers, Sequences, FiniteSets, WritingFlags

CONSTANTS
    NormalDuration, \* m_NormalDuration, in ticks
    EventDuration,  \* m_EventDuration, in ticks
    Gap,            \* 700 in the source: least distance of two unit ends
    MaxGop,         \* the encoder sends a sync point at least every MaxGop samples
    MaxLag,         \* samples taken between the manager's reading of the time and
                    \* the end of that turn of its loop
    PacedEvents,    \* values of paced
    PacedModes      \* TRUE: ChangeMode and Stop come when all that was asked is answered

ASSUME DurationAssumption ==
    /\ NormalDuration \in Nat /\ EventDuration \in Nat
    /\ Gap \in Nat \ {0} /\ MaxGop \in Nat \ {0} /\ MaxLag \in Nat \ {0}
ASSUME PacedAssumption == PacedEvents \subseteq BOOLEAN /\ PacedModes \in BOOLEAN

(* A request is answered by a key frame before the next timer can expire. *)
SlowTimers ==
    /\ NormalDuration >= Gap + MaxGop + MaxLag
    /\ EventDuration >= Gap + MaxGop + MaxLag

Cap == 1 + (IF NormalDuration > EventDuration THEN NormalDuration ELSE EventDuration)
Capped(n) == IF n > Cap THEN Cap ELSE n

EncodeType == {"NORMAL", "MOTION"}
Kind == {"NORMAL", "EVENT"}
NoFile == [kind |-> "NONE", name |-> "NONE"]

DvrStatus == {"NORMAL_START", "NORMAL_WAIT", "NORMAL_EVENT", "NORMAL_EVENT_WAIT",
              "MOTION_START", "MOTION_WAIT", "MOTION_EVENT", "MOTION_EVENT_WAIT"}
WaitStatus == {"NORMAL_WAIT", "NORMAL_EVENT_WAIT", "MOTION_WAIT", "MOTION_EVENT_WAIT"}

VARIABLES
    paced,          \* TRUE in a behaviour in which SetEvent, too, only comes then
    api,            \* the application's thread: "idle", or "join" in Stop
    m_bRun,
    m_hLock,        \* who holds it: "free", "api" or "manager"
    m_nMode, m_bChageMode, m_bEvent,
    m_bThreadExit,
    mpc,            \* the manager's ThreadLoop
    curStatus,
    timed,          \* prvTime # 0
    seen,           \* curTime - prvTime
    lag,            \* samples taken since curTime was read
    calls,          \* calls the current case has still to make
    stamped,        \* m_CurTimeStamp # 0
    fresh,          \* the buffering thread has begun its ThreadLoop
    unit,           \* m_CurTimeStamp - m_PrvTimeStamp
    gop,            \* samples since the last sync point
    ctl,            \* the buffering filter's requests, see WritingFlags
    flags,          \* flag samples PushStream has still to deliver
    nameCallback,   \* kind of the writer's FileNameCallbackFunc
    m_WritingMode,  \* of the writer
    file,           \* the file behind m_OutFd
    leaked,         \* handles overwritten while open
    notes           \* kind and name in the last notification of a closed file

apiVars == <<paced, api, m_bRun, m_hLock, m_nMode, m_bChageMode, m_bEvent, m_bThreadExit>>
mgrVars == <<mpc, curStatus, timed, seen, lag, calls>>
bufVars == <<stamped, fresh, unit, gop, ctl, flags>>
outVars == <<nameCallback, m_WritingMode, file, leaked, notes>>
vars == <<apiVars, mgrVars, bufVars, outVars>>

Init ==
    /\ paced \in PacedEvents
    /\ api = "idle" /\ m_bRun = FALSE /\ m_hLock = "free"
    /\ m_nMode = "NORMAL" /\ m_bChageMode = FALSE /\ m_bEvent = FALSE
    /\ m_bThreadExit = TRUE
    /\ mpc = "none" /\ curStatus = "NORMAL_START" /\ timed = FALSE
    /\ seen = 0 /\ lag = 0 /\ calls = <<>>
    /\ stamped = FALSE /\ fresh = FALSE /\ unit = 0 /\ gop = MaxGop
    /\ ctl \in ControlInit /\ flags = <<>>
    /\ nameCallback = "NORMAL" /\ m_WritingMode = "NORMAL"
    /\ file = NoFile /\ leaked = 0
    /\ notes = NoFile

Pending == ctl.start \/ ctl.stop \/ ctl.change \/ ctl.pop

(* PushStream holds m_hBufferedLock until its flags are delivered. *)
BufferedLockFree == flags = <<>>

(* Nothing that was asked for is on its way any more. *)
Settled ==
    /\ ~m_bChageMode /\ ~m_bEvent /\ calls = <<>> /\ ~Pending /\ flags = <<>>
    /\ mpc \in {"loop", "time", "lock"} /\ curStatus \in WaitStatus

(***************************************************************************)
(* The application: Start, Stop, SetEvent, ChangeMode, under m_hLock.      *)
(***************************************************************************)
(* The filters are started before the manager's thread; Run of each thread *)
(* and StartManager leave what is left of an earlier recording in ctl.     *)
Start(type) ==
    /\ api = "idle" /\ ~m_bRun /\ m_hLock = "free" /\ mpc = "none"
    /\ m_nMode' = type
    /\ m_bRun' = TRUE
    /\ m_bThreadExit' = FALSE
    /\ mpc' = "init"
    /\ fresh' = FALSE
    /\ UNCHANGED <<paced, api, m_hLock, m_bChageMode, m_bEvent, curStatus, timed, seen, lag, calls,
                   stamped, unit, gop, ctl, flags, outVars>>

SetEvent ==
    /\ api = "idle" /\ m_hLock = "free"
    /\ paced => Settled
    /\ m_bEvent' = TRUE
    /\ UNCHANGED <<paced, api, m_bRun, m_hLock, m_nMode, m_bChageMode, m_bThreadExit,
                   mgrVars, bufVars, outVars>>

ChangeMode(type) ==
    /\ api = "idle" /\ m_hLock = "free"
    /\ PacedModes => Settled
    /\ m_nMode' = type
    /\ m_bChageMode' = TRUE
    /\ UNCHANGED <<paced, api, m_bRun, m_hLock, m_bEvent, m_bThreadExit, mgrVars, bufVars, outVars>>

(* Stop keeps m_hLock while StopManager joins the thread. *)
Stop ==
    /\ api = "idle" /\ m_bRun /\ m_hLock = "free"
    /\ PacedModes => Settled
    /\ m_hLock' = "api"
    /\ m_bThreadExit' = TRUE
    /\ api' = "join"
    /\ UNCHANGED <<paced, m_bRun, m_nMode, m_bChageMode, m_bEvent, mgrVars, bufVars, outVars>>

(* close() and the notification that says which kind of file is done. *)
Closed(kind) ==
    /\ file' = NoFile
    /\ notes' = IF file = NoFile THEN notes ELSE [kind |-> kind, name |-> file.name]

(* The thread has ended: the filters are stopped, and the writer's thread *)
(* closes the file that is still open by its writing mode.                *)
StopFilters ==
    /\ api = "join" /\ mpc = "done" /\ flags = <<>>
    /\ Closed(m_WritingMode)
    /\ mpc' = "none"
    /\ m_bRun' = FALSE
    /\ m_hLock' = "free"
    /\ api' = "idle"
    /\ UNCHANGED <<paced, m_nMode, m_bChageMode, m_bEvent, m_bThreadExit, curStatus, timed, seen,
                   lag, calls, bufVars, nameCallback, m_WritingMode, leaked>>

(***************************************************************************)
(* CNX_DvrManager::ThreadLoop.                                             *)
(***************************************************************************)
InitStatus ==
    /\ mpc = "init" /\ m_hLock = "free"
    /\ curStatus' = IF m_nMode = "NORMAL" THEN "NORMAL_START" ELSE "MOTION_START"
    /\ timed' = FALSE /\ seen' = 0 /\ lag' = 0
    /\ mpc' = "loop"
    /\ UNCHANGED <<apiVars, calls, bufVars, outVars>>

LoopTest ==
    /\ mpc = "loop"
    /\ mpc' = IF m_bThreadExit THEN "exit" ELSE "time"
    /\ UNCHANGED <<apiVars, curStatus, timed, seen, lag, calls, bufVars, outVars>>

(* Nothing else happens until the first sample has given a time. *)
ReadTime ==
    /\ mpc = "time"
    /\ IF timed
         THEN /\ seen' = Capped(seen + lag)
              /\ mpc' = "lock"
              /\ UNCHANGED timed
         ELSE /\ timed' = stamped
              /\ seen' = 0
              /\ mpc' = "loop"
    /\ lag' = 0
    /\ UNCHANGED <<apiVars, curStatus, calls, bufVars, outVars>>

StartStatus == IF m_nMode = "NORMAL" THEN "NORMAL_START" ELSE "MOTION_START"
AfterChange == IF m_bChageMode THEN StartStatus ELSE curStatus

(* The status an event leads to: it counts in two states only. *)
EventStatusInNormal(status) == IF status = "NORMAL_WAIT" THEN "NORMAL_EVENT" ELSE status
EventStatus(status) ==
    CASE status = "NORMAL_WAIT" -> "NORMAL_EVENT"
      [] status = "MOTION_WAIT" -> "MOTION_EVENT"
      [] OTHER -> status

(* A mode change is looked at first, then an event; both are cleared. *)
TakeRequests ==
    /\ mpc = "lock" /\ m_hLock = "free" /\ BufferedLockFree
    /\ m_bChageMode' = FALSE /\ m_bEvent' = FALSE
    /\ ctl' = [ctl EXCEPT !.stop = @ \/ m_bChageMode]
    /\ curStatus' = IF m_bEvent THEN EventStatus(AfterChange) ELSE AfterChange
    /\ mpc' = "case"
    /\ UNCHANGED <<paced, api, m_bRun, m_hLock, m_nMode, m_bThreadExit, timed, seen, lag, calls,
                   stamped, fresh, unit, gop, flags, outVars>>

StartNormalWriting == <<"BOTH", "nameNormal", "start">>
StartMotionWriting == <<"EVENT_ONLY", "nameEvent">>
StopWritingForgotten == <<>>
StopWriting == <<"stop">>
ChangeNormalWriting == <<"nameNormal", "change">>
ChangeEventWriting == <<"nameEvent", "pop">>

(* One case of the state machine: the calls it makes, the next status and   *)
(* what curTime - prvTime is after it.                                      *)
CaseStep(todo, next, elapsed) ==
    calls' = todo /\ curStatus' = next /\ seen' = elapsed

Expired(duration) == seen > duration

Case ==
    /\ mpc = "case"
    /\ CASE curStatus = "NORMAL_START" ->
              CaseStep(StartNormalWriting, "NORMAL_WAIT", 0)
         [] curStatus = "NORMAL_WAIT" /\ Expired(NormalDuration) ->
              CaseStep(ChangeNormalWriting, "NORMAL_WAIT", 0)
         [] curStatus = "NORMAL_EVENT" ->
              CaseStep(ChangeEventWriting, "NORMAL_EVENT_WAIT", 0)
         [] curStatus = "NORMAL_EVENT_WAIT" /\ Expired(EventDuration) ->
              CaseStep(ChangeNormalWriting, "NORMAL_WAIT", 0)
         \* prvTime = curStatus: a number next to nothing
         [] curStatus = "MOTION_START" ->
              CaseStep(StartMotionWriting, "MOTION_WAIT", Cap)
         [] curStatus = "MOTION_EVENT" ->
              CaseStep(ChangeEventWriting, "MOTION_EVENT_WAIT", 0)
         [] curStatus = "MOTION_EVENT_WAIT" /\ Expired(EventDuration) ->
              CaseStep(StopWriting, "MOTION_WAIT", 0)
         [] OTHER -> CaseStep(<<>>, curStatus, seen)
    /\ mpc' = "calls"
    /\ UNCHANGED <<apiVars, timed, lag, bufVars, outVars>>

(* A call of the buffering filter waits for m_hBufferedLock. *)
Apply(call) ==
    CASE call \in Modes -> [ctl EXCEPT !.mode = call]
      [] call = "start"  -> [ctl EXCEPT !.start = TRUE]
      [] call = "stop"   -> [ctl EXCEPT !.stop = TRUE]
      [] call = "change" -> [ctl EXCEPT !.change = TRUE]
      [] call = "pop"    -> [ctl EXCEPT !.pop = TRUE]
      [] OTHER           -> ctl

NameAfter(call) ==
    CASE call = "nameNormal" -> "NORMAL"
      [] call = "nameEvent"  -> "EVENT"
      [] OTHER               -> nameCallback

Call ==
    /\ mpc = "calls"
    /\ IF calls = <<>>
         THEN mpc' = "loop" /\ UNCHANGED <<calls, ctl, nameCallback>>
         ELSE /\ Head(calls) \in {"nameNormal", "nameEvent"} \/ BufferedLockFree
              /\ ctl' = Apply(Head(calls))
              /\ nameCallback' = NameAfter(Head(calls))
              /\ calls' = Tail(calls)
              /\ UNCHANGED mpc
    /\ UNCHANGED <<apiVars, curStatus, timed, seen, lag, stamped, fresh, unit, gop, flags,
                   m_WritingMode, file, leaked, notes>>

(* The StopWriting after the loop. *)
Exit ==
    /\ mpc = "exit" /\ BufferedLockFree
    /\ ctl' = [ctl EXCEPT !.stop = TRUE]
    /\ mpc' = "done"
    /\ UNCHANGED <<apiVars, curStatus, timed, seen, lag, calls, stamped, fresh, unit, gop,
                   flags, outVars>>

(***************************************************************************)
(* The buffering thread and the writer.                                    *)
(***************************************************************************)
BeginBuffering ==
    /\ m_bRun /\ ~fresh
    /\ fresh' = TRUE /\ stamped' = FALSE /\ unit' = 0
    /\ UNCHANGED <<apiVars, mgrVars, gop, ctl, flags, outVars>>

UnitAfter == IF ~stamped THEN 0 ELSE IF unit < Gap THEN unit + 1 ELSE Gap

(* PushStream of the next sample; the manager's turn is not longer than     *)
(* MaxLag samples.                                                          *)
PushStream(sync) ==
    /\ m_bRun /\ fresh /\ BufferedLockFree
    /\ lag < MaxLag \/ mpc \in {"init", "done"} \/ api = "join"
    /\ sync \/ gop < MaxGop
    /\ gop' = IF sync THEN 1 ELSE gop + 1
    /\ stamped' = TRUE
    /\ lag' = IF lag < MaxLag THEN lag + 1 ELSE lag
    /\ IF sync /\ UnitAfter = Gap
         THEN unit' = 0 /\ flags' = FlagsOf(ctl) /\ ctl' = Answered(ctl)
         ELSE unit' = UnitAfter /\ UNCHANGED <<flags, ctl>>
    /\ UNCHANGED <<apiVars, mpc, curStatus, timed, seen, calls, fresh, outVars>>

StartKind(f) == CASE f = "NORMAL_START" -> "NORMAL" [] OTHER -> "EVENT"
StopKind(f) == CASE f = "NORMAL_STOP" -> "NORMAL" [] OTHER -> "EVENT"
IsStart(f) == f \in {"NORMAL_START", "EVENT_START"}

(* CNX_FileWriter::Receive of a flag: open overwrites the handle. *)
DeliverFlag ==
    /\ flags # <<>>
    /\ flags' = Tail(flags)
    /\ IF IsStart(Head(flags))
         THEN /\ file' = [kind |-> StartKind(Head(flags)), name |-> nameCallback]
              /\ leaked' = IF file # NoFile /\ leaked < 2 THEN leaked + 1 ELSE leaked
              /\ m_WritingMode' = StartKind(Head(flags))
              /\ UNCHANGED notes
         ELSE Closed(StopKind(Head(flags))) /\ UNCHANGED <<leaked, m_WritingMode>>
    /\ UNCHANGED <<apiVars, mgrVars, stamped, fresh, unit, gop, ctl, nameCallback>>

-----------------------------------------------------------------------------
Application ==
    \/ \E type \in EncodeType : Start(type) \/ ChangeMode(type)
    \/ SetEvent \/ Stop
ThreadLoop ==
    InitStatus \/ LoopTest \/ ReadTime \/ TakeRequests \/ Case \/ Call \/ Exit
Buffering == BeginBuffering \/ (\E sync \in BOOLEAN : PushStream(sync)) \/ DeliverFlag

Next == Application \/ StopFilters \/ ThreadLoop \/ Buffering

(* The manager's thread runs and samples keep arriving; the lock is given   *)
(* in turn to the manager even if the application calls again and again.    *)
Fairness ==
    /\ WF_vars(StopFilters)
    /\ WF_vars(InitStatus) /\ WF_vars(LoopTest \/ ReadTime \/ Case \/ Call \/ Exit)
    /\ SF_vars(TakeRequests)
    /\ WF_vars(BeginBuffering \/ DeliverFlag)
    /\ WF_vars(\E sync \in BOOLEAN : PushStream(sync))

Spec == Init /\ [][Next]_vars
FairSpec == Spec /\ Fairness

-----------------------------------------------------------------------------
(***************************************************************************)
(* Properties.                                                             *)
(***************************************************************************)
TypeOK ==
    /\ paced \in PacedEvents
    /\ api \in {"idle", "join"} /\ m_bRun \in BOOLEAN /\ m_hLock \in {"free", "api"}
    /\ m_nMode \in EncodeType /\ m_bChageMode \in BOOLEAN /\ m_bEvent \in BOOLEAN
    /\ m_bThreadExit \in BOOLEAN
    /\ mpc \in {"none", "init", "loop", "time", "lock", "case", "calls", "exit", "done"}
    /\ curStatus \in DvrStatus /\ timed \in BOOLEAN
    /\ seen \in 0..Cap /\ lag \in 0..MaxLag
    /\ calls \in Seq(Modes \cup {"nameNormal", "nameEvent", "start", "stop", "change", "pop"})
    /\ stamped \in BOOLEAN /\ fresh \in BOOLEAN /\ unit \in 0..Gap /\ gop \in 1..MaxGop
    /\ ctl \in Control /\ flags \in Seq(FileFlags)
    /\ nameCallback \in Kind /\ m_WritingMode \in Kind
    /\ file \in {NoFile} \cup [kind : Kind, name : Kind]
    /\ leaked \in 0..2
    /\ notes \in {NoFile} \cup [kind : Kind, name : Kind]

(* The recorder implements the abstract session of RecordingSession: key      *)
(* frames answer the manager's requests with starts and stops that open one   *)
(* file at a time and announce it as what it is; when events are paced, each   *)
(* file also has a name of its own kind.                                      *)
Session == INSTANCE RecordingSession WITH
    named <- paced,
    handles <- leaked + (IF file = NoFile THEN 0 ELSE 1)
SessionSpec == Session!Spec

(* When every request has been answered, the file the writer has open is the *)
(* one the manager's state machine believes it is recording, and the status  *)
(* of the filter, which chooses the stop flag, says so too; every variable   *)
(* keeps its type.                                                           *)
ManagerAgrees ==
    /\ TypeOK
    /\ Settled /\ m_bRun =>
        /\ file.kind = CASE curStatus = "NORMAL_WAIT" -> "NORMAL"
                      [] curStatus = "MOTION_WAIT" -> "NONE"
                      [] OTHER -> "EVENT"
        /\ (ctl.status = "EVENT") <=> (curStatus \in {"NORMAL_EVENT_WAIT", "MOTION_EVENT_WAIT"})

(* A file that is announced as normal has the name of a normal file, and so   *)
(* has an event file: the application files it away by the code alone.        *)
AnnouncedByName == notes.kind = notes.name

(* An event that comes while the manager waits for one becomes an event file. *)
EventRecorded ==
    (m_bEvent /\ curStatus \in {"NORMAL_WAIT", "MOTION_WAIT"} /\ mpc \in {"time", "loop"}
        /\ timed /\ ~m_bChageMode)
      ~> (file.kind = "EVENT" \/ m_bThreadExit)

(* Stop returns. *)
StopReturns == (api = "join") ~> (api = "idle")
=============================================================================
