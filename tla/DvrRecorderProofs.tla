-------------------------- MODULE DvrRecorderProofs --------------------------
(***************************************************************************)
(* Proofs about the recording control path, for any durations, distance of *)
(* units and groups of pictures: what the manager's thread, the buffering  *)
(* filter and the writer do together implements RecordingSession, as long  *)
(* as the application waits for its requests to be answered before it      *)
(* changes the mode or stops (PacedModes), and the timers are slower than   *)
(* the answer to a request (SlowTimers).  Events may come at any time.      *)
(***************************************************************************)
EXTENDS DvrRecorder, TLAPS

USE DurationAssumption, PacedAssumption

Starts == {"NORMAL_START", "EVENT_START"}
Stops == {"NORMAL_STOP", "EVENT_STOP"}

(* The kind of file that is open once f has been delivered. *)
KindOf(f) ==
    CASE f = "NORMAL_START" -> "NORMAL" [] f = "EVENT_START" -> "EVENT" [] OTHER -> "NONE"

(* g may be delivered while a file of kind k is open; a stop without a file *)
(* does nothing.                                                             *)
Fits(k, g) == (k = "NORMAL" => g = "NORMAL_STOP") /\ (k = "EVENT" => g = "EVENT_STOP")
Chain(s) == \A i \in 1..(Len(s) - 1) : Fits(KindOf(s[i]), s[i + 1])
Last(s) == s[Len(s)]

(* The kind of file that is open when the flags in delivery have arrived, and *)
(* when the requests of ctl have been answered after them.                    *)
Delivered == IF flags = <<>> THEN file.kind ELSE KindOf(Last(flags))
Predicted ==
    IF ctl.pop THEN "EVENT"
    ELSE IF ctl.start \/ ctl.change THEN "NORMAL"
    ELSE IF ctl.stop THEN "NONE"
    ELSE Delivered

(* The writer has at most one file, and the flags on their way open and close *)
(* files in turn.                                                             *)
WriterFits ==
    /\ leaked = 0
    /\ file # NoFile => m_WritingMode = file.kind
    /\ Chain(flags)
    /\ flags # <<>> => Fits(file.kind, flags[1])

(* The requests fit the state in which the key frame will find the filter. *)
RequestsFit ==
    /\ Delivered # "NONE" => ctl.status = Delivered
    /\ Delivered = "NONE" => ctl.status = "NORMAL" \/ ctl.stop
    /\ ctl.start => ~ctl.change /\ ctl.mode = "BOTH" /\ (ctl.stop \/ Delivered = "NONE")
    /\ ctl.change => ~ctl.stop /\ ctl.mode = "BOTH" /\ Delivered # "NONE"
    /\ ctl.pop => CASE ctl.mode = "BOTH" ->
                         ctl.start \/ ctl.change \/ (~ctl.stop /\ Delivered = "NORMAL")
                    [] ctl.mode = "EVENT_ONLY" ->
                         ~ctl.start /\ ~ctl.change /\ (ctl.stop \/ Delivered = "NONE")
                    [] OTHER -> FALSE

(* Nothing is asked for but, perhaps, that the last file is closed. *)
OnlyStop ==
    /\ ~ctl.start /\ ~ctl.change /\ ~ctl.pop
    /\ \A i \in DOMAIN flags : flags[i] \in Stops
Quiet == ~Pending /\ flags = <<>>

Running == {"loop", "time", "lock", "case", "calls"}
StartStatuses == {"NORMAL_START", "MOTION_START"}
EventStatuses == {"NORMAL_EVENT", "MOTION_EVENT"}

(* Where the threads are. *)
Places ==
    /\ m_bRun <=> mpc # "none"
    /\ m_hLock = "api" <=> api = "join"
    /\ m_bThreadExit <=> api = "join" \/ mpc = "none"
    /\ api = "join" => mpc \in {"loop", "time", "lock", "exit", "done"}
    /\ mpc \in {"exit", "done"} => api = "join"
    /\ api = "join" /\ mpc # "done" =>
        Quiet /\ calls = <<>> /\ curStatus \in WaitStatus /\ ~m_bEvent /\ ~m_bChageMode
    /\ m_bChageMode =>
        /\ Quiet /\ mpc \in {"loop", "time", "lock"} /\ curStatus \in WaitStatus
        /\ paced => ~m_bEvent
    /\ mpc = "calls" => curStatus \in WaitStatus
    /\ calls # <<>> => mpc = "calls"
    /\ mpc \in {"loop", "time", "lock"} => curStatus \in WaitStatus \cup StartStatuses
    /\ ~fresh => flags = <<>>

(* What the manager believes to be recorded, less the calls it has still to  *)
(* make, is what the requests lead to.                                        *)
NothingYet == OnlyStop /\ Predicted = "NONE"
StillAsking ==
    \/ /\ curStatus = "NORMAL_WAIT" /\ NothingYet
       /\ \/ calls = <<"BOTH", "nameNormal", "start">>
          \/ ctl.mode = "BOTH" /\ calls \in {<<"nameNormal", "start">>, <<"start">>}
    \/ /\ curStatus = "MOTION_WAIT" /\ NothingYet
       /\ \/ calls = <<"EVENT_ONLY", "nameEvent">>
          \/ ctl.mode = "EVENT_ONLY" /\ calls = <<"nameEvent">>
    \/ /\ curStatus = "NORMAL_WAIT" /\ Quiet /\ ctl.mode = "BOTH"
       /\ Predicted # "NONE"
       /\ calls \in {<<"nameNormal", "change">>, <<"change">>}
    \/ /\ curStatus = "MOTION_WAIT" /\ Quiet /\ ctl.mode = "EVENT_ONLY"
       /\ Predicted = "EVENT" /\ calls = <<"stop">>
    \/ /\ \/ curStatus = "NORMAL_EVENT_WAIT" /\ Predicted = "NORMAL" /\ ctl.mode = "BOTH"
          \/ curStatus = "MOTION_EVENT_WAIT" /\ Predicted = "NONE" /\ ctl.mode = "EVENT_ONLY"
       /\ calls \in {<<"nameEvent", "pop">>, <<"pop">>}
       /\ paced => Quiet
AllAsked ==
    CASE curStatus \in StartStatuses -> NothingYet
      [] curStatus \in {"NORMAL_WAIT", "NORMAL_EVENT"} ->
           Predicted = "NORMAL" /\ ctl.mode = "BOTH"
      [] curStatus = "NORMAL_EVENT_WAIT" -> Predicted = "EVENT" /\ ctl.mode = "BOTH"
      [] curStatus \in {"MOTION_WAIT", "MOTION_EVENT"} ->
           Predicted = "NONE" /\ ctl.mode = "EVENT_ONLY"
      [] OTHER -> Predicted = "EVENT" /\ ctl.mode = "EVENT_ONLY"
Believed ==
    /\ mpc \in {"none", "init", "done"} => NothingYet
    /\ mpc \in Running \cup {"exit"} /\ calls = <<>> => AllAsked
    /\ calls # <<>> => StillAsking
    /\ mpc = "none" => flags = <<>> /\ file = NoFile

(* Samples that have come since something was asked for, at most. *)
Waited == IF ~stamped THEN 0 ELSE IF unit < Gap THEN unit + 1 ELSE Gap + gop - 1

Timed == {"NORMAL_WAIT", "NORMAL_EVENT_WAIT", "MOTION_EVENT_WAIT"}

(* A timer does not expire while an answer is outstanding. *)
InTime ==
    mpc \in Running =>
        /\ ~fresh => lag = 0 /\ (curStatus \in Timed => seen = 0)
        /\ mpc = "calls" /\ calls # <<>> /\ curStatus \in Timed => seen = 0
        /\ curStatus \in Timed /\ Pending => seen + lag <= MaxLag + Waited
        /\ curStatus \in Timed /\ flags # <<>> => seen + lag <= MaxLag + Gap + MaxGop

(* In a paced behaviour the next file to be opened finds the callback of its kind. *)
Named ==
    paced =>
        /\ file # NoFile => file.name = file.kind
        /\ \A i \in DOMAIN flags : flags[i] \in Starts => nameCallback = KindOf(flags[i])
        /\ ctl.start \/ ctl.change => nameCallback = "NORMAL"
        /\ ctl.pop => nameCallback = "EVENT"
        /\ ctl.pop => ~ctl.start /\ ~ctl.change
        /\ m_bEvent \/ curStatus \in EventStatuses => Quiet
        /\ calls \in {<<"start">>, <<"change">>} => nameCallback = "NORMAL"
        /\ calls = <<"pop">> => nameCallback = "EVENT"
        /\ m_bEvent => curStatus \in WaitStatus /\ mpc \in {"loop", "time", "lock"}

Inv == TypeOK /\ WriterFits /\ RequestsFit /\ Places /\ Believed /\ InTime /\ Named

(***************************************************************************)
(* Types.                                                                  *)
(***************************************************************************)
CallNames == Modes \cup {"nameNormal", "nameEvent", "start", "stop", "change", "pop"}

LEMMA CapType == Cap \in Nat /\ 0 \in 0..Cap /\ Cap \in 0..Cap
BY DEF Cap
LEMMA CappedType == ASSUME NEW n \in Nat PROVE Capped(n) \in 0..Cap /\ Capped(n) <= n
BY CapType DEF Capped
LEMMA Zeros == 0 \in 0..Gap /\ 0 \in 0..MaxLag /\ 1 \in 1..MaxGop /\ MaxGop \in 1..MaxGop
OBVIOUS

LEMMA PlusZero == \A x \in Nat : \A y : y = 0 => x + y = x
OBVIOUS

LEMMA ControlKept ==
    ASSUME NEW c \in Control, NEW b \in BOOLEAN
    PROVE  /\ [c EXCEPT !.start = b] \in Control
           /\ [c EXCEPT !.stop = b] \in Control
           /\ [c EXCEPT !.change = b] \in Control
           /\ [c EXCEPT !.pop = b] \in Control
BY DEF Control
LEMMA ModeKept == \A c \in Control : \A m \in Modes : [c EXCEPT !.mode = m] \in Control
BY DEF Control

LEMMA ApplyKept == ASSUME ctl \in Control, NEW call PROVE Apply(call) \in Control
<1>1. CASE call \in Modes
  BY <1>1, ModeKept DEF Apply, Modes
<1>2. CASE call \notin Modes
  <2>1. Apply(call) = CASE call = "start"  -> [ctl EXCEPT !.start = TRUE]
                        [] call = "stop"   -> [ctl EXCEPT !.stop = TRUE]
                        [] call = "change" -> [ctl EXCEPT !.change = TRUE]
                        [] call = "pop"    -> [ctl EXCEPT !.pop = TRUE]
                        [] OTHER           -> ctl
    BY <1>2 DEF Apply, Modes
  <2> QED BY <2>1, ControlKept
<1> QED BY <1>1, <1>2

LEMMA FlagTypes ==
    ASSUME NEW c \in Control
    PROVE  /\ StopFlags(c) \in Seq(FileFlags) /\ StartFlags(c) \in Seq(FileFlags)
           /\ ChangeFlags(c) \in Seq(FileFlags) /\ EventFlags(c) \in Seq(FileFlags)
           /\ FlagsOf(c) \in Seq(FileFlags) /\ Answered(c) \in Control
<1>0. /\ <<>> \in Seq(FileFlags)
      /\ \A f \in FileFlags : <<f>> \in Seq(FileFlags)
      /\ \A f, g \in FileFlags : <<f, g>> \in Seq(FileFlags)
  OBVIOUS
<1>a. {"NORMAL_START", "NORMAL_STOP", "EVENT_START", "EVENT_STOP"} = FileFlags
  BY DEF FileFlags
<1>1. StopFlags(c) \in Seq(FileFlags) /\ StartFlags(c) \in Seq(FileFlags)
  BY <1>0, <1>a DEF StopFlags, StartFlags
<1>2. ChangeFlags(c) \in Seq(FileFlags)
  BY <1>0, <1>a DEF ChangeFlags
<1>3. EventFlags(c) \in Seq(FileFlags)
  BY <1>0, <1>a DEF EventFlags
<1>4. FlagsOf(c) \in Seq(FileFlags)
  BY <1>1, <1>2, <1>3 DEF FlagsOf
<1>5. Answered(c) \in Control
  BY DEF Answered, Control, Statuses, StatusAfterStop, Modes
<1> QED BY <1>1, <1>2, <1>3, <1>4, <1>5

ApiTyped ==
    /\ paced \in PacedEvents
    /\ api \in {"idle", "join"} /\ m_bRun \in BOOLEAN /\ m_hLock \in {"free", "api"}
    /\ m_nMode \in EncodeType /\ m_bChageMode \in BOOLEAN /\ m_bEvent \in BOOLEAN
    /\ m_bThreadExit \in BOOLEAN
MgrTyped ==
    /\ mpc \in {"none", "init", "loop", "time", "lock", "case", "calls", "exit", "done"}
    /\ curStatus \in DvrStatus /\ timed \in BOOLEAN
    /\ seen \in 0..Cap /\ lag \in 0..MaxLag
    /\ calls \in Seq(CallNames)
BufTyped ==
    /\ stamped \in BOOLEAN /\ fresh \in BOOLEAN /\ unit \in 0..Gap /\ gop \in 1..MaxGop
    /\ ctl \in Control /\ flags \in Seq(FileFlags)
OutTyped ==
    /\ nameCallback \in Kind /\ m_WritingMode \in Kind
    /\ file \in {NoFile} \cup [kind : Kind, name : Kind]
    /\ leaked \in 0..2
    /\ notes \in {NoFile} \cup [kind : Kind, name : Kind]

LEMMA TypeParts == TypeOK <=> ApiTyped /\ MgrTyped /\ BufTyped /\ OutTyped
BY DEF TypeOK, ApiTyped, MgrTyped, BufTyped, OutTyped, CallNames
LEMMA TypePartsNext == TypeOK' <=> ApiTyped' /\ MgrTyped' /\ BufTyped' /\ OutTyped'
BY DEF TypeOK, ApiTyped, MgrTyped, BufTyped, OutTyped, CallNames

LEMMA TypesKept ==
    /\ ApiTyped /\ UNCHANGED apiVars => ApiTyped'
    /\ MgrTyped /\ UNCHANGED mgrVars => MgrTyped'
    /\ BufTyped /\ UNCHANGED bufVars => BufTyped'
    /\ OutTyped /\ UNCHANGED outVars => OutTyped'
BY DEF ApiTyped, MgrTyped, BufTyped, OutTyped, apiVars, mgrVars, bufVars, outVars

LEMMA InitTyped == Init => TypeOK
<1> SUFFICES ASSUME Init PROVE TypeOK
  OBVIOUS
<1>1. ApiTyped
  BY DEF Init, ApiTyped, EncodeType
<1>2. MgrTyped
  <2>1. <<>> \in Seq(CallNames)
    OBVIOUS
  <2> QED BY <2>1, CapType, Zeros DEF Init, MgrTyped, DvrStatus
<1>3. ctl \in Control
  BY DEF Init, ControlInit, Control, Statuses, Modes
<1>4. BufTyped
  <2>1. <<>> \in Seq(FileFlags)
    OBVIOUS
  <2> QED BY <1>3, <2>1, Zeros DEF Init, BufTyped
<1>5. OutTyped
  BY DEF Init, OutTyped, Kind
<1> QED BY <1>1, <1>2, <1>4, <1>5, TypeParts

LEMMA CallSequences ==
    /\ StartNormalWriting \in Seq(CallNames) /\ StartMotionWriting \in Seq(CallNames)
    /\ StopWriting \in Seq(CallNames) /\ ChangeNormalWriting \in Seq(CallNames)
    /\ ChangeEventWriting \in Seq(CallNames) /\ <<>> \in Seq(CallNames)
<1>1. /\ \A a, b, c \in CallNames : <<a, b, c>> \in Seq(CallNames)
      /\ \A a, b \in CallNames : <<a, b>> \in Seq(CallNames)
      /\ \A a \in CallNames : <<a>> \in Seq(CallNames)
      /\ <<>> \in Seq(CallNames)
  OBVIOUS
<1>2. {"BOTH", "EVENT_ONLY", "nameNormal", "nameEvent", "start", "stop", "change", "pop"} = CallNames
  BY DEF CallNames, Modes
<1> QED BY <1>1, <1>2 DEF StartNormalWriting, StartMotionWriting, StopWriting, ChangeNormalWriting,
        ChangeEventWriting

LEMMA CaseTyped == ASSUME TypeOK, Case PROVE TypeOK'
<1>1. UNCHANGED <<apiVars, timed, lag, bufVars, outVars>> /\ mpc' = "calls"
  BY DEF Case
<1>2. \/ CaseStep(StartNormalWriting, "NORMAL_WAIT", 0)
      \/ CaseStep(ChangeNormalWriting, "NORMAL_WAIT", 0)
      \/ CaseStep(ChangeEventWriting, "NORMAL_EVENT_WAIT", 0)
      \/ CaseStep(StartMotionWriting, "MOTION_WAIT", Cap)
      \/ CaseStep(ChangeEventWriting, "MOTION_EVENT_WAIT", 0)
      \/ CaseStep(StopWriting, "MOTION_WAIT", 0)
      \/ CaseStep(<<>>, curStatus, seen)
  BY DEF Case
<1>3. calls' \in Seq(CallNames) /\ curStatus' \in DvrStatus /\ seen' \in 0..Cap
  <2>1. seen \in 0..Cap /\ curStatus \in DvrStatus
    BY DEF TypeOK
  <2>2. calls' \in Seq(CallNames)
    BY <1>2, CallSequences DEF CaseStep
  <2>3. curStatus' \in DvrStatus
    BY <1>2, <2>1 DEF CaseStep, DvrStatus
  <2>4. seen' \in 0..Cap
    BY <1>2, <2>1, CapType DEF CaseStep
  <2> QED BY <2>2, <2>3, <2>4
<1>4. MgrTyped'
  BY <1>1, <1>3, TypeParts DEF MgrTyped
<1> QED BY <1>1, <1>4, TypeParts, TypePartsNext, TypesKept

LEMMA CallTyped == ASSUME TypeOK, Call PROVE TypeOK'
<1>1. UNCHANGED <<apiVars, curStatus, timed, seen, lag, stamped, fresh, unit, gop, flags,
                  m_WritingMode, file, leaked, notes>> /\ mpc' \in {"loop", "calls"}
  BY DEF Call
<1>2. ctl' \in Control
  <2>1. CASE calls = <<>>
    BY <2>1 DEF Call, TypeOK
  <2>2. CASE calls # <<>>
    BY <2>2, ApplyKept DEF Call, TypeOK
  <2> QED BY <2>1, <2>2
<1>3. nameCallback' \in Kind
  BY DEF Call, NameAfter, TypeOK, Kind
<1>4. calls' \in Seq(CallNames)
  BY TypeParts DEF Call, MgrTyped
<1>5. MgrTyped' /\ BufTyped' /\ OutTyped'
  BY <1>1, <1>2, <1>3, <1>4, TypeParts DEF MgrTyped, BufTyped, OutTyped
<1> QED BY <1>1, <1>5, TypeParts, TypePartsNext, TypesKept

LEMMA PushTyped == ASSUME TypeOK, NEW sync \in BOOLEAN, PushStream(sync) PROVE TypeOK'
<1>1. ctl' \in Control /\ flags' \in Seq(FileFlags)
  BY FlagTypes DEF PushStream, TypeOK
<1>2. unit' \in 0..Gap
  BY DEF PushStream, UnitAfter, TypeOK
<1>3. gop' \in 1..MaxGop /\ lag' \in 0..MaxLag
  BY DEF PushStream, TypeOK
<1>4. UNCHANGED <<apiVars, mpc, curStatus, timed, seen, calls, fresh, outVars>> /\ stamped' = TRUE
  BY DEF PushStream
<1>5. MgrTyped' /\ BufTyped'
  BY <1>1, <1>2, <1>3, <1>4, TypeParts DEF MgrTyped, BufTyped
<1> QED BY <1>4, <1>5, TypeParts, TypePartsNext, TypesKept

LEMMA DeliverTyped == ASSUME TypeOK, DeliverFlag PROVE TypeOK'
<1>1. UNCHANGED <<apiVars, mgrVars, stamped, fresh, unit, gop, ctl, nameCallback>>
      /\ flags' \in Seq(FileFlags)
  BY DEF DeliverFlag, TypeOK
<1>2. OutTyped'
  BY DEF DeliverFlag, StartKind, StopKind, Closed, TypeOK, OutTyped, NoFile, Kind
<1>3. BufTyped'
  BY <1>1, TypeParts DEF BufTyped
<1> QED BY <1>1, <1>2, <1>3, TypeParts, TypePartsNext, TypesKept

LEMMA StepTyped == TypeOK /\ [Next]_vars => TypeOK'
<1> SUFFICES ASSUME TypeOK, [Next]_vars PROVE TypeOK'
  OBVIOUS
<1> USE TypeParts, TypePartsNext, TypesKept
<1>1. ASSUME NEW type \in EncodeType, Start(type) PROVE TypeOK'
  <2>1. ApiTyped' /\ MgrTyped' /\ BufTyped'
    BY <1>1 DEF Start, ApiTyped, MgrTyped, BufTyped
  <2> QED BY <1>1, <2>1 DEF Start
<1>2. ASSUME NEW type \in EncodeType, ChangeMode(type) PROVE TypeOK'
  <2>1. ApiTyped'
    BY <1>2 DEF ChangeMode, ApiTyped
  <2> QED BY <1>2, <2>1 DEF ChangeMode
<1>3. CASE SetEvent
  <2>1. ApiTyped'
    BY <1>3 DEF SetEvent, ApiTyped
  <2> QED BY <1>3, <2>1 DEF SetEvent
<1>4. CASE Stop
  <2>1. ApiTyped'
    BY <1>4 DEF Stop, ApiTyped
  <2> QED BY <1>4, <2>1 DEF Stop
<1>5. CASE StopFilters
  <2>1. ApiTyped' /\ MgrTyped'
    BY <1>5 DEF StopFilters, ApiTyped, MgrTyped
  <2>2. OutTyped'
    BY <1>5 DEF StopFilters, OutTyped, Closed, NoFile, Kind
  <2> QED BY <1>5, <2>1, <2>2 DEF StopFilters
<1>6. CASE InitStatus
  <2>1. MgrTyped'
    BY <1>6, CapType, Zeros DEF InitStatus, MgrTyped, DvrStatus
  <2> QED BY <1>6, <2>1 DEF InitStatus
<1>7. CASE LoopTest
  <2>1. MgrTyped'
    BY <1>7 DEF LoopTest, MgrTyped
  <2> QED BY <1>7, <2>1 DEF LoopTest
<1>8. CASE ReadTime
  <2>1. MgrTyped' 
    <3>1. seen + lag \in Nat
      BY CapType DEF MgrTyped
    <3>2. seen' \in 0..Cap /\ lag' \in 0..MaxLag
      BY <1>8, <3>1, CapType, CappedType, Zeros DEF ReadTime
    <3>3. timed' \in BOOLEAN
      BY <1>8 DEF ReadTime, MgrTyped, BufTyped
    <3> QED BY <1>8, <3>2, <3>3 DEF ReadTime, MgrTyped
  <2> QED BY <1>8, <2>1 DEF ReadTime
<1>9. CASE TakeRequests
  <2>1. ApiTyped'
    BY <1>9 DEF TakeRequests, ApiTyped
  <2>2. curStatus' \in DvrStatus
    BY <1>9 DEF TakeRequests, MgrTyped, AfterChange, StartStatus, EventStatus, DvrStatus
  <2>3. ctl' \in Control
    <3> DEFINE asked == ctl.stop \/ m_bChageMode
    <3>1. asked \in BOOLEAN /\ ctl' = [ctl EXCEPT !.stop = asked] /\ ctl \in Control
      BY <1>9 DEF TakeRequests, BufTyped
    <3> HIDE DEF asked
    <3> QED BY <3>1, ControlKept
  <2>4. MgrTyped'
    BY <1>9, <2>2 DEF TakeRequests, MgrTyped
  <2>5. BufTyped'
    BY <1>9, <2>3 DEF TakeRequests, BufTyped
  <2> QED BY <1>9, <2>1, <2>4, <2>5 DEF TakeRequests
<1>10. CASE Exit
  <2>1. MgrTyped'
    BY <1>10 DEF Exit, MgrTyped
  <2>2. ctl' \in Control
    BY <1>10, ControlKept DEF Exit, BufTyped
  <2>3. BufTyped'
    BY <1>10, <2>2 DEF Exit, BufTyped
  <2> QED BY <1>10, <2>1, <2>3 DEF Exit
<1>11. CASE BeginBuffering
  <2>1. BufTyped'
    BY <1>11, Zeros DEF BeginBuffering, BufTyped
  <2> QED BY <1>11, <2>1 DEF BeginBuffering
<1>12. CASE UNCHANGED vars
  BY <1>12 DEF vars
<1> QED BY <1>1, <1>2, <1>3, <1>4, <1>5, <1>6, <1>7, <1>8, <1>9, <1>10, <1>11, <1>12,
           CaseTyped, CallTyped, PushTyped, DeliverTyped DEF Next, Application, ThreadLoop, Buffering

(* Every variable keeps its type, whatever the application does. *)
THEOREM Typing == Spec => []TypeOK
BY InitTyped, StepTyped, PTL DEF Spec
(***************************************************************************)
(* The flags of a key frame open and close files in turn.                  *)
(***************************************************************************)
(* Delivered one after the other, s leads from an open file of kind k to one *)
(* of kind l.                                                                *)
Leads(s, k, l) ==
    /\ Chain(s)
    /\ s = <<>> => l = k
    /\ s # <<>> => KindOf(Last(s)) = l /\ Fits(k, s[1])

LEMMA Joined ==
    ASSUME NEW s \in Seq(FileFlags), NEW t \in Seq(FileFlags), NEW k, NEW l, NEW m,
           Leads(s, k, l), Leads(t, l, m)
    PROVE  Leads(s \o t, k, m)
<1> DEFINE u == s \o t
<1>1. CASE s = <<>>
  BY <1>1 DEF Leads
<1>2. CASE t = <<>>
  BY <1>2 DEF Leads
<1>3. CASE s # <<>> /\ t # <<>>
  <2>1. /\ u \in Seq(FileFlags) /\ Len(u) = Len(s) + Len(t)
        /\ Len(s) \in Nat \ {0} /\ Len(t) \in Nat \ {0}
        /\ \A i \in 1..Len(s) : u[i] = s[i]
        /\ \A i \in (Len(s) + 1)..(Len(s) + Len(t)) : u[i] = t[i - Len(s)]
    BY <1>3
  <2>2. u # <<>> /\ u[1] = s[1] /\ Last(u) = Last(t)
    BY <2>1 DEF Last
  <2>3. Fits(KindOf(Last(s)), t[1])
    BY <1>3 DEF Leads
  <2>4. Chain(u)
    <3> SUFFICES ASSUME NEW i \in 1..(Len(u) - 1) PROVE Fits(KindOf(u[i]), u[i + 1])
      BY DEF Chain
    <3>1. CASE i < Len(s)
      <4>1. u[i] = s[i] /\ u[i + 1] = s[i + 1] /\ i \in 1..(Len(s) - 1)
        BY <2>1, <3>1
      <4> QED BY <4>1 DEF Leads, Chain
    <3>2. CASE i = Len(s)
      <4>1. u[i] = Last(s) /\ u[i + 1] = t[1]
        BY <2>1, <3>2 DEF Last
      <4> QED BY <4>1, <2>3
    <3>3. CASE i > Len(s)
      <4>1. i - Len(s) \in 1..(Len(t) - 1) /\ u[i] = t[i - Len(s)] /\ u[i + 1] = t[(i - Len(s)) + 1]
        BY <2>1, <3>3
      <4> QED BY <4>1 DEF Leads, Chain
    <3> QED BY <2>1, <3>1, <3>2, <3>3
  <2> QED BY <1>3, <2>2, <2>4 DEF Leads
<1> QED BY <1>1, <1>2, <1>3

LEMMA AnswerLeads ==
    ASSUME TypeOK, RequestsFit, flags = <<>>
    PROVE  Leads(FlagsOf(ctl), file.kind, Predicted)
<1> DEFINE k == file.kind
           k1 == IF ctl.stop THEN "NONE" ELSE k
           k2 == IF ctl.start THEN "NORMAL" ELSE k1
           k3 == IF ctl.change THEN "NORMAL" ELSE k2
<1>0. k = Delivered /\ k \in {"NONE", "NORMAL", "EVENT"} /\ ctl \in Control
  BY DEF Delivered, TypeOK, NoFile, Kind
<1>1. Leads(StopFlags(ctl), k, k1)
  BY <1>0 DEF Leads, StopFlags, RequestsFit, Control, Statuses, Chain, Fits, KindOf, Last
<1>2. Leads(StartFlags(ctl), k1, k2)
  BY <1>0 DEF Leads, StartFlags, RequestsFit, Control, Chain, Fits, KindOf, Last
<1>3. Leads(ChangeFlags(ctl), k2, k3)
  <2>1. CASE ~ctl.change
    BY <2>1 DEF Leads, ChangeFlags, Chain
  <2>2. CASE ctl.change
    <3>1. ctl.mode = "BOTH" /\ ctl.mode \in Modes /\ StatusAfterStop(ctl) = k /\ k2 = k /\ k # "NONE"
      BY <1>0, <2>2 DEF RequestsFit, StatusAfterStop, Modes
    <3>2. ChangeFlags(ctl) = IF k = "EVENT" THEN <<"EVENT_STOP", "NORMAL_START">>
                                            ELSE <<"NORMAL_STOP", "NORMAL_START">>
      BY <2>2, <3>1 DEF ChangeFlags
    <3> QED BY <1>0, <2>2, <3>1, <3>2 DEF Leads, Chain, Fits, KindOf, Last
  <2> QED BY <2>1, <2>2
<1>4. Leads(EventFlags(ctl), k3, Predicted)
  <2>1. CASE ~ctl.pop
    BY <1>0, <2>1 DEF Leads, EventFlags, Chain, Predicted
  <2>2. CASE ctl.pop /\ ctl.mode = "BOTH"
    BY <1>0, <2>2 DEF Leads, EventFlags, Chain, Predicted, RequestsFit, Fits, KindOf, Last
  <2>3. CASE ctl.pop /\ ctl.mode = "EVENT_ONLY"
    BY <1>0, <2>3 DEF Leads, EventFlags, Chain, Predicted, RequestsFit, Fits, KindOf, Last
  <2> QED BY <2>1, <2>2, <2>3 DEF RequestsFit
<1> DEFINE s1 == StopFlags(ctl) \o StartFlags(ctl)
           s2 == s1 \o ChangeFlags(ctl)
<1> HIDE DEF k, k1, k2, k3
<1>5. s1 \in Seq(FileFlags) /\ Leads(s1, k, k2)
  BY <1>0, <1>1, <1>2, FlagTypes, Joined
<1> HIDE DEF s1
<1>6. s2 \in Seq(FileFlags) /\ Leads(s2, k, k3)
  BY <1>0, <1>3, <1>5, FlagTypes, Joined
<1> HIDE DEF s2
<1>7. Leads(s2 \o EventFlags(ctl), k, Predicted)
  BY <1>0, <1>4, <1>6, FlagTypes, Joined
<1> QED BY <1>7 DEF FlagsOf, s1, s2, k

LEMMA JoinedNames ==
    ASSUME NEW s \in Seq(FileFlags), NEW t \in Seq(FileFlags), NEW F,
           \A i \in DOMAIN s : s[i] \in F, \A i \in DOMAIN t : t[i] \in F
    PROVE  \A i \in DOMAIN (s \o t) : (s \o t)[i] \in F
<1> DEFINE u == s \o t
<1>1. /\ DOMAIN u = 1..(Len(s) + Len(t))
      /\ DOMAIN s = 1..Len(s) /\ DOMAIN t = 1..Len(t)
      /\ \A i \in 1..Len(s) : u[i] = s[i]
      /\ \A i \in (Len(s) + 1)..(Len(s) + Len(t)) : u[i] = t[i - Len(s)]
  OBVIOUS
<1> SUFFICES ASSUME NEW i \in DOMAIN u PROVE u[i] \in F
  OBVIOUS
<1>2. CASE i <= Len(s)
  BY <1>1, <1>2
<1>3. CASE i > Len(s)
  <2>1. i - Len(s) \in 1..Len(t) /\ u[i] = t[i - Len(s)]
    BY <1>1, <1>3
  <2> QED BY <1>1, <2>1
<1> QED BY <1>1, <1>2, <1>3

(* Which flags a key frame can send. *)
LEMMA AnswerNames ==
    ASSUME NEW c \in Control, NEW F,
           c.stop \/ c.change \/ c.pop => Stops \subseteq F,
           c.start \/ c.change => "NORMAL_START" \in F,
           c.pop => "EVENT_START" \in F
    PROVE  \A i \in DOMAIN FlagsOf(c) : FlagsOf(c)[i] \in F
<1>1. \A i \in DOMAIN StopFlags(c) : StopFlags(c)[i] \in F
  BY DEF StopFlags, Stops
<1>2. \A i \in DOMAIN StartFlags(c) : StartFlags(c)[i] \in F
  BY DEF StartFlags
<1>3. \A i \in DOMAIN ChangeFlags(c) : ChangeFlags(c)[i] \in F
  BY DEF ChangeFlags, Stops
<1>4. \A i \in DOMAIN EventFlags(c) : EventFlags(c)[i] \in F
  BY DEF EventFlags, Stops
<1> DEFINE s1 == StopFlags(c) \o StartFlags(c)
           s2 == s1 \o ChangeFlags(c)
<1>5. s1 \in Seq(FileFlags) /\ \A i \in DOMAIN s1 : s1[i] \in F
  BY <1>1, <1>2, FlagTypes, JoinedNames
<1> HIDE DEF s1
<1>6. s2 \in Seq(FileFlags) /\ \A i \in DOMAIN s2 : s2[i] \in F
  BY <1>3, <1>5, FlagTypes, JoinedNames
<1> HIDE DEF s2
<1>7. \A i \in DOMAIN (s2 \o EventFlags(c)) : (s2 \o EventFlags(c))[i] \in F
  BY <1>4, <1>6, FlagTypes, JoinedNames
<1> QED BY <1>7 DEF FlagsOf, s1, s2
(***************************************************************************)
(* The invariant, step by step.                                            *)
(***************************************************************************)
LEMMA InitInv == Init => Inv
<1> SUFFICES ASSUME Init PROVE Inv
  OBVIOUS
<1>1. /\ ~ctl.start /\ ~ctl.stop /\ ~ctl.change /\ ~ctl.pop /\ ctl.status = "NORMAL"
      /\ flags = <<>> /\ Len(flags) = 0 /\ DOMAIN flags = {} /\ file = NoFile
      /\ Delivered = "NONE"
  <2>1. ctl \in ControlInit /\ flags = <<>> /\ file = NoFile
    BY DEF Init
  <2>2. ~ctl.start /\ ~ctl.stop /\ ~ctl.change /\ ~ctl.pop /\ ctl.status = "NORMAL"
    BY <2>1 DEF ControlInit
  <2> QED BY <2>1, <2>2 DEF Delivered, NoFile
<1>2. WriterFits
  BY <1>1 DEF Init, WriterFits, Chain
<1>3. RequestsFit
  BY <1>1 DEF RequestsFit
<1>4. NothingYet
  BY <1>1 DEF NothingYet, OnlyStop, Predicted
<1>5. Places
  BY <1>1 DEF Init, Places, Quiet, Pending
<1>6. Believed
  BY <1>1, <1>4 DEF Init, Believed, Running
<1>7. InTime
  BY DEF Init, InTime, Running
<1>8. Named
  BY <1>1 DEF Init, Named, EventStatuses
<1> QED BY <1>2, <1>3, <1>5, <1>6, <1>7, <1>8, InitTyped DEF Inv

(* What is not touched by a step that leaves the requests and the file alone. *)
LEMMA SameFile ==
    ASSUME UNCHANGED <<ctl, flags, file, leaked, m_WritingMode>>
    PROVE  /\ WriterFits => WriterFits'
           /\ RequestsFit => RequestsFit'
           /\ Delivered' = Delivered /\ Predicted' = Predicted
           /\ Pending' = Pending /\ Quiet' = Quiet /\ NothingYet' = NothingYet
BY DEF WriterFits, RequestsFit, Delivered, Predicted, Pending, Quiet, NothingYet, OnlyStop

LEMMA StartInv == ASSUME Inv, NEW type \in EncodeType, Start(type) PROVE Inv'
<1> USE DEF Start, outVars
<1>1. TypeOK' /\ WriterFits' /\ RequestsFit'
  BY StepTyped, SameFile DEF Inv, Next, Application
<1>2. Places'
  BY SameFile DEF Inv, Places, Believed
<1>3. Believed'
  BY SameFile DEF Inv, Believed, Running, Places
<1>4. InTime'
  BY DEF InTime, Running
<1>5. Named'
  BY SameFile DEF Inv, Named
<1> QED BY <1>1, <1>2, <1>3, <1>4, <1>5 DEF Inv

LEMMA SetEventInv == ASSUME Inv, SetEvent PROVE Inv'
<1> USE DEF SetEvent, outVars, mgrVars, bufVars
<1>1. TypeOK' /\ WriterFits' /\ RequestsFit'
  BY StepTyped, SameFile DEF Inv, Next, Application
<1>2. Places'
  BY SameFile DEF Inv, Places, Settled
<1>3. Believed'
  BY SameFile DEF Inv, Believed, AllAsked, StillAsking
<1>4. InTime'
  BY SameFile DEF Inv, InTime, Waited
<1>5. Named'
  BY SameFile DEF Inv, Named, Settled, Quiet
<1> QED BY <1>1, <1>2, <1>3, <1>4, <1>5 DEF Inv

LEMMA ChangeModeInv ==
    ASSUME Inv, PacedModes, NEW type \in EncodeType, ChangeMode(type) PROVE Inv'
<1> USE DEF ChangeMode, outVars, mgrVars, bufVars
<1>1. TypeOK' /\ WriterFits' /\ RequestsFit'
  BY StepTyped, SameFile DEF Inv, Next, Application
<1>2. Places'
  BY SameFile DEF Inv, Places, Settled, Quiet
<1>3. Believed'
  BY SameFile DEF Inv, Believed, AllAsked, StillAsking
<1>4. InTime'
  BY SameFile DEF Inv, InTime, Waited
<1>5. Named'
  BY SameFile DEF Inv, Named
<1> QED BY <1>1, <1>2, <1>3, <1>4, <1>5 DEF Inv

LEMMA StopInv == ASSUME Inv, PacedModes, Stop PROVE Inv'
<1> USE DEF Stop, outVars, mgrVars, bufVars
<1>1. TypeOK' /\ WriterFits' /\ RequestsFit'
  BY StepTyped, SameFile DEF Inv, Next, Application
<1>2. Places'
  BY SameFile DEF Inv, Places, Settled, Quiet
<1>3. Believed'
  BY SameFile DEF Inv, Believed, AllAsked, StillAsking
<1>4. InTime'
  BY SameFile DEF Inv, InTime, Waited
<1>5. Named'
  BY SameFile DEF Inv, Named
<1> QED BY <1>1, <1>2, <1>3, <1>4, <1>5 DEF Inv

LEMMA StopFiltersInv == ASSUME Inv, StopFilters PROVE Inv'
<1> USE DEF StopFilters, Closed, bufVars
<1>1. TypeOK'
  BY StepTyped DEF Inv, Next
<1>2. /\ flags = <<>> /\ flags' = <<>> /\ file' = NoFile /\ file'.kind = "NONE" /\ ctl' = ctl
      /\ Delivered' = "NONE" /\ OnlyStop /\ OnlyStop' /\ DOMAIN flags' = {} /\ Len(flags') = 0
  BY DEF NoFile, Delivered, OnlyStop, Inv, Believed, NothingYet
<1>3. ctl.status = "NORMAL" \/ ctl.stop
  BY <1>2 DEF Inv, Believed, NothingYet, Predicted, OnlyStop, RequestsFit
<1>4. WriterFits'
  BY <1>2 DEF Inv, WriterFits, Chain
<1>5. RequestsFit' /\ NothingYet'
  BY <1>2, <1>3 DEF RequestsFit, OnlyStop, NothingYet, Predicted
<1>6. Places'
  BY <1>2 DEF Inv, Places, Believed
<1>7. Believed' /\ InTime'
  BY <1>2, <1>5 DEF Inv, Believed, InTime, Running, Places
<1>8. Named'
  BY <1>2 DEF Inv, Named, Quiet, Pending
<1> QED BY <1>1, <1>4, <1>5, <1>6, <1>7, <1>8 DEF Inv

LEMMA InitStatusInv == ASSUME Inv, InitStatus PROVE Inv'
<1> USE DEF InitStatus, outVars, apiVars, bufVars
<1>1. TypeOK' /\ WriterFits' /\ RequestsFit'
  BY StepTyped, SameFile DEF Inv, Next, ThreadLoop
<1>2. Places'
  BY SameFile DEF Inv, Places, StartStatuses
<1>3. Believed'
  BY SameFile DEF Inv, Believed, Running, Places, AllAsked, StartStatuses
<1>4. InTime'
  BY DEF InTime, Timed
<1>5. Named'
  BY SameFile DEF Inv, Named, EventStatuses
<1> QED BY <1>1, <1>2, <1>3, <1>4, <1>5 DEF Inv

LEMMA LoopTestInv == ASSUME Inv, LoopTest PROVE Inv'
<1> USE DEF LoopTest, outVars, apiVars, bufVars
<1>1. TypeOK' /\ WriterFits' /\ RequestsFit'
  BY StepTyped, SameFile DEF Inv, Next, ThreadLoop
<1>2. Places'
  BY SameFile DEF Inv, Places
<1>3. Believed'
  BY SameFile DEF Inv, Believed, Running, Places, AllAsked
<1>4. InTime'
  BY SameFile DEF Inv, InTime, Running, Waited
<1>5. Named'
  BY SameFile DEF Inv, Named, Places
<1> QED BY <1>1, <1>2, <1>3, <1>4, <1>5 DEF Inv

LEMMA ReadTimeInv == ASSUME Inv, ReadTime PROVE Inv'
<1> USE DEF ReadTime, outVars, apiVars, bufVars
<1>1. TypeOK' /\ WriterFits' /\ RequestsFit'
  BY StepTyped, SameFile DEF Inv, Next, ThreadLoop
<1>2. Places'
  BY SameFile DEF Inv, Places
<1>3. Believed'
  BY SameFile DEF Inv, Believed, Running, Places, AllAsked
<1>4. InTime'
  <2>1. seen + lag \in Nat /\ lag \in Nat /\ seen \in Nat
    BY CapType DEF Inv, TypeOK
  <2>2. seen' \in Nat /\ seen' <= seen + lag /\ lag' = 0
    BY <2>1, CapType, CappedType
  <2>3. Waited' = Waited /\ Waited \in Int
    BY DEF Waited, Inv, TypeOK
  <2>4. mpc \in Running /\ mpc' # "calls" /\ UNCHANGED <<fresh, curStatus, flags>> /\ Pending' = Pending
    BY SameFile DEF Running
  <2> HIDE DEF ReadTime, outVars, apiVars, bufVars
  <2>a. seen' + lag' \in Nat /\ seen' + lag' <= seen + lag
    <3>1. seen' + lag' = seen'
      BY <2>2, PlusZero, Zenon
    <3> QED BY <2>2, <3>1
  <2>b. \A m \in Int : seen + lag <= m => seen' + lag' <= m
    BY <2>1, <2>a
  <2>5. /\ ~fresh => lag = 0 /\ (curStatus \in Timed => seen = 0)
        /\ curStatus \in Timed /\ Pending => seen + lag <= MaxLag + Waited
        /\ curStatus \in Timed /\ flags # <<>> => seen + lag <= MaxLag + Gap + MaxGop
    BY <2>4 DEF Inv, InTime
  <2>6. ~fresh => lag' = 0 /\ (curStatus \in Timed => seen' = 0)
    BY <2>1, <2>2, <2>5
  <2>7. curStatus \in Timed /\ Pending => seen' + lag' <= MaxLag + Waited
    BY <2>b, <2>3, <2>5
  <2>8. curStatus \in Timed /\ flags # <<>> => seen' + lag' <= MaxLag + Gap + MaxGop
    BY <2>b, <2>5
  <2> QED BY <2>3, <2>4, <2>6, <2>7, <2>8 DEF InTime
<1>5. Named'
  BY SameFile DEF Inv, Named, Places
<1> QED BY <1>1, <1>2, <1>3, <1>4, <1>5 DEF Inv
(* A request sets one field. *)
LEMMA Fields ==
    ASSUME ctl \in Control, NEW b
    PROVE  /\ LET c == [ctl EXCEPT !.stop = b] IN
                /\ c.mode = ctl.mode /\ c.status = ctl.status /\ c.start = ctl.start
                /\ c.stop = b /\ c.change = ctl.change /\ c.pop = ctl.pop
           /\ LET c == [ctl EXCEPT !.start = b] IN
                /\ c.mode = ctl.mode /\ c.status = ctl.status /\ c.start = b
                /\ c.stop = ctl.stop /\ c.change = ctl.change /\ c.pop = ctl.pop
           /\ LET c == [ctl EXCEPT !.change = b] IN
                /\ c.mode = ctl.mode /\ c.status = ctl.status /\ c.start = ctl.start
                /\ c.stop = ctl.stop /\ c.change = b /\ c.pop = ctl.pop
           /\ LET c == [ctl EXCEPT !.pop = b] IN
                /\ c.mode = ctl.mode /\ c.status = ctl.status /\ c.start = ctl.start
                /\ c.stop = ctl.stop /\ c.change = ctl.change /\ c.pop = b
           /\ LET c == [ctl EXCEPT !.mode = b] IN
                /\ c.mode = b /\ c.status = ctl.status /\ c.start = ctl.start
                /\ c.stop = ctl.stop /\ c.change = ctl.change /\ c.pop = ctl.pop
BY DEF Control

(* The flags and the file stay when only the requests change. *)
LEMMA SameWriter ==
    ASSUME UNCHANGED <<flags, file, leaked, m_WritingMode>>
    PROVE  (WriterFits => WriterFits') /\ Delivered' = Delivered
BY DEF WriterFits, Delivered

LEMMA TakeRequestsInv == ASSUME Inv, TakeRequests PROVE Inv'
<1> USE DEF TakeRequests, outVars
<1>1. TypeOK'
  BY StepTyped DEF Inv, Next, ThreadLoop
<1>2. /\ ctl'.mode = ctl.mode /\ ctl'.status = ctl.status /\ ctl'.start = ctl.start
      /\ ctl'.stop = (ctl.stop \/ m_bChageMode) /\ ctl'.change = ctl.change /\ ctl'.pop = ctl.pop
  BY Fields DEF Inv, TypeOK
<1>3. WriterFits' /\ Delivered' = Delivered /\ flags = <<>> /\ flags' = <<>> /\ DOMAIN flags' = {}
  BY SameWriter DEF Inv, BufferedLockFree
<1>4. /\ calls = <<>> /\ calls' = <<>> /\ AllAsked /\ api = "idle" /\ m_bRun /\ ~m_bThreadExit
      /\ curStatus \in WaitStatus \cup StartStatuses
  BY DEF Inv, Places, Believed, Running, TypeOK
<1>5. CASE m_bChageMode
  <2>1. Quiet /\ curStatus' \in StartStatuses /\ (paced => ~m_bEvent)
    BY <1>5 DEF Inv, Places, AfterChange, StartStatus, EventStatus, StartStatuses
  <2>2. /\ ~ctl'.start /\ ~ctl'.change /\ ~ctl'.pop /\ ctl'.stop
    BY <1>2, <1>5, <2>1 DEF Quiet, Pending
  <2>3. RequestsFit' /\ NothingYet'
    BY <1>2, <1>3, <2>2 DEF Inv, RequestsFit, NothingYet, OnlyStop, Predicted
  <2>4. Places'
    BY <1>3, <1>4, <2>1 DEF Inv, Places
  <2>5. Believed'
    <3>1. AllAsked'
      BY <2>1, <2>3 DEF AllAsked, StartStatuses
    <3> QED BY <1>4, <3>1 DEF Believed
  <2>6. InTime'
    BY <2>1, <1>4 DEF Inv, InTime, Timed, StartStatuses, Running
  <2>7. Named'
    BY <1>2, <1>3, <1>4, <2>1, <2>2 DEF Inv, Named, StartStatuses, EventStatuses
  <2> QED BY <1>1, <1>3, <2>3, <2>4, <2>5, <2>6, <2>7 DEF Inv
<1>6. CASE ~m_bChageMode
  <2>1. curStatus' = IF m_bEvent THEN EventStatus(curStatus) ELSE curStatus
    BY <1>6 DEF AfterChange
  <2>2. Pending' = Pending /\ (Quiet' = Quiet) /\ Predicted' = Predicted /\ NothingYet' = NothingYet
    BY <1>2, <1>3, <1>6 DEF Pending, Quiet, Predicted, NothingYet, OnlyStop
  <2>3. RequestsFit'
    BY <1>2, <1>3, <1>6 DEF Inv, RequestsFit
  <2>4. Places'
    BY <1>3, <1>4 DEF Inv, Places
  <2>5. Believed'
    <3>1. CASE curStatus' = curStatus
      BY <1>2, <1>4, <2>2, <3>1 DEF Believed, AllAsked
    <3>2. CASE curStatus = "NORMAL_WAIT" /\ curStatus' = "NORMAL_EVENT"
      BY <1>2, <1>4, <2>2, <3>2 DEF Believed, AllAsked, StartStatuses
    <3>3. CASE curStatus = "MOTION_WAIT" /\ curStatus' = "MOTION_EVENT"
      BY <1>2, <1>4, <2>2, <3>3 DEF Believed, AllAsked, StartStatuses
    <3> QED BY <2>1, <3>1, <3>2, <3>3 DEF EventStatus
  <2>6. curStatus' \in Timed => curStatus' = curStatus
    BY <2>1 DEF EventStatus, Timed
  <2>7. InTime'
    BY <1>3, <1>4, <2>2, <2>6 DEF Inv, InTime, Running, Waited
  <2>8. curStatus' \in EventStatuses => m_bEvent
    BY <1>4, <2>1 DEF WaitStatus, StartStatuses, EventStatuses
  <2>9. Named'
    BY <1>2, <1>3, <1>4, <2>2, <2>8 DEF Inv, Named
  <2> QED BY <1>1, <1>3, <2>3, <2>4, <2>5, <2>7, <2>9 DEF Inv
<1> QED BY <1>5, <1>6

LEMMA WaitedBounds == TypeOK => Waited \in Nat /\ Waited <= Gap + MaxGop - 1
BY DEF Waited, TypeOK

(* With slow timers nothing is outstanding when one expires. *)
LEMMA Expiry ==
    ASSUME Inv, SlowTimers, mpc \in Running, curStatus \in Timed,
           Expired(NormalDuration) \/ Expired(EventDuration)
    PROVE  Quiet
<1>1. seen \in Nat /\ lag \in Nat /\ Waited \in Nat /\ Waited <= Gap + MaxGop - 1
  BY WaitedBounds, CapType DEF Inv, TypeOK
<1>2. seen > Gap + MaxGop + MaxLag
  BY <1>1 DEF Expired, SlowTimers
<1>3. ~(seen + lag <= MaxLag + Waited) /\ ~(seen + lag <= MaxLag + Gap + MaxGop)
  BY <1>1, <1>2
<1> QED BY <1>3 DEF Inv, InTime, Quiet

LEMMA CaseInv == ASSUME Inv, SlowTimers, Case PROVE Inv'
<1>0. UNCHANGED <<apiVars, timed, lag, bufVars, outVars>> /\ mpc = "case" /\ mpc' = "calls"
  BY DEF Case
<1>1. TypeOK' /\ WriterFits' /\ RequestsFit'
  BY <1>0, StepTyped, SameFile DEF Inv, Next, ThreadLoop, bufVars, outVars
<1>2. /\ Delivered' = Delivered /\ Predicted' = Predicted
      /\ Pending' = Pending /\ Quiet' = Quiet /\ NothingYet' = NothingYet
      /\ ctl' = ctl /\ flags' = flags /\ paced' = paced /\ fresh' = fresh /\ lag' = lag
      /\ Waited' = Waited
  BY <1>0, SameFile DEF bufVars, outVars, apiVars, Waited
<1>3. calls = <<>> /\ AllAsked /\ api = "idle" /\ m_bRun /\ ~m_bThreadExit /\ ~m_bChageMode
      /\ (paced => ~m_bEvent) /\ curStatus \in DvrStatus
  BY <1>0 DEF Inv, Places, Believed, Running, TypeOK, Named
<1>4. \/ curStatus = "NORMAL_START" /\ CaseStep(StartNormalWriting, "NORMAL_WAIT", 0)
      \/ curStatus = "NORMAL_WAIT" /\ Quiet /\ CaseStep(ChangeNormalWriting, "NORMAL_WAIT", 0)
      \/ curStatus = "NORMAL_EVENT" /\ CaseStep(ChangeEventWriting, "NORMAL_EVENT_WAIT", 0)
      \/ curStatus = "NORMAL_EVENT_WAIT" /\ Quiet /\ CaseStep(ChangeNormalWriting, "NORMAL_WAIT", 0)
      \/ curStatus = "MOTION_START" /\ CaseStep(StartMotionWriting, "MOTION_WAIT", Cap)
      \/ curStatus = "MOTION_EVENT" /\ CaseStep(ChangeEventWriting, "MOTION_EVENT_WAIT", 0)
      \/ curStatus = "MOTION_EVENT_WAIT" /\ Quiet /\ CaseStep(StopWriting, "MOTION_WAIT", 0)
      \/ curStatus \in WaitStatus /\ CaseStep(<<>>, curStatus, seen)
  BY <1>0, <1>3, Expiry DEF Case, Running, Timed, DvrStatus, WaitStatus
<1>5. curStatus' \in WaitStatus
  BY <1>4 DEF CaseStep, WaitStatus
<1>6. Places'
  BY <1>0, <1>2, <1>3, <1>5 DEF Inv, Places, apiVars
<1>7. calls' = <<>> => AllAsked'
  <2>1. CASE curStatus \in WaitStatus /\ CaseStep(<<>>, curStatus, seen)
    BY <1>2, <1>3, <2>1 DEF AllAsked, CaseStep
  <2>2. CASE ~(curStatus \in WaitStatus /\ CaseStep(<<>>, curStatus, seen))
    BY <1>4, <2>2 DEF CaseStep, StartNormalWriting, ChangeNormalWriting, ChangeEventWriting,
       StartMotionWriting, StopWriting
  <2> QED BY <2>1, <2>2
<1>8. calls' # <<>> => StillAsking'
  <2>1. CASE curStatus = "NORMAL_START" /\ CaseStep(StartNormalWriting, "NORMAL_WAIT", 0)
    BY <1>2, <1>3, <2>1 DEF AllAsked, StillAsking, CaseStep, StartStatuses, StartNormalWriting
  <2>2. CASE curStatus = "NORMAL_WAIT" /\ Quiet /\ CaseStep(ChangeNormalWriting, "NORMAL_WAIT", 0)
    BY <1>2, <1>3, <2>2 DEF AllAsked, StillAsking, CaseStep, StartStatuses, ChangeNormalWriting
  <2>3. CASE curStatus = "NORMAL_EVENT" /\ CaseStep(ChangeEventWriting, "NORMAL_EVENT_WAIT", 0)
    BY <1>2, <1>3, <2>3 DEF AllAsked, StillAsking, CaseStep, StartStatuses, ChangeEventWriting,
       Inv, Named, EventStatuses
  <2>4. CASE curStatus = "NORMAL_EVENT_WAIT" /\ Quiet /\ CaseStep(ChangeNormalWriting, "NORMAL_WAIT", 0)
    BY <1>2, <1>3, <2>4 DEF AllAsked, StillAsking, CaseStep, StartStatuses, ChangeNormalWriting
  <2>5. CASE curStatus = "MOTION_START" /\ CaseStep(StartMotionWriting, "MOTION_WAIT", Cap)
    BY <1>2, <1>3, <2>5 DEF AllAsked, StillAsking, CaseStep, StartStatuses, StartMotionWriting
  <2>6. CASE curStatus = "MOTION_EVENT" /\ CaseStep(ChangeEventWriting, "MOTION_EVENT_WAIT", 0)
    BY <1>2, <1>3, <2>6 DEF AllAsked, StillAsking, CaseStep, StartStatuses, ChangeEventWriting,
       Inv, Named, EventStatuses
  <2>7. CASE curStatus = "MOTION_EVENT_WAIT" /\ Quiet /\ CaseStep(StopWriting, "MOTION_WAIT", 0)
    BY <1>2, <1>3, <2>7 DEF AllAsked, StillAsking, CaseStep, StartStatuses, StopWriting
  <2>8. CASE curStatus \in WaitStatus /\ CaseStep(<<>>, curStatus, seen)
    BY <2>8 DEF CaseStep
  <2> QED BY <1>4, <2>1, <2>2, <2>3, <2>4, <2>5, <2>6, <2>7, <2>8
<1>9. Believed'
  BY <1>0, <1>7, <1>8 DEF Believed
<1>10. InTime'
  <2>1. curStatus' \in Timed => seen' = 0 \/ (calls' = <<>> /\ curStatus' = curStatus /\ seen' = seen)
    BY <1>4 DEF CaseStep, Timed
  <2>2. lag \in Nat /\ lag <= MaxLag /\ Waited \in Nat /\ lag' \in Nat
    BY <1>2, WaitedBounds DEF Inv, TypeOK
  <2>3. ASSUME curStatus' \in Timed, seen' = 0 PROVE InTime'
    <3>1. seen' + lag' = lag
      BY <1>2, <2>2, <2>3
    <3>2. seen' + lag' <= MaxLag + Waited /\ seen' + lag' <= MaxLag + Gap + MaxGop
      BY <2>2, <3>1
    <3> QED BY <1>0, <1>2, <2>3, <3>2 DEF Inv, InTime, Running
  <2>4. CASE curStatus' \in Timed /\ calls' = <<>> /\ curStatus' = curStatus /\ seen' = seen
    BY <1>0, <1>2, <2>4 DEF Inv, InTime, Running
  <2>5. CASE curStatus' \notin Timed
    BY <1>0, <1>2, <2>5 DEF Inv, InTime, Running
  <2> QED BY <2>1, <2>3, <2>4, <2>5
<1>11. Named'
  <2>1. calls' \notin {<<"start">>, <<"change">>, <<"pop">>}
    BY <1>4 DEF CaseStep, StartNormalWriting, ChangeNormalWriting, ChangeEventWriting,
       StartMotionWriting, StopWriting
  <2>2. UNCHANGED <<file, nameCallback, m_bEvent>> /\ curStatus' \notin EventStatuses
    BY <1>0, <1>5 DEF outVars, apiVars, EventStatuses, WaitStatus
  <2> QED BY <1>2, <1>3, <2>1, <2>2 DEF Inv, Named
<1> QED BY <1>1, <1>6, <1>9, <1>10, <1>11 DEF Inv
(* A call that names a callback leaves the requests alone; it is made when no *)
(* file is going to be opened.                                                *)
LEMMA CallInv == ASSUME Inv, Call PROVE Inv'
<1>0. /\ mpc = "calls" /\ mpc' \in {"calls", "loop"}
      /\ UNCHANGED <<apiVars, curStatus, timed, seen, lag, stamped, fresh, unit, gop, flags,
                     m_WritingMode, file, leaked, notes>>
  BY DEF Call
<1>1. TypeOK' /\ WriterFits' /\ Delivered' = Delivered /\ Waited' = Waited
  BY <1>0, StepTyped, SameWriter DEF Inv, Next, ThreadLoop, Waited
<1>2. /\ curStatus \in WaitStatus /\ ~m_bChageMode /\ api = "idle" /\ (paced => ~m_bEvent)
      /\ curStatus \notin EventStatuses /\ curStatus \notin StartStatuses
  <2>1. curStatus \in WaitStatus /\ ~m_bChageMode /\ api = "idle"
    BY <1>0 DEF Inv, Places, TypeOK
  <2>2. paced => ~m_bEvent
    BY <1>0 DEF Inv, Named
  <2> QED BY <2>1, <2>2 DEF WaitStatus, EventStatuses, StartStatuses
<1>3. calls' # <<>> => mpc' = "calls"
  BY DEF Call
<1>4. Places'
  BY <1>0, <1>2, <1>3 DEF Inv, Places, apiVars
<1>5. CASE calls = <<>>
  <2>1. calls' = <<>> /\ ctl' = ctl /\ nameCallback' = nameCallback /\ mpc' = "loop"
    BY <1>5 DEF Call
  <2>2. /\ RequestsFit' /\ Predicted' = Predicted
        /\ Pending' = Pending /\ Quiet' = Quiet /\ NothingYet' = NothingYet
    BY <1>0, <2>1, SameFile DEF Inv
  <2>3. Believed'
    BY <1>0, <1>5, <2>1, <2>2 DEF Inv, Believed, Running, AllAsked
  <2>4. InTime'
    BY <1>0, <1>1, <1>5, <2>1, <2>2 DEF Inv, InTime, Running
  <2>5. Named'
    BY <1>0, <1>2, <2>1, <2>2 DEF Inv, Named, apiVars
  <2> QED BY <1>1, <1>4, <2>2, <2>3, <2>4, <2>5 DEF Inv
<1>6. CASE calls # <<>>
  <2> DEFINE call == Head(calls)
  <2>1. /\ ctl' = Apply(call) /\ nameCallback' = NameAfter(call) /\ calls' = Tail(calls)
        /\ mpc' = "calls" /\ (call \in {"nameNormal", "nameEvent"} \/ flags = <<>>)
    BY <1>0, <1>6 DEF Call, BufferedLockFree
  <2>2. StillAsking /\ ctl \in Control /\ (curStatus \in Timed => seen = 0)
    BY <1>0, <1>6 DEF Inv, Believed, TypeOK, InTime, Running
  <2>a. \/ /\ call = "BOTH" /\ calls' = <<"nameNormal", "start">> /\ NothingYet
           /\ curStatus = "NORMAL_WAIT"
        \/ /\ call = "nameNormal" /\ calls' = <<"start">> /\ NothingYet
           /\ curStatus = "NORMAL_WAIT" /\ ctl.mode = "BOTH"
        \/ /\ call = "start" /\ calls' = <<>> /\ NothingYet /\ calls = <<"start">>
           /\ curStatus = "NORMAL_WAIT" /\ ctl.mode = "BOTH"
        \/ /\ call = "EVENT_ONLY" /\ calls' = <<"nameEvent">> /\ NothingYet
           /\ curStatus = "MOTION_WAIT"
        \/ /\ call = "nameEvent" /\ calls' = <<>> /\ NothingYet
           /\ curStatus = "MOTION_WAIT" /\ ctl.mode = "EVENT_ONLY"
        \/ /\ call = "nameNormal" /\ calls' = <<"change">> /\ Quiet
           /\ curStatus = "NORMAL_WAIT" /\ ctl.mode = "BOTH" /\ Predicted # "NONE"
        \/ /\ call = "change" /\ calls' = <<>> /\ Quiet /\ calls = <<"change">>
           /\ curStatus = "NORMAL_WAIT" /\ ctl.mode = "BOTH" /\ Predicted # "NONE"
        \/ /\ call = "stop" /\ calls' = <<>> /\ Quiet
           /\ curStatus = "MOTION_WAIT" /\ ctl.mode = "EVENT_ONLY" /\ Predicted = "EVENT"
        \/ /\ \/ call = "nameEvent" /\ calls' = <<"pop">>
              \/ call = "pop" /\ calls' = <<>> /\ calls = <<"pop">>
           /\ (paced => Quiet)
           /\ \/ curStatus = "NORMAL_EVENT_WAIT" /\ Predicted = "NORMAL" /\ ctl.mode = "BOTH"
              \/ curStatus = "MOTION_EVENT_WAIT" /\ Predicted = "NONE" /\ ctl.mode = "EVENT_ONLY"
    <3>1. /\ \A x, y, z : Head(<<x, y, z>>) = x /\ Tail(<<x, y, z>>) = <<y, z>>
          /\ \A x, y : Head(<<x, y>>) = x /\ Tail(<<x, y>>) = <<y>>
          /\ \A x : Head(<<x>>) = x /\ Tail(<<x>>) = <<>>
      OBVIOUS
    <3> DEFINE first == Head(calls)
               rest == Tail(calls)
    <3>2. CASE calls = <<"BOTH", "nameNormal", "start">>
      <4>1. first = "BOTH" /\ rest = <<"nameNormal", "start">>
        BY <3>1, <3>2
      <4>2. NothingYet /\ curStatus = "NORMAL_WAIT"
        BY <2>2, <3>2 DEF StillAsking
      <4> QED BY <2>1, <4>1, <4>2
    <3>3. CASE calls = <<"nameNormal", "start">>
      <4>1. first = "nameNormal" /\ rest = <<"start">>
        BY <3>1, <3>3
      <4>2. NothingYet /\ curStatus = "NORMAL_WAIT" /\ ctl.mode = "BOTH"
        BY <2>2, <3>3 DEF StillAsking
      <4> QED BY <2>1, <4>1, <4>2
    <3>4. CASE calls = <<"start">>
      <4>1. first = "start" /\ rest = <<>>
        BY <3>1, <3>4
      <4>2. NothingYet /\ curStatus = "NORMAL_WAIT" /\ ctl.mode = "BOTH"
        BY <2>2, <3>4 DEF StillAsking
      <4> QED BY <2>1, <3>4, <4>1, <4>2
    <3>5. CASE calls = <<"EVENT_ONLY", "nameEvent">>
      <4>1. first = "EVENT_ONLY" /\ rest = <<"nameEvent">>
        BY <3>1, <3>5
      <4>2. NothingYet /\ curStatus = "MOTION_WAIT"
        BY <2>2, <3>5 DEF StillAsking
      <4> QED BY <2>1, <4>1, <4>2
    <3>6. CASE calls = <<"nameEvent">>
      <4>1. first = "nameEvent" /\ rest = <<>>
        BY <3>1, <3>6
      <4>2. NothingYet /\ curStatus = "MOTION_WAIT" /\ ctl.mode = "EVENT_ONLY"
        BY <2>2, <3>6 DEF StillAsking
      <4> QED BY <2>1, <4>1, <4>2
    <3>7. CASE calls = <<"nameNormal", "change">>
      <4>1. first = "nameNormal" /\ rest = <<"change">>
        BY <3>1, <3>7
      <4>2. Quiet /\ curStatus = "NORMAL_WAIT" /\ ctl.mode = "BOTH" /\ Predicted # "NONE"
        BY <2>2, <3>7 DEF StillAsking
      <4> QED BY <2>1, <4>1, <4>2
    <3>8. CASE calls = <<"change">>
      <4>1. first = "change" /\ rest = <<>>
        BY <3>1, <3>8
      <4>2. Quiet /\ curStatus = "NORMAL_WAIT" /\ ctl.mode = "BOTH" /\ Predicted # "NONE"
        BY <2>2, <3>8 DEF StillAsking
      <4> QED BY <2>1, <3>8, <4>1, <4>2
    <3>9. CASE calls = <<"stop">>
      <4>1. first = "stop" /\ rest = <<>>
        BY <3>1, <3>9
      <4>2. Quiet /\ curStatus = "MOTION_WAIT" /\ ctl.mode = "EVENT_ONLY" /\ Predicted = "EVENT"
        BY <2>2, <3>9 DEF StillAsking
      <4> QED BY <2>1, <4>1, <4>2
    <3>10. CASE calls \in {<<"nameEvent", "pop">>, <<"pop">>}
      <4>1. \/ first = "nameEvent" /\ rest = <<"pop">>
            \/ first = "pop" /\ rest = <<>> /\ calls = <<"pop">>
        BY <3>1, <3>10
      <4>2. /\ paced => Quiet
            /\ \/ curStatus = "NORMAL_EVENT_WAIT" /\ Predicted = "NORMAL" /\ ctl.mode = "BOTH"
               \/ curStatus = "MOTION_EVENT_WAIT" /\ Predicted = "NONE" /\ ctl.mode = "EVENT_ONLY"
        BY <2>2, <3>10 DEF StillAsking
      <4> QED BY <2>1, <4>1, <4>2
    <3> QED BY <2>2, <3>2, <3>3, <3>4, <3>5, <3>6, <3>7, <3>8, <3>9, <3>10 DEF StillAsking
  <2> HIDE DEF call
  <2>3. InTime'
    <3>1. lag \in Nat /\ lag <= MaxLag /\ Waited \in Nat /\ lag' = lag /\ seen' = seen
      BY <1>0, WaitedBounds DEF Inv, TypeOK
    <3>2. curStatus \in Timed => seen + lag = lag
      BY <2>2, <3>1
    <3>3. curStatus \in Timed => seen + lag <= MaxLag + Waited /\ seen + lag <= MaxLag + Gap + MaxGop
      BY <3>1, <3>2
    <3> QED BY <1>0, <1>1, <2>1, <2>2, <3>3 DEF Inv, InTime, Running
  <2>4. ASSUME calls' # <<>>, StillAsking' PROVE Believed'
    BY <2>1, <2>4 DEF Believed
  <2>5. ASSUME calls' = <<>>, AllAsked' PROVE Believed'
    BY <2>1, <2>5 DEF Believed
  <2>6. ASSUME RequestsFit', Believed', Named' PROVE Inv'
    BY <1>1, <1>4, <2>3, <2>6 DEF Inv
  <2>7. CASE call \in {"BOTH", "EVENT_ONLY"}
    <3>1. /\ ctl'.mode = call /\ ctl'.status = ctl.status /\ ctl'.start = ctl.start
          /\ ctl'.stop = ctl.stop /\ ctl'.change = ctl.change /\ ctl'.pop = ctl.pop
          /\ nameCallback' = nameCallback
      <4>1. ctl' = [ctl EXCEPT !.mode = call]
        BY <2>1, <2>7 DEF Apply, Modes
      <4> QED BY <2>1, <2>2, <2>7, <4>1, Fields DEF NameAfter
    <3>2. NothingYet /\ \/ curStatus = "NORMAL_WAIT" /\ call = "BOTH" /\ calls' = <<"nameNormal", "start">>
                        \/ curStatus = "MOTION_WAIT" /\ call = "EVENT_ONLY" /\ calls' = <<"nameEvent">>
      BY <2>7, <2>a
    <3>3. NothingYet'
      BY <1>0, <1>1, <3>1, <3>2 DEF NothingYet, OnlyStop, Predicted
    <3>4. RequestsFit'
      BY <1>1, <3>1, <3>2 DEF Inv, RequestsFit, NothingYet, OnlyStop
    <3>5. calls' # <<>> /\ StillAsking'
      BY <1>0, <3>1, <3>2, <3>3 DEF StillAsking
    <3>6. Named'
      <4>1. calls' \notin {<<"start">>, <<"change">>, <<"pop">>}
        BY <3>2
      <4> QED BY <1>0, <1>2, <3>1, <4>1 DEF Inv, Named, apiVars
    <3> QED BY <2>4, <2>6, <3>4, <3>5, <3>6
  <2>8. CASE call \in {"nameNormal", "nameEvent"}
    <3>1. /\ ctl' = ctl
          /\ nameCallback' = IF call = "nameNormal" THEN "NORMAL" ELSE "EVENT"
      BY <2>1, <2>8 DEF Apply, NameAfter, Modes
    <3>2. /\ RequestsFit' /\ Predicted' = Predicted
          /\ Pending' = Pending /\ Quiet' = Quiet /\ NothingYet' = NothingYet
      BY <1>0, <3>1, SameFile DEF Inv
    <3>3. \/ /\ call = "nameNormal" /\ calls' = <<"start">> /\ NothingYet
             /\ curStatus = "NORMAL_WAIT" /\ ctl.mode = "BOTH"
          \/ /\ call = "nameEvent" /\ calls' = <<>> /\ NothingYet
             /\ curStatus = "MOTION_WAIT" /\ ctl.mode = "EVENT_ONLY"
          \/ /\ call = "nameNormal" /\ calls' = <<"change">> /\ Quiet
             /\ curStatus = "NORMAL_WAIT" /\ ctl.mode = "BOTH" /\ Predicted # "NONE"
          \/ /\ call = "nameEvent" /\ calls' = <<"pop">> /\ (paced => Quiet)
             /\ \/ curStatus = "NORMAL_EVENT_WAIT" /\ Predicted = "NORMAL" /\ ctl.mode = "BOTH"
                \/ curStatus = "MOTION_EVENT_WAIT" /\ Predicted = "NONE" /\ ctl.mode = "EVENT_ONLY"
      BY <2>8, <2>a
    <3>4. Believed'
      <4>1. CASE calls' = <<>>
        BY <1>0, <1>2, <2>5, <3>1, <3>2, <3>3, <4>1 DEF AllAsked, NothingYet, StartStatuses
      <4>2. CASE calls' # <<>>
        BY <1>0, <2>4, <3>1, <3>2, <3>3, <4>2 DEF StillAsking, apiVars
      <4> QED BY <4>1, <4>2
    <3>5. paced => /\ ~ctl.start /\ ~ctl.change /\ ~ctl.pop
                   /\ \A i \in DOMAIN flags : flags[i] \notin Starts
      BY <3>3 DEF NothingYet, OnlyStop, Quiet, Pending, Starts, Stops
    <3>6. Named'
      <4>1. calls' = <<"start">> => calls' # <<"pop">> /\ calls' # <<"change">>
        BY <3>3
      <4> QED BY <1>0, <1>2, <3>1, <3>3, <3>5 DEF Inv, Named, apiVars
    <3> QED BY <2>6, <3>2, <3>4, <3>6
  <2>9. CASE call \in {"start", "change", "stop", "pop"}
    <3>0. flags = <<>> /\ flags' = <<>> /\ DOMAIN flags' = {} /\ nameCallback' = nameCallback
      BY <1>0, <2>1, <2>9 DEF NameAfter
    <3>1. CASE call = "start"
      <4>1. /\ curStatus = "NORMAL_WAIT" /\ NothingYet /\ ctl.mode = "BOTH"
            /\ calls = <<"start">> /\ calls' = <<>>
        BY <2>a, <3>1
      <4>2. /\ ctl'.mode = ctl.mode /\ ctl'.status = ctl.status /\ ctl'.start
            /\ ctl'.stop = ctl.stop /\ ctl'.change = ctl.change /\ ctl'.pop = ctl.pop
        BY <2>1, <2>2, <3>1, Fields DEF Apply, Modes
      <4>3. RequestsFit' /\ Predicted' = "NORMAL"
        BY <1>1, <4>1, <4>2 DEF Inv, RequestsFit, NothingYet, OnlyStop, Predicted
      <4>4. AllAsked'
        BY <1>0, <4>1, <4>2, <4>3 DEF AllAsked, StartStatuses
      <4>5. Named'
        BY <1>0, <1>2, <3>0, <4>1, <4>2 DEF Inv, Named, apiVars, NothingYet, OnlyStop
      <4> QED BY <2>5, <2>6, <4>1, <4>3, <4>4, <4>5
    <3>2. CASE call = "change"
      <4>1. /\ curStatus = "NORMAL_WAIT" /\ Quiet /\ ctl.mode = "BOTH" /\ Predicted # "NONE"
            /\ calls = <<"change">> /\ calls' = <<>>
        BY <2>a, <3>2
      <4>2. /\ ctl'.mode = ctl.mode /\ ctl'.status = ctl.status /\ ctl'.start = ctl.start
            /\ ctl'.stop = ctl.stop /\ ctl'.change /\ ctl'.pop = ctl.pop
        BY <2>1, <2>2, <3>2, Fields DEF Apply, Modes
      <4>3. RequestsFit' /\ Predicted' = "NORMAL"
        BY <1>1, <4>1, <4>2 DEF Inv, RequestsFit, Quiet, Pending, Predicted
      <4>4. AllAsked'
        BY <1>0, <4>1, <4>2, <4>3 DEF AllAsked, StartStatuses
      <4>5. Named'
        BY <1>0, <1>2, <3>0, <4>1, <4>2 DEF Inv, Named, apiVars, Quiet, Pending
      <4> QED BY <2>5, <2>6, <4>1, <4>3, <4>4, <4>5
    <3>3. CASE call = "stop"
      <4>1. /\ curStatus = "MOTION_WAIT" /\ Quiet /\ ctl.mode = "EVENT_ONLY" /\ Predicted = "EVENT"
            /\ calls' = <<>>
        BY <2>a, <3>3
      <4>2. /\ ctl'.mode = ctl.mode /\ ctl'.status = ctl.status /\ ctl'.start = ctl.start
            /\ ctl'.stop /\ ctl'.change = ctl.change /\ ctl'.pop = ctl.pop
        BY <2>1, <2>2, <3>3, Fields DEF Apply, Modes
      <4>3. RequestsFit' /\ Predicted' = "NONE"
        BY <1>1, <4>1, <4>2 DEF Inv, RequestsFit, Quiet, Pending, Predicted
      <4>4. AllAsked'
        BY <1>0, <4>1, <4>2, <4>3 DEF AllAsked, StartStatuses
      <4>5. Named'
        BY <1>0, <1>2, <3>0, <4>1, <4>2 DEF Inv, Named, apiVars, Quiet, Pending
      <4> QED BY <2>5, <2>6, <4>1, <4>3, <4>4, <4>5
    <3>4. CASE call = "pop"
      <4>1. /\ \/ curStatus = "NORMAL_EVENT_WAIT" /\ Predicted = "NORMAL" /\ ctl.mode = "BOTH"
               \/ curStatus = "MOTION_EVENT_WAIT" /\ Predicted = "NONE" /\ ctl.mode = "EVENT_ONLY"
            /\ (paced => Quiet) /\ calls = <<"pop">> /\ calls' = <<>>
        BY <2>a, <3>4
      <4>2. /\ ctl'.mode = ctl.mode /\ ctl'.status = ctl.status /\ ctl'.start = ctl.start
            /\ ctl'.stop = ctl.stop /\ ctl'.change = ctl.change /\ ctl'.pop
        BY <2>1, <2>2, <3>4, Fields DEF Apply, Modes
      <4>3. RequestsFit' /\ Predicted' = "EVENT"
        BY <1>1, <4>1, <4>2 DEF Inv, RequestsFit, Predicted
      <4>4. AllAsked'
        BY <1>0, <4>1, <4>2, <4>3 DEF AllAsked, StartStatuses
      <4>5. Named'
        BY <1>0, <1>2, <3>0, <4>1, <4>2 DEF Inv, Named, apiVars, Quiet, Pending
      <4> QED BY <2>5, <2>6, <4>1, <4>3, <4>4, <4>5
    <3> QED BY <2>9, <3>1, <3>2, <3>3, <3>4
  <2>10. call \in {"BOTH", "EVENT_ONLY", "nameNormal", "nameEvent", "start", "change", "stop", "pop"}
    BY <2>a
  <2> QED BY <2>7, <2>8, <2>9, <2>10
<1> QED BY <1>5, <1>6
LEMMA ExitInv == ASSUME Inv, Exit PROVE Inv'
<1> USE DEF Exit, apiVars, outVars
<1>1. TypeOK'
  BY StepTyped DEF Inv, Next, ThreadLoop
<1>2. WriterFits' /\ Delivered' = Delivered /\ flags = <<>> /\ flags' = <<>> /\ DOMAIN flags' = {}
  BY SameWriter DEF Inv, BufferedLockFree
<1>3. Quiet /\ calls = <<>> /\ ~m_bEvent /\ ~m_bChageMode /\ api = "join" /\ curStatus \in WaitStatus
  BY DEF Inv, Places
<1>4. /\ ctl'.mode = ctl.mode /\ ctl'.status = ctl.status /\ ~ctl'.start
      /\ ctl'.stop /\ ~ctl'.change /\ ~ctl'.pop
  BY <1>3, Fields DEF Inv, TypeOK, Quiet, Pending
<1>5. RequestsFit' /\ NothingYet'
  BY <1>2, <1>4 DEF Inv, RequestsFit, NothingYet, OnlyStop, Predicted
<1>6. Places'
  BY <1>2, <1>3 DEF Inv, Places
<1>7. Believed' /\ InTime'
  BY <1>3, <1>5 DEF Believed, InTime, Running
<1>8. Named'
  BY <1>2, <1>3, <1>4 DEF Inv, Named, WaitStatus, EventStatuses
<1> QED BY <1>1, <1>2, <1>5, <1>6, <1>7, <1>8 DEF Inv

LEMMA BeginBufferingInv == ASSUME Inv, BeginBuffering PROVE Inv'
<1> USE DEF BeginBuffering, apiVars, outVars, mgrVars
<1>1. TypeOK' /\ WriterFits' /\ RequestsFit'
  BY StepTyped, SameFile DEF Inv, Next, Buffering
<1>2. Places'
  BY SameFile DEF Inv, Places
<1>3. Believed'
  BY SameFile DEF Inv, Believed, AllAsked, StillAsking
<1>4. InTime'
  <2>1. mpc \in Running => lag = 0 /\ (curStatus \in Timed => seen = 0)
    BY DEF Inv, InTime
  <2>2. Waited' = 0
    BY DEF Waited
  <2>3. 0 + 0 <= MaxLag + 0 /\ 0 + 0 <= MaxLag + Gap + MaxGop
    OBVIOUS
  <2> QED BY <2>1, <2>2, <2>3, SameFile DEF Inv, InTime
<1>5. Named'
  BY SameFile DEF Inv, Named
<1> QED BY <1>1, <1>2, <1>3, <1>4, <1>5 DEF Inv

(* The fields of the filter once a key frame has been handled. *)
LEMMA AnswerFields ==
    ASSUME Inv, flags = <<>>, ctl' = Answered(ctl), flags' = FlagsOf(ctl),
           UNCHANGED <<file, leaked, m_WritingMode>>
    PROVE  /\ WriterFits' /\ RequestsFit' /\ ~Pending' /\ ctl'.mode = ctl.mode
           /\ Predicted' = Predicted
           /\ Quiet => Quiet' /\ flags' = <<>>
           /\ OnlyStop => OnlyStop'
<1>1. /\ ctl'.mode = ctl.mode /\ ~ctl'.start /\ ~ctl'.stop /\ ~ctl'.change /\ ~ctl'.pop
      /\ ctl'.status = IF ctl.pop THEN "EVENT"
                       ELSE IF ctl.change /\ ctl.mode \in Modes THEN "NORMAL"
                       ELSE StatusAfterStop(ctl)
  BY DEF Answered, Inv, TypeOK, Control
<1>2. Leads(flags', file.kind, Predicted)
  BY AnswerLeads DEF Inv
<1>3. Delivered' = Predicted
  BY <1>2 DEF Delivered, Leads
<1>4. Delivered = file.kind /\ Delivered \in {"NONE", "NORMAL", "EVENT"}
  BY DEF Delivered, Inv, TypeOK, NoFile, Kind
<1>5. WriterFits'
  BY <1>2 DEF Inv, WriterFits, Leads
<1>6. /\ Predicted # "NONE" => ctl'.status = Predicted
      /\ Predicted = "NONE" => ctl'.status = "NORMAL"
  BY <1>1, <1>4 DEF Inv, RequestsFit, Predicted, StatusAfterStop, Modes
<1>7. RequestsFit'
  BY <1>1, <1>3, <1>6 DEF RequestsFit
<1>8. Predicted' = Predicted /\ ~Pending'
  BY <1>1, <1>3 DEF Predicted, Pending
<1>9. Quiet => Quiet' /\ flags' = <<>>
  <2> SUFFICES ASSUME Quiet PROVE Quiet' /\ flags' = <<>>
    OBVIOUS
  <2>1. \A i \in DOMAIN flags' : flags'[i] \in {}
    <3>1. ctl \in Control /\ ~ctl.start /\ ~ctl.stop /\ ~ctl.change /\ ~ctl.pop
      BY DEF Quiet, Pending, Inv, TypeOK
    <3> DEFINE none == {}
    <3> HIDE DEF none
    <3>2. \A i \in DOMAIN FlagsOf(ctl) : FlagsOf(ctl)[i] \in none
      BY <3>1, AnswerNames
    <3> QED BY <3>2 DEF none
  <2>2. flags' \in Seq(FileFlags)
    BY FlagTypes DEF Inv, TypeOK
  <2>3. flags' = <<>>
    BY <2>1, <2>2
  <2> QED BY <1>8, <2>3 DEF Quiet
<1>10. OnlyStop => OnlyStop'
  <2> SUFFICES ASSUME OnlyStop PROVE OnlyStop'
    OBVIOUS
  <2>1. \A i \in DOMAIN flags' : flags'[i] \in Stops
    BY AnswerNames DEF OnlyStop, Inv, TypeOK
  <2> QED BY <1>1, <2>1 DEF OnlyStop
<1> QED BY <1>1, <1>5, <1>7, <1>8, <1>9, <1>10

(* In a paced behaviour the files that a key frame opens get the right names. *)
LEMMA AnswerNamed ==
    ASSUME Inv, paced
    PROVE  \A i \in DOMAIN FlagsOf(ctl) :
             FlagsOf(ctl)[i] \in Starts => nameCallback = KindOf(FlagsOf(ctl)[i])
<1> DEFINE F == {f \in FileFlags : f \in Starts => nameCallback = KindOf(f)}
<1>1. Stops \subseteq F
  BY DEF Stops, Starts, FileFlags
<1>2. ctl.start \/ ctl.change => "NORMAL_START" \in F
  BY DEF Inv, Named, FileFlags, KindOf
<1>3. ctl.pop => "EVENT_START" \in F
  BY DEF Inv, Named, FileFlags, KindOf
<1>4. ctl \in Control
  BY DEF Inv, TypeOK
<1>5. \A i \in DOMAIN FlagsOf(ctl) : FlagsOf(ctl)[i] \in F
  <2> HIDE DEF F
  <2> QED BY <1>1, <1>2, <1>3, <1>4, AnswerNames
<1> QED BY <1>5

(* While something is asked for, every sample brings its answer closer. *)
LEMMA WaitedGrows ==
    ASSUME Inv, NEW sync \in BOOLEAN, PushStream(sync), ~(sync /\ UnitAfter = Gap)
    PROVE  Waited' \in Nat /\ Waited' >= Waited + 1
<1>1. unit \in Nat /\ unit <= Gap /\ gop \in Nat /\ gop >= 1 /\ unit' = UnitAfter /\ stamped'
      /\ gop' = IF sync THEN 1 ELSE gop + 1
  BY DEF PushStream, Inv, TypeOK
<1>2. CASE ~stamped
  <2>1. unit' = 0 /\ Waited = 0
    BY <1>1, <1>2 DEF UnitAfter, Waited
  <2>2. Waited' = 1
    BY <1>1, <2>1 DEF Waited
  <2> QED BY <2>1, <2>2
<1>3. CASE stamped /\ unit + 1 < Gap
  <2>1. unit' = unit + 1 /\ Waited = unit + 1
    BY <1>1, <1>3 DEF UnitAfter, Waited
  <2>2. Waited' = unit + 2
    BY <1>1, <1>3, <2>1 DEF Waited
  <2> QED BY <1>1, <2>1, <2>2
<1>4. CASE stamped /\ unit + 1 >= Gap
  <2>1. UnitAfter = Gap /\ unit' = Gap /\ gop' = gop + 1
    BY <1>1, <1>4 DEF UnitAfter
  <2>2. Waited' = Gap + (gop + 1) - 1
    BY <1>1, <2>1 DEF Waited
  <2>3. Waited <= Gap + gop - 1
    BY <1>1, <1>4 DEF Waited
  <2>4. Waited \in Nat
    BY WaitedBounds DEF Inv
  <2> QED BY <1>1, <2>2, <2>3, <2>4
<1> QED BY <1>1, <1>2, <1>3, <1>4

LEMMA OneLater ==
    ASSUME NEW s \in Nat, NEW l \in Nat, NEW ll \in Nat, NEW w \in Nat, ll <= l + 1,
           s + l <= MaxLag + w
    PROVE  /\ \A ww \in Nat : ww >= w + 1 => s + ll <= MaxLag + ww
           /\ w <= Gap + MaxGop - 1 => s + ll <= MaxLag + Gap + MaxGop
OBVIOUS

LEMMA PushInv == ASSUME Inv, NEW sync \in BOOLEAN, PushStream(sync) PROVE Inv'
<1>0. /\ UNCHANGED <<apiVars, mpc, curStatus, timed, seen, calls, fresh, outVars>>
      /\ m_bRun /\ fresh /\ flags = <<>>
  BY DEF PushStream, BufferedLockFree
<1>1. TypeOK' /\ mpc # "none" /\ mpc' = mpc /\ calls' = calls /\ curStatus' = curStatus /\ fresh'
  BY <1>0, StepTyped DEF Inv, Next, Buffering, Places
<1>2. /\ seen \in Nat /\ seen' = seen /\ lag \in Nat /\ lag' \in Nat /\ lag' <= lag + 1
      /\ Waited \in Nat /\ Waited <= Gap + MaxGop - 1
  <2>1. seen \in Nat /\ seen' = seen /\ lag \in Nat
    BY <1>0, CapType DEF Inv, TypeOK
  <2>2. lag' \in Nat /\ lag' <= lag + 1
    BY <2>1 DEF PushStream
  <2>3. Waited \in Nat /\ Waited <= Gap + MaxGop - 1
    BY WaitedBounds DEF Inv
  <2> QED BY <2>1, <2>2, <2>3
<1>3. CASE sync /\ UnitAfter = Gap
  <2>1. flags' = FlagsOf(ctl) /\ ctl' = Answered(ctl) /\ UNCHANGED <<file, leaked, m_WritingMode>>
    BY <1>0, <1>3 DEF PushStream, outVars
  <2>2. /\ WriterFits' /\ RequestsFit' /\ ~Pending' /\ ctl'.mode = ctl.mode
        /\ Predicted' = Predicted
        /\ Quiet => Quiet' /\ flags' = <<>>
        /\ OnlyStop => OnlyStop'
    BY <1>0, <2>1, AnswerFields
  <2>3. Places'
    BY <1>0, <1>1, <2>2 DEF Inv, Places, apiVars
  <2>4. NothingYet => NothingYet'
    BY <2>2 DEF NothingYet
  <2>5. AllAsked => AllAsked'
    BY <1>1, <2>2, <2>4 DEF AllAsked, StartStatuses
  <2>6. StillAsking => StillAsking'
    BY <1>0, <1>1, <2>2, <2>4 DEF StillAsking, apiVars
  <2>7. Believed'
    BY <1>1, <2>4, <2>5, <2>6 DEF Inv, Believed
  <2>8. InTime'
    <3>1. flags' # <<>> => Pending
      BY <1>0, <2>2 DEF Quiet
    <3>2. mpc \in Running /\ curStatus \in Timed /\ flags' # <<>> => seen + lag <= MaxLag + Waited
      BY <3>1 DEF Inv, InTime
    <3>3. seen + lag <= MaxLag + Waited => seen' + lag' <= MaxLag + Gap + MaxGop
      BY <1>2, OneLater
    <3>4. mpc = "calls" /\ calls # <<>> /\ curStatus \in Timed => seen = 0
      BY DEF Inv, InTime, Running
    <3> QED BY <1>1, <1>2, <2>2, <3>2, <3>3, <3>4 DEF InTime
  <2>9. Named'
    <3>1. /\ ~ctl'.start /\ ~ctl'.change /\ ~ctl'.pop
      BY <2>2 DEF Pending
    <3>2. paced => \A i \in DOMAIN flags' : flags'[i] \in Starts => nameCallback' = KindOf(flags'[i])
      BY <1>0, <2>1, AnswerNamed DEF outVars
    <3> QED BY <1>0, <1>1, <2>2, <3>1, <3>2 DEF Inv, Named, apiVars, outVars
  <2> QED BY <1>1, <2>2, <2>3, <2>7, <2>8, <2>9 DEF Inv
<1>4. CASE ~(sync /\ UnitAfter = Gap)
  <2>1. UNCHANGED <<ctl, flags, file, leaked, m_WritingMode>>
    BY <1>0, <1>4 DEF PushStream, outVars
  <2>2. /\ WriterFits' /\ RequestsFit' /\ Predicted' = Predicted
        /\ Pending' = Pending /\ Quiet' = Quiet /\ NothingYet' = NothingYet
    BY <2>1, SameFile DEF Inv
  <2>3. Places'
    BY <1>0, <2>1, <2>2 DEF Inv, Places, apiVars
  <2>4. Believed'
    BY <1>0, <2>1, <2>2 DEF Inv, Believed, AllAsked, StillAsking, apiVars
  <2>5. InTime'
    <3>1. Waited' \in Nat /\ Waited' >= Waited + 1
      BY <1>4, WaitedGrows
    <3>2. mpc \in Running /\ curStatus \in Timed /\ Pending => seen + lag <= MaxLag + Waited
      BY DEF Inv, InTime
    <3>3. seen + lag <= MaxLag + Waited => seen' + lag' <= MaxLag + Waited'
      BY <1>2, <3>1, OneLater
    <3>4. mpc = "calls" /\ calls # <<>> /\ curStatus \in Timed => seen = 0
      BY DEF Inv, InTime, Running
    <3> QED BY <1>0, <1>1, <1>2, <2>1, <2>2, <3>2, <3>3, <3>4 DEF InTime
  <2>6. Named'
    BY <1>0, <2>1, <2>2 DEF Inv, Named, apiVars, outVars
  <2> QED BY <1>1, <2>2, <2>3, <2>4, <2>5, <2>6 DEF Inv
<1> QED BY <1>3, <1>4
(* The next flag finds the file it closes, or none to overwrite. *)
LEMMA NextFlag ==
    ASSUME Inv, flags # <<>>
    PROVE  /\ Head(flags) = flags[1] /\ flags[1] \in FileFlags
           /\ file # NoFile => flags[1] \in Stops /\ StopKind(flags[1]) = file.kind
           /\ flags[1] \in Starts =>
                /\ file = NoFile
                /\ StartKind(flags[1]) = KindOf(flags[1])
                /\ paced => nameCallback = KindOf(flags[1])
           /\ file.kind \in {"NONE", "NORMAL", "EVENT"}
<1>1. Head(flags) = flags[1] /\ flags[1] \in FileFlags /\ 1 \in DOMAIN flags
  BY DEF Inv, TypeOK
<1>2. file \in {NoFile} \cup [kind : Kind, name : Kind] /\ Fits(file.kind, flags[1])
  BY DEF Inv, TypeOK, WriterFits
<1>3. file # NoFile => file.kind \in Kind
  BY <1>2
<1>4. file.kind \in {"NONE", "NORMAL", "EVENT"}
  BY <1>2 DEF NoFile, Kind
<1>5. file # NoFile => flags[1] \in Stops /\ StopKind(flags[1]) = file.kind
  BY <1>2, <1>3 DEF Fits, Kind, Stops, StopKind
<1>6. flags[1] \in Starts => StartKind(flags[1]) = KindOf(flags[1])
  BY DEF Starts, StartKind, KindOf
<1>7. flags[1] \in Starts /\ paced => nameCallback = KindOf(flags[1])
  BY <1>1 DEF Inv, Named
<1>8. flags[1] \in Starts => flags[1] \notin Stops
  BY DEF Starts, Stops
<1> QED BY <1>1, <1>4, <1>5, <1>6, <1>7, <1>8

LEMMA DeliverInv == ASSUME Inv, DeliverFlag PROVE Inv'
<1> DEFINE f == flags[1]
<1>0. /\ UNCHANGED <<apiVars, mgrVars, stamped, fresh, unit, gop, ctl, nameCallback>>
      /\ flags # <<>> /\ flags' = Tail(flags) /\ Head(flags) = f /\ fresh
  BY NextFlag DEF DeliverFlag, Inv, Places
<1>1. TypeOK' /\ flags \in Seq(FileFlags)
  BY StepTyped DEF Inv, Next, Buffering, TypeOK
<1>2. /\ Len(flags) \in Nat \ {0} /\ Len(flags') = Len(flags) - 1
      /\ DOMAIN flags' = 1..(Len(flags) - 1) /\ DOMAIN flags = 1..Len(flags)
      /\ \A i \in 1..(Len(flags) - 1) : flags'[i] = flags[i + 1]
      /\ flags' = <<>> <=> Len(flags) = 1
  <2>1. /\ Len(flags) \in Nat \ {0} /\ DOMAIN flags = 1..Len(flags)
        /\ flags' \in Seq(FileFlags) /\ Len(flags') = Len(flags) - 1
    BY <1>0, <1>1
  <2>2. \A i \in 1..(Len(flags) - 1) : flags'[i] = flags[i + 1]
    BY <1>0, <1>1
  <2>3. DOMAIN flags' = 1..(Len(flags) - 1)
    BY <2>1
  <2>4. flags' = <<>> <=> Len(flags') = 0
    BY <2>1
  <2>5. flags' = <<>> <=> Len(flags) = 1
    BY <2>1, <2>4
  <2> QED BY <2>1, <2>2, <2>3, <2>5
<1>3. file'.kind = KindOf(f) /\ leaked' = 0 /\ (file' # NoFile => m_WritingMode' = file'.kind)
      /\ (file' # NoFile => f \in Starts /\ file'.name = nameCallback)
  <2>1. CASE f \in Starts
    <3>1. file' = [kind |-> StartKind(f), name |-> nameCallback] /\ file = NoFile
          /\ m_WritingMode' = StartKind(f)
      BY <1>0, <2>1, NextFlag DEF DeliverFlag, IsStart, Starts
    <3>2. leaked' = leaked
      BY <1>0, <2>1, <3>1 DEF DeliverFlag, IsStart, Starts
    <3> QED BY <1>0, <2>1, <3>1, <3>2, NextFlag DEF Inv, WriterFits
  <2>2. CASE f \notin Starts
    <3>1. file' = NoFile /\ leaked' = leaked
      BY <1>0, <2>2 DEF DeliverFlag, IsStart, Starts, Closed
    <3>2. KindOf(f) = "NONE"
      BY <2>2 DEF KindOf, Starts
    <3> QED BY <3>1, <3>2 DEF Inv, WriterFits, NoFile
  <2> QED BY <2>1, <2>2
<1>4. Chain(flags')
  <2> SUFFICES ASSUME NEW i \in 1..(Len(flags') - 1) PROVE Fits(KindOf(flags'[i]), flags'[i + 1])
    BY DEF Chain
  <2>1. i + 1 \in 1..(Len(flags) - 1) /\ flags'[i] = flags[i + 1] /\ flags'[i + 1] = flags[(i + 1) + 1]
    BY <1>2
  <2> QED BY <2>1 DEF Inv, WriterFits, Chain
<1>5. flags' # <<>> => Fits(file'.kind, flags'[1])
  <2> SUFFICES ASSUME flags' # <<>> PROVE Fits(KindOf(f), flags'[1])
    BY <1>3
  <2>1. 1 \in 1..(Len(flags) - 1) /\ flags'[1] = flags[1 + 1]
    BY <1>2
  <2> QED BY <2>1 DEF Inv, WriterFits, Chain
<1>6. WriterFits'
  BY <1>3, <1>4, <1>5 DEF WriterFits
<1>7. Delivered' = Delivered
  <2>1. CASE flags' = <<>>
    BY <1>0, <1>2, <1>3, <2>1 DEF Delivered, Last
  <2>2. CASE flags' # <<>>
    <3>1. Last(flags') = Last(flags)
      BY <1>2, <2>2 DEF Last
    <3> QED BY <1>0, <2>2, <3>1 DEF Delivered
  <2> QED BY <2>1, <2>2
<1>8. RequestsFit' /\ Predicted' = Predicted /\ Pending' = Pending /\ ~Quiet
  BY <1>0, <1>7 DEF Inv, RequestsFit, Predicted, Pending, Quiet
<1>9. \A i \in DOMAIN flags' : \E j \in DOMAIN flags : flags'[i] = flags[j]
  <2> SUFFICES ASSUME NEW i \in DOMAIN flags' PROVE \E j \in DOMAIN flags : flags'[i] = flags[j]
    OBVIOUS
  <2>1. i + 1 \in DOMAIN flags /\ flags'[i] = flags[i + 1]
    BY <1>2
  <2> QED BY <2>1
<1>10. NothingYet => NothingYet'
  BY <1>0, <1>8, <1>9 DEF NothingYet, OnlyStop
<1>11. Places'
  BY <1>0, <1>8 DEF Inv, Places, apiVars, mgrVars
<1>12. Believed'
  <2>1. AllAsked => AllAsked'
    BY <1>0, <1>8, <1>10 DEF AllAsked, mgrVars, StartStatuses
  <2>2. StillAsking => StillAsking'
    BY <1>0, <1>8, <1>10 DEF StillAsking, mgrVars, apiVars
  <2>3. mpc # "none"
    BY <1>0 DEF Inv, Believed
  <2> QED BY <1>0, <1>10, <2>1, <2>2, <2>3 DEF Inv, Believed, mgrVars
<1>13. InTime'
  <2>1. Waited' = Waited
    BY <1>0 DEF Waited
  <2> QED BY <1>0, <1>8, <2>1 DEF Inv, InTime, mgrVars
<1>14. Named'
  <2>1. paced /\ file' # NoFile => file'.name = file'.kind
    BY <1>0, <1>3, NextFlag
  <2>2. paced => \A i \in DOMAIN flags' : flags'[i] \in Starts => nameCallback' = KindOf(flags'[i])
    BY <1>0, <1>9 DEF Inv, Named
  <2> QED BY <1>0, <1>8, <2>1, <2>2 DEF Inv, Named, apiVars, mgrVars
<1> QED BY <1>1, <1>6, <1>8, <1>11, <1>12, <1>13, <1>14 DEF Inv

LEMMA StutterInv == ASSUME Inv, UNCHANGED vars PROVE Inv'
<1> USE DEF vars, apiVars, mgrVars, bufVars, outVars
<1>1. TypeOK' /\ WriterFits' /\ RequestsFit'
  BY StepTyped, SameFile DEF Inv
<1>2. Places' /\ Believed'
  BY SameFile DEF Inv, Places, Believed, AllAsked, StillAsking
<1>3. InTime' /\ Named'
  BY SameFile DEF Inv, InTime, Waited, Named
<1> QED BY <1>1, <1>2, <1>3 DEF Inv

LEMMA StepInv == PacedModes /\ SlowTimers /\ Inv /\ [Next]_vars => Inv'
BY StartInv, SetEventInv, ChangeModeInv, StopInv, StopFiltersInv, InitStatusInv, LoopTestInv,
   ReadTimeInv, TakeRequestsInv, CaseInv, CallInv, ExitInv, BeginBufferingInv, PushInv, DeliverInv,
   StutterInv DEF Next, Application, ThreadLoop, Buffering

(* The assumptions are about constants: a step keeps them. *)
PacedInv == PacedModes /\ SlowTimers /\ Inv

LEMMA Invariance == PacedModes /\ SlowTimers /\ Spec => []Inv
<1>1. PacedModes /\ SlowTimers /\ Init => PacedInv
  BY InitInv DEF PacedInv
<1>2. PacedInv /\ [Next]_vars => PacedInv'
  BY StepInv DEF PacedInv, SlowTimers
<1>3. PacedInv => Inv
  BY DEF PacedInv
<1> QED BY <1>1, <1>2, <1>3, PTL DEF Spec

(***************************************************************************)
(* What follows.                                                           *)
(***************************************************************************)
(* When nothing is on its way, what the requests lead to is the open file. *)
LEMMA InvAgrees == Inv => ManagerAgrees
<1> SUFFICES ASSUME Inv, Settled, m_bRun
             PROVE  /\ file.kind = CASE curStatus = "NORMAL_WAIT" -> "NORMAL"
                                  [] curStatus = "MOTION_WAIT" -> "NONE"
                                  [] OTHER -> "EVENT"
                    /\ (ctl.status = "EVENT") <=> (curStatus \in {"NORMAL_EVENT_WAIT", "MOTION_EVENT_WAIT"})
  BY DEF Inv, ManagerAgrees
<1>1. Predicted = file.kind /\ Delivered = file.kind /\ ~ctl.stop /\ ctl.status \in Statuses
  BY DEF Settled, Pending, Predicted, Delivered, Inv, TypeOK, Control
<1>2. AllAsked /\ curStatus \in WaitStatus
  BY DEF Settled, Inv, Believed, Running
<1>3. file.kind = CASE curStatus = "NORMAL_WAIT" -> "NORMAL"
                    [] curStatus = "MOTION_WAIT" -> "NONE"
                    [] OTHER -> "EVENT"
  BY <1>1, <1>2 DEF AllAsked, WaitStatus, StartStatuses
<1>4. /\ file.kind # "NONE" => ctl.status = file.kind
      /\ file.kind = "NONE" => ctl.status = "NORMAL"
  BY <1>1 DEF Inv, RequestsFit
<1> QED BY <1>2, <1>3, <1>4 DEF WaitStatus

(* As long as modes are changed and recordings stopped only when everything is *)
(* answered, and timers are slow, the writer's file is the one the manager     *)
(* believes to be recorded whenever no request is on its way.                  *)
THEOREM Agreement == PacedModes /\ SlowTimers /\ Spec => []ManagerAgrees
BY Invariance, InvAgrees, PTL

(* Initial states map to initial states. *)
LEMMA InitMapped == Init => Session!Init
<1> SUFFICES ASSUME Init PROVE Session!Init
  OBVIOUS
<1>1. paced \in BOOLEAN /\ file = NoFile /\ leaked = 0 /\ notes = NoFile
  BY DEF Init
<1> QED BY <1>1 DEF Session!Init, Session!NoFile, NoFile

LEMMA SessionNames == Session!NoFile = NoFile /\ Session!OpenFile = [kind : Kind, name : Kind]
BY DEF Session!NoFile, NoFile, Session!OpenFile, Session!Kind, Kind

(* A start flag opens a file where there is none. *)
LEMMA OpenMapped ==
    ASSUME Inv, DeliverFlag, flags[1] \in Starts
    PROVE  Session!Open
<1>1. /\ flags # <<>> /\ file = NoFile /\ Head(flags) = flags[1] /\ leaked = 0
      /\ StartKind(flags[1]) \in Kind /\ nameCallback \in Kind
      /\ paced => nameCallback = StartKind(flags[1])
  BY NextFlag DEF DeliverFlag, Inv, WriterFits, StartKind, Kind, TypeOK
<1>2. /\ file' = [kind |-> StartKind(flags[1]), name |-> nameCallback]
      /\ leaked' = 0 /\ UNCHANGED <<notes, paced>>
  BY <1>1 DEF DeliverFlag, IsStart, Starts, apiVars
<1>3. file' \in [kind : Kind, name : Kind] /\ file' # NoFile /\ (paced => file'.name = file'.kind)
  BY <1>1, <1>2 DEF NoFile, Kind
<1>4. leaked + (IF file = NoFile THEN 0 ELSE 1) = 0 /\ leaked' + (IF file' = NoFile THEN 0 ELSE 1) = 1
  BY <1>1, <1>2, <1>3
<1> QED BY <1>1, <1>2, <1>3, <1>4, SessionNames DEF Session!Open

(* The file is closed as what it was opened for. *)
LEMMA CloseMapped ==
    ASSUME Inv, file # NoFile, Closed(file.kind), UNCHANGED <<leaked, paced>>
    PROVE  Session!Close
<1>1. file \in [kind : Kind, name : Kind] /\ leaked = 0 /\ leaked' = 0
  BY DEF Inv, TypeOK, WriterFits
<1>2. file' = NoFile /\ notes' = [kind |-> file.kind, name |-> file.name]
  BY DEF Closed
<1>3. notes' = file
  BY <1>1, <1>2
<1>4. leaked + (IF file = NoFile THEN 0 ELSE 1) = 1 /\ leaked' + (IF file' = NoFile THEN 0 ELSE 1) = 0
  BY <1>1, <1>2
<1> QED BY <1>2, <1>3, <1>4, SessionNames DEF Session!Close

LEMMA UntouchedMapped ==
    ASSUME UNCHANGED <<paced, file, leaked, notes>>
    PROVE  UNCHANGED Session!svars
BY DEF Session!svars

(* Every step of the recorder is a step of the session, or leaves it as it is. *)
LEMMA StepMapped == Inv /\ [Next]_vars => [Session!Next]_(Session!svars)
<1> SUFFICES ASSUME Inv, [Next]_vars PROVE [Session!Next]_(Session!svars)
  OBVIOUS
<1>1. CASE DeliverFlag
  <2>1. CASE flags[1] \in Starts
    BY <1>1, <2>1, OpenMapped DEF Session!Next
  <2>2. CASE flags[1] \notin Starts /\ file # NoFile
    <3>1. Closed(file.kind) /\ UNCHANGED <<leaked, paced>>
      BY <1>1, <2>2, NextFlag DEF DeliverFlag, IsStart, Starts, apiVars
    <3> QED BY <2>2, <3>1, CloseMapped DEF Session!Next
  <2>3. CASE flags[1] \notin Starts /\ file = NoFile
    <3>1. UNCHANGED <<paced, file, leaked, notes>>
      BY <1>1, <2>3, NextFlag DEF DeliverFlag, IsStart, Starts, Closed, apiVars
    <3> QED BY <3>1, UntouchedMapped
  <2> QED BY <2>1, <2>2, <2>3
<1>2. CASE StopFilters
  <2>1. CASE file # NoFile
    <3>1. Closed(file.kind) /\ UNCHANGED <<leaked, paced>>
      BY <1>2, <2>1 DEF StopFilters, Inv, WriterFits
    <3> QED BY <2>1, <3>1, CloseMapped DEF Session!Next
  <2>2. CASE file = NoFile
    <3>1. UNCHANGED <<paced, file, leaked, notes>>
      BY <1>2, <2>2 DEF StopFilters, Closed
    <3> QED BY <3>1, UntouchedMapped
  <2> QED BY <2>1, <2>2
<1>3. CASE ~DeliverFlag /\ ~StopFilters
  <2>1. UNCHANGED <<paced, file, leaked, notes>>
    <3>1. ASSUME NEW type \in EncodeType, Start(type) \/ ChangeMode(type)
          PROVE  UNCHANGED <<paced, file, leaked, notes>>
      BY <3>1 DEF Start, ChangeMode, outVars
    <3>2. ASSUME SetEvent \/ Stop PROVE UNCHANGED <<paced, file, leaked, notes>>
      BY <3>2 DEF SetEvent, Stop, outVars
    <3>3. ASSUME InitStatus \/ LoopTest \/ ReadTime \/ TakeRequests
          PROVE  UNCHANGED <<paced, file, leaked, notes>>
      BY <3>3 DEF InitStatus, LoopTest, ReadTime, TakeRequests, outVars, apiVars
    <3>4. ASSUME Case \/ Call \/ Exit PROVE UNCHANGED <<paced, file, leaked, notes>>
      BY <3>4 DEF Case, Call, Exit, outVars, apiVars
    <3>5. ASSUME NEW sync \in BOOLEAN, BeginBuffering \/ PushStream(sync)
          PROVE  UNCHANGED <<paced, file, leaked, notes>>
      BY <3>5 DEF BeginBuffering, PushStream, outVars, apiVars
    <3>6. ASSUME UNCHANGED vars PROVE UNCHANGED <<paced, file, leaked, notes>>
      BY <3>6 DEF vars, outVars, apiVars
    <3> QED BY <1>3, <3>1, <3>2, <3>3, <3>4, <3>5, <3>6 DEF Next, Application, ThreadLoop, Buffering
  <2> QED BY <2>1, UntouchedMapped
<1> QED BY <1>1, <1>2, <1>3

(* The recorder implements the session: one file at a time, announced as what *)
(* it was opened for, with a name of its kind when events are paced.          *)
THEOREM Implements == PacedModes /\ SlowTimers /\ Spec => SessionSpec
<1>1. PacedModes /\ SlowTimers /\ Spec => []Inv
  BY Invariance
<1>2. QED
  BY <1>1, InitMapped, StepMapped, PTL DEF Spec, SessionSpec, Session!Spec
=============================================================================
