----------------------------- MODULE VideoPath -----------------------------
(***************************************************************************)
(* The way of a picture from the camera to the encoder: CNX_VIPFilter owns *)
(* the samples and the video memory, CNX_MotionDetectFilter (if there is   *)
(* one) and CNX_VRFilter each keep the last picture, CNX_H264Encoder       *)
(* encodes it.  nx_vip.c, between the filter and the camera's driver, and  *)
(* the calls of the manager that start, stop and switch the display        *)
(* belong to it.  One camera is modelled.                                  *)
(*                                                                         *)
(* A sample is lent out by reference: the last Unlock, on whatever thread, *)
(* calls ReleaseSample, which gives back the memory, the sample and a      *)
(* count of the semaphore in three steps.                                  *)
(*                                                                         *)
(* A semaphore is its value: each has one waiting thread, and what its     *)
(* condition variable does is modelled in BufferingFilter.  Blocks of       *)
(* memory differ in nothing but who has them, and are counted; the queue   *)
(* of samples nobody has is kept sorted for the same reason.               *)
(***************************************************************************)
EXTENDS Integers, Sequences, SequencesExt, FiniteSetsExt

CONSTANTS
    NumBuffer,          \* m_iNumOfBuffer of the camera
    m_SamplingFrame,
    MaxCall             \* bound: calls that start, switch or change the mode

ASSUME BoundAssumption == MaxCall \in Nat
ASSUME ConfigAssumption == NumBuffer \in Nat /\ NumBuffer >= 4 /\ m_SamplingFrame \in Nat \ {0}

Sample == 1..NumBuffer
None == 0
Filter == {"vip", "md", "enc"}
Thread == Filter \cup {"app"}

VARIABLES
    m_SampleOutQueue,   \* the camera's samples that nobody has
    m_ReleaseQueue,     \* blocks of memory to be queued to the driver again
    m_pSemOut,          \* the camera's semaphore
    driver,             \* blocks of memory queued to the driver
    image,              \* the samples that have a picture, in a block of theirs
    ref,                \* per sample: m_iRefCount
    inQ, m_pSemIn,      \* of the motion detector and the encoder
    m_bThreadExit,      \* per filter
    prev,               \* m_pPrevVideoSample of the motion detector, the display
    m_bEnabled, m_SamplingFrameCnt, \* of the motion detector
    m_hDsp,             \* TRUE while the display is open
    m_bEnable, m_bEnableHdmi,
    shown,              \* samples whose memory is queued to the display
    pc, cur, rel, ret,  \* per thread: where it is, its pSample, the sample it
                        \* gives up, where it goes on after that
    todo,               \* what is left of the manager's call
    m_DisplayEnable,
    m_MdEnable,         \* constant: the graph has a motion detector
    calls

poolVars == <<m_SampleOutQueue, m_ReleaseQueue, m_pSemOut, driver, image, ref>>
mdVars == <<m_bEnabled, m_SamplingFrameCnt>>
vrVars == <<m_hDsp, m_bEnable, m_bEnableHdmi, shown>>
appVars == <<todo, m_DisplayEnable, m_MdEnable, calls>>
threadVars == <<pc, cur, rel, ret>>
vars == <<poolVars, inQ, m_pSemIn, m_bThreadExit, prev, mdVars, vrVars, threadVars, appVars>>

SortedIn(x, seq) == InsertAt(seq, Cardinality({i \in DOMAIN seq : seq[i] < x}) + 1, x)

Before == IF m_MdEnable THEN "md" ELSE "vip" \* the filter before the display
After == IF m_MdEnable THEN "motion" ELSE "unlock"

(* Where thread t is after label l: "test" is the test of a filter's loop, *)
(* made at once - a thread that leaves empties its input queue, if it has  *)
(* one - and "leave" the end of a method of the display.                   *)
At(t, l) ==
    CASE l = "test" /\ ~m_bThreadExit[t] -> "get"
      [] l = "test" /\ m_bThreadExit[t] -> IF t = "vip" THEN "gone" ELSE "drain"
      [] l = "leave" -> IF t = "app" THEN "call" ELSE After
      [] OTHER -> l
Goto(t, l) == pc' = [pc EXCEPT ![t] = At(t, l)]

(* Who holds m_hLock of the display. *)
VrLocked == \E t \in Thread : \/ pc[t] = "dequeue"
                              \/ pc[t] \in {"memory", "home"} /\ ret[t] = "leave"

(***************************************************************************)
(* CNX_Sample::Unlock, and ReleaseSample of the owner after the last one.  *)
(***************************************************************************)
(* Thread t gives up its reference to s and goes on at next.               *)
Unlock(t, s, next) ==
    /\ ref' = [ref EXCEPT ![s] = Max({0, @ - 1})]
    /\ IF ref[s] = 1
         THEN /\ Goto(t, "memory")
              /\ rel' = [rel EXCEPT ![t] = s] /\ ret' = [ret EXCEPT ![t] = next]
         ELSE /\ Goto(t, next)
              /\ rel' = [rel EXCEPT ![t] = None] /\ UNCHANGED ret

ReleaseMemory(t) ==
    /\ pc[t] = "memory" /\ Goto(t, "home")
    /\ m_ReleaseQueue' = m_ReleaseQueue + 1
    /\ image' = image \ {rel[t]}
    /\ UNCHANGED <<m_SampleOutQueue, m_pSemOut, driver, ref, inQ, m_pSemIn, m_bThreadExit, prev,
                   mdVars, vrVars, cur, rel, ret, appVars>>

(* The push and the Post after it: only who has the Post looks for what    *)
(* was pushed.                                                             *)
ReleaseToQueue(t) ==
    /\ pc[t] = "home" /\ Goto(t, ret[t])
    /\ m_SampleOutQueue' = IF Len(m_SampleOutQueue) < NumBuffer
                             THEN SortedIn(rel[t], m_SampleOutQueue) ELSE m_SampleOutQueue
    /\ m_pSemOut' = m_pSemOut + 1
    /\ rel' = [rel EXCEPT ![t] = None] /\ ret' = [ret EXCEPT ![t] = "call"]
    /\ UNCHANGED <<m_ReleaseQueue, driver, image, ref, inQ, m_pSemIn, m_bThreadExit, prev,
                   mdVars, vrVars, cur, appVars>>

(***************************************************************************)
(* CNX_VIPFilter::ThreadLoop                                               *)
(***************************************************************************)
BeginWithoutReset == \* a mutant: what was released after the last stop is kept
    /\ pc["vip"] = "begin" /\ Goto("vip", "test")
    /\ driver' = NumBuffer
    /\ m_pSemOut' = NumBuffer - 1
    /\ UNCHANGED <<m_SampleOutQueue, m_ReleaseQueue, image, ref, inQ, m_pSemIn, m_bThreadExit,
                   prev, mdVars, vrVars, cur, rel, ret, appVars>>
BeginWithAll == \* a mutant: a count for every sample
    /\ pc["vip"] = "begin" /\ Goto("vip", "test")
    /\ m_ReleaseQueue' = 0
    /\ driver' = NumBuffer
    /\ m_pSemOut' = NumBuffer
    /\ UNCHANGED <<m_SampleOutQueue, image, ref, inQ, m_pSemIn, m_bThreadExit, prev, mdVars,
                   vrVars, cur, rel, ret, appVars>>
Begin ==
    /\ pc["vip"] = "begin" /\ Goto("vip", "test")
    /\ m_ReleaseQueue' = 0
    /\ driver' = NumBuffer
    /\ m_pSemOut' = NumBuffer - 1
    /\ UNCHANGED <<m_SampleOutQueue, image, ref, inQ, m_pSemIn, m_bThreadExit, prev, mdVars,
                   vrVars, cur, rel, ret, appVars>>

(* GetDeliverySample *)
GetDeliverySample ==
    /\ pc["vip"] = "get" /\ m_pSemOut > 0
    /\ m_pSemOut' = m_pSemOut - 1
    /\ IF m_SampleOutQueue = <<>>
         THEN Goto("vip", "test") /\ UNCHANGED <<m_SampleOutQueue, cur, ref>>
         ELSE LET s == Head(m_SampleOutQueue) IN
              /\ m_SampleOutQueue' = Tail(m_SampleOutQueue)
              /\ cur' = [cur EXCEPT !["vip"] = s]
              /\ ref' = [ref EXCEPT ![s] = @ + 1]
              /\ Goto("vip", "capture")
    /\ UNCHANGED <<m_ReleaseQueue, driver, image, inQ, m_pSemIn, m_bThreadExit, prev, mdVars,
                   vrVars, rel, ret, appVars>>

(* What was released goes to the driver, the oldest picture is taken from  *)
(* it.  NX_VipDequeueBuffer refuses while fewer than two are queued: the   *)
(* driver needs one to write to.                                           *)
Requeued == driver + m_ReleaseQueue
Capture ==
    /\ pc["vip"] = "capture"
    /\ m_ReleaseQueue' = 0
    /\ IF Requeued < 2
         THEN /\ driver' = Requeued
              /\ Unlock("vip", cur["vip"], "test")
              /\ cur' = [cur EXCEPT !["vip"] = None]
              /\ UNCHANGED image
         ELSE /\ driver' = Requeued - 1
              /\ image' = image \cup {cur["vip"]}
              /\ Goto("vip", "deliver")
              /\ UNCHANGED <<ref, cur, rel, ret>>
    /\ UNCHANGED <<m_SampleOutQueue, m_pSemOut, inQ, m_pSemIn, m_bThreadExit, prev, mdVars, vrVars, appVars>>

(* The others only begin their loop. *)
BeginLoop(f) ==
    /\ f # "vip" /\ pc[f] = "begin" /\ Goto(f, "test")
    /\ UNCHANGED <<poolVars, inQ, m_pSemIn, m_bThreadExit, prev, mdVars, vrVars, cur, rel,
                   ret, appVars>>

(* Receive of a filter with a queue: Lock, PushSample, Post. *)
Queued(f, s) ==
    /\ inQ' = [inQ EXCEPT ![f] = Append(@, s)]
    /\ m_pSemIn' = [m_pSemIn EXCEPT ![f] = @ + 1]

DeliverToDetector ==
    /\ pc["vip"] = "deliver" /\ m_MdEnable
    /\ ref' = [ref EXCEPT ![cur["vip"]] = @ + 1]
    /\ Queued("md", cur["vip"])
    /\ Goto("vip", "unlock")
    /\ UNCHANGED <<m_SampleOutQueue, m_ReleaseQueue, m_pSemOut, driver, image, m_bThreadExit, prev,
                   mdVars, vrVars, cur, rel, ret, appVars>>

(* The thread's own reference, once its sample is delivered. *)
UnlockOwn(f) ==
    /\ pc[f] = "unlock" /\ Unlock(f, cur[f], "test")
    /\ cur' = [cur EXCEPT ![f] = None]
    /\ UNCHANGED <<m_SampleOutQueue, m_ReleaseQueue, m_pSemOut, driver, image, inQ, m_pSemIn,
                   m_bThreadExit, prev, mdVars, vrVars, appVars>>

(***************************************************************************)
(* CNX_VRFilter::Receive, on the thread before it, with m_hLock held.      *)
(***************************************************************************)
VrReceive ==
    LET s == cur[Before] IN
    /\ pc[Before] = "deliver" /\ ~VrLocked
    /\ Queued("enc", s)
    /\ IF m_bEnable \/ m_bEnableHdmi
         THEN /\ ref' = [ref EXCEPT ![s] = @ + 2]
              /\ shown' = IF m_hDsp THEN Append(shown, s) ELSE shown
              /\ prev' = [prev EXCEPT !["vr"] = s]
              /\ Goto(Before, IF prev["vr"] = None THEN "leave" ELSE "dequeue")
              /\ rel' = [rel EXCEPT ![Before] = prev["vr"]]
         ELSE /\ ref' = [ref EXCEPT ![s] = @ + 1]
              /\ Goto(Before, "leave")
              /\ UNCHANGED <<shown, prev, rel>>
    /\ UNCHANGED <<m_SampleOutQueue, m_ReleaseQueue, m_pSemOut, driver, image, m_bThreadExit,
                   mdVars, m_hDsp, m_bEnable, m_bEnableHdmi, cur, ret, appVars>>

(* The display gives a picture back when there is a newer one to show.     *)
DspDequeue ==
    /\ pc[Before] = "dequeue"
    /\ m_hDsp => Len(shown) >= 2
    /\ shown' = IF m_hDsp THEN Tail(shown) ELSE shown
    /\ Unlock(Before, rel[Before], "leave")
    /\ UNCHANGED <<m_SampleOutQueue, m_ReleaseQueue, m_pSemOut, driver, image, inQ, m_pSemIn,
                   m_bThreadExit, prev, mdVars, m_hDsp, m_bEnable, m_bEnableHdmi,
                   cur, appVars>>

(***************************************************************************)
(* CNX_MotionDetectFilter::ThreadLoop                                      *)
(***************************************************************************)
(* GetSample of the motion detector and the encoder. *)
GetSample(f) ==
    /\ pc[f] = "get" /\ f # "vip" /\ m_pSemIn[f] > 0
    /\ m_pSemIn' = [m_pSemIn EXCEPT ![f] = @ - 1]
    /\ IF inQ[f] = <<>>
         THEN Goto(f, "test") /\ UNCHANGED <<inQ, cur>>
         ELSE /\ cur' = [cur EXCEPT ![f] = Head(inQ[f])]
              /\ inQ' = [inQ EXCEPT ![f] = Tail(@)]
              /\ Goto(f, IF f = "md" THEN "deliver" ELSE "encode")
    /\ UNCHANGED <<poolVars, m_bThreadExit, prev, mdVars, vrVars, rel, ret, appVars>>

(* One picture in m_SamplingFrame is compared with the last such one and   *)
(* kept in its place.                                                      *)
ForgetPrev(next) == Goto("md", next) /\ UNCHANGED <<ref, rel, ret>> \* a mutant
GiveUpPrev(next) ==
    IF prev["md"] = None
      THEN Goto("md", next) /\ UNCHANGED <<ref, rel, ret>>
      ELSE Unlock("md", prev["md"], next)

DetectMotion ==
    /\ pc["md"] = "motion"
    /\ \/ /\ m_bEnabled /\ m_SamplingFrameCnt % m_SamplingFrame = 0
          /\ m_SamplingFrameCnt' = 1
          /\ GiveUpPrev("test")
          /\ prev' = [prev EXCEPT !["md"] = cur["md"]]
          /\ cur' = [cur EXCEPT !["md"] = None]
       \/ /\ m_bEnabled /\ m_SamplingFrameCnt % m_SamplingFrame # 0
          /\ m_SamplingFrameCnt' = m_SamplingFrameCnt + 1
          /\ Goto("md", "unlock")
          /\ UNCHANGED <<prev, cur, ref, rel, ret>>
       \/ /\ ~m_bEnabled
          /\ m_SamplingFrameCnt' = 0
          /\ GiveUpPrev("unlock")
          /\ prev' = [prev EXCEPT !["md"] = None]
          /\ UNCHANGED cur
    /\ UNCHANGED <<m_SampleOutQueue, m_ReleaseQueue, m_pSemOut, driver, image, inQ, m_pSemIn,
                   m_bThreadExit, m_bEnabled, vrVars, appVars>>

(* After the loop; the picture kept for comparison is not given up. *)
DrainInput(f) ==
    /\ pc[f] = "drain"
    /\ IF inQ[f] = <<>>
         THEN Goto(f, "gone") /\ UNCHANGED <<inQ, ref, rel, ret>>
         ELSE /\ Unlock(f, Head(inQ[f]), "drain")
              /\ inQ' = [inQ EXCEPT ![f] = Tail(@)]
    /\ UNCHANGED <<m_SampleOutQueue, m_ReleaseQueue, m_pSemOut, driver, image, m_pSemIn,
                   m_bThreadExit, prev, mdVars, vrVars, cur, appVars>>

(***************************************************************************)
(* CNX_H264Encoder::ThreadLoop.  It waits for an output sample and encodes *)
(* the picture, or drops it: either way it takes its time and gives the    *)
(* picture up.                                                             *)
(***************************************************************************)
Encode ==
    /\ pc["enc"] = "encode" /\ Unlock("enc", cur["enc"], "test")
    /\ cur' = [cur EXCEPT !["enc"] = None]
    /\ UNCHANGED <<m_SampleOutQueue, m_ReleaseQueue, m_pSemOut, driver, image, inQ, m_pSemIn,
                   m_bThreadExit, prev, mdVars, vrVars, appVars>>

(***************************************************************************)
(* The manager.  Its calls hold its own lock, so they come one at a time;  *)
(* each is the list of the filters' calls it makes.                        *)
(***************************************************************************)
Running == pc["enc"] # "gone"
Stopping == {"StopVip", "JoinVip", "JoinMd", "StopVr", "StopEnc", "JoinEnc"}
Due(call) == pc["app"] = "call" /\ todo # <<>> /\ Head(todo) = call

(* EnableRender(true) and the Run of every filter from the end to the      *)
(* camera.  With a motion detector only one run is modelled: the next may  *)
(* begin while it keeps a picture of the last - its Stop does not give it  *)
(* up - and Begin then queues memory that is still read.                   *)
Start ==
    /\ todo = <<>> /\ ~Running
    /\ (m_MdEnable => calls = 0) /\ calls < MaxCall /\ calls' = calls + 1
    /\ m_hDsp' = (m_hDsp \/ m_DisplayEnable)
    /\ m_bEnable' = (m_bEnable \/ m_DisplayEnable)
    /\ m_bEnabled' \in (IF m_MdEnable THEN BOOLEAN ELSE {FALSE})
    /\ m_bThreadExit' = [f \in Filter |-> FALSE]
    /\ pc' = [t \in Thread |-> IF t \in Filter /\ (t = "md" => m_MdEnable) THEN "begin" ELSE pc[t]]
    /\ UNCHANGED <<poolVars, inQ, m_pSemIn, prev, m_SamplingFrameCnt, m_bEnableHdmi,
                   shown, cur, rel, ret, todo, m_DisplayEnable, m_MdEnable>>

(* The manager's thread changes between normal and motion mode. *)
EnableMotionDetect ==
    /\ m_MdEnable /\ Running /\ ToSet(todo) \cap Stopping = {}
    /\ calls < MaxCall /\ calls' = calls + 1
    /\ m_bEnabled' = ~m_bEnabled
    /\ UNCHANGED <<poolVars, inQ, m_pSemIn, m_bThreadExit, prev, m_SamplingFrameCnt, vrVars,
                   threadVars, todo, m_DisplayEnable, m_MdEnable>>

Call(list) ==
    /\ todo = <<>> /\ todo' = list
    /\ UNCHANGED <<poolVars, inQ, m_pSemIn, m_bThreadExit, prev, mdVars, vrVars, threadVars,
                   m_MdEnable>>

Off == <<"RenderOff", "HdmiOff">>
Stop ==
    /\ Running /\ Call(<<"StopVip", "JoinVip", "JoinMd", "StopVr", "StopEnc", "JoinEnc">>)
    /\ UNCHANGED <<m_DisplayEnable, calls>>
SetDisplay ==
    /\ calls < MaxCall /\ calls' = calls + 1
    /\ m_DisplayEnable' = ~m_DisplayEnable
    /\ Call(IF m_DisplayEnable THEN Off ELSE <<"RenderOn">>)
SetPreview ==
    /\ calls < MaxCall /\ calls' = calls + 1
    /\ m_DisplayEnable /\ UNCHANGED m_DisplayEnable
    /\ \E on \in {"RenderOn", "HdmiOn"} : Call(Append(Off, on))

Done == todo' = Tail(todo) /\ UNCHANGED <<m_DisplayEnable, m_MdEnable, calls>>

(* CNX_VRFilter::EnableRender and EnableHdmiRender *)
TurnOn ==
    /\ Due("RenderOn") \/ Due("HdmiOn")
    /\ ~VrLocked
    /\ m_hDsp' = TRUE
    /\ m_bEnable' = (m_bEnable \/ Due("RenderOn"))
    /\ m_bEnableHdmi' = (m_bEnableHdmi \/ Due("HdmiOn"))
    /\ Done
    /\ UNCHANGED <<poolVars, inQ, m_pSemIn, m_bThreadExit, prev, mdVars, shown,
                   threadVars>>

(* They close the display when they turn it off, as Stop does. *)
CloseDisplay ==
    /\ ~VrLocked
    /\ m_hDsp' = FALSE /\ shown' = <<>>
    /\ prev' = [prev EXCEPT !["vr"] = None]
    /\ IF prev["vr"] = None
         THEN UNCHANGED <<ref, pc, rel, ret>>
         ELSE Unlock("app", prev["vr"], "leave")
    /\ Done
    /\ UNCHANGED <<m_SampleOutQueue, m_ReleaseQueue, m_pSemOut, driver, image, inQ, m_pSemIn,
                   m_bThreadExit, mdVars, cur>>

TurnOff ==
    /\ Due("RenderOff") \/ Due("HdmiOff")
    /\ CloseDisplay
    /\ m_bEnable' = (m_bEnable /\ ~Due("RenderOff"))
    /\ m_bEnableHdmi' = (m_bEnableHdmi /\ ~Due("HdmiOff"))

StopVr == Due("StopVr") /\ CloseDisplay /\ UNCHANGED <<m_bEnable, m_bEnableHdmi>>

(* Stop of the filters with a thread: they are told, woken and joined. *)
StopVip ==
    /\ Due("StopVip") /\ Done
    /\ m_bEnabled' = FALSE
    /\ m_bThreadExit' = [m_bThreadExit EXCEPT !["vip"] = TRUE]
    /\ m_pSemOut' = m_pSemOut + 1
    /\ UNCHANGED <<m_SampleOutQueue, m_ReleaseQueue, driver, image, ref, inQ, m_pSemIn, prev,
                   m_SamplingFrameCnt, vrVars, threadVars>>

(* NX_VipClose; then the motion detector is stopped, if there is one. *)
JoinVip ==
    /\ Due("JoinVip") /\ pc["vip"] = "gone" /\ Done
    /\ driver' = 0
    /\ m_bThreadExit' = [m_bThreadExit EXCEPT !["md"] = TRUE]
    /\ m_pSemIn' = [m_pSemIn EXCEPT !["md"] = @ + (IF m_MdEnable THEN 1 ELSE 0)]
    /\ UNCHANGED <<m_SampleOutQueue, m_ReleaseQueue, m_pSemOut, image, ref, inQ, prev, mdVars,
                   vrVars, threadVars>>

Join(f) ==
    /\ f # "vip" /\ Due(IF f = "md" THEN "JoinMd" ELSE "JoinEnc") /\ pc[f] = "gone" /\ Done
    /\ UNCHANGED <<poolVars, inQ, m_pSemIn, m_bThreadExit, prev, mdVars, vrVars, threadVars>>

StopEncUnwoken == \* a mutant: without the Post
    /\ Due("StopEnc") /\ Done
    /\ m_bThreadExit' = [m_bThreadExit EXCEPT !["enc"] = TRUE]
    /\ UNCHANGED <<poolVars, inQ, m_pSemIn, prev, mdVars, vrVars, threadVars>>

StopEnc ==
    /\ Due("StopEnc") /\ Done
    /\ m_bThreadExit' = [m_bThreadExit EXCEPT !["enc"] = TRUE]
    /\ m_pSemIn' = [m_pSemIn EXCEPT !["enc"] = @ + 1]
    /\ UNCHANGED <<poolVars, inQ, prev, mdVars, vrVars, threadVars>>

-----------------------------------------------------------------------------
Init ==
    /\ m_SampleOutQueue = [i \in Sample |-> i] /\ m_ReleaseQueue = 0 /\ m_pSemOut = 0
    /\ driver = 0 /\ image = {} /\ ref = [s \in Sample |-> 0]
    /\ inQ = [f \in {"md", "enc"} |-> <<>>] /\ m_pSemIn = [f \in {"md", "enc"} |-> 0]
    /\ m_bThreadExit = [f \in Filter |-> TRUE]
    /\ prev = [f \in {"md", "vr"} |-> None]
    /\ m_bEnabled = FALSE /\ m_SamplingFrameCnt = 0
    /\ m_hDsp = FALSE /\ m_bEnable = FALSE /\ m_bEnableHdmi = FALSE
    /\ shown = <<>>
    /\ pc = [t \in Thread |-> IF t = "app" THEN "call" ELSE "gone"]
    /\ cur = [t \in Thread |-> None] /\ rel = [t \in Thread |-> None]
    /\ ret = [t \in Thread |-> "call"]
    /\ todo = <<>> /\ m_DisplayEnable \in BOOLEAN
    /\ m_MdEnable \in BOOLEAN /\ calls = 0

Release(t) == ReleaseMemory(t) \/ ReleaseToQueue(t)
Display(t) == t = Before /\ (VrReceive \/ DspDequeue)
VipThread == Begin \/ GetDeliverySample \/ Capture \/ DeliverToDetector \/ UnlockOwn("vip")
             \/ Release("vip") \/ Display("vip")
MdThread == BeginLoop("md") \/ GetSample("md") \/ DetectMotion \/ UnlockOwn("md")
            \/ DrainInput("md") \/ Release("md") \/ Display("md")
EncThread == BeginLoop("enc") \/ GetSample("enc") \/ Encode \/ DrainInput("enc") \/ Release("enc")
CallStep == TurnOn \/ TurnOff \/ StopVr \/ StopVip \/ JoinVip \/ Join("md") \/ StopEnc
            \/ Join("enc") \/ Release("app")

Next == VipThread \/ MdThread \/ EncThread \/ CallStep
        \/ Start \/ EnableMotionDetect \/ Stop \/ SetDisplay \/ SetPreview

Spec == Init /\ [][Next]_vars

(* Every thread goes on, and a call that waits for the display's lock gets *)
(* it between two pictures.                                                *)
Fairness ==
    /\ WF_vars(VipThread) /\ WF_vars(MdThread) /\ WF_vars(EncThread)
    /\ SF_vars(CallStep)
FairSpec == Spec /\ Fairness

-----------------------------------------------------------------------------
(***************************************************************************)
(* Properties.                                                             *)
(***************************************************************************)
Pc == {"begin", "get", "capture", "deliver", "unlock", "dequeue", "motion", "drain",
       "encode", "gone", "call", "memory", "home"}
TypeOK ==
    /\ m_SampleOutQueue \in Seq(Sample) /\ {m_ReleaseQueue, driver, m_pSemOut} \subseteq Nat
    /\ image \subseteq Sample /\ ref \in [Sample -> Nat]
    /\ inQ \in [{"md", "enc"} -> Seq(Sample)] /\ m_pSemIn \in [{"md", "enc"} -> Nat]
    /\ m_bThreadExit \in [Filter -> BOOLEAN]
    /\ prev \in [{"md", "vr"} -> Sample \cup {None}]
    /\ m_bEnabled \in BOOLEAN /\ m_SamplingFrameCnt \in 0..m_SamplingFrame
    /\ shown \in Seq(Sample)
    /\ {m_hDsp, m_bEnable, m_bEnableHdmi, m_DisplayEnable, m_MdEnable} \subseteq BOOLEAN
    /\ pc \in [Thread -> Pc] /\ ret \in [Thread -> Pc \cup {"test", "leave"}]
    /\ cur \in [Thread -> Sample \cup {None}] /\ rel \in [Thread -> Sample \cup {None}]

Times(x, seq) == Cardinality({i \in DOMAIN seq : seq[i] = x})

(* A sample is at home, on its way home, or has as many references as      *)
(* there are places that hold it: none is given up twice or kept by        *)
(* nobody, on whatever thread the last reference goes.  Once a Stop has    *)
(* returned all are at home but the one the motion detector compares with. *)
Holders(s) ==
      Times(s, inQ["md"]) + Times(s, inQ["enc"])
    + Cardinality({t \in Thread : cur[t] = s}) + Cardinality({f \in {"md", "vr"} : prev[f] = s})
    + Cardinality({t \in Thread : pc[t] = "dequeue" /\ rel[t] = s})
Counted ==
    /\ TypeOK
    /\ \A s \in Sample :
        /\ ref[s] = Holders(s)
        /\ Times(s, m_SampleOutQueue)
           + Cardinality({t \in Thread : pc[t] \in {"memory", "home"} /\ rel[t] = s})
           = (IF ref[s] = 0 THEN 1 ELSE 0)
    /\ ~Running /\ todo = <<>> => Len(m_SampleOutQueue) = NumBuffer - (IF prev["md"] = None THEN 0 ELSE 1)

(* Until it is stopped every block of memory is with the driver, waits to  *)
(* be queued to it, or is a picture that somebody still reads: what the    *)
(* camera may write to is not read, and no memory is queued twice or lost. *)
MemoryOnce ==
    pc["vip"] # "begin" /\ ~m_bThreadExit["vip"] =>
        driver + m_ReleaseQueue + Cardinality(image) = NumBuffer

(* Until it is stopped the camera's thread never asks the driver for a     *)
(* picture that the driver cannot give: the semaphore counts one less than *)
(* there are samples.                                                      *)
EnoughQueued ==
    pc["vip"] = "capture" /\ ~m_bThreadExit["vip"] => Requeued >= 2

(* Every call of the manager returns, and pictures go on coming: a sample  *)
(* is waited for, but not for ever, however many pictures the display, the *)
(* motion detector and the encoder keep.                                   *)
Progress ==
    /\ (todo # <<>>) ~> (todo = <<>>)
    /\ (pc["vip"] = "get") ~> (pc["vip"] # "get")
=============================================================================
