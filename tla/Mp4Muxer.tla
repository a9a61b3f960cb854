------------------------------ MODULE Mp4Muxer ------------------------------
(***************************************************************************)
(* CNX_Mp4MuxerFilter: the last filter of the MP4 recorder.  Receive, on   *)
(* the buffering filter's thread, starts and stops a file when a flag      *)
(* sample asks for it and puts encoded samples into the multiplexer, a     *)
(* prebuilt library.  The library asks for write buffers and hands full    *)
(* ones back through two callbacks; a thread that lives as long as the     *)
(* file writes them.                                                       *)
(*                                                                         *)
(* What the library hands over is numbered within its file.  A file is a   *)
(* record of the start flag that made it: files[n] belongs to the n-th.    *)
(***************************************************************************)
EXTENDS Integers, Sequences, Functions

CONSTANTS
    Video, Other,   \* tracks: video, and audio or text
    Streams,        \* sequences of samples, one of which is received
    MaxTime,        \* bound: time stamps
    Kinds,          \* the kinds of the start flags received, in their order
    MaxChunk,       \* bound: buffers the library hands over while samples are put
    MaxRun,         \* bound: times Run is called
    MaxFail,        \* bound: failures of open and write
    NumBuffer       \* NUM_STRM_BUFFER

Kind == {"NORMAL", "EVENT"}
ASSUME KindAssumption == Kinds \in Seq(Kind)
ASSUME TrackAssumption == Video \cap Other = {} /\ Video # {}
ASSUME BoundAssumption ==
    {MaxTime, MaxChunk, MaxRun, MaxFail} \subseteq Nat
ASSUME BufferAssumption == NumBuffer \in Nat \ {0}

Track == Video \cup Other
Time == 0..MaxTime
Sample == [track : Track, key : BOOLEAN, time : Time]
ASSUME StreamAssumption ==
    \A stream \in Streams :
        /\ stream \in Seq(Sample)
        \* the times of a track go up, and key is for video tracks
        /\ \A i, j \in DOMAIN stream :
              i < j /\ stream[i].track = stream[j].track => stream[i].time < stream[j].time
        /\ \A i \in DOMAIN stream : stream[i].track \in Other => stream[i].key
Chunk == [file : Nat, n : Nat]
Full == [buf : 1..NumBuffer, chunk : Chunk]

VARIABLES
    upc,            \* the thread inside Receive or Stop
    call,           \* the library call it makes: "put", "close"
    left,           \* buffers the library still hands over in that call
    tpc,            \* ThreadLoop
    m_bRun, m_bEnableMux, m_bThreadExit, m_bStartMuxing,
    m_hMp4Mux,      \* TRUE while the library is open
    semStream, semWriter,
    streamQ,        \* m_StreamQueue: free buffers
    writerQ,        \* m_WriterQueue: full buffers
    libBuf,         \* the buffer the library fills, 0 if none
    buf,            \* <<>>, or the buffer the thread popped
    m_OutFd,        \* 0, or the number of the open file
    m_FileName,     \* 0, or the number of the name
    m_Flags,        \* of the last sample received
    m_WritingMode,
    m_MuxStartTime,
    info,           \* m_bTrackStart, m_TrackInfo: per track
    files, names,   \* every file started, names asked for
    want,           \* the file the buffering filter has started, "none"
    got, put,       \* per track: samples received and put for this file
    notes,          \* files announced; 0xF003 and 0xF004 are left out
    input,          \* samples still to come
    runs, fails

caller == <<upc, call, left>>
status == <<m_bRun, m_bEnableMux, m_bThreadExit, m_bStartMuxing, m_hMp4Mux>>
buffers == <<streamQ, writerQ, libBuf, buf>>
naming == <<m_FileName, m_Flags, m_WritingMode, names, want>>
tracks == <<m_MuxStartTime, info, got, put, input>>
output == <<files, notes, fails>>
vars == <<caller, tpc, status, semStream, semWriter, buffers, m_OutFd, naming, tracks,
          output, runs>>

NoTrack == [started |-> FALSE, held |-> {}, total |-> 0]

Init ==
    /\ upc = "idle" /\ call = "put" /\ left = 0 /\ tpc = "none"
    /\ m_bRun = FALSE /\ m_bEnableMux = FALSE /\ m_bThreadExit = TRUE
    /\ m_bStartMuxing = FALSE /\ m_hMp4Mux = FALSE
    /\ semStream = 0 /\ semWriter = 0
    /\ streamQ = <<>> /\ writerQ = <<>> /\ libBuf = 0 /\ buf = <<>>
    /\ m_OutFd = 0 /\ m_FileName = 0 /\ m_Flags = "NONE" /\ m_WritingMode = "NORMAL"
    /\ m_MuxStartTime = 0 /\ info = [t \in Track |-> NoTrack]
    /\ files = <<>> /\ names = 0 /\ want = "none"
    /\ got = [t \in Track |-> <<>>] /\ put = [t \in Track |-> <<>>]
    /\ notes = <<>>
    /\ input \in Streams /\ runs = 0 /\ fails = 0

(***************************************************************************)
(* Notifier, semaphores and system calls.                                  *)
(***************************************************************************)
Note(code) == [code |-> code, name |-> m_FileName]
DoneCode(kind) == IF kind = "NORMAL" THEN "NORMAL_DONE" ELSE "EVENT_DONE"

StartOf(kind) == IF kind = "NORMAL" THEN "NORMAL_START" ELSE "EVENT_START"
StopOf(kind) == IF kind = "NORMAL" THEN "NORMAL_STOP" ELSE "EVENT_STOP"

(* CNX_Semaphore::Post of m_pSemWriter, for the thread. *)
PostWriterWithoutSignal == semWriter' = semWriter + 1 /\ UNCHANGED tpc
PostWriter ==
    /\ semWriter' = semWriter + 1
    /\ tpc' = IF tpc = "wait" THEN "woken" ELSE tpc

(* CNX_Semaphore::Post of m_pSemStream, for the library's callback. *)
PostStream ==
    /\ semStream' = semStream + 1
    /\ upc' = IF upc = "wait" THEN "woken" ELSE upc

(***************************************************************************)
(* Start flag: SetMuxConfig and StartMuxing.                               *)
(***************************************************************************)
(* m_WriterQueue.Reset() *)
ResetWriterForgotten == writerQ
ResetWriter == <<>>

(* The name is asked for unless one is left; SetMuxConfig opens the file,  *)
(* and the library is opened whether or not that worked.                   *)
StartFlag(kind) ==
    /\ upc = "idle" /\ m_bRun /\ want = "none"
    /\ Len(files) < Len(Kinds) /\ kind = Kinds[Len(files) + 1]
    /\ want' = kind /\ m_WritingMode' = kind /\ m_Flags' = StartOf(kind)
    /\ m_bEnableMux' = TRUE /\ m_hMp4Mux' = TRUE
    /\ streamQ' = [i \in 1..NumBuffer |-> i] /\ semStream' = NumBuffer
    /\ writerQ' = ResetWriter /\ libBuf' = 0 /\ buf' = <<>>
    /\ info' = [t \in Track |-> [info[t] EXCEPT !.held = {}, !.total = 0]]
    /\ names' = IF m_FileName = 0 THEN names + 1 ELSE names
    /\ m_FileName' = IF m_FileName = 0 THEN names + 1 ELSE m_FileName
    /\ \E ok \in BOOLEAN :
        /\ ok \/ fails < MaxFail
        /\ files' = Append(files, [kind |-> kind, name |-> m_FileName', opened |-> ok,
                                   chunks |-> 0, data |-> <<>>, failed |-> {},
                                   used |-> FALSE])
        /\ m_OutFd' = IF ok THEN Len(files) + 1 ELSE 0
        /\ fails' = IF ok THEN fails ELSE fails + 1
    /\ m_bStartMuxing' = FALSE /\ m_bThreadExit' = FALSE /\ tpc' = "loop"
    /\ got' = [t \in Track |-> <<>>] /\ put' = [t \in Track |-> <<>>]
    /\ UNCHANGED <<caller, m_bRun, semWriter, notes, m_MuxStartTime, input, runs>>

(***************************************************************************)
(* A sample: MuxEncodedSample.                                             *)
(***************************************************************************)
(* The first sample after a start sets the time all tracks count from.     *)
StartTime(s) == IF m_bStartMuxing THEN m_MuxStartTime ELSE s.time
Info == IF m_bStartMuxing THEN info
        ELSE [t \in Track |-> [info[t] EXCEPT !.started = FALSE, !.total = 0]]

CallLibrary(name, counts) ==
    /\ upc' = "library" /\ call' = name
    /\ \E n \in counts : left' = n

(* Older than the first one: dropped.                                      *)
DropSample(s) ==
    /\ s.time < StartTime(s)
    /\ info' = Info
    /\ UNCHANGED <<caller, put>>

(* The first sample of a track is only kept, a video track starts with a   *)
(* key frame.                                                              *)
Starts(s) == s.track \in Other \/ s.key
StartTrack(s) ==
    /\ s.time >= StartTime(s) /\ ~Info[s.track].started
    /\ info' = IF Starts(s)
                 THEN [Info EXCEPT ![s.track].started = TRUE, ![s.track].held = {s}]
                 ELSE Info
    /\ UNCHANGED <<caller, put>>

(* The one before is put, now that its duration is known.                  *)
DurationFromHeld(s, track) == s.time - (CHOOSE h \in track.held : TRUE).time
DurationOf(s, track) == s.time - StartTime(s) - track.total
HeldStill(s, track) == track.held
HeldNow(s, track) == {s}
PutSample(s) ==
    LET track == Info[s.track]
    IN  /\ s.time >= StartTime(s) /\ track.started
        /\ put' = [put EXCEPT ![s.track] =
                     Append(@, [samples |-> track.held, duration |-> DurationOf(s, track)])]
        /\ info' = [Info EXCEPT ![s.track].held = HeldNow(s, track),
                                ![s.track].total = @ + DurationOf(s, track)]
        /\ CallLibrary("put", IF files[Len(files)].chunks < MaxChunk THEN 0..1 ELSE {0})

(* The buffering filter delivers nothing in the first 700 ms of its run;   *)
(* by then the manager's thread, which Start creates last, has asked for a *)
(* file.  A sample that comes while no file is wanted is given back.       *)
ReceiveSample ==
    /\ upc = "idle" /\ m_bRun /\ input # <<>>
    /\ m_bEnableMux => m_hMp4Mux
    /\ input' = Tail(input) /\ m_Flags' = "NONE"
    /\ LET s == Head(input)
       IN  IF m_bEnableMux
             THEN /\ m_MuxStartTime' = StartTime(s) /\ m_bStartMuxing' = TRUE
                  /\ got' = [got EXCEPT ![s.track] = Append(@, s)]
                  /\ files' = [files EXCEPT ![Len(files)].used = TRUE]
                  /\ DropSample(s) \/ StartTrack(s) \/ PutSample(s)
             ELSE UNCHANGED <<caller, m_bStartMuxing, m_MuxStartTime, info, got, put,
                              files>>
    /\ UNCHANGED <<tpc, m_bRun, m_bEnableMux, m_bThreadExit, m_hMp4Mux, semStream,
                   semWriter, buffers, m_OutFd, m_FileName, m_WritingMode, names, want,
                   notes, fails, runs>>

(***************************************************************************)
(* The library and its callbacks GetBuffer and FileWriter.                 *)
(***************************************************************************)
(* It holds a buffer while it has data that is not handed over, and hands  *)
(* over the last of them when it is closed.                                *)
NeedsBuffer == libBuf = 0 /\ (call = "put" \/ left > 0)

GetPend ==
    /\ upc = "library" /\ NeedsBuffer
    /\ upc' = IF semStream = 0 THEN "wait" ELSE "take"
    /\ semStream' = IF semStream > 0 THEN semStream - 1 ELSE semStream
    /\ UNCHANGED <<call, left, tpc, status, semWriter, buffers, m_OutFd, naming, tracks,
                   output, runs>>

GetWake ==
    /\ upc = "woken"
    /\ upc' = "take" /\ semStream' = semStream - 1
    /\ UNCHANGED <<call, left, tpc, status, semWriter, buffers, m_OutFd, naming, tracks,
                   output, runs>>

GetTake ==
    /\ upc = "take" /\ streamQ # <<>>
    /\ libBuf' = Head(streamQ) /\ streamQ' = Tail(streamQ)
    /\ upc' = "library"
    /\ UNCHANGED <<call, left, tpc, status, semStream, semWriter, writerQ, buf, m_OutFd,
                   naming, tracks, output, runs>>

(* m_WriterQueue.Push *)
Queued(full) == Append(writerQ, full)

Current == Len(files)
GivePush ==
    /\ upc = "library" /\ libBuf # 0 /\ left > 0
    /\ LET n == files[Current].chunks + 1
       IN  /\ writerQ' = Queued([buf |-> libBuf, chunk |-> [file |-> Current, n |-> n]])
           /\ files' = [files EXCEPT ![Current].chunks = n]
    /\ libBuf' = 0 /\ left' = left - 1 /\ upc' = "post"
    /\ UNCHANGED <<call, tpc, status, semStream, semWriter, streamQ, buf, m_OutFd, naming,
                   tracks, notes, fails, runs>>

GivePost ==
    /\ upc = "post"
    /\ PostWriter
    /\ upc' = "library"
    /\ UNCHANGED <<call, left, status, semStream, buffers, m_OutFd, naming, tracks, output,
                   runs>>

LibraryReturns ==
    /\ upc = "library" /\ left = 0 /\ ~NeedsBuffer
    /\ upc' = IF call = "put" THEN "idle" ELSE "exit"
    /\ m_hMp4Mux' = (call = "put")
    /\ UNCHANGED <<call, left, tpc, m_bRun, m_bEnableMux, m_bThreadExit, m_bStartMuxing,
                   semStream, semWriter, buffers, m_OutFd, naming, tracks, output, runs>>

(***************************************************************************)
(* StopMuxing, from a stop flag and from Stop, which comes when nobody is  *)
(* in Receive: the filters upstream stop first.                            *)
(***************************************************************************)
StopMuxing ==
    IF m_bThreadExit THEN UNCHANGED caller ELSE CallLibrary("close", 1..2)

StopFlag(kind) ==
    /\ upc = "idle" /\ m_bRun /\ want \in {kind, "none"}
    /\ m_Flags' = StopOf(kind)
    /\ m_bEnableMux' = FALSE
    /\ want' = "none"
    /\ StopMuxing
    /\ UNCHANGED <<tpc, m_bRun, m_bThreadExit, m_bStartMuxing, m_hMp4Mux, semStream,
                   semWriter, buffers, m_OutFd, m_FileName, m_WritingMode, names, tracks,
                   output, runs>>

(* m_bEnableMux stays as it is. *)
Stop ==
    /\ upc = "idle" /\ m_bRun
    /\ m_bRun' = FALSE
    /\ want' = "none"
    /\ IF m_bEnableMux THEN StopMuxing ELSE UNCHANGED caller
    /\ UNCHANGED <<tpc, m_bEnableMux, m_bThreadExit, m_bStartMuxing, m_hMp4Mux, semStream,
                   semWriter, buffers, m_OutFd, m_FileName, m_Flags, m_WritingMode, names,
                   tracks, output, runs>>

Run ==
    /\ upc = "idle" /\ ~m_bRun /\ runs < MaxRun
    /\ m_bRun' = TRUE /\ runs' = runs + 1
    /\ UNCHANGED <<caller, tpc, m_bEnableMux, m_bThreadExit, m_bStartMuxing, m_hMp4Mux,
                   semStream, semWriter, buffers, m_OutFd, naming, tracks, output>>

SetExit ==
    /\ upc = "exit"
    /\ m_bThreadExit' = TRUE /\ upc' = "wake"
    /\ UNCHANGED <<call, left, tpc, m_bRun, m_bEnableMux, m_bStartMuxing, m_hMp4Mux,
                   semStream, semWriter, buffers, m_OutFd, naming, tracks, output, runs>>

WakeThread ==
    /\ upc = "wake"
    /\ PostWriter
    /\ upc' = "join"
    /\ UNCHANGED <<call, left, status, semStream, buffers, m_OutFd, naming, tracks, output,
                   runs>>

(* The code of the announcement: by the stop flag, else by the mode.       *)
DoneNotes ==
    CASE m_Flags \in {"NORMAL_STOP", "EVENT_STOP"} ->
            <<Note(IF m_Flags = "NORMAL_STOP" THEN "NORMAL_DONE" ELSE "EVENT_DONE")>>
      [] m_Flags = "NONE" -> <<Note(DoneCode(m_WritingMode))>>
      [] OTHER -> <<>>

(* memset( m_FileName, 0x00, ... ) *)
NameKept == m_FileName
NameCleared == 0

(* pthread_join; then the size is written at the head of the file, whether *)
(* or not that works the file is closed, and announced, if it is open.     *)
Join ==
    /\ upc = "join" /\ tpc = "done"
    /\ tpc' = "none" /\ upc' = "idle" /\ call' = "put"
    /\ IF m_OutFd # 0
         THEN notes' = notes \o DoneNotes /\ m_OutFd' = 0 /\ m_FileName' = NameCleared
         ELSE UNCHANGED <<notes, m_OutFd, m_FileName>>
    /\ got' = [t \in Track |-> <<>>] /\ put' = [t \in Track |-> <<>>]
    /\ UNCHANGED <<left, status, semStream, semWriter, buffers, m_Flags,
                   m_WritingMode, names, want, m_MuxStartTime, info, input, files, fails, runs>>

(***************************************************************************)
(* ThreadLoop.                                                             *)
(***************************************************************************)
LoopTest ==
    /\ tpc = "loop"
    /\ tpc' = IF m_bThreadExit THEN "done" ELSE "pend"
    /\ UNCHANGED <<caller, status, semStream, semWriter, buffers, m_OutFd, naming, tracks,
                   output, runs>>

ThreadPend ==
    /\ tpc = "pend"
    /\ tpc' = IF semWriter = 0 THEN "wait" ELSE "pop"
    /\ semWriter' = IF semWriter > 0 THEN semWriter - 1 ELSE semWriter
    /\ UNCHANGED <<caller, status, semStream, buffers, m_OutFd, naming, tracks, output, runs>>

ThreadWake ==
    /\ tpc = "woken"
    /\ tpc' = "pop" /\ semWriter' = semWriter - 1
    /\ UNCHANGED <<caller, status, semStream, buffers, m_OutFd, naming, tracks, output, runs>>

Pop ==
    /\ tpc = "pop"
    /\ IF writerQ # <<>>
         THEN buf' = <<Head(writerQ)>> /\ writerQ' = Tail(writerQ) /\ tpc' = "write"
         ELSE tpc' = "loop" /\ UNCHANGED <<buf, writerQ>>
    /\ UNCHANGED <<caller, status, semStream, semWriter, streamQ, libBuf, m_OutFd, naming,
                   tracks, output, runs>>

(* m_StreamQueue.Push *)
FreedNot == streamQ
Freed == Append(streamQ, buf[1].buf)

(* A write may fail or stop short; with no file open nothing is written.   *)
(* The buffer is given back in each case.                                  *)
ThreadWrite ==
    /\ tpc = "write"
    /\ \/ /\ m_OutFd # 0
          /\ files' = [files EXCEPT ![m_OutFd].data = Append(@, buf[1].chunk)]
          /\ UNCHANGED fails
       \/ /\ m_OutFd # 0 /\ fails < MaxFail
          /\ fails' = fails + 1
          /\ files' = [files EXCEPT ![m_OutFd].failed = @ \cup {buf[1].chunk}]
       \/ m_OutFd = 0 /\ UNCHANGED <<files, fails>>
    /\ streamQ' = Freed /\ buf' = <<>>
    /\ tpc' = "post"
    /\ UNCHANGED <<caller, status, semStream, semWriter, writerQ, libBuf, m_OutFd, naming,
                   tracks, notes, runs>>

ThreadPost ==
    /\ tpc = "post"
    /\ PostStream
    /\ tpc' = "pop"
    /\ UNCHANGED <<call, left, status, semWriter, buffers, m_OutFd, naming, tracks, output,
                   runs>>

-----------------------------------------------------------------------------
Library ==
    \/ GetPend \/ GetWake \/ GetTake \/ GivePush \/ GivePost \/ LibraryReturns
Stopping == SetExit \/ WakeThread \/ Join
ThreadLoop ==
    LoopTest \/ ThreadPend \/ ThreadWake \/ Pop \/ ThreadWrite \/ ThreadPost
Receive ==
    \/ \E kind \in Kind : StartFlag(kind) \/ StopFlag(kind)
    \/ ReceiveSample

Next == Receive \/ Stop \/ Run \/ Library \/ Stopping \/ ThreadLoop

(* The library and the threads go on; nobody has to call.                  *)
Fairness == WF_vars(Library \/ Stopping) /\ WF_vars(ThreadLoop)

Spec == Init /\ [][Next]_vars
FairSpec == Spec /\ Fairness

-----------------------------------------------------------------------------
(***************************************************************************)
(* Properties.                                                             *)
(***************************************************************************)
TypeOK ==
    /\ upc \in {"idle", "library", "wait", "woken", "take", "post", "exit", "wake",
                "join"}
    /\ call \in {"put", "close"} /\ left \in 0..2
    /\ tpc \in {"none", "loop", "pend", "wait", "woken", "pop", "write", "post", "done"}
    /\ {m_bRun, m_bEnableMux, m_bThreadExit, m_bStartMuxing, m_hMp4Mux} \subseteq BOOLEAN
    /\ semStream \in 0..NumBuffer /\ semWriter \in Nat
    /\ streamQ \in Seq(1..NumBuffer) /\ writerQ \in Seq(Full)
    /\ libBuf \in 0..NumBuffer /\ (buf = <<>> \/ (Len(buf) = 1 /\ buf[1] \in Full))
    /\ m_OutFd \in 0..Len(files) /\ m_FileName \in 0..names
    /\ m_Flags \in {"NONE"} \cup {StartOf(k) : k \in Kind} \cup {StopOf(k) : k \in Kind}
    /\ m_WritingMode \in Kind /\ want \in Kind \cup {"none"}
    /\ m_MuxStartTime \in Time
    /\ \A t \in Track : /\ info[t].started \in BOOLEAN /\ info[t].held \subseteq Sample
                        /\ info[t].total \in Time
                        /\ got[t] \in Seq(Sample)

(* While a file is being made no write buffer is in two hands or in none:  *)
(* the free queue, the queue of full ones, the library and the thread      *)
(* share all of them, and what the semaphore lets GetBuffer take is there; *)
(* every variable keeps its type.                                          *)
BufferPlaces ==
    streamQ \o [i \in DOMAIN writerQ |-> writerQ[i].buf]
            \o (IF libBuf = 0 THEN <<>> ELSE <<libBuf>>)
            \o [i \in DOMAIN buf |-> buf[i].buf]
BuffersConserved ==
    /\ TypeOK
    /\ files # <<>> => Len(BufferPlaces) = NumBuffer /\ Range(BufferPlaces) = 1..NumBuffer
    /\ upc = "take" => streamQ # <<>>

(* A file holds only what the library made for it, in order, and but for   *)
(* failed writes without a hole: what is missing is a tail.  A buffer that *)
(* one session leaves behind is not written into the file of the next.     *)
OwnFileInOrder ==
    \A f \in DOMAIN files :
        LET data == files[f].data
            done == Range(data) \cup files[f].failed
        IN  /\ \A i, j \in DOMAIN data : i < j => data[i].n < data[j].n
            /\ \A c \in done : c.file = f /\ c.n <= files[f].chunks
            /\ \A c \in done : \A n \in 1..c.n : [file |-> f, n |-> n] \in done

(* All samples of a track that were put or are held for this file are the  *)
(* latest ones received, without a gap; left out are those ahead of them   *)
(* that are older than the start, or come before the first key frame.      *)
Taken(t) ==
    [i \in DOMAIN put[t] |-> put[t][i].samples]
        \o (IF info[t].held = {} THEN <<>> ELSE <<info[t].held>>)
TrackWithoutGap ==
    tpc # "none" => \A t \in Track :
        LET skipped == Len(got[t]) - Len(Taken(t))
        IN  /\ \A i \in DOMAIN Taken(t) : Taken(t)[i] = {got[t][skipped + i]}
            /\ \A i \in 1..skipped :
                  \/ got[t][i].time < m_MuxStartTime
                  \/ t \in Video /\ ~got[t][i].key
            /\ t \in Video /\ Taken(t) # <<>> => got[t][skipped + 1].key

(* A sample that is put lasts until the one after it in its track begins,  *)
(* and the first one from the start that all tracks share: the durations   *)
(* put so far end where the sample that is held begins, and picture and    *)
(* sound do not drift apart.                                               *)
InSync ==
    \A t \in Track : \A i \in DOMAIN put[t] :
        \A s \in Taken(t)[i], next \in Taken(t)[i + 1] :
            put[t][i].duration = next.time - (IF i = 1 THEN m_MuxStartTime ELSE s.time)

DoneCodes == {"NORMAL_DONE", "EVENT_DONE"}
NotesOf(f) == {i \in DOMAIN notes : notes[i].code \in DoneCodes /\ notes[i].name = files[f].name}

(* A file that got a sample is announced once, when it is closed, under    *)
(* the kind and the name it was started with; no two files that could be   *)
(* opened share a name, so none is overwritten.                            *)
AnnouncedOnce ==
    /\ \A f \in DOMAIN files : files[f].opened /\ files[f].used =>
          IF f = m_OutFd THEN NotesOf(f) = {}
          ELSE \E i \in NotesOf(f) : NotesOf(f) = {i} /\ notes[i].code = DoneCode(files[f].kind)
    /\ \A f, g \in DOMAIN files :
          files[f].opened /\ files[g].opened /\ files[f].name = files[g].name => f = g

(* A sample waits for a free buffer and a stop for the thread: both end.   *)
CallReturns == (upc # "idle") ~> (upc = "idle")
=============================================================================
