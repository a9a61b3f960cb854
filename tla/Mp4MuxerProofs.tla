---------------------------- MODULE Mp4MuxerProofs ----------------------------
(***************************************************************************)
(* Theorems about CNX_Mp4MuxerFilter for any tracks and streams, any       *)
(* number of files, buffers, runs and failures: types and write buffers,   *)
(* what a file holds, the samples of a track and their durations, and what *)
(* is announced.                                                           *)
(***************************************************************************)
EXTENDS Mp4Muxer, TLAPS

USE KindAssumption, BoundAssumption, BufferAssumption

-----------------------------------------------------------------------------
(***************************************************************************)
(* Sequences.                                                              *)
(***************************************************************************)
LEMMA RangeOf ==
    ASSUME NEW S, NEW q \in Seq(S)
    PROVE  /\ Range(q) = {q[i] : i \in 1..Len(q)} /\ Range(q) \subseteq S
           /\ \A x : x \in Range(q) <=> \E i \in 1..Len(q) : x = q[i]
           /\ Len(q) \in Nat /\ DOMAIN q = 1..Len(q)
  BY DEF Range

LEMMA Joined ==
    ASSUME NEW S, NEW a \in Seq(S), NEW b \in Seq(S)
    PROVE  /\ a \o b \in Seq(S) /\ Len(a \o b) = Len(a) + Len(b)
           /\ Len(a) \in Nat /\ Len(b) \in Nat
           /\ \A i \in 1..Len(a) : i \in 1..Len(a \o b) /\ (a \o b)[i] = a[i]
           /\ \A i \in 1..Len(b) : Len(a) + i \in 1..Len(a \o b) /\ (a \o b)[Len(a) + i] = b[i]
           /\ \A i \in 1..Len(a \o b) :
                 \/ i \in 1..Len(a) /\ (a \o b)[i] = a[i]
                 \/ i - Len(a) \in 1..Len(b) /\ (a \o b)[i] = b[i - Len(a)]
<1>1. a \o b \in Seq(S) /\ Len(a \o b) = Len(a) + Len(b) /\ Len(a) \in Nat /\ Len(b) \in Nat
  OBVIOUS
<1>2. \A i \in 1..(Len(a) + Len(b)) : (a \o b)[i] = IF i <= Len(a) THEN a[i] ELSE b[i - Len(a)]
  OBVIOUS
<1>3. \A i \in 1..Len(b) : Len(a) + i \in 1..(Len(a) + Len(b)) /\ ~(Len(a) + i <= Len(a))
                            /\ (Len(a) + i) - Len(a) = i
  BY <1>1
<1> QED BY <1>1, <1>2, <1>3

LEMMA JoinedRange ==
    ASSUME NEW S, NEW a \in Seq(S), NEW b \in Seq(S)
    PROVE  Range(a \o b) = Range(a) \cup Range(b)
<1>1. a \o b \in Seq(S)
  BY Joined
<1>2. ASSUME NEW x \in Range(a \o b) PROVE x \in Range(a) \cup Range(b)
  <2>1. PICK i \in 1..Len(a \o b) : x = (a \o b)[i]
    BY <1>1, RangeOf
  <2> QED BY <2>1, Joined, RangeOf
<1>3. ASSUME NEW x \in Range(a) PROVE x \in Range(a \o b)
  <2>1. PICK i \in 1..Len(a) : x = a[i]
    BY RangeOf
  <2>2. i \in 1..Len(a \o b) /\ (a \o b)[i] = x
    BY <2>1, Joined
  <2> QED BY <1>1, <2>2, RangeOf
<1>4. ASSUME NEW x \in Range(b) PROVE x \in Range(a \o b)
  <2>1. PICK i \in 1..Len(b) : x = b[i]
    BY RangeOf
  <2> DEFINE r == a \o b
             j == Len(a) + i
  <2>2. j \in 1..Len(r) /\ r[j] = x /\ r \in Seq(S)
    BY <2>1, Joined
  <2> HIDE DEF r, j
  <2>3. x \in Range(r)
    BY <2>2, RangeOf
  <2> QED BY <2>3 DEF r
<1> QED BY <1>2, <1>3, <1>4

(* What a queue holds after a push and after a pop. *)
LEMMA Queueing ==
    ASSUME NEW S, NEW q \in Seq(S), NEW x \in S
    PROVE  /\ Append(q, x) \in Seq(S) /\ Append(q, x) # <<>>
           /\ Len(q) \in Nat /\ Len(Append(q, x)) = Len(q) + 1
           /\ \A i \in 1..Len(q) : i \in 1..Len(Append(q, x)) /\ Append(q, x)[i] = q[i]
           /\ Len(q) + 1 \in 1..Len(Append(q, x)) /\ Append(q, x)[Len(q) + 1] = x
           /\ \A i \in 1..Len(Append(q, x)) : i \in 1..Len(q) \/ i = Len(q) + 1
  OBVIOUS

LEMMA Popping ==
    ASSUME NEW S, NEW q \in Seq(S), q # <<>>
    PROVE  /\ Head(q) \in S /\ Head(q) = q[1] /\ 1 \in 1..Len(q)
           /\ Tail(q) \in Seq(S) /\ Len(Tail(q)) = Len(q) - 1 /\ Len(q) \in Nat
           /\ \A i \in 1..Len(Tail(q)) : i + 1 \in 1..Len(q) /\ Tail(q)[i] = q[i + 1]
           /\ \A i \in 1..Len(q) : i # 1 => i - 1 \in 1..Len(Tail(q)) /\ Tail(q)[i - 1] = q[i]
<1>1. /\ Head(q) \in S /\ Head(q) = q[1] /\ 1 \in 1..Len(q)
      /\ Tail(q) \in Seq(S) /\ Len(Tail(q)) = Len(q) - 1 /\ Len(q) \in Nat
      /\ \A i \in 1..Len(Tail(q)) : i + 1 \in 1..Len(q) /\ Tail(q)[i] = q[i + 1]
  OBVIOUS
<1>2. ASSUME NEW i \in 1..Len(q), i # 1 PROVE i - 1 \in 1..Len(Tail(q)) /\ Tail(q)[i - 1] = q[i]
  <2>1. i - 1 \in 1..Len(Tail(q)) /\ (i - 1) + 1 = i
    BY <1>1, <1>2
  <2> QED BY <1>1, <2>1
<1> QED BY <1>1, <1>2

(* One entry of a sequence is replaced. *)
LEMMA Replacing ==
    ASSUME NEW S, NEW q \in Seq(S), NEW i \in 1..Len(q), NEW e \in S
    PROVE  /\ [q EXCEPT ![i] = e] \in Seq(S) /\ Len([q EXCEPT ![i] = e]) = Len(q)
           /\ \A j \in 1..Len(q) : [q EXCEPT ![i] = e][j] = IF j = i THEN e ELSE q[j]
<1> DEFINE r == [q EXCEPT ![i] = e]
<1>1. Len(q) \in Nat /\ q \in [1..Len(q) -> S]
  OBVIOUS
<1>2. r \in [1..Len(q) -> S] /\ \A j \in 1..Len(q) : r[j] = IF j = i THEN e ELSE q[j]
  BY <1>1
<1> HIDE DEF r
<1>3. r \in Seq(S) /\ Len(r) = Len(q)
  BY <1>1, <1>2
<1> QED BY <1>2, <1>3 DEF r

-----------------------------------------------------------------------------
(***************************************************************************)
(* The two threads.  A session lasts from the start flag that creates the  *)
(* thread to the join that ends it.                                        *)
(***************************************************************************)
Flow ==
    /\ upc \in {"idle", "library", "wait", "woken", "take", "post", "exit", "wake", "join"}
    /\ call \in {"put", "close"}
    /\ tpc \in {"none", "loop", "pend", "wait", "woken", "pop", "write", "post", "done"}
    /\ m_WritingMode \in Kind /\ want \in Kind \cup {"none"}
    /\ m_Flags \in {"NONE"} \cup {StartOf(k) : k \in Kind} \cup {StopOf(k) : k \in Kind}

Counts == left \in 0..2 /\ semStream \in Int /\ semWriter \in Int

Flags ==
    /\ m_bRun \in BOOLEAN /\ m_bEnableMux \in BOOLEAN /\ m_bThreadExit \in BOOLEAN
    /\ m_bStartMuxing \in BOOLEAN /\ m_hMp4Mux \in BOOLEAN

Session ==
    /\ tpc = "none" <=> m_bThreadExit /\ upc \notin {"wake", "join"}
    /\ m_hMp4Mux <=> ~m_bThreadExit /\ upc # "exit"
    /\ upc \in {"library", "wait", "woken", "take", "post", "exit"} => ~m_bThreadExit
    /\ upc \in {"wake", "join"} => m_bThreadExit
    /\ upc \in {"exit", "wake", "join"} => call = "close"
    /\ upc = "idle" => call = "put"
    /\ ~m_bThreadExit /\ call = "put" => want # "none" /\ m_bEnableMux /\ m_bRun

Begun == tpc # "none" => files # <<>>

(* What Receive does with a sample, but for the tracks. *)
LEMMA Received ==
    ASSUME ReceiveSample
    PROVE  /\ upc = "idle" /\ m_bRun /\ input # <<>> /\ (m_bEnableMux => m_hMp4Mux)
           /\ \/ UNCHANGED caller
              \/ m_bEnableMux /\ upc' = "library" /\ call' = "put" /\ left' \in 0..1
           /\ m_bStartMuxing' \in {TRUE, m_bStartMuxing}
           /\ m_Flags' = "NONE" /\ input' = Tail(input)
           /\ files' = IF m_bEnableMux THEN [files EXCEPT ![Len(files)].used = TRUE] ELSE files
           /\ UNCHANGED <<tpc, m_bRun, m_bEnableMux, m_bThreadExit, m_hMp4Mux, semStream,
                          semWriter, buffers, m_OutFd, m_FileName, m_WritingMode, names, want,
                          notes, fails, runs>>
<1>1. /\ upc = "idle" /\ m_bRun /\ input # <<>> /\ (m_bEnableMux => m_hMp4Mux)
      /\ m_Flags' = "NONE" /\ input' = Tail(input)
      /\ UNCHANGED <<tpc, m_bRun, m_bEnableMux, m_bThreadExit, m_hMp4Mux, semStream,
                     semWriter, buffers, m_OutFd, m_FileName, m_WritingMode, names, want,
                     notes, fails, runs>>
  BY DEF ReceiveSample
<1>2. CASE ~m_bEnableMux
  BY <1>1, <1>2 DEF ReceiveSample
<1>3. CASE m_bEnableMux
  <2> DEFINE s == Head(input)
  <2>1. m_bStartMuxing' = TRUE /\ files' = [files EXCEPT ![Len(files)].used = TRUE]
        /\ (DropSample(s) \/ StartTrack(s) \/ PutSample(s))
    BY <1>3 DEF ReceiveSample
  <2>2. UNCHANGED caller \/ (upc' = "library" /\ call' = "put" /\ left' \in 0..1)
    BY <2>1 DEF DropSample, StartTrack, PutSample, CallLibrary
  <2> QED BY <1>1, <1>3, <2>1, <2>2
<1> QED BY <1>2, <1>3

LEMMA InitFlow == Init => Flow
  BY DEF Init, Flow, StartOf, StopOf, Kind

LEMMA StepFlow == Flow /\ [Next]_vars => Flow'
<1> SUFFICES ASSUME Flow, [Next]_vars PROVE Flow'
  OBVIOUS
<1>1. ASSUME NEW kind \in Kind, StartFlag(kind) PROVE Flow'
  BY <1>1 DEF StartFlag, caller, Flow, StartOf, StopOf, Kind
<1>2. ASSUME NEW kind \in Kind, StopFlag(kind) PROVE Flow'
  BY <1>2 DEF StopFlag, StopMuxing, CallLibrary, caller, Flow, StartOf, StopOf, Kind
<1>3. CASE ReceiveSample
  BY <1>3, Received DEF caller, Flow, StartOf, StopOf, Kind
<1>4. CASE Stop
  BY <1>4 DEF Stop, StopMuxing, CallLibrary, caller, Flow, StartOf, StopOf, Kind
<1>5. CASE Run
  BY <1>5 DEF Run, caller, naming, output, Flow, StartOf, StopOf, Kind
<1>6. CASE GetPend
  BY <1>6 DEF GetPend, status, naming, output, Flow, StartOf, StopOf, Kind
<1>7. CASE GetWake
  BY <1>7 DEF GetWake, status, naming, output, Flow, StartOf, StopOf, Kind
<1>8. CASE GetTake
  BY <1>8 DEF GetTake, status, naming, output, Flow, StartOf, StopOf, Kind
<1>9. CASE GivePush
  BY <1>9 DEF GivePush, status, naming, output, Flow, StartOf, StopOf, Kind
<1>10. CASE GivePost
  BY <1>10 DEF GivePost, PostWriter, status, naming, output, Flow, StartOf, StopOf, Kind
<1>11. CASE LibraryReturns
  BY <1>11 DEF LibraryReturns, naming, output, Flow, StartOf, StopOf, Kind
<1>12. CASE SetExit
  BY <1>12 DEF SetExit, naming, output, Flow, StartOf, StopOf, Kind
<1>13. CASE WakeThread
  BY <1>13 DEF WakeThread, PostWriter, status, naming, output, Flow, StartOf, StopOf, Kind
<1>14. CASE Join
  BY <1>14 DEF Join, status, naming, output, Flow, StartOf, StopOf, Kind
<1>15. CASE LoopTest
  BY <1>15 DEF LoopTest, caller, status, naming, output, Flow, StartOf, StopOf, Kind
<1>16. CASE ThreadPend \/ ThreadWake
  BY <1>16 DEF ThreadPend, ThreadWake, caller, status, naming, output, Flow, StartOf, StopOf, Kind
<1>17. CASE Pop
  BY <1>17 DEF Pop, caller, status, naming, output, Flow, StartOf, StopOf, Kind
<1>18. CASE ThreadWrite
  BY <1>18 DEF ThreadWrite, caller, status, naming, output, Flow, StartOf, StopOf, Kind
<1>19. CASE ThreadPost
  BY <1>19 DEF ThreadPost, PostStream, status, naming, output, Flow, StartOf, StopOf, Kind
<1>20. CASE UNCHANGED vars
  BY <1>20 DEF vars, caller, status, naming, output, Flow, StartOf, StopOf, Kind
<1> QED
  BY <1>1, <1>2, <1>3, <1>4, <1>5, <1>6, <1>7, <1>8, <1>9, <1>10, <1>11, <1>12, <1>13, <1>14, <1>15,
     <1>16, <1>17, <1>18, <1>19, <1>20 DEF Next, Receive, Library, Stopping, ThreadLoop

LEMMA InitCounts == Init => Counts
  BY DEF Init, Counts

LEMMA StepCounts == Counts /\ [Next]_vars => Counts'
<1> SUFFICES ASSUME Counts, [Next]_vars PROVE Counts'
  OBVIOUS
<1>1. ASSUME NEW kind \in Kind, StartFlag(kind) PROVE Counts'
  <2>1. semStream' = NumBuffer /\ semWriter' = semWriter /\ left' = left
    BY <1>1 DEF StartFlag, caller
  <2> QED BY <2>1 DEF Counts
<1>2. ASSUME NEW kind \in Kind, StopFlag(kind) PROVE Counts'
  BY <1>2 DEF StopFlag, StopMuxing, CallLibrary, caller, Counts
<1>3. CASE ReceiveSample
  <2>1. semStream' = semStream /\ semWriter' = semWriter /\ (UNCHANGED caller \/ left' \in 0..1)
    BY <1>3, Received
  <2>2. left' = left \/ left' \in 0..1
    BY <2>1 DEF caller
  <2> QED BY <2>1, <2>2 DEF Counts
<1>4. CASE Stop
  BY <1>4 DEF Stop, StopMuxing, CallLibrary, caller, Counts
<1>5. CASE Run
  BY <1>5 DEF Run, caller, naming, output, Counts
<1>6. CASE GetPend
  BY <1>6 DEF GetPend, status, naming, output, Counts
<1>7. CASE GetWake
  BY <1>7 DEF GetWake, status, naming, output, Counts
<1>8. CASE GetTake
  BY <1>8 DEF GetTake, status, naming, output, Counts
<1>9. CASE GivePush
  BY <1>9 DEF GivePush, status, naming, output, Counts
<1>10. CASE GivePost
  BY <1>10 DEF GivePost, PostWriter, status, naming, output, Counts
<1>11. CASE LibraryReturns
  BY <1>11 DEF LibraryReturns, naming, output, Counts
<1>12. CASE SetExit
  BY <1>12 DEF SetExit, naming, output, Counts
<1>13. CASE WakeThread
  BY <1>13 DEF WakeThread, PostWriter, status, naming, output, Counts
<1>14. CASE Join
  BY <1>14 DEF Join, status, naming, output, Counts
<1>15. CASE LoopTest
  BY <1>15 DEF LoopTest, caller, status, naming, output, Counts
<1>16. CASE ThreadPend \/ ThreadWake
  BY <1>16 DEF ThreadPend, ThreadWake, caller, status, naming, output, Counts
<1>17. CASE Pop
  BY <1>17 DEF Pop, caller, status, naming, output, Counts
<1>18. CASE ThreadWrite
  BY <1>18 DEF ThreadWrite, caller, status, naming, output, Counts
<1>19. CASE ThreadPost
  BY <1>19 DEF ThreadPost, PostStream, status, naming, output, Counts
<1>20. CASE UNCHANGED vars
  BY <1>20 DEF vars, caller, status, naming, output, Counts
<1> QED
  BY <1>1, <1>2, <1>3, <1>4, <1>5, <1>6, <1>7, <1>8, <1>9, <1>10, <1>11, <1>12, <1>13, <1>14, <1>15,
     <1>16, <1>17, <1>18, <1>19, <1>20 DEF Next, Receive, Library, Stopping, ThreadLoop

LEMMA InitFlags == Init => Flags
  BY DEF Init, Flags

LEMMA StepFlags == Flags /\ [Next]_vars => Flags'
<1> SUFFICES ASSUME Flags, [Next]_vars PROVE Flags'
  OBVIOUS
<1>1. ASSUME NEW kind \in Kind, StartFlag(kind) PROVE Flags'
  BY <1>1 DEF StartFlag, caller, Flags
<1>2. ASSUME NEW kind \in Kind, StopFlag(kind) PROVE Flags'
  BY <1>2 DEF StopFlag, StopMuxing, CallLibrary, caller, Flags
<1>3. CASE ReceiveSample
  BY <1>3, Received DEF caller, Flags
<1>4. CASE Stop
  BY <1>4 DEF Stop, StopMuxing, CallLibrary, caller, Flags
<1>5. CASE Run
  BY <1>5 DEF Run, caller, naming, output, Flags
<1>6. CASE GetPend
  BY <1>6 DEF GetPend, status, naming, output, Flags
<1>7. CASE GetWake
  BY <1>7 DEF GetWake, status, naming, output, Flags
<1>8. CASE GetTake
  BY <1>8 DEF GetTake, status, naming, output, Flags
<1>9. CASE GivePush
  BY <1>9 DEF GivePush, status, naming, output, Flags
<1>10. CASE GivePost
  BY <1>10 DEF GivePost, PostWriter, status, naming, output, Flags
<1>11. CASE LibraryReturns
  BY <1>11 DEF LibraryReturns, naming, output, Flags
<1>12. CASE SetExit
  BY <1>12 DEF SetExit, naming, output, Flags
<1>13. CASE WakeThread
  BY <1>13 DEF WakeThread, PostWriter, status, naming, output, Flags
<1>14. CASE Join
  BY <1>14 DEF Join, status, naming, output, Flags
<1>15. CASE LoopTest
  BY <1>15 DEF LoopTest, caller, status, naming, output, Flags
<1>16. CASE ThreadPend \/ ThreadWake
  BY <1>16 DEF ThreadPend, ThreadWake, caller, status, naming, output, Flags
<1>17. CASE Pop
  BY <1>17 DEF Pop, caller, status, naming, output, Flags
<1>18. CASE ThreadWrite
  BY <1>18 DEF ThreadWrite, caller, status, naming, output, Flags
<1>19. CASE ThreadPost
  BY <1>19 DEF ThreadPost, PostStream, status, naming, output, Flags
<1>20. CASE UNCHANGED vars
  BY <1>20 DEF vars, caller, status, naming, output, Flags
<1> QED
  BY <1>1, <1>2, <1>3, <1>4, <1>5, <1>6, <1>7, <1>8, <1>9, <1>10, <1>11, <1>12, <1>13, <1>14, <1>15,
     <1>16, <1>17, <1>18, <1>19, <1>20 DEF Next, Receive, Library, Stopping, ThreadLoop

-----------------------------------------------------------------------------
(***************************************************************************)
(* The files.                                                              *)
(***************************************************************************)
FileRecord ==
    [kind : Kind, name : Nat, opened : BOOLEAN, chunks : Nat, data : Seq(Chunk),
     failed : SUBSET Chunk, used : BOOLEAN]

NoteRecord == [code : {"NORMAL_DONE", "EVENT_DONE"}, name : Nat]

Filing ==
    /\ files \in Seq(FileRecord)
    /\ m_OutFd \in 0..Len(files)
    /\ names \in Nat /\ m_FileName \in 0..names
    /\ notes \in Seq(NoteRecord)

(* q is p but for the c-th file, which is e. *)
Edit(q, p, c, e) == Len(q) = Len(p) /\ \A f \in 1..Len(p) : q[f] = IF f = c THEN e ELSE p[f]

LEMMA Edited ==
    ASSUME files \in Seq(FileRecord), NEW c \in 1..Len(files), NEW e \in FileRecord
    PROVE  /\ [files EXCEPT ![c] = e] \in Seq(FileRecord)
           /\ Edit([files EXCEPT ![c] = e], files, c, e)
  BY Replacing DEF Edit

LEMMA EditedUse ==
    ASSUME files \in Seq(FileRecord), NEW c \in 1..Len(files), files' = [files EXCEPT ![c].used = TRUE]
    PROVE  files' \in Seq(FileRecord) /\ Edit(files', files, c, [files[c] EXCEPT !.used = TRUE])
<1> DEFINE e == [files[c] EXCEPT !.used = TRUE]
<1>1. files[c] \in FileRecord
  OBVIOUS
<1>2. e \in FileRecord
  BY <1>1 DEF FileRecord
<1>3. files' = [files EXCEPT ![c] = e]
  OBVIOUS
<1> HIDE DEF e
<1>4. files' \in Seq(FileRecord) /\ Edit(files', files, c, e)
  BY <1>2, <1>3, Edited
<1> QED BY <1>4 DEF e

LEMMA EditedChunks ==
    ASSUME files \in Seq(FileRecord), NEW c \in 1..Len(files), NEW n \in Nat,
           files' = [files EXCEPT ![c].chunks = n]
    PROVE  files' \in Seq(FileRecord) /\ Edit(files', files, c, [files[c] EXCEPT !.chunks = n])
<1> DEFINE e == [files[c] EXCEPT !.chunks = n]
<1>1. files[c] \in FileRecord
  OBVIOUS
<1>2. e \in FileRecord
  BY <1>1 DEF FileRecord
<1>3. files' = [files EXCEPT ![c] = e]
  OBVIOUS
<1> HIDE DEF e
<1>4. files' \in Seq(FileRecord) /\ Edit(files', files, c, e)
  BY <1>2, <1>3, Edited
<1> QED BY <1>4 DEF e

LEMMA EditedData ==
    ASSUME files \in Seq(FileRecord), NEW c \in 1..Len(files), NEW x \in Chunk,
           files' = [files EXCEPT ![c].data = Append(@, x)]
    PROVE  /\ files' \in Seq(FileRecord)
           /\ Edit(files', files, c, [files[c] EXCEPT !.data = Append(files[c].data, x)])
           /\ files[c].data \in Seq(Chunk)
<1> DEFINE e == [files[c] EXCEPT !.data = Append(files[c].data, x)]
<1>1. files[c] \in FileRecord
  OBVIOUS
<1>2. files[c].data \in Seq(Chunk)
  BY <1>1 DEF FileRecord
<1> DEFINE d == Append(files[c].data, x)
<1>3. d \in Seq(Chunk)
  BY <1>2
<1>4. files' = [files EXCEPT ![c] = e]
  OBVIOUS
<1> HIDE DEF d
<1>5. [files[c] EXCEPT !.data = d] \in FileRecord
  BY <1>1, <1>3 DEF FileRecord
<1>6. e \in FileRecord
  BY <1>5 DEF d
<1> HIDE DEF e
<1>7. files' \in Seq(FileRecord) /\ Edit(files', files, c, e)
  BY <1>4, <1>6, Edited
<1> QED BY <1>2, <1>7 DEF e

LEMMA EditedFailed ==
    ASSUME files \in Seq(FileRecord), NEW c \in 1..Len(files), NEW x \in Chunk,
           files' = [files EXCEPT ![c].failed = @ \cup {x}]
    PROVE  /\ files' \in Seq(FileRecord)
           /\ Edit(files', files, c, [files[c] EXCEPT !.failed = files[c].failed \cup {x}])
<1> DEFINE e == [files[c] EXCEPT !.failed = files[c].failed \cup {x}]
<1>1. files[c] \in FileRecord
  OBVIOUS
<1>2. e \in FileRecord
  BY <1>1 DEF FileRecord
<1>3. files' = [files EXCEPT ![c] = e]
  OBVIOUS
<1> HIDE DEF e
<1>4. files' \in Seq(FileRecord) /\ Edit(files', files, c, e)
  BY <1>2, <1>3, Edited
<1> QED BY <1>4 DEF e

(* The file a start flag makes. *)
NewFile(kind, ok) ==
    [kind |-> kind, name |-> m_FileName', opened |-> ok, chunks |-> 0, data |-> <<>>,
     failed |-> {}, used |-> FALSE]

LEMMA Started ==
    ASSUME Filing, NEW kind \in Kind, StartFlag(kind)
    PROVE  /\ names' \in Nat /\ m_FileName' \in 1..names'
           /\ (names' = names /\ m_FileName # 0 /\ m_FileName' = m_FileName)
              \/ (names' = names + 1 /\ m_FileName = 0 /\ m_FileName' = names + 1)
           /\ \E ok \in BOOLEAN :
                 /\ files' = Append(files, NewFile(kind, ok)) /\ NewFile(kind, ok) \in FileRecord
                 /\ m_OutFd' = IF ok THEN Len(files) + 1 ELSE 0
<1>1. /\ names' \in Nat /\ m_FileName' \in 1..names'
      /\ (names' = names /\ m_FileName # 0 /\ m_FileName' = m_FileName)
         \/ (names' = names + 1 /\ m_FileName = 0 /\ m_FileName' = names + 1)
  <2>1. /\ names' = IF m_FileName = 0 THEN names + 1 ELSE names
        /\ m_FileName' = IF m_FileName = 0 THEN names + 1 ELSE m_FileName
    BY DEF StartFlag
  <2> QED BY <2>1 DEF Filing
<1>2. PICK ok \in BOOLEAN : /\ files' = Append(files, NewFile(kind, ok))
                            /\ m_OutFd' = IF ok THEN Len(files) + 1 ELSE 0
  BY DEF StartFlag, NewFile
<1>3. NewFile(kind, ok) \in FileRecord
  BY <1>1 DEF NewFile, FileRecord
<1> QED BY <1>1, <1>2, <1>3

-----------------------------------------------------------------------------
LEMMA DoneNotesTyped ==
    ASSUME Filing
    PROVE  DoneNotes \in Seq(NoteRecord)
<1>1. ASSUME NEW code \in {"NORMAL_DONE", "EVENT_DONE"} PROVE <<Note(code)>> \in Seq(NoteRecord)
  <2>1. m_FileName \in Nat
    BY DEF Filing
  <2>2. Note(code) \in NoteRecord
    BY <2>1 DEF Note, NoteRecord
  <2> QED BY <2>2
<1>2. <<>> \in Seq(NoteRecord)
  OBVIOUS
<1>3. DoneCode(m_WritingMode) \in {"NORMAL_DONE", "EVENT_DONE"}
  BY DEF DoneCode
<1>4. CASE m_Flags \in {"NORMAL_STOP", "EVENT_STOP"}
  <2> DEFINE code == IF m_Flags = "NORMAL_STOP" THEN "NORMAL_DONE" ELSE "EVENT_DONE"
  <2>1. code \in {"NORMAL_DONE", "EVENT_DONE"}
    OBVIOUS
  <2>2. DoneNotes = <<Note(code)>>
    BY <1>4 DEF DoneNotes
  <2> QED BY <1>1, <2>1, <2>2
<1>5. CASE m_Flags = "NONE"
  <2>1. DoneNotes = <<Note(DoneCode(m_WritingMode))>>
    BY <1>5 DEF DoneNotes
  <2> QED BY <1>1, <1>3, <2>1
<1>6. CASE m_Flags \notin {"NORMAL_STOP", "EVENT_STOP", "NONE"}
  BY <1>2, <1>6 DEF DoneNotes
<1> QED BY <1>4, <1>5, <1>6

(* While the library is open there is a file. *)
LEMMA FileThere ==
    ASSUME Filing, Begun
    PROVE  tpc # "none" => Len(files) \in Nat /\ Len(files) \in 1..Len(files)
           /\ files[Len(files)] \in FileRecord
<1>1. files \in Seq(FileRecord)
  BY DEF Filing
<1>2. tpc # "none" => files # <<>>
  BY DEF Begun
<1> QED BY <1>1, <1>2

LEMMA Threaded ==
    ASSUME Session, Flags, Flow
    PROVE  /\ upc \in {"library", "wait", "woken", "take", "post", "exit"} => tpc # "none"
           /\ upc = "idle" /\ m_bEnableMux /\ (m_bEnableMux => m_hMp4Mux) => tpc # "none"
  BY Zenon DEF Session

LEMMA FilesSame ==
    ASSUME Filing, UNCHANGED <<files, m_OutFd, names, m_FileName, notes>>
    PROVE  Filing' /\ Len(files') = Len(files)
  BY DEF Filing

LEMMA InitFiling == Init => Filing
<1> SUFFICES ASSUME Init PROVE Filing
  OBVIOUS
<1>1. files = <<>> /\ m_OutFd = 0 /\ names = 0 /\ m_FileName = 0 /\ notes = <<>>
  BY DEF Init
<1>2. <<>> \in Seq(FileRecord) /\ Len(<<>>) = 0 /\ <<>> \in Seq(NoteRecord)
  OBVIOUS
<1> QED BY <1>1, <1>2 DEF Filing

(* Which files a step can change. *)
LEMMA FilesStep ==
    ASSUME Filing, Session, Begun, Flags, Flow, [Next]_vars,
           \A n \in 1..Len(writerQ) : writerQ[n] \in Full,
           buf # <<>> => buf[1] \in Full,
           tpc = "write" => buf # <<>>
    PROVE  Filing' /\ Len(files') >= Len(files)
<1>0. files \in Seq(FileRecord) /\ Len(files) \in Nat
  BY DEF Filing
<1>1. ASSUME NEW kind \in Kind, StartFlag(kind) PROVE Filing' /\ Len(files') >= Len(files)
  <2>1. PICK ok \in BOOLEAN : /\ files' = Append(files, NewFile(kind, ok))
                              /\ NewFile(kind, ok) \in FileRecord
                              /\ m_OutFd' = IF ok THEN Len(files) + 1 ELSE 0
    BY <1>1, Started
  <2>2. files' \in Seq(FileRecord) /\ Len(files') = Len(files) + 1
    BY <1>0, <2>1, Queueing
  <2>3. m_OutFd' \in 0..Len(files')
    <3>1. m_OutFd' = Len(files) + 1 \/ m_OutFd' = 0
      BY <2>1
    <3> QED BY <1>0, <2>2, <3>1
  <2>4. names' \in Nat /\ m_FileName' \in 0..names'
    BY <1>1, Started
  <2>5. notes' = notes
    BY <1>1 DEF StartFlag
  <2> QED BY <1>0, <2>2, <2>3, <2>4, <2>5 DEF Filing
<1>2. ASSUME NEW kind \in Kind, StopFlag(kind) PROVE Filing' /\ Len(files') >= Len(files)
  BY <1>0, <1>2, FilesSame DEF StopFlag, output
<1>3. CASE ReceiveSample
  <2>1. UNCHANGED <<m_OutFd, names, m_FileName, notes>>
    BY <1>3, Received
  <2>2. CASE m_bEnableMux
    <3>1. tpc # "none"
      BY <1>3, <2>2, Threaded, Received
    <3>2. Len(files) \in 1..Len(files)
      BY <3>1, FileThere
    <3>3. files' = [files EXCEPT ![Len(files)].used = TRUE]
      BY <1>3, <2>2, Received
    <3>4. files' \in Seq(FileRecord) /\ Len(files') = Len(files)
      BY <1>0, <3>2, <3>3, EditedUse DEF Edit
    <3> QED BY <1>0, <2>1, <3>4 DEF Filing
  <2>3. CASE ~m_bEnableMux
    <3>1. files' = files
      BY <1>3, <2>3, Received
    <3> QED BY <1>0, <2>1, <3>1, FilesSame
  <2> QED BY <2>2, <2>3
<1>4. CASE Stop
  BY <1>0, <1>4, FilesSame DEF Stop, output
<1>5. CASE Run
  BY <1>0, <1>5, FilesSame DEF Run, naming, output
<1>6. CASE GetPend
  BY <1>0, <1>6, FilesSame DEF GetPend, naming, output
<1>7. CASE GetWake
  BY <1>0, <1>7, FilesSame DEF GetWake, naming, output
<1>8. CASE GetTake
  BY <1>0, <1>8, FilesSame DEF GetTake, naming, output
<1>9. CASE GivePush
  <2>1. UNCHANGED <<m_OutFd, names, m_FileName, notes>>
    BY <1>9 DEF GivePush, naming
  <2>2. tpc # "none"
    BY <1>9, Threaded DEF GivePush
  <2>3. Len(files) \in 1..Len(files) /\ files[Len(files)] \in FileRecord
    BY <2>2, FileThere
  <2>4. files[Len(files)].chunks + 1 \in Nat
    BY <2>3 DEF FileRecord
  <2>5. files' = [files EXCEPT ![Len(files)].chunks = files[Len(files)].chunks + 1]
    BY <1>9 DEF GivePush, Current
  <2>6. files' \in Seq(FileRecord) /\ Len(files') = Len(files)
    BY <1>0, <2>3, <2>4, <2>5, EditedChunks DEF Edit
  <2> QED BY <1>0, <2>1, <2>6 DEF Filing
<1>10. CASE GivePost
  BY <1>0, <1>10, FilesSame DEF GivePost, naming, output
<1>11. CASE LibraryReturns
  BY <1>0, <1>11, FilesSame DEF LibraryReturns, naming, output
<1>12. CASE SetExit
  BY <1>0, <1>12, FilesSame DEF SetExit, naming, output
<1>13. CASE WakeThread
  BY <1>0, <1>13, FilesSame DEF WakeThread, naming, output
<1>14. CASE Join
  <2>1. files' = files /\ names' = names
    BY <1>14 DEF Join
  <2>2. CASE m_OutFd # 0
    <3>1. notes' = notes \o DoneNotes /\ m_OutFd' = 0 /\ m_FileName' = 0
      BY <1>14, <2>2 DEF Join, NameCleared
    <3>2. notes' \in Seq(NoteRecord)
      BY <3>1, DoneNotesTyped DEF Filing
    <3> QED BY <1>0, <2>1, <3>1, <3>2 DEF Filing
  <2>3. CASE m_OutFd = 0
    <3>1. UNCHANGED <<notes, m_OutFd, m_FileName>>
      BY <1>14, <2>3 DEF Join
    <3> QED BY <1>0, <2>1, <3>1, FilesSame
  <2> QED BY <2>2, <2>3
<1>15. CASE LoopTest
  BY <1>0, <1>15, FilesSame DEF LoopTest, naming, output
<1>16. CASE ThreadPend \/ ThreadWake
  BY <1>0, <1>16, FilesSame DEF ThreadPend, ThreadWake, naming, output
<1>17. CASE Pop
  BY <1>0, <1>17, FilesSame DEF Pop, naming, output
<1>18. CASE ThreadWrite
  <2>1. UNCHANGED <<m_OutFd, names, m_FileName, notes>>
    BY <1>18 DEF ThreadWrite, naming
  <2>2. buf[1].chunk \in Chunk
    BY <1>18 DEF ThreadWrite, Full
  <2>3. CASE m_OutFd # 0
    <3>1. m_OutFd \in 1..Len(files)
      BY <2>3 DEF Filing
    <3>2. \/ files' = [files EXCEPT ![m_OutFd].data = Append(@, buf[1].chunk)]
          \/ files' = [files EXCEPT ![m_OutFd].failed = @ \cup {buf[1].chunk}]
      BY <1>18, <2>3 DEF ThreadWrite
    <3>3. files' \in Seq(FileRecord) /\ Len(files') = Len(files)
      BY <1>0, <2>2, <3>1, <3>2, EditedData, EditedFailed DEF Edit
    <3> QED BY <1>0, <2>1, <3>3 DEF Filing
  <2>4. CASE m_OutFd = 0
    <3>1. files' = files
      BY <1>18, <2>4 DEF ThreadWrite
    <3> QED BY <1>0, <2>1, <3>1, FilesSame
  <2> QED BY <2>3, <2>4
<1>19. CASE ThreadPost
  BY <1>0, <1>19, FilesSame DEF ThreadPost, naming, output
<1>20. CASE UNCHANGED vars
  BY <1>0, <1>20, FilesSame DEF vars, naming, output
<1> QED
  BY <1>1, <1>2, <1>3, <1>4, <1>5, <1>6, <1>7, <1>8, <1>9, <1>10, <1>11, <1>12, <1>13, <1>14, <1>15,
     <1>16, <1>17, <1>18, <1>19, <1>20 DEF Next, Receive, Library, Stopping, ThreadLoop

LEMMA InitSession == Init => Session
  BY DEF Init, Session, Flow, Flags, Kind

LEMMA StepSession == Session /\ Flow /\ Flags /\ [Next]_vars => Session'
<1> SUFFICES ASSUME Session /\ Flow /\ Flags, [Next]_vars PROVE Session'
  OBVIOUS
<1>1. ASSUME NEW kind \in Kind, StartFlag(kind) PROVE Session'
  BY <1>1 DEF StartFlag, caller, Session, Flow, Flags, Kind
<1>2. ASSUME NEW kind \in Kind, StopFlag(kind) PROVE Session'
  BY <1>2 DEF StopFlag, StopMuxing, CallLibrary, caller, Session, Flow, Flags, Kind
<1>3. CASE ReceiveSample
  BY <1>3, Received DEF caller, Session, Flow, Flags, Kind
<1>4. CASE Stop
  BY <1>4 DEF Stop, StopMuxing, CallLibrary, caller, Session, Flow, Flags, Kind
<1>5. CASE Run
  BY <1>5 DEF Run, caller, naming, Session, Flow, Flags, Kind
<1>6. CASE GetPend
  BY <1>6 DEF GetPend, status, naming, Session, Flow, Flags, Kind
<1>7. CASE GetWake
  BY <1>7 DEF GetWake, status, naming, Session, Flow, Flags, Kind
<1>8. CASE GetTake
  BY <1>8 DEF GetTake, status, naming, Session, Flow, Flags, Kind
<1>9. CASE GivePush
  BY <1>9 DEF GivePush, status, naming, Session, Flow, Flags, Kind
<1>10. CASE GivePost
  BY <1>10 DEF GivePost, PostWriter, status, naming, Session, Flow, Flags, Kind
<1>11. CASE LibraryReturns
  BY <1>11 DEF LibraryReturns, naming, Session, Flow, Flags, Kind
<1>12. CASE SetExit
  BY <1>12 DEF SetExit, naming, Session, Flow, Flags, Kind
<1>13. CASE WakeThread
  BY <1>13 DEF WakeThread, PostWriter, status, naming, Session, Flow, Flags, Kind
<1>14. CASE Join
  BY <1>14 DEF Join, status, naming, Session, Flow, Flags, Kind
<1>15. CASE LoopTest
  BY <1>15 DEF LoopTest, caller, status, naming, Session, Flow, Flags, Kind
<1>16. CASE ThreadPend \/ ThreadWake
  BY <1>16 DEF ThreadPend, ThreadWake, caller, status, naming, Session, Flow, Flags, Kind
<1>17. CASE Pop
  BY <1>17 DEF Pop, caller, status, naming, Session, Flow, Flags, Kind
<1>18. CASE ThreadWrite
  BY <1>18 DEF ThreadWrite, caller, status, naming, Session, Flow, Flags, Kind
<1>19. CASE ThreadPost
  BY <1>19 DEF ThreadPost, PostStream, status, naming, Session, Flow, Flags, Kind
<1>20. CASE UNCHANGED vars
  BY <1>20 DEF vars, caller, status, naming, Session, Flow, Flags, Kind
<1> QED
  BY <1>1, <1>2, <1>3, <1>4, <1>5, <1>6, <1>7, <1>8, <1>9, <1>10, <1>11, <1>12, <1>13, <1>14, <1>15,
     <1>16, <1>17, <1>18, <1>19, <1>20 DEF Next, Receive, Library, Stopping, ThreadLoop


LEMMA StepBegun ==
    ASSUME Filing, Filing', Len(files') >= Len(files), Begun, Flow, [Next]_vars
    PROVE  Begun'
<1> DEFINE Open == files # <<>>
<1>0. files \in Seq(FileRecord) /\ files' \in Seq(FileRecord)
  BY DEF Filing
<1>1. files # <<>> => files' # <<>>
  BY <1>0
<1>2. ASSUME NEW kind \in Kind, StartFlag(kind) PROVE files' # <<>>
  <2>1. PICK ok \in BOOLEAN : files' = Append(files, NewFile(kind, ok)) /\ NewFile(kind, ok) \in FileRecord
    BY <1>2, Started
  <2> QED BY <1>0, <2>1, Queueing
<1>3. ASSUME tpc = "none", \A kind \in Kind : ~StartFlag(kind) PROVE tpc' = "none"
  <2>1. CASE ReceiveSample
    BY <1>3, <2>1, Received
  <2>2. CASE ~ReceiveSample
    BY <1>3, <2>2 DEF Next, Receive, Library, Stopping, ThreadLoop, StopFlag, Stop, Run, GetPend, GetWake,
          GetTake, GivePush, GivePost, PostWriter, LibraryReturns, SetExit, WakeThread, Join, LoopTest,
          ThreadPend, ThreadWake, Pop, ThreadWrite, ThreadPost, vars
  <2> QED BY <2>1, <2>2
<1> QED BY <1>1, <1>2, <1>3 DEF Begun

-----------------------------------------------------------------------------
(***************************************************************************)
(* The write buffers.                                                      *)
(***************************************************************************)
Buffers ==
    /\ streamQ \in Seq(1..NumBuffer) /\ writerQ \in Seq(Full)
    /\ libBuf \in 0..NumBuffer
    /\ buf = <<>> \/ (\E full \in Full : buf = <<full>>)
    /\ tpc = "write" <=> buf # <<>>
    /\ upc \in {"wait", "woken", "take", "post"} => libBuf = 0

LEMMA BuffersSame ==
    ASSUME Buffers, UNCHANGED buffers, UNCHANGED tpc \/ (tpc # "write" /\ tpc' # "write"),
           upc' \in {"wait", "woken", "take", "post"} =>
               upc \in {"wait", "woken", "take", "post"} \/ libBuf = 0
    PROVE  Buffers'
  BY DEF Buffers, buffers

LEMMA InitBuffers == Init => Buffers
  BY DEF Init, Buffers

LEMMA FullTyped ==
    ASSUME NEW b \in 1..NumBuffer, NEW f \in Nat, NEW n \in Nat
    PROVE  [buf |-> b, chunk |-> [file |-> f, n |-> n]] \in Full
  BY DEF Full, Chunk

LEMMA StepBuffers ==
    ASSUME Buffers, Filing, Session, Begun, Flags, Flow, [Next]_vars
    PROVE  Buffers'
<1>1. ASSUME NEW kind \in Kind, StartFlag(kind) PROVE Buffers'
  <2>1. /\ streamQ' = [i \in 1..NumBuffer |-> i] /\ writerQ' = <<>> /\ libBuf' = 0 /\ buf' = <<>>
        /\ tpc' = "loop"
    BY <1>1 DEF StartFlag, ResetWriter
  <2>2. [i \in 1..NumBuffer |-> i] \in Seq(1..NumBuffer)
    OBVIOUS
  <2> QED BY <2>1, <2>2 DEF Buffers
<1>2. ASSUME NEW kind \in Kind, StopFlag(kind) PROVE Buffers'
  BY <1>2, BuffersSame DEF StopFlag, StopMuxing, CallLibrary, caller
<1>3. CASE ReceiveSample
  BY <1>3, Received, BuffersSame DEF caller
<1>4. CASE Stop
  BY <1>4, BuffersSame DEF Stop, StopMuxing, CallLibrary, caller
<1>5. CASE Run
  BY <1>5, BuffersSame DEF Run, caller
<1>6. CASE GetPend
  BY <1>6, BuffersSame DEF GetPend, NeedsBuffer
<1>7. CASE GetWake
  BY <1>7, BuffersSame DEF GetWake
<1>8. CASE GetTake
  <2>1. /\ streamQ # <<>> /\ libBuf' = Head(streamQ) /\ streamQ' = Tail(streamQ)
        /\ upc' = "library" /\ UNCHANGED <<tpc, writerQ, buf>>
    BY <1>8 DEF GetTake
  <2>2. streamQ' \in Seq(1..NumBuffer) /\ libBuf' \in 1..NumBuffer
    BY <2>1, Popping DEF Buffers
  <2> QED BY <2>1, <2>2 DEF Buffers
<1>9. CASE GivePush
  <2> DEFINE c == Len(files)
             n == files[c].chunks + 1
             full == [buf |-> libBuf, chunk |-> [file |-> c, n |-> n]]
  <2>1. /\ libBuf # 0 /\ writerQ' = Append(writerQ, full) /\ libBuf' = 0
        /\ UNCHANGED <<tpc, streamQ, buf>>
    BY <1>9 DEF GivePush, Queued, Current
  <2>2. c \in 1..c /\ files[c] \in FileRecord /\ c \in Nat
    BY <1>9, Threaded, FileThere DEF GivePush
  <2>3. n \in Nat
    BY <2>2 DEF FileRecord
  <2>4. full \in Full
    BY <2>1, <2>2, <2>3, FullTyped DEF Buffers
  <2> HIDE DEF full
  <2>5. writerQ' \in Seq(Full)
    BY <2>1, <2>4, Queueing DEF Buffers
  <2> QED BY <2>1, <2>5 DEF Buffers
<1>10. CASE GivePost
  BY <1>10, BuffersSame DEF GivePost, PostWriter
<1>11. CASE LibraryReturns
  BY <1>11, BuffersSame DEF LibraryReturns
<1>12. CASE SetExit
  BY <1>12, BuffersSame DEF SetExit
<1>13. CASE WakeThread
  BY <1>13, BuffersSame DEF WakeThread, PostWriter
<1>14. CASE Join
  BY <1>14, BuffersSame DEF Join
<1>15. CASE LoopTest
  BY <1>15, BuffersSame DEF LoopTest, caller
<1>16. CASE ThreadPend \/ ThreadWake
  BY <1>16, BuffersSame DEF ThreadPend, ThreadWake, caller
<1>17. CASE Pop
  <2>1. tpc = "pop" /\ UNCHANGED <<streamQ, libBuf>> /\ UNCHANGED caller
    BY <1>17 DEF Pop
  <2>2. CASE writerQ # <<>>
    <3>1. buf' = <<Head(writerQ)>> /\ writerQ' = Tail(writerQ) /\ tpc' = "write"
      BY <1>17, <2>2 DEF Pop
    <3>2. Head(writerQ) \in Full /\ writerQ' \in Seq(Full)
      BY <2>2, <3>1, Popping DEF Buffers
    <3> QED BY <2>1, <3>1, <3>2 DEF Buffers, caller
  <2>3. CASE writerQ = <<>>
    BY <1>17, <2>1, <2>3 DEF Pop, Buffers, caller
  <2> QED BY <2>2, <2>3
<1>18. CASE ThreadWrite
  <2>1. tpc = "write" /\ streamQ' = Append(streamQ, buf[1].buf) /\ buf' = <<>> /\ tpc' = "post"
        /\ UNCHANGED <<writerQ, libBuf>> /\ UNCHANGED caller
    BY <1>18 DEF ThreadWrite, Freed
  <2>2. PICK full \in Full : buf = <<full>>
    BY <2>1 DEF Buffers
  <2>3. buf[1].buf \in 1..NumBuffer
    BY <2>2 DEF Full
  <2>4. streamQ' \in Seq(1..NumBuffer)
    BY <2>1, <2>3, Queueing DEF Buffers
  <2> QED BY <2>1, <2>4 DEF Buffers, caller
<1>19. CASE ThreadPost
  BY <1>19, BuffersSame DEF ThreadPost, PostStream
<1>20. CASE UNCHANGED vars
  BY <1>20, BuffersSame DEF vars, caller
<1> QED
  BY <1>1, <1>2, <1>3, <1>4, <1>5, <1>6, <1>7, <1>8, <1>9, <1>10, <1>11, <1>12, <1>13, <1>14, <1>15,
     <1>16, <1>17, <1>18, <1>19, <1>20 DEF Next, Receive, Library, Stopping, ThreadLoop

-----------------------------------------------------------------------------
(***************************************************************************)
(* The tracks.                                                             *)
(***************************************************************************)
TrackRecord == [started : BOOLEAN, held : SUBSET Sample, total : Time]
PutRecord == [samples : SUBSET Sample, duration : Int]

Played ==
    /\ m_MuxStartTime \in Time
    /\ info \in [Track -> TrackRecord]
    /\ got \in [Track -> Seq(Sample)]
    /\ put \in [Track -> Seq(PutRecord)]
    /\ input \in Seq(Sample)

LEMMA InfoTyped ==
    ASSUME Played
    PROVE  /\ Info \in [Track -> TrackRecord]
           /\ \A t \in Track : Info[t].held = info[t].held
           /\ m_bStartMuxing => Info = info
           /\ ~m_bStartMuxing => \A t \in Track : ~Info[t].started /\ Info[t].total = 0
<1>1. CASE m_bStartMuxing
  BY <1>1 DEF Info, Played
<1>2. CASE ~m_bStartMuxing
  <2>1. Info = [t \in Track |-> [info[t] EXCEPT !.started = FALSE, !.total = 0]]
    BY <1>2 DEF Info
  <2>2. ASSUME NEW t \in Track
        PROVE  /\ Info[t] \in TrackRecord /\ Info[t].held = info[t].held
               /\ Info[t].started = FALSE /\ Info[t].total = 0
    <3>1. Info[t] = [info[t] EXCEPT !.started = FALSE, !.total = 0]
      BY <2>1
    <3>2. info[t] \in TrackRecord
      BY DEF Played
    <3>3. 0 \in Time
      BY DEF Time
    <3> QED BY <3>1, <3>2, <3>3 DEF TrackRecord
  <2> QED BY <1>2, <2>1, <2>2
<1> QED BY <1>1, <1>2

(* What becomes of it, of its track and of the others. *)
LEMMA SampleTaken ==
    ASSUME Played, ReceiveSample, m_bEnableMux,
           NEW s, s = Head(input)
    PROVE  /\ s \in Sample /\ s.track \in Track /\ s.time \in Time /\ input' \in Seq(Sample)
           /\ StartTime(s) \in Time /\ m_MuxStartTime' = StartTime(s) /\ m_bStartMuxing' = TRUE
           /\ got' \in [Track -> Seq(Sample)]
           /\ got'[s.track] = Append(got[s.track], s)
           /\ \A t \in Track : t # s.track => got'[t] = got[t]
           /\ DropSample(s) \/ StartTrack(s) \/ PutSample(s)
<1>1. s \in Sample /\ input' \in Seq(Sample)
  BY Popping DEF ReceiveSample, Played
<1>2. s.track \in Track /\ s.time \in Time
  BY <1>1 DEF Sample
<1>3. m_MuxStartTime' = StartTime(s) /\ m_bStartMuxing' = TRUE
      /\ got' = [got EXCEPT ![s.track] = Append(@, s)]
      /\ (DropSample(s) \/ StartTrack(s) \/ PutSample(s))
  BY DEF ReceiveSample
<1>4. StartTime(s) \in Time
  BY <1>2 DEF StartTime, Played
<1>5. got[s.track] \in Seq(Sample) /\ Append(got[s.track], s) \in Seq(Sample)
  BY <1>1, <1>2, Queueing DEF Played
<1>6. /\ got' \in [Track -> Seq(Sample)] /\ got'[s.track] = Append(got[s.track], s)
      /\ \A t \in Track : t # s.track => got'[t] = got[t]
  BY <1>2, <1>3, <1>5 DEF Played
<1> QED BY <1>1, <1>2, <1>3, <1>4, <1>6

LEMMA Dropping ==
    ASSUME Played, NEW s \in Sample, DropSample(s)
    PROVE  info' = Info /\ put' = put /\ s.time < StartTime(s)
  BY DEF DropSample

LEMMA Starting ==
    ASSUME Played, NEW s \in Sample, StartTrack(s)
    PROVE  /\ put' = put /\ s.time >= StartTime(s) /\ ~Info[s.track].started
           /\ ~Starts(s) => info' = Info
           /\ Starts(s) =>
                /\ info' \in [Track -> TrackRecord]
                /\ \A t \in Track : t # s.track => info'[t] = Info[t]
                /\ info'[s.track].held = {s} /\ info'[s.track].started = TRUE
                /\ info'[s.track].total = Info[s.track].total
<1>1. put' = put /\ s.time >= StartTime(s) /\ ~Info[s.track].started /\ (~Starts(s) => info' = Info)
  BY DEF StartTrack
<1>2. ASSUME Starts(s)
      PROVE  /\ info' \in [Track -> TrackRecord]
             /\ \A t \in Track : t # s.track => info'[t] = Info[t]
             /\ info'[s.track].held = {s} /\ info'[s.track].started = TRUE
             /\ info'[s.track].total = Info[s.track].total
  <2> DEFINE e == [Info[s.track] EXCEPT !.started = TRUE, !.held = {s}]
  <2>1. info' = [Info EXCEPT ![s.track] = e]
    BY <1>2, InfoTyped DEF StartTrack, Sample
  <2>2. s.track \in Track /\ Info[s.track] \in TrackRecord
    BY InfoTyped DEF Sample
  <2>3. e \in TrackRecord /\ e.held = {s} /\ e.started = TRUE /\ e.total = Info[s.track].total
    BY <2>2 DEF TrackRecord
  <2> HIDE DEF e
  <2> QED BY <2>1, <2>2, <2>3, InfoTyped
<1> QED BY <1>1, <1>2

LEMMA Putting ==
    ASSUME Played, NEW s \in Sample, PutSample(s), StartTime(s) \in Time
    PROVE  LET d == s.time - StartTime(s) - Info[s.track].total
               p == [samples |-> Info[s.track].held, duration |-> d]
           IN /\ s.time >= StartTime(s) /\ Info[s.track].started
              /\ info' \in [Track -> TrackRecord]
              /\ \A t \in Track : t # s.track => info'[t] = Info[t] /\ put'[t] = put[t]
              /\ info'[s.track].held = {s} /\ info'[s.track].started = Info[s.track].started
              /\ info'[s.track].total = s.time - StartTime(s)
              /\ put' \in [Track -> Seq(PutRecord)]
              /\ p \in PutRecord /\ p.samples = Info[s.track].held /\ p.duration = d
              /\ put'[s.track] = Append(put[s.track], p)
<1> DEFINE track == Info[s.track]
           d == s.time - StartTime(s) - track.total
           p == [samples |-> track.held, duration |-> d]
           e == [track EXCEPT !.held = {s}, !.total = track.total + d]
<1>1. s.track \in Track /\ s.time \in Time /\ Info \in [Track -> TrackRecord] /\ track \in TrackRecord
  BY InfoTyped DEF Sample
<1>2. track.total \in Time /\ track.held \in SUBSET Sample
  BY <1>1 DEF TrackRecord
<1>3. s.time >= StartTime(s) /\ track.started /\ put' = [put EXCEPT ![s.track] = Append(@, p)]
  BY DEF PutSample, DurationOf
<1>4. info' = [Info EXCEPT ![s.track] = e]
  BY <1>1 DEF PutSample, DurationOf, HeldNow
<1>5. d \in Int /\ track.total + d = s.time - StartTime(s) /\ track.total + d \in Time
  BY <1>1, <1>2, <1>3 DEF Time
<1>6. p \in PutRecord /\ p.samples = track.held /\ p.duration = d
  BY <1>2, <1>5 DEF PutRecord
<1> HIDE DEF d
<1>7. e \in TrackRecord /\ e.held = {s} /\ e.started = track.started /\ e.total = track.total + d
  BY <1>1, <1>5 DEF TrackRecord
<1> HIDE DEF e
<1>8. /\ info' \in [Track -> TrackRecord] /\ info'[s.track] = e
      /\ \A t \in Track : t # s.track => info'[t] = Info[t]
  BY <1>1, <1>4, <1>7
<1> HIDE DEF p
<1>9. put[s.track] \in Seq(PutRecord) /\ Append(put[s.track], p) \in Seq(PutRecord)
  BY <1>1, <1>6, Queueing DEF Played
<1>10. /\ put' \in [Track -> Seq(PutRecord)] /\ put'[s.track] = Append(put[s.track], p)
       /\ \A t \in Track : t # s.track => put'[t] = put[t]
  BY <1>1, <1>3, <1>9 DEF Played
<1> QED BY <1>3, <1>5, <1>6, <1>7, <1>8, <1>10 DEF d, p

LEMMA InitPlayed == Init => Played
<1> SUFFICES ASSUME Init PROVE Played
  OBVIOUS
<1>1. m_MuxStartTime \in Time
  BY DEF Init, Time
<1>2. NoTrack \in TrackRecord
  BY DEF NoTrack, TrackRecord, Time
<1>3. info \in [Track -> TrackRecord]
  BY <1>2 DEF Init
<1>4. got \in [Track -> Seq(Sample)] /\ put \in [Track -> Seq(PutRecord)]
  BY DEF Init
<1>5. input \in Seq(Sample)
  BY StreamAssumption DEF Init
<1> QED BY <1>1, <1>3, <1>4, <1>5 DEF Played

LEMMA StepPlayed ==
    ASSUME Played, [Next]_vars
    PROVE  Played'
<1>1. ASSUME NEW kind \in Kind, StartFlag(kind) PROVE Played'
  <2>1. /\ info' = [t \in Track |-> [info[t] EXCEPT !.held = {}, !.total = 0]]
        /\ got' = [t \in Track |-> <<>>] /\ put' = [t \in Track |-> <<>>]
        /\ UNCHANGED <<m_MuxStartTime, input>>
    BY <1>1 DEF StartFlag
  <2>2. ASSUME NEW t \in Track PROVE [info[t] EXCEPT !.held = {}, !.total = 0] \in TrackRecord
    <3>1. info[t] \in TrackRecord
      BY DEF Played
    <3>2. 0 \in Time
      BY DEF Time
    <3> QED BY <3>1, <3>2 DEF TrackRecord
  <2>3. info' \in [Track -> TrackRecord]
    BY <2>1, <2>2
  <2>4. got' \in [Track -> Seq(Sample)] /\ put' \in [Track -> Seq(PutRecord)]
    <3>1. <<>> \in Seq(Sample) /\ <<>> \in Seq(PutRecord)
      OBVIOUS
    <3> QED BY <2>1, <3>1, Zenon
  <2>5. m_MuxStartTime' \in Time /\ input' \in Seq(Sample)
    BY <2>1 DEF Played
  <2> QED BY <2>3, <2>4, <2>5 DEF Played
<1>2. CASE ReceiveSample
  <2> DEFINE s == Head(input)
  <2>1. CASE m_bEnableMux
    <3> HIDE DEF s
    <3>1. /\ s \in Sample /\ input' \in Seq(Sample) /\ StartTime(s) \in Time
          /\ m_MuxStartTime' = StartTime(s) /\ got' \in [Track -> Seq(Sample)]
          /\ DropSample(s) \/ StartTrack(s) \/ PutSample(s)
      BY <1>2, <2>1, SampleTaken DEF s
    <3>2. info' \in [Track -> TrackRecord] /\ put' \in [Track -> Seq(PutRecord)]
      <4>1. Info \in [Track -> TrackRecord] /\ put \in [Track -> Seq(PutRecord)]
        BY InfoTyped DEF Played
      <4>2. CASE DropSample(s)
        BY <3>1, <4>1, <4>2, Dropping
      <4>3. CASE StartTrack(s)
        BY <3>1, <4>1, <4>3, Starting
      <4>4. CASE PutSample(s)
        BY <3>1, <4>4, Putting
      <4> QED BY <3>1, <4>2, <4>3, <4>4
    <3> QED BY <3>1, <3>2 DEF Played
  <2>2. CASE ~m_bEnableMux
    <3>1. UNCHANGED <<m_MuxStartTime, info, got, put>> /\ input' = Tail(input) /\ input # <<>>
      BY <1>2, <2>2 DEF ReceiveSample
    <3>2. input' \in Seq(Sample)
      BY <3>1, Popping DEF Played
    <3> QED BY <3>1, <3>2 DEF Played
  <2> QED BY <2>1, <2>2
<1>3. CASE Join
  <2>1. /\ got' = [t \in Track |-> <<>>] /\ put' = [t \in Track |-> <<>>]
        /\ UNCHANGED <<m_MuxStartTime, info, input>>
    BY <1>3 DEF Join
  <2> QED BY <2>1 DEF Played
<1>4. ASSUME UNCHANGED tracks PROVE Played'
  BY <1>4 DEF tracks, Played
<1>5. ASSUME NEW kind \in Kind, StopFlag(kind) PROVE UNCHANGED tracks
  BY <1>5 DEF StopFlag
<1>6. CASE Stop \/ Run \/ Library \/ SetExit \/ WakeThread \/ ThreadLoop
  <2>1. UNCHANGED tracks
    BY <1>6 DEF Stop, Run, Library, ThreadLoop, GetPend, GetWake, GetTake, GivePush, GivePost,
          LibraryReturns, SetExit, WakeThread, LoopTest, ThreadPend, ThreadWake, Pop, ThreadWrite, ThreadPost
  <2> QED BY <1>4, <2>1
<1>7. CASE UNCHANGED vars
  BY <1>4, <1>7 DEF vars
<1> QED BY <1>1, <1>2, <1>3, <1>4, <1>5, <1>6, <1>7 DEF Next, Receive, Stopping

-----------------------------------------------------------------------------
(***************************************************************************)
(* The semaphores count what they stand for, and the buffers go round.     *)
(***************************************************************************)
Sems ==
    /\ semStream + (IF upc = "take" THEN 1 ELSE 0) + (IF tpc = "post" THEN 1 ELSE 0) = Len(streamQ)
    /\ semStream >= 0 /\ semWriter >= 0
    /\ upc = "wait" => semStream = 0
    /\ upc = "woken" => semStream >= 1
    /\ tpc = "wait" => semWriter = 0
    /\ tpc = "woken" => semWriter >= 1

Filled(b) == \E i \in 1..Len(writerQ) : writerQ[i].buf = b
Free(b) == \E i \in 1..Len(streamQ) : streamQ[i] = b
Written(b) == buf # <<>> /\ buf[1].buf = b

Round ==
    /\ files = <<>> => streamQ = <<>>
    /\ files # <<>> =>
        /\ Len(streamQ) + Len(writerQ) + (IF libBuf = 0 THEN 0 ELSE 1)
                        + (IF buf = <<>> THEN 0 ELSE 1) = NumBuffer
        /\ \A b \in 1..NumBuffer : Free(b) \/ Filled(b) \/ libBuf = b \/ Written(b)

LEMMA InitSems == Init => Sems
<1> SUFFICES ASSUME Init PROVE Sems
  OBVIOUS
<1>1. upc = "idle" /\ tpc = "none" /\ semStream = 0 /\ semWriter = 0 /\ Len(streamQ) = 0
  BY DEF Init
<1> QED BY <1>1 DEF Sems

LEMMA StepSems ==
    ASSUME Buffers, Counts, Flow, Sems, [Next]_vars
    PROVE  Sems'
<1>0. streamQ \in Seq(1..NumBuffer) /\ Len(streamQ) \in Nat /\ semStream \in Int /\ semWriter \in Int
  BY DEF Buffers, Counts
<1>1. ASSUME NEW kind \in Kind, StartFlag(kind) PROVE Sems'
  <2>1. upc = "idle" /\ upc' = upc /\ tpc' = "loop" /\ semStream' = NumBuffer /\ semWriter' = semWriter
        /\ streamQ' = [i \in 1..NumBuffer |-> i]
    BY <1>1 DEF StartFlag, caller
  <2>2. Len(streamQ') = NumBuffer
    BY <2>1
  <2> QED BY <1>0, <2>1, <2>2 DEF Sems
<1>2. ASSUME UNCHANGED <<streamQ, semStream, semWriter, tpc>>,
             upc' = upc \/ (upc \in {"idle", "library", "exit", "wake", "join", "post"}
                            /\ upc' \in {"idle", "library", "exit", "wake", "join", "post"})
      PROVE  Sems'
  BY <1>0, <1>2 DEF Sems
<1>3. ASSUME NEW kind \in Kind, StopFlag(kind) PROVE Sems'
  BY <1>2, <1>3 DEF StopFlag, StopMuxing, CallLibrary, caller, buffers
<1>4. CASE ReceiveSample
  BY <1>2, <1>4, Received DEF caller, buffers
<1>5. CASE Stop
  BY <1>2, <1>5 DEF Stop, StopMuxing, CallLibrary, caller, buffers
<1>6. CASE Run
  BY <1>2, <1>6 DEF Run, caller, buffers
<1>7. CASE GetPend
  <2>1. upc = "library" /\ upc' = IF semStream = 0 THEN "wait" ELSE "take"
    BY <1>7 DEF GetPend
  <2>2. semStream' = (IF semStream > 0 THEN semStream - 1 ELSE semStream)
        /\ UNCHANGED <<tpc, semWriter, streamQ>>
    BY <1>7 DEF GetPend, buffers
  <2> QED BY <1>0, <2>1, <2>2 DEF Sems
<1>8. CASE GetWake
  <2>1. upc = "woken" /\ upc' = "take" /\ semStream' = semStream - 1 /\ UNCHANGED <<tpc, semWriter, streamQ>>
    BY <1>8 DEF GetWake, buffers
  <2> QED BY <1>0, <2>1 DEF Sems
<1>9. CASE GetTake
  <2>1. /\ upc = "take" /\ upc' = "library" /\ streamQ # <<>> /\ streamQ' = Tail(streamQ)
        /\ UNCHANGED <<tpc, semStream, semWriter>>
    BY <1>9 DEF GetTake
  <2>2. Len(streamQ') = Len(streamQ) - 1
    BY <1>0, <2>1, Popping
  <2> QED BY <1>0, <2>1, <2>2 DEF Sems
<1>10. CASE GivePush
  <2>1. upc = "library" /\ upc' = "post" /\ UNCHANGED <<streamQ, semStream, semWriter, tpc>>
    BY <1>10 DEF GivePush
  <2> QED BY <1>2, <2>1
<1>11. CASE GivePost \/ WakeThread
  <2>1. /\ semWriter' = semWriter + 1 /\ tpc' = IF tpc = "wait" THEN "woken" ELSE tpc
        /\ UNCHANGED <<semStream, streamQ>>
        /\ upc \in {"post", "wake"} /\ upc' \in {"library", "join"}
    BY <1>11 DEF GivePost, WakeThread, PostWriter, buffers
  <2> QED BY <1>0, <2>1 DEF Sems
<1>12. CASE LibraryReturns
  BY <1>2, <1>12 DEF LibraryReturns, buffers
<1>13. CASE SetExit
  BY <1>2, <1>13 DEF SetExit, buffers
<1>14. CASE Join
  <2>1. upc = "join" /\ upc' = "idle" /\ tpc = "done" /\ tpc' = "none"
        /\ UNCHANGED <<streamQ, semStream, semWriter>>
    BY <1>14 DEF Join, buffers
  <2> QED BY <1>0, <2>1 DEF Sems
<1>15. CASE LoopTest
  <2>1. upc' = upc /\ tpc = "loop" /\ tpc' \in {"done", "pend"}
        /\ UNCHANGED <<streamQ, semStream, semWriter>>
    BY <1>15 DEF LoopTest, buffers, caller
  <2> QED BY <1>0, <2>1 DEF Sems
<1>16. CASE ThreadPend
  <2>1. tpc = "pend" /\ (tpc' = IF semWriter = 0 THEN "wait" ELSE "pop") /\ upc' = upc
    BY <1>16 DEF ThreadPend, caller
  <2>2. semWriter' = (IF semWriter > 0 THEN semWriter - 1 ELSE semWriter)
        /\ UNCHANGED <<semStream, streamQ>>
    BY <1>16 DEF ThreadPend, buffers
  <2> QED BY <1>0, <2>1, <2>2 DEF Sems
<1>17. CASE ThreadWake
  <2>1. /\ tpc = "woken" /\ tpc' = "pop" /\ upc' = upc /\ semWriter' = semWriter - 1
        /\ UNCHANGED <<semStream, streamQ>>
    BY <1>17 DEF ThreadWake, caller, buffers
  <2> QED BY <1>0, <2>1 DEF Sems
<1>18. CASE Pop
  <2>1. upc' = upc /\ tpc = "pop" /\ tpc' \in {"write", "loop"}
        /\ UNCHANGED <<streamQ, semStream, semWriter>>
    BY <1>18 DEF Pop, caller
  <2> QED BY <1>0, <2>1 DEF Sems
<1>19. CASE ThreadWrite
  <2>1. /\ upc' = upc /\ tpc = "write" /\ tpc' = "post" /\ streamQ' = Append(streamQ, buf[1].buf)
        /\ UNCHANGED <<semStream, semWriter>>
    BY <1>19 DEF ThreadWrite, Freed, caller
  <2>2. PICK full \in Full : buf = <<full>>
    BY <2>1 DEF Buffers
  <2>3. buf[1].buf \in 1..NumBuffer
    BY <2>2 DEF Full
  <2>4. Len(streamQ') = Len(streamQ) + 1
    BY <1>0, <2>1, <2>3, Queueing
  <2> QED BY <1>0, <2>1, <2>4 DEF Sems
<1>20. CASE ThreadPost
  <2>1. /\ semStream' = semStream + 1 /\ upc' = (IF upc = "wait" THEN "woken" ELSE upc)
        /\ tpc = "post" /\ tpc' = "pop" /\ UNCHANGED <<semWriter, streamQ>>
    BY <1>20 DEF ThreadPost, PostStream, buffers
  <2> QED BY <1>0, <2>1 DEF Sems
<1>21. CASE UNCHANGED vars
  BY <1>2, <1>21 DEF vars, caller, buffers
<1> QED
  BY <1>1, <1>3, <1>4, <1>5, <1>6, <1>7, <1>8, <1>9, <1>10, <1>11, <1>12, <1>13, <1>14, <1>15,
     <1>16, <1>17, <1>18, <1>19, <1>20, <1>21 DEF Next, Receive, Library, Stopping, ThreadLoop

LEMMA InitRound == Init => Round
  BY DEF Init, Round

LEMMA StepRound ==
    ASSUME Buffers, Filing, Filing', Session, Begun, Flags, Flow, Round, [Next]_vars,
           Len(files') >= Len(files)
    PROVE  Round'
<1>0. streamQ \in Seq(1..NumBuffer) /\ Len(streamQ) \in Nat /\ writerQ \in Seq(Full)
      /\ Len(writerQ) \in Nat /\ libBuf \in 0..NumBuffer /\ (files # <<>> => files' # <<>>)
  BY DEF Buffers, Filing
<1>1. ASSUME NEW kind \in Kind, StartFlag(kind) PROVE Round'
  <2>1. /\ streamQ' = [i \in 1..NumBuffer |-> i] /\ writerQ' = <<>> /\ libBuf' = 0 /\ buf' = <<>>
    BY <1>1 DEF StartFlag, ResetWriter
  <2>2. Len(streamQ') = NumBuffer /\ \A b \in 1..NumBuffer : streamQ'[b] = b
    BY <2>1
  <2>3. files' # <<>>
    <3>1. PICK ok \in BOOLEAN : files' = Append(files, NewFile(kind, ok)) /\ NewFile(kind, ok) \in FileRecord
      BY <1>1, Started
    <3> QED BY <3>1, Queueing DEF Filing
  <2> QED BY <2>1, <2>2, <2>3 DEF Round, Free
<1>2. ASSUME UNCHANGED buffers, Len(files') = Len(files) PROVE Round'
  <2>1. files = <<>> <=> files' = <<>>
    BY <1>2 DEF Filing
  <2> QED BY <1>2, <2>1 DEF Round, buffers, Free, Filled, Written
<1>3. ASSUME files # <<>>, files' # <<>>,
             \A b \in 1..NumBuffer : Free(b) \/ Filled(b) \/ libBuf = b \/ Written(b)
                => Free(b)' \/ Filled(b)' \/ libBuf' = b \/ Written(b)',
             Len(streamQ') + Len(writerQ') + (IF libBuf' = 0 THEN 0 ELSE 1)
                        + (IF buf' = <<>> THEN 0 ELSE 1) =
             Len(streamQ) + Len(writerQ) + (IF libBuf = 0 THEN 0 ELSE 1)
                        + (IF buf = <<>> THEN 0 ELSE 1)
      PROVE  Round'
  BY <1>3 DEF Round
<1>4. ASSUME NEW kind \in Kind, StopFlag(kind) PROVE Round'
  BY <1>2, <1>4 DEF StopFlag, output
<1>5. CASE ReceiveSample
  <2>1. UNCHANGED buffers
    BY <1>5, Received
  <2>2. CASE m_bEnableMux
    <3>1. tpc # "none"
      BY <1>5, <2>2, Threaded, Received
    <3>2. Len(files) \in 1..Len(files) /\ files \in Seq(FileRecord)
      BY <3>1, FileThere DEF Filing
    <3>3. files' = [files EXCEPT ![Len(files)].used = TRUE]
      BY <1>5, <2>2, Received
    <3>4. Len(files') = Len(files)
      BY <3>2, <3>3, EditedUse DEF Edit
    <3> QED BY <1>2, <2>1, <3>4
  <2>3. CASE ~m_bEnableMux
    BY <1>2, <1>5, <2>1, <2>3, Received
  <2> QED BY <2>2, <2>3
<1>6. CASE Stop \/ Run \/ GetPend \/ GetWake \/ GivePost \/ LibraryReturns \/ SetExit \/ WakeThread
           \/ LoopTest \/ ThreadPend \/ ThreadWake \/ ThreadPost
  <2>1. UNCHANGED buffers /\ files' = files
    BY <1>6 DEF Stop, Run, GetPend, GetWake, GivePost, LibraryReturns, SetExit, WakeThread,
          LoopTest, ThreadPend, ThreadWake, ThreadPost, output
  <2> QED BY <1>2, <2>1
<1>7. CASE Join
  <2>1. UNCHANGED buffers /\ files' = files
    BY <1>7 DEF Join
  <2> QED BY <1>2, <2>1
<1>8. CASE GetTake
  <2>1. /\ streamQ # <<>> /\ libBuf' = Head(streamQ) /\ streamQ' = Tail(streamQ) /\ libBuf = 0
        /\ UNCHANGED <<writerQ, buf>>
    BY <1>8 DEF GetTake, Buffers
  <2>2. files # <<>>
    BY <1>8, Threaded DEF GetTake, Begun
  <2>3. /\ libBuf' = streamQ[1] /\ libBuf' \in 1..NumBuffer /\ Len(streamQ') = Len(streamQ) - 1
        /\ \A i \in 1..Len(streamQ) : i # 1 => i - 1 \in 1..Len(streamQ') /\ streamQ'[i - 1] = streamQ[i]
    BY <1>0, <2>1, Popping
  <2>4. ASSUME NEW b \in 1..NumBuffer, Free(b) PROVE Free(b)' \/ libBuf' = b
    <3>1. PICK i \in 1..Len(streamQ) : streamQ[i] = b
      BY <2>4 DEF Free
    <3>2. i = 1 \/ (i - 1 \in 1..Len(streamQ') /\ streamQ'[i - 1] = b)
      BY <2>3, <3>1
    <3> QED BY <2>3, <3>1, <3>2 DEF Free
  <2>5. \A b \in 1..NumBuffer : (Filled(b) <=> Filled(b)') /\ (Written(b) <=> Written(b)') /\ libBuf # b
    BY <2>1 DEF Filled, Written
  <2>6. Len(streamQ') + Len(writerQ') + (IF libBuf' = 0 THEN 0 ELSE 1)
                        + (IF buf' = <<>> THEN 0 ELSE 1) =
             Len(streamQ) + Len(writerQ) + (IF libBuf = 0 THEN 0 ELSE 1)
                        + (IF buf = <<>> THEN 0 ELSE 1)
    <3>1. /\ libBuf = 0 /\ libBuf' # 0 /\ writerQ' = writerQ /\ buf' = buf
          /\ Len(streamQ') = Len(streamQ) - 1
      BY <2>1, <2>3
    <3> QED BY <1>0, <3>1
  <2> QED BY <1>0, <1>3, <2>2, <2>4, <2>5, <2>6
<1>9. CASE GivePush
  <2> DEFINE c == Len(files)
             n == files[c].chunks + 1
             full == [buf |-> libBuf, chunk |-> [file |-> c, n |-> n]]
  <2>1. /\ libBuf # 0 /\ writerQ' = Append(writerQ, full) /\ libBuf' = 0
        /\ UNCHANGED <<tpc, streamQ, buf>>
    BY <1>9 DEF GivePush, Queued, Current
  <2>2. c \in 1..c /\ files[c] \in FileRecord /\ c \in Nat /\ files # <<>>
    BY <1>9, Threaded, FileThere DEF GivePush, Begun
  <2>3. n \in Nat
    BY <2>2 DEF FileRecord
  <2>4. full \in Full /\ full.buf = libBuf
    BY <1>0, <2>1, <2>2, <2>3, FullTyped
  <2> HIDE DEF full
  <2>5. /\ Len(writerQ') = Len(writerQ) + 1
        /\ Len(writerQ) + 1 \in 1..Len(writerQ') /\ writerQ'[Len(writerQ) + 1] = full
        /\ \A i \in 1..Len(writerQ) : i \in 1..Len(writerQ') /\ writerQ'[i] = writerQ[i]
    BY <1>0, <2>1, <2>4, Queueing
  <2>6. \A b \in 1..NumBuffer : libBuf = b => Filled(b)'
    BY <2>4, <2>5 DEF Filled
  <2>7. \A b \in 1..NumBuffer : (Filled(b) => Filled(b)') /\ (Written(b) <=> Written(b)') /\ (Free(b) <=> Free(b)')
    BY <2>1, <2>5 DEF Filled, Written, Free
  <2>8. Len(streamQ') + Len(writerQ') + (IF libBuf' = 0 THEN 0 ELSE 1)
                        + (IF buf' = <<>> THEN 0 ELSE 1) =
             Len(streamQ) + Len(writerQ) + (IF libBuf = 0 THEN 0 ELSE 1)
                        + (IF buf = <<>> THEN 0 ELSE 1)
    BY <1>0, <2>1, <2>5
  <2> QED BY <1>0, <1>3, <2>2, <2>6, <2>7, <2>8
<1>10. CASE Pop
  <2>1. tpc = "pop" /\ UNCHANGED <<streamQ, libBuf>> /\ files' = files
    BY <1>10 DEF Pop, output
  <2>2. CASE writerQ = <<>>
    BY <1>2, <1>10, <2>1, <2>2 DEF Pop, buffers
  <2>3. CASE writerQ # <<>>
    <3>1. buf' = <<Head(writerQ)>> /\ writerQ' = Tail(writerQ) /\ buf = <<>>
      BY <1>10, <2>3 DEF Pop, Buffers
    <3>2. /\ Head(writerQ) = writerQ[1] /\ Len(writerQ') = Len(writerQ) - 1
          /\ \A i \in 1..Len(writerQ) : i # 1 => i - 1 \in 1..Len(writerQ') /\ writerQ'[i - 1] = writerQ[i]
      BY <1>0, <2>3, <3>1, Popping
    <3>3. buf' # <<>> /\ buf'[1] = writerQ[1]
      BY <3>1, <3>2
    <3>4. ASSUME NEW b \in 1..NumBuffer, Filled(b) PROVE Filled(b)' \/ Written(b)'
      <4>1. PICK i \in 1..Len(writerQ) : writerQ[i].buf = b
        BY <3>4 DEF Filled
      <4>2. i = 1 \/ (i - 1 \in 1..Len(writerQ') /\ writerQ'[i - 1].buf = b)
        BY <3>2, <4>1
      <4> QED BY <3>3, <4>1, <4>2 DEF Filled, Written
    <3>5. \A b \in 1..NumBuffer : (Free(b) <=> Free(b)') /\ ~Written(b)
      BY <2>1, <3>1 DEF Free, Written
    <3>6. Len(streamQ') + Len(writerQ') + (IF libBuf' = 0 THEN 0 ELSE 1)
                        + (IF buf' = <<>> THEN 0 ELSE 1) =
             Len(streamQ) + Len(writerQ) + (IF libBuf = 0 THEN 0 ELSE 1)
                        + (IF buf = <<>> THEN 0 ELSE 1)
      <4>1. /\ libBuf' = libBuf /\ streamQ' = streamQ /\ buf = <<>> /\ buf' # <<>>
            /\ Len(writerQ') = Len(writerQ) - 1
        BY <2>1, <3>1, <3>2, <3>3
      <4> QED BY <1>0, <4>1
    <3>7. files # <<>>
      BY <2>1 DEF Begun
    <3> QED BY <1>0, <1>3, <2>1, <3>4, <3>5, <3>6, <3>7
  <2> QED BY <2>2, <2>3
<1>11. CASE ThreadWrite
  <2>1. /\ tpc = "write" /\ streamQ' = Append(streamQ, buf[1].buf) /\ buf' = <<>>
        /\ UNCHANGED <<writerQ, libBuf>>
    BY <1>11 DEF ThreadWrite, Freed
  <2>2. PICK full \in Full : buf = <<full>>
    BY <2>1 DEF Buffers
  <2>3. buf[1].buf \in 1..NumBuffer /\ buf # <<>>
    BY <2>2 DEF Full
  <2>4. /\ Len(streamQ') = Len(streamQ) + 1
        /\ Len(streamQ) + 1 \in 1..Len(streamQ') /\ streamQ'[Len(streamQ) + 1] = buf[1].buf
        /\ \A i \in 1..Len(streamQ) : i \in 1..Len(streamQ') /\ streamQ'[i] = streamQ[i]
    BY <1>0, <2>1, <2>3, Queueing
  <2>5. \A b \in 1..NumBuffer : (Filled(b) <=> Filled(b)') /\ (Free(b) => Free(b)') /\ (Written(b) => Free(b)')
    BY <2>1, <2>4 DEF Filled, Free, Written
  <2>6. Len(streamQ') + Len(writerQ') + (IF libBuf' = 0 THEN 0 ELSE 1)
                        + (IF buf' = <<>> THEN 0 ELSE 1) =
             Len(streamQ) + Len(writerQ) + (IF libBuf = 0 THEN 0 ELSE 1)
                        + (IF buf = <<>> THEN 0 ELSE 1)
    <3>1. /\ libBuf' = libBuf /\ writerQ' = writerQ /\ buf' = <<>> /\ buf # <<>>
          /\ Len(streamQ') = Len(streamQ) + 1
      BY <2>1, <2>3, <2>4
    <3> QED BY <1>0, <3>1
  <2>7. files # <<>>
    BY <2>1 DEF Begun
  <2> QED BY <1>0, <1>3, <2>1, <2>5, <2>6, <2>7
<1>12. CASE UNCHANGED vars
  BY <1>2, <1>12 DEF vars, output
<1> QED
  BY <1>1, <1>4, <1>5, <1>6, <1>7, <1>8, <1>9, <1>10, <1>11, <1>12 DEF Next, Receive, Library, Stopping, ThreadLoop

-----------------------------------------------------------------------------
(***************************************************************************)
(* Types and buffers of every reachable state.                             *)
(***************************************************************************)
Typed ==
    /\ Flow /\ Counts /\ Flags /\ Session /\ Begun
    /\ Filing /\ Buffers /\ Played /\ Sems /\ Round

LEMMA InitTyped == Init => Typed
  BY InitFlow, InitCounts, InitFlags, InitSession, InitFiling, InitBuffers, InitPlayed, InitSems,
     InitRound DEF Typed, Init, Begun

LEMMA FullBuf ==
    ASSUME Buffers
    PROVE  /\ \A n \in 1..Len(writerQ) : writerQ[n] \in Full
           /\ buf # <<>> => buf[1] \in Full
           /\ tpc = "write" => buf # <<>>
<1>1. ASSUME buf # <<>> PROVE buf[1] \in Full
  <2>1. PICK full \in Full : buf = <<full>>
    BY <1>1 DEF Buffers
  <2> QED BY <2>1
<1> QED BY <1>1 DEF Buffers

LEMMA StepTyped == Typed /\ [Next]_vars => Typed'
<1> SUFFICES ASSUME Typed, [Next]_vars PROVE Typed'
  OBVIOUS
<1>1. Flow /\ Counts /\ Flags /\ Session /\ Begun /\ Filing /\ Buffers /\ Played /\ Sems /\ Round
  BY DEF Typed
<1>2. Flow' /\ Counts' /\ Flags' /\ Session'
  BY <1>1, StepFlow, StepCounts, StepFlags, StepSession
<1>3. Filing' /\ Len(files') >= Len(files)
  BY <1>1, FilesStep, FullBuf
<1>4. Begun' /\ Buffers' /\ Played' /\ Sems' /\ Round'
  BY <1>1, <1>3, StepBegun, StepBuffers, StepPlayed, StepSems, StepRound
<1> QED BY <1>2, <1>3, <1>4 DEF Typed

LEMMA AlwaysTyped == Spec => []Typed
  BY InitTyped, StepTyped, PTL DEF Spec

LEMMA EnoughBuffers ==
    ASSUME Typed
    PROVE  Len(streamQ) <= NumBuffer /\ semStream \in 0..NumBuffer /\ (upc = "take" => streamQ # <<>>)
<1>1. streamQ \in Seq(1..NumBuffer) /\ writerQ \in Seq(Full)
  BY DEF Typed, Buffers
<1>2. Len(streamQ) \in Nat /\ Len(writerQ) \in Nat /\ (streamQ = <<>> => Len(streamQ) = 0)
  BY <1>1
<1>3. Len(streamQ) <= NumBuffer
  <2>1. CASE files = <<>>
    BY <1>2, <2>1 DEF Typed, Round
  <2>2. CASE files # <<>>
    <3>1. Len(streamQ) + Len(writerQ) + (IF libBuf = 0 THEN 0 ELSE 1)
                        + (IF buf = <<>> THEN 0 ELSE 1) = NumBuffer
      BY <2>2 DEF Typed, Round
    <3> QED BY <1>2, <3>1
  <2> QED BY <2>1, <2>2
<1>4. semStream \in Int /\ semStream >= 0
      /\ semStream + (IF upc = "take" THEN 1 ELSE 0) + (IF tpc = "post" THEN 1 ELSE 0) = Len(streamQ)
  BY DEF Typed, Sems, Counts
<1>5. semStream <= Len(streamQ) /\ (upc = "take" => Len(streamQ) > 0)
  BY <1>2, <1>4
<1> QED BY <1>2, <1>3, <1>4, <1>5

LEMMA AllTyped == Typed => TypeOK
<1> SUFFICES ASSUME Typed PROVE TypeOK
  OBVIOUS
<1>1. Flow /\ Counts /\ Flags /\ Filing /\ Buffers /\ Played
  BY DEF Typed
<1>2. {m_bRun, m_bEnableMux, m_bThreadExit, m_bStartMuxing, m_hMp4Mux} \subseteq BOOLEAN
  BY <1>1 DEF Flags
<1>3. left \in 0..2 /\ semWriter \in Nat /\ semStream \in 0..NumBuffer
  <2>1. semWriter >= 0 /\ semWriter \in Int
    BY DEF Typed, Sems, Counts
  <2> QED BY <1>1, <2>1, EnoughBuffers DEF Counts
<1>4. buf = <<>> \/ (Len(buf) = 1 /\ buf[1] \in Full)
  <2>1. CASE buf # <<>>
    <3>1. PICK full \in Full : buf = <<full>>
      BY <1>1, <2>1 DEF Buffers
    <3> QED BY <3>1
  <2> QED BY <2>1
<1>5. ASSUME NEW t \in Track
      PROVE  info[t].started \in BOOLEAN /\ info[t].held \subseteq Sample /\ info[t].total \in Time
             /\ got[t] \in Seq(Sample)
  <2>1. info[t] \in TrackRecord /\ got[t] \in Seq(Sample)
    BY <1>1 DEF Played
  <2> QED BY <2>1 DEF TrackRecord
<1>6. /\ streamQ \in Seq(1..NumBuffer) /\ writerQ \in Seq(Full) /\ libBuf \in 0..NumBuffer
      /\ m_OutFd \in 0..Len(files) /\ m_FileName \in 0..names /\ m_MuxStartTime \in Time
  BY <1>1 DEF Buffers, Filing, Played
<1>7. /\ upc \in {"idle", "library", "wait", "woken", "take", "post", "exit", "wake", "join"}
      /\ call \in {"put", "close"}
      /\ tpc \in {"none", "loop", "pend", "wait", "woken", "pop", "write", "post", "done"}
      /\ m_WritingMode \in Kind /\ want \in Kind \cup {"none"}
      /\ m_Flags \in {"NONE"} \cup {StartOf(k) : k \in Kind} \cup {StopOf(k) : k \in Kind}
  BY <1>1 DEF Flow
<1> QED BY <1>2, <1>3, <1>4, <1>5, <1>6, <1>7 DEF TypeOK

(* The hands a buffer can be in, one after the other. *)
LEMMA PlacesHold ==
    ASSUME Typed, files # <<>>
    PROVE  Len(BufferPlaces) = NumBuffer /\ Range(BufferPlaces) = 1..NumBuffer
<1> DEFINE W == [i \in DOMAIN writerQ |-> writerQ[i].buf]
           L == IF libBuf = 0 THEN <<>> ELSE <<libBuf>>
           B == [i \in DOMAIN buf |-> buf[i].buf]
           S == 1..NumBuffer
<1>1. streamQ \in Seq(S) /\ writerQ \in Seq(Full) /\ libBuf \in 0..NumBuffer
  BY DEF Typed, Buffers
<1>2. W \in Seq(S) /\ Len(W) = Len(writerQ) /\ \A i \in 1..Len(writerQ) : W[i] = writerQ[i].buf
  <2>1. DOMAIN writerQ = 1..Len(writerQ) /\ Len(writerQ) \in Nat /\ \A i \in 1..Len(writerQ) : writerQ[i] \in Full
    BY <1>1
  <2>2. \A i \in 1..Len(writerQ) : writerQ[i].buf \in S
    BY <2>1 DEF Full
  <2>3. W = [i \in 1..Len(writerQ) |-> writerQ[i].buf]
    BY <2>1
  <2>4. W \in [1..Len(writerQ) -> S]
    BY <2>2, <2>3
  <2> HIDE DEF W
  <2>5. W \in Seq(S) /\ Len(W) = Len(writerQ)
    BY <2>1, <2>4
  <2> QED BY <2>3, <2>5
<1>3. L \in Seq(S) /\ Len(L) = (IF libBuf = 0 THEN 0 ELSE 1) /\ (libBuf # 0 => 1 \in 1..Len(L) /\ L[1] = libBuf)
  <2>1. CASE libBuf = 0
    BY <2>1
  <2>2. CASE libBuf # 0
    <3>1. libBuf \in S /\ L = <<libBuf>>
      BY <1>1, <2>2
    <3> HIDE DEF L
    <3> QED BY <2>2, <3>1
  <2> QED BY <2>1, <2>2
<1>4. B \in Seq(S) /\ Len(B) = (IF buf = <<>> THEN 0 ELSE 1) /\ (buf # <<>> => 1 \in 1..Len(B) /\ B[1] = buf[1].buf)
  <2>1. CASE buf = <<>>
    BY <2>1
  <2>2. CASE buf # <<>>
    <3>1. PICK full \in Full : buf = <<full>>
      BY <2>2 DEF Typed, Buffers
    <3>2. full.buf \in S
      BY DEF Full
    <3>3. B = <<full.buf>>
      BY <3>1
    <3> HIDE DEF B
    <3> QED BY <2>2, <3>1, <3>2, <3>3
  <2> QED BY <2>1, <2>2
<1> HIDE DEF W, L, B, S
<1> DEFINE A1 == streamQ \o W
           A2 == A1 \o L
           A3 == A2 \o B
<1>5. A1 \in Seq(S) /\ Len(A1) = Len(streamQ) + Len(W) /\ Range(A1) = Range(streamQ) \cup Range(W)
  <2>1. streamQ \in Seq(S) /\ W \in Seq(S)
    BY <1>1, <1>2
  <2>2. A1 \in Seq(S) /\ Len(A1) = Len(streamQ) + Len(W)
    BY <2>1, Joined
  <2>3. Range(A1) = Range(streamQ) \cup Range(W)
    BY <2>1, JoinedRange
  <2> QED BY <2>2, <2>3
<1> HIDE DEF A1
<1>6. A2 \in Seq(S) /\ Len(A2) = Len(A1) + Len(L) /\ Range(A2) = Range(A1) \cup Range(L)
  <2>1. A1 \in Seq(S) /\ L \in Seq(S)
    BY <1>3, <1>5
  <2>2. A2 \in Seq(S) /\ Len(A2) = Len(A1) + Len(L)
    BY <2>1, Joined
  <2>3. Range(A2) = Range(A1) \cup Range(L)
    BY <2>1, JoinedRange
  <2> QED BY <2>2, <2>3
<1> HIDE DEF A2
<1>7. A3 \in Seq(S) /\ Len(A3) = Len(A2) + Len(B) /\ Range(A3) = Range(A2) \cup Range(B)
  <2>1. A2 \in Seq(S) /\ B \in Seq(S)
    BY <1>4, <1>6
  <2>2. A3 \in Seq(S) /\ Len(A3) = Len(A2) + Len(B)
    BY <2>1, Joined
  <2>3. Range(A3) = Range(A2) \cup Range(B)
    BY <2>1, JoinedRange
  <2> QED BY <2>2, <2>3
<1> HIDE DEF A3
<1>8. BufferPlaces = A3
  BY DEF BufferPlaces, A3, A2, A1, W, L, B
<1> USE DEF S
<1>9. /\ Len(streamQ) + Len(writerQ) + (IF libBuf = 0 THEN 0 ELSE 1)
                        + (IF buf = <<>> THEN 0 ELSE 1) = NumBuffer
      /\ \A b \in 1..NumBuffer : Free(b) \/ Filled(b) \/ libBuf = b \/ Written(b)
  BY DEF Typed, Round
<1>10. Len(A3) = NumBuffer
  <2>1. Len(streamQ) \in Nat /\ Len(writerQ) \in Nat
    BY <1>1
  <2> QED BY <1>2, <1>3, <1>4, <1>5, <1>6, <1>7, <1>9, <2>1
<1>11. Range(A3) \subseteq S
  BY <1>7, RangeOf
<1>12. ASSUME NEW b \in S PROVE b \in Range(A3)
  <2>1. Free(b) => b \in Range(streamQ)
    BY <1>1, RangeOf DEF Free
  <2>2. Filled(b) => b \in Range(W)
    BY <1>2, RangeOf DEF Filled
  <2>3. libBuf = b => b \in Range(L)
    BY <1>3, RangeOf
  <2>4. Written(b) => b \in Range(B)
    BY <1>4, RangeOf DEF Written
  <2>5. Range(A3) = Range(streamQ) \cup Range(W) \cup Range(L) \cup Range(B)
    BY <1>5, <1>6, <1>7
  <2> QED BY <1>9, <2>1, <2>2, <2>3, <2>4, <2>5
<1> QED BY <1>8, <1>10, <1>11, <1>12

(* Every variable keeps its type, and a semaphore never counts more than   *)
(* there are buffers.                                                      *)
THEOREM Typing == Spec => []TypeOK
  BY AlwaysTyped, AllTyped, PTL

(* While a file is being made the free queue, the queue of full ones, the  *)
(* library and the thread share all write buffers, none of which is in two *)
(* hands or lost; GetBuffer, once the semaphore lets it, finds one.        *)
THEOREM Conservation == Spec => []BuffersConserved
<1>1. Typed => BuffersConserved
  BY AllTyped, PlacesHold, EnoughBuffers DEF BuffersConserved
<1> QED BY <1>1, AlwaysTyped, PTL

-----------------------------------------------------------------------------
(***************************************************************************)
(* What a step does to the files.                                          *)
(***************************************************************************)
(* The entries of e that are those of r, whatever it does to the others.   *)
SameStart(e, r) == e.kind = r.kind /\ e.name = r.name /\ e.opened = r.opened
SameBytes(e, r) == e.data = r.data /\ e.failed = r.failed

Others(c) == Len(files') = Len(files) /\ \A f \in 1..Len(files) : f # c => files'[f] = files[f]

LEMMA CurrentFile ==
    ASSUME Typed, tpc # "none"
    PROVE  /\ Current \in 1..Len(files) /\ files[Current] \in FileRecord /\ Current = Len(files)
           /\ files[Current].chunks \in Nat /\ files[Current].data \in Seq(Chunk)
           /\ files[Current].failed \subseteq Chunk
           /\ files[Current].name \in Nat
<1>1. Current \in 1..Len(files) /\ files[Current] \in FileRecord
  BY FileThere DEF Typed, Current
<1> QED BY <1>1 DEF FileRecord, Current

LEMMA SampleFile ==
    ASSUME Typed, ReceiveSample
    PROVE  /\ ~m_bEnableMux => files' = files
           /\ m_bEnableMux =>
                /\ tpc # "none" /\ ~m_bThreadExit
                /\ Others(Current) /\ files'[Current].used = TRUE
                /\ SameStart(files'[Current], files[Current])
                /\ SameBytes(files'[Current], files[Current])
                /\ files'[Current].chunks = files[Current].chunks
<1>1. ASSUME ~m_bEnableMux PROVE files' = files
  BY <1>1, Received
<1>2. ASSUME m_bEnableMux
      PROVE  /\ tpc # "none" /\ ~m_bThreadExit
             /\ Others(Current) /\ files'[Current].used = TRUE
             /\ SameStart(files'[Current], files[Current])
             /\ SameBytes(files'[Current], files[Current])
             /\ files'[Current].chunks = files[Current].chunks
  <2>1. tpc # "none" /\ ~m_bThreadExit
    <3>1. upc = "idle" /\ m_hMp4Mux
      BY <1>2, Received
    <3>2. Session
      BY DEF Typed
    <3> QED BY <3>1, <3>2, Zenon DEF Session
  <2>2. Current \in 1..Len(files) /\ files[Current] \in FileRecord /\ files \in Seq(FileRecord)
    BY <2>1, CurrentFile DEF Typed, Filing
  <2>3. files' = [files EXCEPT ![Current].used = TRUE]
    BY <1>2, Received DEF Current
  <2>4. Edit(files', files, Current, [files[Current] EXCEPT !.used = TRUE])
    BY <2>2, <2>3, EditedUse
  <2>5. files'[Current] = [files[Current] EXCEPT !.used = TRUE] /\ Others(Current)
    BY <2>2, <2>4 DEF Edit, Others
  <2> QED BY <2>1, <2>2, <2>5 DEF SameStart, SameBytes, FileRecord
<1> QED BY <1>1, <1>2

LEMMA GivenFile ==
    ASSUME Typed, GivePush
    PROVE  LET n == files[Current].chunks + 1
               full == [buf |-> libBuf, chunk |-> [file |-> Current, n |-> n]]
           IN /\ tpc # "none" /\ full \in Full /\ full.chunk = [file |-> Current, n |-> n]
              /\ writerQ' = Append(writerQ, full)
              /\ Others(Current) /\ files'[Current].chunks = n
              /\ SameStart(files'[Current], files[Current])
              /\ SameBytes(files'[Current], files[Current])
              /\ files'[Current].used = files[Current].used
<1> DEFINE n == files[Current].chunks + 1
           full == [buf |-> libBuf, chunk |-> [file |-> Current, n |-> n]]
<1>1. tpc # "none"
  BY Threaded DEF GivePush, Typed
<1>2. /\ Current \in 1..Len(files) /\ files[Current] \in FileRecord /\ files \in Seq(FileRecord)
      /\ n \in Nat /\ Current \in Nat
  BY <1>1, CurrentFile DEF Typed, Filing
<1>3. libBuf \in 1..NumBuffer /\ writerQ' = Append(writerQ, full)
  BY DEF GivePush, Queued, Typed, Buffers
<1>4. full \in Full
  BY <1>2, <1>3, FullTyped
<1>5. files' = [files EXCEPT ![Current].chunks = n]
  BY DEF GivePush
<1> HIDE DEF n
<1>6. Edit(files', files, Current, [files[Current] EXCEPT !.chunks = n])
  BY <1>2, <1>5, EditedChunks
<1>7. files'[Current] = [files[Current] EXCEPT !.chunks = n] /\ Others(Current)
  BY <1>2, <1>6 DEF Edit, Others
<1>8. /\ files'[Current].chunks = n
      /\ SameStart(files'[Current], files[Current])
      /\ SameBytes(files'[Current], files[Current])
      /\ files'[Current].used = files[Current].used
  BY <1>2, <1>7 DEF SameStart, SameBytes, FileRecord
<1> QED BY <1>1, <1>3, <1>4, <1>7, <1>8 DEF n

LEMMA AppendedRange ==
    ASSUME NEW S, NEW q \in Seq(S), NEW x \in S
    PROVE  Append(q, x) \in Seq(S) /\ Range(Append(q, x)) = Range(q) \cup {x}
<1> DEFINE d == Append(q, x)
<1>1. /\ d \in Seq(S) /\ Len(q) \in Nat
      /\ \A i \in 1..Len(q) : i \in 1..Len(d) /\ d[i] = q[i]
      /\ Len(q) + 1 \in 1..Len(d) /\ d[Len(q) + 1] = x
      /\ \A i \in 1..Len(d) : i \in 1..Len(q) \/ i = Len(q) + 1
  BY Queueing
<1> HIDE DEF d
<1>2. ASSUME NEW y \in Range(d) PROVE y \in Range(q) \cup {x}
  <2>1. PICK i \in 1..Len(d) : y = d[i]
    BY <1>1, <1>2, RangeOf
  <2> QED BY <1>1, <2>1, RangeOf
<1>3. ASSUME NEW y \in Range(q) PROVE y \in Range(d)
  <2>1. PICK i \in 1..Len(q) : y = q[i]
    BY <1>3, RangeOf
  <2>2. i \in 1..Len(d) /\ d[i] = y
    BY <1>1, <2>1
  <2> QED BY <1>1, <2>2, RangeOf
<1>4. x \in Range(d)
  <2> DEFINE j == Len(q) + 1
  <2>1. j \in 1..Len(d) /\ d[j] = x
    BY <1>1
  <2> HIDE DEF j
  <2> QED BY <1>1, <2>1, RangeOf
<1> QED BY <1>1, <1>2, <1>3, <1>4 DEF d

DoneOf(f) == Range(files[f].data) \cup files[f].failed

LEMMA WrittenFile ==
    ASSUME Typed, ThreadWrite, m_OutFd # 0
    PROVE  /\ m_OutFd \in 1..Len(files) /\ buf # <<>> /\ buf[1] \in Full /\ buf' = <<>>
           /\ Others(m_OutFd) /\ SameStart(files'[m_OutFd], files[m_OutFd])
           /\ files'[m_OutFd].chunks = files[m_OutFd].chunks
           /\ files'[m_OutFd].used = files[m_OutFd].used
           /\ files[m_OutFd].data \in Seq(Chunk) /\ files'[m_OutFd].data \in Seq(Chunk)
           /\ \/ files'[m_OutFd].data = Append(files[m_OutFd].data, buf[1].chunk)
              \/ files'[m_OutFd].data = files[m_OutFd].data
           /\ DoneOf(m_OutFd)' = DoneOf(m_OutFd) \cup {buf[1].chunk}
<1> DEFINE c == m_OutFd
           x == buf[1].chunk
           r == files[c]
<1>1. c \in 1..Len(files) /\ files \in Seq(FileRecord) /\ files[c] \in FileRecord
  BY DEF Typed, Filing
<1>2. buf # <<>> /\ buf[1] \in Full /\ buf' = <<>>
  BY FullBuf DEF Typed, ThreadWrite
<1>3. x \in Chunk /\ m_OutFd' = m_OutFd
  BY <1>2 DEF Full, ThreadWrite
<1>4. r.data \in Seq(Chunk) /\ r.failed \subseteq Chunk
  BY <1>1 DEF FileRecord
<1> HIDE DEF x
<1>5. CASE files' = [files EXCEPT ![c].data = Append(@, x)]
  <2> DEFINE d == Append(r.data, x)
  <2>1. Edit(files', files, c, [files[c] EXCEPT !.data = d])
    BY <1>1, <1>3, <1>5, EditedData
  <2>2. d \in Seq(Chunk) /\ Range(d) = Range(r.data) \cup {x}
    BY <1>3, <1>4, AppendedRange
  <2> HIDE DEF d
  <2>3. files'[c] = [files[c] EXCEPT !.data = d] /\ Others(c)
    BY <1>1, <2>1 DEF Edit, Others
  <2>4. /\ files'[c].data = d /\ files'[c].failed = r.failed
        /\ SameStart(files'[c], r) /\ files'[c].chunks = r.chunks /\ files'[c].used = r.used
    BY <1>1, <2>3 DEF SameStart, FileRecord
  <2>5. DoneOf(c)' = DoneOf(c) \cup {x}
    BY <1>3, <2>2, <2>4 DEF DoneOf
  <2> QED BY <1>1, <1>2, <1>4, <2>2, <2>3, <2>4, <2>5 DEF x, d
<1>6. CASE files' = [files EXCEPT ![c].failed = @ \cup {x}]
  <2>1. Edit(files', files, c, [files[c] EXCEPT !.failed = files[c].failed \cup {x}])
    BY <1>1, <1>3, <1>6, EditedFailed
  <2>3. files'[c] = [files[c] EXCEPT !.failed = files[c].failed \cup {x}] /\ Others(c)
    BY <1>1, <2>1 DEF Edit, Others
  <2>4. /\ files'[c].data = r.data /\ files'[c].failed = r.failed \cup {x}
        /\ SameStart(files'[c], r) /\ files'[c].chunks = r.chunks /\ files'[c].used = r.used
    BY <1>1, <2>3 DEF SameStart, FileRecord
  <2>5. DoneOf(c)' = DoneOf(c) \cup {x}
    BY <1>3, <2>4 DEF DoneOf
  <2> QED BY <1>1, <1>2, <1>4, <2>3, <2>4, <2>5 DEF x
<1> QED BY <1>5, <1>6 DEF ThreadWrite, x

-----------------------------------------------------------------------------
(***************************************************************************)
(* The way of what the library hands over: numbered in its file, queued,   *)
(* popped, written.                                                        *)
(***************************************************************************)
Opened ==
    /\ m_OutFd \in {0, Current}
    /\ tpc = "none" => m_OutFd = 0
    /\ tpc # "none" => m_OutFd = IF files[Current].opened THEN Current ELSE 0

(* How many of the current file's have left the pipe. *)
Gone == files[Current].chunks - Len(writerQ) - (IF buf = <<>> THEN 0 ELSE 1)

Numbered ==
    tpc # "none" =>
        /\ \A i \in 1..Len(writerQ) :
              /\ writerQ[i].chunk.file = Current
              /\ writerQ[i].chunk.n = files[Current].chunks - Len(writerQ) + i
        /\ buf # <<>> => /\ buf[1].chunk.file = Current
                         /\ buf[1].chunk.n = files[Current].chunks - Len(writerQ)
        /\ Gone >= 0

Piped ==
    m_OutFd # 0 =>
        \A x \in Chunk : x \in DoneOf(Current) <=> x.file = Current /\ x.n \in 1..Gone

InOrder(f) ==
    /\ \A i, j \in 1..Len(files[f].data) : i < j => files[f].data[i].n < files[f].data[j].n
    /\ \A x \in DoneOf(f) : x.file = f /\ x.n \in 1..files[f].chunks
    /\ \A x \in DoneOf(f) : \A n \in 1..x.n : [file |-> f, n |-> n] \in DoneOf(f)

AllInOrder == \A f \in 1..Len(files) : InOrder(f)

(* The steps that touch files, pipe or names. *)
Quiet ==
    /\ UNCHANGED <<files, writerQ, buf, m_OutFd, notes, m_FileName, names>>
    /\ tpc = "none" <=> tpc' = "none"

LEMMA QuietSteps ==
    ASSUME [Next]_vars
    PROVE  \/ \E kind \in Kind : StartFlag(kind)
           \/ ReceiveSample /\ m_bEnableMux
           \/ GivePush \/ Join \/ (Pop /\ writerQ # <<>>) \/ ThreadWrite
           \/ Quiet
<1>1. ASSUME NEW kind \in Kind, StopFlag(kind) PROVE Quiet
  BY <1>1 DEF StopFlag, buffers, output, Quiet
<1>2. CASE ReceiveSample /\ ~m_bEnableMux
  BY <1>2, Received DEF buffers, Quiet
<1>3. CASE Stop \/ Run
  BY <1>3 DEF Stop, Run, buffers, naming, output, Quiet
<1>4. CASE GetPend \/ GetWake \/ GetTake \/ LibraryReturns \/ SetExit
  BY <1>4 DEF GetPend, GetWake, GetTake, LibraryReturns, SetExit, buffers, naming, output, Quiet
<1>5. CASE GivePost \/ WakeThread
  BY <1>5 DEF GivePost, WakeThread, PostWriter, buffers, naming, output, Quiet
<1>6. CASE LoopTest
  BY <1>6 DEF LoopTest, buffers, naming, output, Quiet
<1>7. CASE ThreadPend
  BY <1>7 DEF ThreadPend, buffers, naming, output, Quiet
<1>8. CASE ThreadWake \/ ThreadPost
  BY <1>8 DEF ThreadWake, ThreadPost, buffers, naming, output, Quiet
<1>9. CASE Pop /\ writerQ = <<>>
  BY <1>9 DEF Pop, naming, output, Quiet
<1>10. CASE UNCHANGED vars
  BY <1>10 DEF vars, buffers, naming, output, Quiet
<1> QED
  BY <1>1, <1>2, <1>3, <1>4, <1>5, <1>6, <1>7, <1>8, <1>9, <1>10
     DEF Next, Receive, Library, Stopping, ThreadLoop

(* A start flag finds no session. *)
LEMMA NoSession ==
    ASSUME Typed, NEW kind \in Kind, StartFlag(kind)
    PROVE  tpc = "none" /\ m_bThreadExit
<1>1. upc = "idle" /\ want = "none" /\ Session /\ Flags
  BY DEF StartFlag, Typed
<1> QED BY <1>1, Zenon DEF Session, Flags

LEMMA NewFileThere ==
    ASSUME Typed, NEW kind \in Kind, StartFlag(kind)
    PROVE  \E ok \in BOOLEAN :
              /\ Len(files) \in Nat /\ Len(files') = Len(files) + 1 /\ Current' = Len(files) + 1
              /\ \A f \in 1..Len(files) : f \in 1..Len(files') /\ files'[f] = files[f]
              /\ Current' \in 1..Len(files') /\ files'[Current'] = NewFile(kind, ok)
              /\ \A f \in 1..Len(files') : f \in 1..Len(files) \/ f = Current'
              /\ m_OutFd' = IF ok THEN Current' ELSE 0
              /\ writerQ' = <<>> /\ buf' = <<>> /\ tpc' = "loop"
<1>1. PICK ok \in BOOLEAN : /\ files' = Append(files, NewFile(kind, ok)) /\ NewFile(kind, ok) \in FileRecord
                            /\ m_OutFd' = IF ok THEN Len(files) + 1 ELSE 0
  BY Started DEF Typed
<1>2. writerQ' = <<>> /\ buf' = <<>> /\ tpc' = "loop"
  BY DEF StartFlag, ResetWriter
<1>3. files \in Seq(FileRecord)
  BY DEF Typed, Filing
<1>4. /\ Len(files) \in Nat /\ Len(files') = Len(files) + 1
      /\ \A f \in 1..Len(files) : f \in 1..Len(files') /\ files'[f] = files[f]
      /\ Len(files) + 1 \in 1..Len(files') /\ files'[Len(files) + 1] = NewFile(kind, ok)
      /\ \A f \in 1..Len(files') : f \in 1..Len(files) \/ f = Len(files) + 1
  BY <1>1, <1>3, Queueing
<1> QED BY <1>1, <1>2, <1>4 DEF Current

LEMMA InitPipe == Init => Opened /\ Numbered /\ Piped /\ AllInOrder
<1> SUFFICES ASSUME Init PROVE Opened /\ Numbered /\ Piped /\ AllInOrder
  OBVIOUS
<1>1. tpc = "none" /\ m_OutFd = 0 /\ Len(files) = 0
  BY DEF Init
<1> QED BY <1>1 DEF Opened, Numbered, Piped, AllInOrder

LEMMA StepOpened ==
    ASSUME Typed, Typed', Opened, [Next]_vars
    PROVE  Opened'
<1>1. ASSUME NEW kind \in Kind, StartFlag(kind) PROVE Opened'
  <2>1. PICK ok \in BOOLEAN : /\ files'[Current'] = NewFile(kind, ok) /\ tpc' = "loop"
                              /\ m_OutFd' = IF ok THEN Current' ELSE 0
    BY <1>1, NewFileThere
  <2> QED BY <2>1 DEF Opened, NewFile
<1>2. CASE ReceiveSample /\ m_bEnableMux
  <2>1. tpc' = tpc /\ m_OutFd' = m_OutFd
    BY <1>2, Received
  <2>2. Current' = Current /\ files'[Current].opened = files[Current].opened
    BY <1>2, SampleFile DEF Others, SameStart, Current
  <2> QED BY <2>1, <2>2 DEF Opened
<1>3. CASE GivePush
  <2>1. tpc' = tpc /\ m_OutFd' = m_OutFd
    BY <1>3 DEF GivePush
  <2>2. Current' = Current /\ files'[Current].opened = files[Current].opened
    BY <1>3, GivenFile DEF Others, SameStart, Current
  <2> QED BY <2>1, <2>2 DEF Opened
<1>4. CASE Join
  <2>1. tpc' = "none" /\ m_OutFd' = 0
    BY <1>4 DEF Join
  <2> QED BY <2>1 DEF Opened
<1>5. CASE Pop /\ writerQ # <<>>
  BY <1>5 DEF Pop, output, Opened, Current
<1>6. CASE ThreadWrite
  <2>1. tpc # "none" /\ tpc' # "none" /\ m_OutFd' = m_OutFd
    BY <1>6 DEF ThreadWrite
  <2>2. CASE m_OutFd # 0
    <3>1. Current' = Current /\ files'[Current].opened = files[Current].opened
      BY <1>6, <2>2, WrittenFile DEF Others, SameStart, Current, Opened
    <3> QED BY <2>1, <3>1 DEF Opened
  <2>3. CASE m_OutFd = 0
    BY <1>6, <2>1, <2>3 DEF ThreadWrite, Opened, Current
  <2> QED BY <2>2, <2>3
<1>7. CASE Quiet
  BY <1>7 DEF Quiet, Opened, Current
<1> QED BY <1>1, <1>2, <1>3, <1>4, <1>5, <1>6, <1>7, QuietSteps

-----------------------------------------------------------------------------
(* The pipe holds no less after the steps that only move what is in it. *)
LEMMA PipeMoves ==
    ASSUME Typed, Typed', Opened, Numbered, [Next]_vars, tpc # "none",
           (ReceiveSample /\ m_bEnableMux) \/ GivePush \/ (Pop /\ writerQ # <<>>)
    PROVE  /\ Numbered' /\ Current' = Current /\ Gone' = Gone /\ m_OutFd' = m_OutFd
           /\ Others(Current) /\ SameStart(files'[Current], files[Current])
           /\ SameBytes(files'[Current], files[Current])
           /\ files'[Current].chunks >= files[Current].chunks
<1> DEFINE c == Current
           k == files[c].chunks
<1>1. /\ c \in 1..Len(files) /\ files[c] \in FileRecord /\ k \in Nat
      /\ writerQ \in Seq(Full) /\ Len(writerQ) \in Nat
  BY CurrentFile DEF Typed, Buffers
<1>2. /\ \A i \in 1..Len(writerQ) : writerQ[i].chunk.file = c /\ writerQ[i].chunk.n = k - Len(writerQ) + i
      /\ buf # <<>> => buf[1].chunk.file = c /\ buf[1].chunk.n = k - Len(writerQ)
      /\ Gone >= 0 /\ Gone = k - Len(writerQ) - (IF buf = <<>> THEN 0 ELSE 1)
  BY DEF Numbered, Gone
<1>3. CASE ReceiveSample /\ m_bEnableMux
  <2>1. UNCHANGED <<tpc, writerQ, buf, m_OutFd>>
    BY <1>3, Received DEF buffers
  <2>2. /\ Others(c) /\ SameStart(files'[c], files[c]) /\ SameBytes(files'[c], files[c])
        /\ files'[c].chunks = k
    BY <1>3, SampleFile
  <2>3. Current' = c
    BY <2>2 DEF Others, Current
  <2>4. Gone' = Gone
    BY <2>1, <2>2, <2>3 DEF Gone
  <2>5. Numbered'
    BY <1>2, <2>1, <2>2, <2>3, <2>4 DEF Numbered
  <2> QED BY <1>1, <2>1, <2>2, <2>3, <2>4, <2>5
<1>4. CASE GivePush
  <2> DEFINE n == k + 1
             full == [buf |-> libBuf, chunk |-> [file |-> c, n |-> n]]
  <2>1. UNCHANGED <<tpc, buf, m_OutFd>>
    BY <1>4 DEF GivePush
  <2>2. /\ Others(c) /\ SameStart(files'[c], files[c]) /\ SameBytes(files'[c], files[c])
        /\ files'[c].chunks = n /\ full \in Full /\ writerQ' = Append(writerQ, full)
    BY <1>4, GivenFile
  <2>3. Current' = c
    BY <2>2 DEF Others, Current
  <2>4. full.chunk.file = c /\ full.chunk.n = n
    OBVIOUS
  <2> HIDE DEF full
  <2>5. /\ Len(writerQ') = Len(writerQ) + 1
        /\ writerQ'[Len(writerQ) + 1] = full
        /\ \A i \in 1..Len(writerQ) : i \in 1..Len(writerQ') /\ writerQ'[i] = writerQ[i]
        /\ \A i \in 1..Len(writerQ') : i \in 1..Len(writerQ) \/ i = Len(writerQ) + 1
    BY <1>1, <2>2, Queueing
  <2>6. Gone' = Gone
    <3>1. Gone' = n - (Len(writerQ) + 1) - (IF buf = <<>> THEN 0 ELSE 1)
      BY <2>1, <2>2, <2>3, <2>5 DEF Gone
    <3>2. k \in Nat /\ Len(writerQ) \in Nat
      BY <1>1
    <3>3. Gone = k - Len(writerQ) - (IF buf = <<>> THEN 0 ELSE 1)
      BY <1>2
    <3> DEFINE l == Len(writerQ)
               b == IF buf = <<>> THEN 0 ELSE 1
    <3>4. b \in 0..1
      OBVIOUS
    <3> HIDE DEF k, l, b
    <3> QED BY <3>1, <3>2, <3>3, <3>4 DEF l, b
  <2>7. n - Len(writerQ') = k - Len(writerQ)
    <3>1. k \in Nat /\ Len(writerQ) \in Nat /\ Len(writerQ') = Len(writerQ) + 1
      BY <1>1, <2>5
    <3> DEFINE l == Len(writerQ)
               m == Len(writerQ')
    <3> HIDE DEF k, l, m
    <3>2. k \in Nat /\ l \in Nat /\ m = l + 1
      BY <3>1 DEF l, m
    <3>3. (k + 1) - m = k - l
      BY <3>2
    <3> QED BY <3>3 DEF l, m
  <2>8. ASSUME NEW i \in 1..Len(writerQ')
        PROVE  writerQ'[i].chunk.file = c /\ writerQ'[i].chunk.n = n - Len(writerQ') + i
    <3>1. CASE i \in 1..Len(writerQ)
      BY <1>1, <1>2, <2>5, <2>7, <3>1
    <3>2. CASE i = Len(writerQ) + 1
      <4>1. writerQ'[i].chunk.file = c /\ writerQ'[i].chunk.n = n
        BY <2>4, <2>5, <3>2
      <4>2. n - Len(writerQ') + i = n
        BY <1>1, <2>5, <3>2
      <4> QED BY <4>1, <4>2
    <3> QED BY <2>5, <3>1, <3>2
  <2>9. Numbered'
    BY <1>2, <2>1, <2>2, <2>3, <2>6, <2>7, <2>8 DEF Numbered
  <2> QED BY <1>1, <2>1, <2>2, <2>3, <2>6, <2>9
<1>5. CASE Pop /\ writerQ # <<>>
  <2>1. /\ tpc = "pop" /\ buf' = <<Head(writerQ)>> /\ writerQ' = Tail(writerQ)
        /\ UNCHANGED <<files, m_OutFd>>
    BY <1>5 DEF Pop, output
  <2>2. buf = <<>>
    BY <2>1 DEF Typed, Buffers
  <2>3. /\ Head(writerQ) = writerQ[1] /\ 1 \in 1..Len(writerQ) /\ Len(writerQ') = Len(writerQ) - 1
        /\ \A i \in 1..Len(writerQ') : i + 1 \in 1..Len(writerQ) /\ writerQ'[i] = writerQ[i + 1]
    BY <1>1, <1>5, <2>1, Popping
  <2>4. buf' # <<>> /\ buf'[1] = writerQ[1]
    BY <2>1, <2>3
  <2>5. Current' = c /\ files'[c] = files[c]
    BY <2>1 DEF Current
  <2>6. Gone' = Gone
    <3>1. Gone' = k - (Len(writerQ) - 1) - 1
      BY <2>3, <2>4, <2>5 DEF Gone
    <3> QED BY <1>1, <1>2, <2>2, <3>1
  <2>7. buf'[1].chunk.file = c /\ buf'[1].chunk.n = k - Len(writerQ')
    <3>1. writerQ[1].chunk.file = c /\ writerQ[1].chunk.n = k - Len(writerQ) + 1
      BY <1>2, <2>3
    <3> QED BY <1>1, <2>3, <2>4, <3>1
  <2>8. ASSUME NEW i \in 1..Len(writerQ')
        PROVE  writerQ'[i].chunk.file = c /\ writerQ'[i].chunk.n = k - Len(writerQ') + i
    <3> DEFINE j == i + 1
    <3>1. j \in 1..Len(writerQ) /\ writerQ'[i] = writerQ[j]
      BY <2>3
    <3>2. k - Len(writerQ') + i = k - Len(writerQ) + j
      <4>1. k \in Nat /\ Len(writerQ) \in Nat /\ Len(writerQ') = Len(writerQ) - 1 /\ i \in Int
        BY <1>1, <2>3
      <4> DEFINE l == Len(writerQ)
                 m == Len(writerQ')
      <4> HIDE DEF k, l, m
      <4>2. k \in Nat /\ l \in Nat /\ m = l - 1
        BY <4>1 DEF l, m
      <4>3. k - m + i = k - l + (i + 1)
        BY <4>1, <4>2
      <4> QED BY <4>3 DEF l, m
    <3> HIDE DEF j
    <3> QED BY <1>2, <3>1, <3>2
  <2>9. Numbered'
    BY <1>2, <2>5, <2>6, <2>7, <2>8 DEF Numbered
  <2> QED BY <1>1, <2>1, <2>5, <2>6, <2>9 DEF Others, SameStart, SameBytes
<1> QED BY <1>3, <1>4, <1>5

(* A write takes the next one out of the pipe. *)
LEMMA PipeWrites ==
    ASSUME Typed, Opened, Numbered, ThreadWrite
    PROVE  /\ Numbered' /\ Current' = Current /\ Gone' = Gone + 1 /\ Gone \in Nat /\ m_OutFd' = m_OutFd
           /\ buf[1].chunk.file = Current /\ buf[1].chunk.n = Gone + 1
           /\ Current \in 1..Len(files) /\ Gone + 1 <= files[Current].chunks
           /\ buf[1].chunk \in Chunk
           /\ files'[Current].chunks = files[Current].chunks
<1> DEFINE c == Current
           k == files[c].chunks
<1>1. tpc # "none" /\ buf # <<>> /\ buf[1] \in Full /\ buf' = <<>>
      /\ UNCHANGED <<writerQ, m_OutFd>> /\ tpc' = "post"
  BY FullBuf DEF ThreadWrite, Typed
<1>2. /\ c \in 1..Len(files) /\ k \in Nat
      /\ writerQ \in Seq(Full) /\ Len(writerQ) \in Nat
  BY <1>1, CurrentFile DEF Typed, Buffers
<1>3. /\ \A i \in 1..Len(writerQ) : writerQ[i].chunk.file = c /\ writerQ[i].chunk.n = k - Len(writerQ) + i
      /\ buf[1].chunk.file = c /\ buf[1].chunk.n = k - Len(writerQ)
      /\ Gone >= 0 /\ Gone = k - Len(writerQ) - 1
  BY <1>1 DEF Numbered, Gone
<1>4. Current' = c /\ files'[c].chunks = k
  <2>1. CASE m_OutFd # 0
    <3>1. m_OutFd = c
      BY <2>1 DEF Opened
    <3> QED BY <2>1, <3>1, WrittenFile DEF Others, Current
  <2>2. CASE m_OutFd = 0
    BY <2>2 DEF ThreadWrite, Current
  <2> QED BY <2>1, <2>2
<1>5. Gone' = k - Len(writerQ)
  <2>1. Gone' = k - Len(writerQ) - 0
    BY <1>1, <1>4 DEF Gone
  <2> QED BY <1>2, <2>1
<1>6. Gone' = Gone + 1 /\ Gone \in Nat /\ Gone + 1 = k - Len(writerQ) /\ Gone + 1 <= k
  BY <1>2, <1>3, <1>5
<1>7. Numbered'
  <2>1. Gone' >= 0
    BY <1>3, <1>6
  <2> QED BY <1>1, <1>3, <1>4, <2>1 DEF Numbered
<1>8. buf[1].chunk \in Chunk
  BY <1>1 DEF Full
<1> QED BY <1>1, <1>2, <1>3, <1>4, <1>6, <1>7, <1>8

LEMMA StepNumbered ==
    ASSUME Typed, Typed', Opened, Numbered, [Next]_vars
    PROVE  Numbered'
<1>1. ASSUME NEW kind \in Kind, StartFlag(kind) PROVE Numbered'
  <2>1. PICK ok \in BOOLEAN : /\ files'[Current'] = NewFile(kind, ok)
                              /\ writerQ' = <<>> /\ buf' = <<>>
    BY <1>1, NewFileThere
  <2>2. files'[Current'].chunks = 0 /\ Len(writerQ') = 0
    BY <2>1 DEF NewFile
  <2> QED BY <2>1, <2>2 DEF Numbered, Gone
<1>2. CASE ReceiveSample /\ m_bEnableMux
  BY <1>2, SampleFile, PipeMoves
<1>3. CASE GivePush
  BY <1>3, GivenFile, PipeMoves
<1>4. CASE Join
  BY <1>4 DEF Join, Numbered
<1>5. CASE Pop /\ writerQ # <<>>
  <2>1. tpc # "none"
    BY <1>5 DEF Pop
  <2> QED BY <1>5, <2>1, PipeMoves
<1>6. CASE ThreadWrite
  BY <1>6, PipeWrites
<1>7. CASE Quiet
  BY <1>7 DEF Quiet, Numbered, Current, Gone
<1> QED BY <1>1, <1>2, <1>3, <1>4, <1>5, <1>6, <1>7, QuietSteps

LEMMA StepPiped ==
    ASSUME Typed, Typed', Opened, Opened', Numbered, Piped, [Next]_vars
    PROVE  Piped'
<1>1. ASSUME NEW kind \in Kind, StartFlag(kind) PROVE Piped'
  <2>1. PICK ok \in BOOLEAN : /\ files'[Current'] = NewFile(kind, ok)
                              /\ writerQ' = <<>> /\ buf' = <<>>
    BY <1>1, NewFileThere
  <2>2. /\ files'[Current'].chunks = 0 /\ Len(writerQ') = 0
        /\ files'[Current'].data = <<>> /\ files'[Current'].failed = {}
    BY <2>1 DEF NewFile
  <2>3. Gone' = 0
    <3>1. Gone' = 0 - 0 - 0
      BY <2>1, <2>2 DEF Gone
    <3> QED BY <3>1
  <2>4. DoneOf(Current)' = {}
    BY <2>2 DEF DoneOf, Range
  <2> QED BY <2>3, <2>4 DEF Piped
<1>2. ASSUME tpc # "none", (ReceiveSample /\ m_bEnableMux) \/ GivePush \/ (Pop /\ writerQ # <<>>)
      PROVE  Piped'
  <2>1. /\ Current' = Current /\ Gone' = Gone /\ m_OutFd' = m_OutFd
        /\ SameBytes(files'[Current], files[Current])
    BY <1>2, PipeMoves
  <2>2. DoneOf(Current)' = DoneOf(Current)
    BY <2>1 DEF DoneOf, SameBytes
  <2> QED BY <2>1, <2>2 DEF Piped
<1>3. CASE ReceiveSample /\ m_bEnableMux
  BY <1>2, <1>3, SampleFile
<1>4. CASE GivePush
  BY <1>2, <1>4, GivenFile
<1>5. CASE Join
  BY <1>5 DEF Join, Piped
<1>6. CASE Pop /\ writerQ # <<>>
  BY <1>2, <1>6 DEF Pop
<1>7. CASE ThreadWrite
  <2>1. CASE m_OutFd = 0
    BY <1>7, <2>1 DEF ThreadWrite, Piped
  <2>2. CASE m_OutFd # 0
    <3> DEFINE y == buf[1].chunk
    <3>1. /\ Current' = Current /\ Gone' = Gone + 1 /\ Gone \in Nat
          /\ y.file = Current /\ y.n = Gone + 1 /\ y \in Chunk
      BY <1>7, PipeWrites
    <3>2. DoneOf(Current)' = DoneOf(Current) \cup {y}
      <4>1. m_OutFd = Current /\ m_OutFd' = m_OutFd
        BY <1>7, <2>2 DEF Opened, ThreadWrite
      <4>2. DoneOf(m_OutFd)' = DoneOf(m_OutFd) \cup {y}
        BY <1>7, <2>2, WrittenFile
      <4> QED BY <3>1, <4>1, <4>2 DEF DoneOf
    <3> HIDE DEF y
    <3>3. ASSUME NEW x \in Chunk PROVE x \in DoneOf(Current)' <=> x.file = Current /\ x.n \in 1..(Gone + 1)
      <4>1. x = y <=> x.file = Current /\ x.n = Gone + 1
        BY <3>1 DEF Chunk
      <4>2. x \in DoneOf(Current) <=> x.file = Current /\ x.n \in 1..Gone
        BY <2>2 DEF Piped
      <4>3. x.n \in 1..(Gone + 1) <=> x.n \in 1..Gone \/ x.n = Gone + 1
        BY <3>1
      <4> QED BY <3>2, <4>1, <4>2, <4>3
    <3> QED BY <3>1, <3>3 DEF Piped
  <2> QED BY <2>1, <2>2
<1>8. CASE Quiet
  BY <1>8 DEF Quiet, Piped, Current, Gone, DoneOf
<1> QED BY <1>1, <1>3, <1>4, <1>5, <1>6, <1>7, <1>8, QuietSteps

LEMMA OrderKept ==
    ASSUME NEW f, InOrder(f), SameBytes(files'[f], files[f]),
           files'[f].chunks >= files[f].chunks, files[f].chunks \in Nat, files'[f].chunks \in Nat
    PROVE  InOrder(f)'
<1>1. files'[f].data = files[f].data /\ DoneOf(f)' = DoneOf(f)
  BY DEF SameBytes, DoneOf
<1>2. 1..files[f].chunks \subseteq 1..files'[f].chunks
  OBVIOUS
<1> QED BY <1>1, <1>2 DEF InOrder

LEMMA StepInOrder ==
    ASSUME Typed, Typed', Opened, Numbered, Piped, AllInOrder, [Next]_vars
    PROVE  AllInOrder'
<1>0. /\ \A f \in 1..Len(files) : files[f] \in FileRecord /\ files[f].chunks \in Nat /\ files[f].data \in Seq(Chunk)
      /\ \A f \in 1..Len(files') : files'[f] \in FileRecord /\ files'[f].chunks \in Nat
  <2>1. files \in Seq(FileRecord) /\ files' \in Seq(FileRecord)
    BY DEF Typed, Filing
  <2>2. (\A f \in 1..Len(files) : files[f] \in FileRecord)
        /\ (\A f \in 1..Len(files') : files'[f] \in FileRecord)
    BY <2>1
  <2>3. \A r \in FileRecord : r.chunks \in Nat /\ r.data \in Seq(Chunk)
    BY DEF FileRecord
  <2> QED BY <2>2, <2>3
<1>1. ASSUME NEW f \in 1..Len(files), f \in 1..Len(files'), files'[f] = files[f] PROVE InOrder(f)'
  BY <1>0, <1>1, OrderKept DEF SameBytes, AllInOrder
<1>2. ASSUME NEW kind \in Kind, StartFlag(kind) PROVE AllInOrder'
  <2>1. PICK ok \in BOOLEAN :
          /\ \A f \in 1..Len(files) : f \in 1..Len(files') /\ files'[f] = files[f]
          /\ files'[Current'] = NewFile(kind, ok)
          /\ \A f \in 1..Len(files') : f \in 1..Len(files) \/ f = Current'
    BY <1>2, NewFileThere
  <2>2. ASSUME NEW f, f = Current' PROVE InOrder(f)'
    <3>1. files'[f].data = <<>> /\ files'[f].failed = {}
      BY <2>1, <2>2 DEF NewFile
    <3>2. DoneOf(f)' = {} /\ Len(files'[f].data) = 0
      BY <3>1 DEF DoneOf, Range
    <3> QED BY <3>2 DEF InOrder
  <2> QED BY <1>1, <2>1, <2>2 DEF AllInOrder
<1>3. ASSUME tpc # "none", (ReceiveSample /\ m_bEnableMux) \/ GivePush \/ (Pop /\ writerQ # <<>>)
      PROVE  AllInOrder'
  <2>1. /\ Others(Current) /\ SameBytes(files'[Current], files[Current])
        /\ files'[Current].chunks >= files[Current].chunks
    BY <1>3, PipeMoves
  <2>2. ASSUME NEW f \in 1..Len(files') PROVE InOrder(f)'
    <3>1. f \in 1..Len(files)
      BY <2>1 DEF Others
    <3>2. CASE f = Current
      BY <1>0, <2>1, <3>1, <3>2, OrderKept DEF AllInOrder
    <3>3. CASE f # Current
      BY <1>1, <2>1, <3>1, <3>3 DEF Others
    <3> QED BY <3>2, <3>3
  <2> QED BY <2>2 DEF AllInOrder
<1>4. CASE ReceiveSample /\ m_bEnableMux
  BY <1>3, <1>4, SampleFile
<1>5. CASE GivePush
  BY <1>3, <1>5, GivenFile
<1>6. ASSUME files' = files PROVE AllInOrder'
  BY <1>1, <1>6 DEF AllInOrder
<1>7. CASE Join
  BY <1>6, <1>7 DEF Join
<1>8. CASE Pop /\ writerQ # <<>>
  BY <1>3, <1>8 DEF Pop
<1>9. CASE ThreadWrite
  <2>1. CASE m_OutFd = 0
    BY <1>6, <1>9, <2>1 DEF ThreadWrite
  <2>2. CASE m_OutFd # 0
    <3> DEFINE y == buf[1].chunk
               c == Current
               d == files[c].data
               e == files'[c].data
    <3>0. m_OutFd = c
      BY <2>2 DEF Opened
    <3>1. /\ Gone \in Nat /\ y.file = c /\ y.n = Gone + 1 /\ y \in Chunk /\ c \in 1..Len(files)
          /\ Gone + 1 <= files[c].chunks /\ files'[c].chunks = files[c].chunks
      BY <1>9, PipeWrites
    <3>2. /\ Others(c) /\ DoneOf(c)' = DoneOf(c) \cup {y}
          /\ d \in Seq(Chunk) /\ (e = Append(d, y) \/ e = d)
      <4>1. Others(m_OutFd) /\ DoneOf(m_OutFd)' = DoneOf(m_OutFd) \cup {y}
        BY <1>9, <2>2, WrittenFile
      <4>2. /\ files[m_OutFd].data \in Seq(Chunk)
            /\ files'[m_OutFd].data = Append(files[m_OutFd].data, y)
               \/ files'[m_OutFd].data = files[m_OutFd].data
        BY <1>9, <2>2, WrittenFile
      <4>3. Current' = Current /\ m_OutFd' = m_OutFd
        BY <1>9, PipeWrites
      <4> QED BY <3>0, <4>1, <4>2, <4>3 DEF DoneOf
    <3>3. InOrder(c)
      BY <3>1 DEF AllInOrder
    <3>4. \A x \in Chunk : x \in DoneOf(c) <=> x.file = c /\ x.n \in 1..Gone
      BY <2>2 DEF Piped
    <3> HIDE DEF y
    <3>5. \A i, j \in 1..Len(e) : i < j => e[i].n < e[j].n
      <4>1. CASE e = d
        BY <3>3, <4>1 DEF InOrder
      <4>2. CASE e = Append(d, y)
        <5>1. /\ Len(d) \in Nat /\ Len(e) = Len(d) + 1 /\ e[Len(d) + 1] = y
              /\ \A i \in 1..Len(d) : e[i] = d[i]
              /\ \A i \in 1..Len(e) : i \in 1..Len(d) \/ i = Len(d) + 1
          BY <3>1, <3>2, <4>2, Queueing
        <5>2. ASSUME NEW i \in 1..Len(d) PROVE d[i].n \in 1..Gone
          <6>1. d[i] \in Chunk /\ d[i] \in Range(d)
            BY <3>2, RangeOf
          <6> QED BY <3>4, <6>1 DEF DoneOf
        <5>3. ASSUME NEW i \in 1..Len(e), NEW j \in 1..Len(e), i < j PROVE e[i].n < e[j].n
          <6>1. i \in 1..Len(d)
            BY <5>1, <5>3
          <6>2. CASE j \in 1..Len(d)
            BY <3>3, <5>1, <5>3, <6>1, <6>2 DEF InOrder
          <6>3. CASE j = Len(d) + 1
            <7>1. e[i].n \in 1..Gone /\ e[j].n = Gone + 1 /\ Gone \in Nat
              BY <3>1, <5>1, <5>2, <6>1, <6>3
            <7>2. \A n \in Nat : \A l \in 1..n : l < n + 1
              OBVIOUS
            <7> QED BY <7>1, <7>2, Zenon
          <6> QED BY <5>1, <6>2, <6>3
        <5> QED BY <5>3
      <4> QED BY <3>2, <4>1, <4>2
    <3>6. \A x \in DoneOf(c)' : x.file = c /\ x.n \in 1..files'[c].chunks
      <4>1. files[c].chunks \in Nat
        BY <1>0, <3>1
      <4>2. y.n \in 1..files[c].chunks
        BY <3>1, <4>1
      <4> QED BY <3>1, <3>2, <3>3, <4>2 DEF InOrder
    <3>7. ASSUME NEW x \in DoneOf(c)', NEW n \in 1..x.n PROVE [file |-> c, n |-> n] \in DoneOf(c)'
      <4>1. CASE x \in DoneOf(c)
        BY <3>2, <3>3, <3>7, <4>1 DEF InOrder
      <4>2. CASE x = y
        <5> DEFINE z == [file |-> c, n |-> n]
        <5>1. n \in 1..(Gone + 1) /\ n \in Nat /\ c \in Nat
          BY <3>1, <3>7, <4>2
        <5>2. z \in Chunk /\ z.file = c /\ z.n = n
          BY <5>1 DEF Chunk
        <5>3. CASE n = Gone + 1
          <6>1. z = y
            BY <3>1, <5>2, <5>3 DEF Chunk
          <6> QED BY <3>2, <6>1
        <5>4. CASE n # Gone + 1
          <6>1. n \in 1..Gone
            BY <3>1, <5>1, <5>4
          <6> HIDE DEF z
          <6>2. z \in DoneOf(c)
            BY <3>4, <5>2, <6>1
          <6> QED BY <3>2, <6>2 DEF z
        <5> QED BY <5>3, <5>4
      <4> QED BY <3>2, <4>1, <4>2
    <3>8. InOrder(c)'
      <4>1. Current' = c
        BY <1>9, PipeWrites
      <4> QED BY <3>5, <3>6, <3>7, <4>1 DEF InOrder
    <3>9. ASSUME NEW f \in 1..Len(files') PROVE InOrder(f)'
      <4>1. Current' = c
        BY <1>9, PipeWrites
      <4> QED BY <1>1, <3>2, <3>8, <4>1 DEF Others
    <3> QED BY <3>9 DEF AllInOrder
  <2> QED BY <2>1, <2>2
<1>10. CASE Quiet
  BY <1>6, <1>10 DEF Quiet
<1> QED BY <1>2, <1>4, <1>5, <1>7, <1>8, <1>9, <1>10, QuietSteps

-----------------------------------------------------------------------------
Whole == Typed /\ Opened /\ Numbered /\ Piped /\ AllInOrder

LEMMA AlwaysWhole == Spec => []Whole
<1>1. Init => Whole
  BY InitTyped, InitPipe DEF Whole
<1>2. Whole /\ [Next]_vars => Whole'
  <2> SUFFICES ASSUME Whole, [Next]_vars PROVE Whole'
    OBVIOUS
  <2>1. Typed /\ Typed' /\ Opened /\ Numbered /\ Piped /\ AllInOrder
    BY StepTyped DEF Whole
  <2>2. Opened' /\ Numbered' /\ AllInOrder'
    BY <2>1, StepOpened, StepNumbered, StepInOrder
  <2>3. Piped'
    BY <2>1, <2>2, StepPiped
  <2> QED BY <2>1, <2>2, <2>3, StepTyped DEF Whole
<1> QED BY <1>1, <1>2, PTL DEF Spec

(* A file holds only what the library made for it, in order, and but for   *)
(* failed writes without a hole, whatever an earlier session leaves in the *)
(* queue or on the semaphores.                                             *)
THEOREM FiledInOrder == Spec => []OwnFileInOrder
<1>1. Whole => OwnFileInOrder
  <2> SUFFICES ASSUME Whole, NEW f \in DOMAIN files
               PROVE  /\ \A i, j \in DOMAIN files[f].data : i < j => files[f].data[i].n < files[f].data[j].n
                      /\ \A c \in DoneOf(f) : c.file = f /\ c.n <= files[f].chunks
                      /\ \A c \in DoneOf(f) : \A n \in 1..c.n : [file |-> f, n |-> n] \in DoneOf(f)
    BY DEF OwnFileInOrder, DoneOf
  <2>1. f \in 1..Len(files) /\ files[f] \in FileRecord
    BY DEF Whole, Typed, Filing
  <2>2. InOrder(f)
    BY <2>1 DEF Whole, AllInOrder
  <2>3. files[f].chunks \in Nat /\ files[f].data \in Seq(Chunk)
    BY <2>1 DEF FileRecord
  <2>4. DOMAIN files[f].data = 1..Len(files[f].data)
    BY <2>3
  <2> QED BY <2>2, <2>3, <2>4 DEF InOrder
<1> QED BY <1>1, AlwaysWhole, PTL

-----------------------------------------------------------------------------
(***************************************************************************)
(* Names and announcements.                                                *)
(***************************************************************************)
Naming ==
    /\ \A f \in 1..Len(files) : files[f].name \in 1..names
    /\ \A i \in 1..Len(notes) : notes[i].name \in 1..names
    /\ \A f, g \in 1..Len(files) :
          files[f].opened /\ files[g].opened /\ files[f].name = files[g].name => f = g
    /\ m_FileName # 0 =>
          /\ \A f \in 1..Len(files) : files[f].opened /\ f # m_OutFd => files[f].name # m_FileName
          /\ \A i \in 1..Len(notes) : notes[i].name # m_FileName

(* The file of a session is the one its variables speak of. *)
Titled ==
    tpc # "none" =>
        /\ files[Current].kind = m_WritingMode /\ files[Current].name = m_FileName
        /\ m_Flags \in {"NONE", StartOf(m_WritingMode), StopOf(m_WritingMode)}
        /\ m_Flags = StartOf(m_WritingMode) => ~files[Current].used
        /\ ~m_bThreadExit /\ call = "put" => want = m_WritingMode

TheNote(f, i) ==
    /\ notes[i].name = files[f].name /\ notes[i].code = DoneCode(files[f].kind)
    /\ \A j \in 1..Len(notes) : notes[j].name = files[f].name => j = i

Announced ==
    \A f \in 1..Len(files) :
        files[f].opened /\ files[f].used /\ f # m_OutFd => \E i \in 1..Len(notes) : TheNote(f, i)

(* Most steps leave names and notes alone. *)
Nameless ==
    /\ UNCHANGED <<notes, m_FileName, names, m_OutFd>> /\ Len(files') = Len(files)
    /\ \A f \in 1..Len(files) : SameStart(files'[f], files[f])
    /\ \A f \in 1..Len(files) : files'[f].used = files[f].used \/ (f = Current /\ tpc # "none")

LEMMA NamelessSteps ==
    ASSUME Typed, Opened, [Next]_vars
    PROVE  (\E kind \in Kind : StartFlag(kind)) \/ Join \/ Nameless
<1>1. CASE ReceiveSample /\ m_bEnableMux
  <2>1. UNCHANGED <<notes, m_FileName, names, m_OutFd>>
    BY <1>1, Received
  <2>2. Others(Current) /\ SameStart(files'[Current], files[Current]) /\ tpc # "none"
    BY <1>1, SampleFile
  <2> QED BY <2>1, <2>2 DEF Nameless, Others, SameStart
<1>2. CASE GivePush
  <2>1. UNCHANGED <<notes, m_FileName, names, m_OutFd>>
    BY <1>2 DEF GivePush, naming
  <2>2. Others(Current) /\ SameStart(files'[Current], files[Current]) /\ tpc # "none"
    BY <1>2, GivenFile
  <2> QED BY <2>1, <2>2 DEF Nameless, Others, SameStart
<1>3. CASE Pop
  BY <1>3 DEF Pop, naming, output, Nameless, SameStart
<1>4. CASE ThreadWrite
  <2>1. UNCHANGED <<notes, m_FileName, names, m_OutFd>> /\ tpc # "none"
    BY <1>4 DEF ThreadWrite, naming
  <2>2. CASE m_OutFd # 0
    <3>1. m_OutFd = Current
      BY <2>2 DEF Opened
    <3>2. Others(Current) /\ SameStart(files'[Current], files[Current])
      BY <1>4, <2>2, <3>1, WrittenFile
    <3> QED BY <2>1, <3>2 DEF Nameless, Others, SameStart
  <2>3. CASE m_OutFd = 0
    BY <1>4, <2>1, <2>3 DEF ThreadWrite, Nameless, SameStart
  <2> QED BY <2>2, <2>3
<1>5. CASE Quiet
  BY <1>5 DEF Quiet, Nameless, SameStart
<1> QED BY <1>1, <1>2, <1>3, <1>4, <1>5, QuietSteps

LEMMA InitNames == Init => Naming /\ Titled /\ Announced
<1> SUFFICES ASSUME Init PROVE Naming /\ Titled /\ Announced
  OBVIOUS
<1>1. Len(files) = 0 /\ Len(notes) = 0 /\ m_FileName = 0 /\ tpc = "none"
  BY DEF Init
<1> QED BY <1>1 DEF Naming, Titled, Announced

(* The notes a stop or a join adds. *)
LEMMA Announcing ==
    ASSUME Typed, Titled, Opened, Join, m_OutFd # 0
    PROVE  /\ notes' = notes \o DoneNotes /\ m_OutFd' = 0 /\ m_FileName' = 0
           /\ UNCHANGED <<files, names>> /\ m_OutFd = Current /\ Current \in 1..Len(files)
           /\ files[Current].name = m_FileName
           /\ \/ files[Current].used = FALSE /\ DoneNotes = <<>>
              \/ DoneNotes = <<Note(DoneCode(files[Current].kind))>>
<1>1. /\ tpc = "done" /\ notes' = notes \o DoneNotes /\ m_OutFd' = 0 /\ m_FileName' = 0
      /\ UNCHANGED <<files, names>>
  BY DEF Join, NameCleared
<1>2. /\ files[Current].kind = m_WritingMode /\ files[Current].name = m_FileName
      /\ m_Flags \in {"NONE", StartOf(m_WritingMode), StopOf(m_WritingMode)}
      /\ m_Flags = StartOf(m_WritingMode) => ~files[Current].used
  BY <1>1 DEF Titled
<1>3. m_WritingMode \in {"NORMAL", "EVENT"}
  BY DEF Typed, Flow, Kind
<1>4. files[Current].used \in BOOLEAN /\ Current \in 1..Len(files)
  <2>1. files[Current] \in FileRecord /\ Current \in 1..Len(files)
    BY <1>1, CurrentFile
  <2> QED BY <2>1 DEF FileRecord
<1>5. m_OutFd = Current
  BY DEF Opened
<1>6. \/ files[Current].used = FALSE /\ DoneNotes = <<>>
      \/ DoneNotes = <<Note(DoneCode(files[Current].kind))>>
  <2>1. CASE m_Flags = "NONE"
    BY <1>2, <2>1 DEF DoneNotes
  <2>2. CASE m_Flags = StopOf(m_WritingMode)
    <3>1. m_Flags \in {"NORMAL_STOP", "EVENT_STOP"}
          /\ (m_Flags = "NORMAL_STOP" <=> m_WritingMode = "NORMAL")
      BY <1>3, <2>2 DEF StopOf
    <3>2. DoneNotes = <<Note(IF m_Flags = "NORMAL_STOP" THEN "NORMAL_DONE" ELSE "EVENT_DONE")>>
      BY <3>1 DEF DoneNotes
    <3>3. DoneCode(m_WritingMode) = IF m_Flags = "NORMAL_STOP" THEN "NORMAL_DONE" ELSE "EVENT_DONE"
      BY <3>1 DEF DoneCode
    <3> QED BY <1>2, <3>2, <3>3
  <2>3. CASE m_Flags = StartOf(m_WritingMode)
    <3>1. m_Flags \notin {"NORMAL_STOP", "EVENT_STOP", "NONE"}
      BY <1>3, <2>3 DEF StartOf
    <3>2. DoneNotes = <<>>
      BY <3>1 DEF DoneNotes
    <3> QED BY <1>2, <1>4, <2>3, <3>2
  <2> QED BY <1>2, <2>1, <2>2, <2>3
<1> QED BY <1>1, <1>2, <1>4, <1>5, <1>6

LEMMA StepTitled ==
    ASSUME Typed, Typed', Opened, Titled, [Next]_vars
    PROVE  Titled'
<1>0. /\ Session /\ Flags /\ Flow
      /\ m_WritingMode \in {"NORMAL", "EVENT"}
  BY DEF Typed, Flow, Kind
<1>1. ASSUME NEW kind \in Kind, StartFlag(kind) PROVE Titled'
  <2>1. PICK ok \in BOOLEAN : files'[Current'] = NewFile(kind, ok)
    BY <1>1, NewFileThere
  <2>2. files'[Current'].kind = kind /\ files'[Current'].name = m_FileName' /\ files'[Current'].used = FALSE
    BY <2>1 DEF NewFile
  <2>3. m_WritingMode' = kind /\ m_Flags' = StartOf(kind) /\ want' = kind
    BY <1>1 DEF StartFlag
  <2> QED BY <2>2, <2>3 DEF Titled
<1>2. CASE Join
  BY <1>2 DEF Join, Titled
(* The file keeps its title; what the caller says about it follows. *)
<1>3. ASSUME Nameless, m_WritingMode' = m_WritingMode, tpc' # "none" => tpc # "none",
             \/ m_Flags' = m_Flags /\ (tpc # "none" => files'[Current].used = files[Current].used)
             \/ m_Flags' = "NONE"
             \/ m_Flags' = StopOf(m_WritingMode)
             \/ tpc = "none",
             ~m_bThreadExit' /\ call' = "put" => ~m_bThreadExit /\ call = "put" /\ want' = want
      PROVE  Titled'
  <2>1. StopOf(m_WritingMode) # StartOf(m_WritingMode) /\ "NONE" # StartOf(m_WritingMode)
    BY <1>0 DEF StopOf, StartOf
  <2>2. CASE tpc' = "none"
    BY <2>2 DEF Titled
  <2>3. CASE tpc' # "none"
    <3>1. Current' = Current /\ Current \in 1..Len(files) /\ m_FileName' = m_FileName
      BY <1>3, <2>3, CurrentFile DEF Nameless, Current
    <3>2. SameStart(files'[Current], files[Current])
      BY <1>3, <3>1 DEF Nameless
    <3> QED BY <1>3, <2>1, <2>3, <3>1, <3>2 DEF Titled, SameStart
  <2> QED BY <2>2, <2>3
<1>4. ASSUME NEW kind \in Kind, StopFlag(kind) PROVE Titled'
  <2>1. /\ upc = "idle" /\ want \in {kind, "none"} /\ m_Flags' = StopOf(kind) /\ UNCHANGED <<tpc, m_bThreadExit, m_WritingMode>>
        /\ m_bThreadExit \/ call' = "close" 
    BY <1>4 DEF StopFlag, StopMuxing, CallLibrary
  <2>2. Nameless
    BY <1>4, <1>0 DEF StopFlag, output, Nameless, SameStart
  <2>3. tpc # "none" => kind = m_WritingMode
    BY <1>0, <2>1 DEF Session, Titled
  <2> QED BY <1>3, <2>1, <2>2, <2>3
<1>5. CASE ReceiveSample
  <2>1. /\ m_Flags' = "NONE" /\ UNCHANGED <<tpc, m_WritingMode, m_bThreadExit, want>>
        /\ call' \in {"put", call} /\ upc = "idle"
    BY <1>5, Received DEF caller
  <2>2. call = "put"
    BY <1>0, <2>1 DEF Session
  <2>3. Nameless
    <3>1. ~Join /\ \A kind \in Kind : ~StartFlag(kind)
      BY <2>1 DEF Join, StartFlag, StartOf, Kind
    <3> QED BY <3>1, NamelessSteps
  <2> QED BY <1>3, <2>1, <2>2, <2>3
<1>6. CASE Stop
  <2>1. /\ upc = "idle" /\ UNCHANGED <<tpc, m_WritingMode, m_bThreadExit, m_Flags, files>>
        /\ m_bEnableMux => m_bThreadExit \/ call' = "close"
        /\ ~m_bEnableMux => UNCHANGED caller
    BY <1>6 DEF Stop, StopMuxing, CallLibrary, output
  <2>2. Nameless
    BY <1>6, <1>0 DEF Stop, output, Nameless, SameStart
  <2>3. ~(~m_bThreadExit' /\ call' = "put")
    BY <1>0, <2>1 DEF Session, caller
  <2> QED BY <1>3, <2>1, <2>2, <2>3
<1>7. ASSUME Nameless, UNCHANGED <<m_WritingMode, m_Flags, want>>, call' = call, m_bThreadExit' \in {TRUE, m_bThreadExit},
             tpc' # "none" => tpc # "none", tpc # "none" => files'[Current].used = files[Current].used
      PROVE  Titled'
  <2>1. ~m_bThreadExit' => ~m_bThreadExit
    BY <1>7, Zenon
  <2>2. ~m_bThreadExit' /\ call' = "put" => ~m_bThreadExit /\ call = "put" /\ want' = want
    BY <1>7, <2>1
  <2>3. \/ m_Flags' = m_Flags /\ (tpc # "none" => files'[Current].used = files[Current].used)
        \/ m_Flags' = "NONE"
        \/ m_Flags' = StopOf(m_WritingMode)
        \/ tpc = "none"
    BY <1>7
  <2>4. Nameless /\ m_WritingMode' = m_WritingMode /\ (tpc' # "none" => tpc # "none")
    BY <1>7
  <2> QED BY <1>3, <2>2, <2>3, <2>4
<1>8. CASE GivePush
  <2>1. UNCHANGED <<m_WritingMode, m_Flags, want, call, tpc, m_bThreadExit>>
    BY <1>8 DEF GivePush, status, naming
  <2>2. files'[Current].used = files[Current].used
    BY <1>8, GivenFile
  <2>3. Nameless
    <3>1. ~Join /\ \A kind \in Kind : ~StartFlag(kind)
      BY <1>8 DEF GivePush, Join, StartFlag
    <3> QED BY <3>1, NamelessSteps
  <2> QED BY <1>7, <2>1, <2>2, <2>3
<1>9. CASE ThreadWrite
  <2>1. UNCHANGED <<m_WritingMode, m_Flags, want, call, m_bThreadExit, upc>> /\ tpc = "write" /\ tpc' = "post"
    BY <1>9 DEF ThreadWrite, status, naming, caller
  <2>2. files'[Current].used = files[Current].used
    BY <1>9, WrittenFile DEF ThreadWrite, Opened
  <2>3. Nameless
    <3>1. ~Join /\ \A kind \in Kind : ~StartFlag(kind)
      BY <2>1 DEF Join, StartFlag
    <3> QED BY <3>1, NamelessSteps
  <2> QED BY <1>7, <2>1, <2>2, <2>3
<1>10. ASSUME UNCHANGED <<naming, call, files, m_OutFd, notes>>, m_bThreadExit' \in {TRUE, m_bThreadExit},
              tpc' # "none" => tpc # "none"
       PROVE  Titled'
  <2>1. Nameless
    BY <1>10 DEF Nameless, naming, SameStart
  <2> QED BY <1>7, <1>10, <2>1 DEF naming
<1>11. CASE Run \/ GetPend \/ GetWake \/ GetTake \/ LibraryReturns
  BY <1>10, <1>11 DEF Run, GetPend, GetWake, GetTake, LibraryReturns, caller, status, output
<1>12. CASE GivePost \/ WakeThread \/ SetExit
  BY <1>10, <1>12 DEF GivePost, WakeThread, SetExit, PostWriter, status, output
<1>13. CASE LoopTest \/ ThreadPend \/ ThreadWake \/ ThreadPost
  BY <1>10, <1>13 DEF LoopTest, ThreadPend, ThreadWake, ThreadPost, caller, status, output
<1>14. CASE Pop
  BY <1>10, <1>14 DEF Pop, caller, status, output
<1>15. CASE UNCHANGED vars
  BY <1>10, <1>15 DEF vars, caller, status, output
<1> QED
  BY <1>1, <1>2, <1>4, <1>5, <1>6, <1>8, <1>9, <1>11, <1>12, <1>13, <1>14, <1>15
     DEF Next, Receive, Library, Stopping, ThreadLoop

-----------------------------------------------------------------------------
LEMMA NotesOut ==
    ASSUME Typed
    PROVE  /\ notes \in Seq(NoteRecord) /\ Len(notes) \in Nat /\ DOMAIN notes = 1..Len(notes)
           /\ \A i \in 1..Len(notes) : notes[i].code \in {"NORMAL_DONE", "EVENT_DONE"} /\ notes[i].name \in Nat
           /\ names \in Nat /\ m_FileName \in 0..names /\ Len(files) \in Nat
           /\ files \in Seq(FileRecord) /\ \A f \in 1..Len(files) : files[f] \in FileRecord
<1>1. notes \in Seq(NoteRecord) /\ files \in Seq(FileRecord) /\ names \in Nat /\ m_FileName \in 0..names
  BY DEF Typed, Filing
<1>2. \A i \in 1..Len(notes) : notes[i] \in NoteRecord
  BY <1>1
<1>3. \A i \in 1..Len(notes) : notes[i].code \in {"NORMAL_DONE", "EVENT_DONE"} /\ notes[i].name \in Nat
  BY <1>2 DEF NoteRecord
<1> QED BY <1>1, <1>3

(* What a join appends to the notes. *)
LEMMA Appended ==
    ASSUME Typed, Naming, Titled, Opened, Join
    PROVE  \/ UNCHANGED <<files, names, notes, m_OutFd, m_FileName>>
           \/ /\ UNCHANGED <<files, names>> /\ m_OutFd' = 0 /\ m_FileName' = 0
              /\ m_OutFd \in 1..Len(files) /\ files[m_OutFd].name = m_FileName
              /\ \/ notes' = notes /\ files[m_OutFd].used = FALSE
                 \/ /\ Len(notes') = Len(notes) + 1
                    /\ \A i \in 1..Len(notes) : i \in 1..Len(notes') /\ notes'[i] = notes[i]
                    /\ Len(notes) + 1 \in 1..Len(notes')
                    /\ notes'[Len(notes) + 1].name = m_FileName
                    /\ notes'[Len(notes) + 1].code = DoneCode(files[m_OutFd].kind)
                    /\ \A i \in 1..Len(notes') : i \in 1..Len(notes) \/ i = Len(notes) + 1
<1>1. CASE m_OutFd = 0
  BY <1>1 DEF Join
<1>2. CASE m_OutFd # 0
  <2>1. /\ notes' = notes \o DoneNotes /\ m_OutFd' = 0 /\ m_FileName' = 0
        /\ UNCHANGED <<files, names>> /\ m_OutFd \in 1..Len(files)
        /\ files[m_OutFd].name = m_FileName
        /\ \/ files[m_OutFd].used = FALSE /\ DoneNotes = <<>>
           \/ DoneNotes = <<Note(DoneCode(files[m_OutFd].kind))>>
    BY <1>2, Announcing
  <2>2. notes \in Seq(NoteRecord)
    BY NotesOut
  <2>3. CASE files[m_OutFd].used = FALSE /\ DoneNotes = <<>>
    <3>1. notes' = notes
      BY <2>1, <2>2, <2>3
    <3> QED BY <2>1, <2>3, <3>1
  <2>4. CASE DoneNotes = <<Note(DoneCode(files[m_OutFd].kind))>>
    <3> DEFINE note == Note(DoneCode(files[m_OutFd].kind))
    <3>1. note.name = m_FileName /\ note.code = DoneCode(files[m_OutFd].kind)
      BY DEF Note
    <3>2. note \in NoteRecord
      <4>1. m_FileName \in Nat
        BY NotesOut
      <4>2. DoneCode(files[m_OutFd].kind) \in {"NORMAL_DONE", "EVENT_DONE"}
        BY DEF DoneCode
      <4> QED BY <4>1, <4>2 DEF Note, NoteRecord
    <3> HIDE DEF note
    <3>3. notes' = Append(notes, note)
      <4>1. DoneNotes = <<note>>
        BY <2>4 DEF note
      <4> QED BY <2>1, <2>2, <3>2, <4>1
    <3>4. /\ Len(notes') = Len(notes) + 1
          /\ \A i \in 1..Len(notes) : i \in 1..Len(notes') /\ notes'[i] = notes[i]
          /\ Len(notes) + 1 \in 1..Len(notes')
          /\ notes'[Len(notes) + 1] = note
          /\ \A i \in 1..Len(notes') : i \in 1..Len(notes) \/ i = Len(notes) + 1
      BY <2>2, <3>2, <3>3, Queueing
    <3> QED BY <2>1, <3>1, <3>4
  <2> QED BY <2>1, <2>3, <2>4
<1> QED BY <1>1, <1>2

LEMMA StepNaming ==
    ASSUME Typed, Typed', Opened, Naming, Titled, [Next]_vars
    PROVE  Naming'
<1>1. ASSUME NEW kind \in Kind, StartFlag(kind) PROVE Naming'
  <2>1. PICK ok \in BOOLEAN :
              /\ Len(files) \in Nat /\ Len(files') = Len(files) + 1 /\ Current' = Len(files) + 1
              /\ \A f \in 1..Len(files) : f \in 1..Len(files') /\ files'[f] = files[f]
              /\ files'[Current'] = NewFile(kind, ok)
              /\ \A f \in 1..Len(files') : f \in 1..Len(files) \/ f = Current'
              /\ m_OutFd' = IF ok THEN Current' ELSE 0
    BY <1>1, NewFileThere
  <2>2. files'[Current'].name = m_FileName' /\ files'[Current'].opened = ok
    BY <2>1 DEF NewFile
  <2>3. /\ names' \in Nat /\ m_FileName' \in 1..names' /\ names \in Nat
        /\ (names' = names /\ m_FileName # 0 /\ m_FileName' = m_FileName)
           \/ (names' = names + 1 /\ m_FileName = 0 /\ m_FileName' = names + 1)
    BY <1>1, Started, NotesOut DEF Typed
  <2>4. m_OutFd = 0 /\ notes' = notes
    BY <1>1, NoSession DEF Opened, StartFlag
  <2>5. ASSUME NEW f \in 1..Len(files), files[f].opened PROVE files[f].name # m_FileName'
    <3>1. files[f].name \in 1..names
      BY DEF Naming
    <3>2. f # m_OutFd
      BY <2>4
    <3> QED BY <2>3, <2>5, <3>1, <3>2 DEF Naming
  <2>6. ASSUME NEW i \in 1..Len(notes) PROVE notes[i].name # m_FileName' /\ notes[i].name \in 1..names'
    <3>1. notes[i].name \in 1..names
      BY DEF Naming
    <3> QED BY <2>3, <3>1 DEF Naming
  <2>7. \A f \in 1..Len(files') : files'[f].name \in 1..names'
    <3>1. \A f \in 1..Len(files) : files[f].name \in 1..names'
      BY <2>3 DEF Naming
    <3> QED BY <2>1, <2>2, <2>3, <3>1
  <2>8. \A f, g \in 1..Len(files') :
          files'[f].opened /\ files'[g].opened /\ files'[f].name = files'[g].name => f = g
    <3>1. ASSUME NEW f \in 1..Len(files'), NEW g \in 1..Len(files'),
                 files'[f].opened, files'[g].opened, files'[f].name = files'[g].name
          PROVE  f = g
      <4>1. CASE f \in 1..Len(files) /\ g \in 1..Len(files)
        <5>1. files'[f] = files[f] /\ files'[g] = files[g]
          BY <2>1, <4>1
        <5> QED BY <3>1, <4>1, <5>1 DEF Naming
      <4>2. CASE f \in 1..Len(files) /\ g = Current'
        <5>1. files'[f] = files[f] /\ files'[f].name = m_FileName'
          BY <2>1, <2>2, <3>1, <4>2
        <5> QED BY <2>5, <3>1, <4>2, <5>1
      <4>3. CASE g \in 1..Len(files) /\ f = Current'
        <5>1. files'[g] = files[g] /\ files'[g].name = m_FileName'
          BY <2>1, <2>2, <3>1, <4>3
        <5> QED BY <2>5, <3>1, <4>3, <5>1
      <4> QED BY <2>1, <4>1, <4>2, <4>3
    <3> QED BY <3>1
  <2>9. \A f \in 1..Len(files') : files'[f].opened /\ f # m_OutFd' => files'[f].name # m_FileName'
    BY <2>1, <2>2, <2>5
  <2> QED BY <2>4, <2>6, <2>7, <2>8, <2>9 DEF Naming
<1>2. CASE Join
  <2>1. CASE UNCHANGED <<files, names, notes, m_OutFd, m_FileName>>
    BY <2>1 DEF Naming
  <2>2. CASE ~UNCHANGED <<files, names, notes, m_OutFd, m_FileName>>
    <3>1. /\ UNCHANGED <<files, names>> /\ m_FileName' = 0 /\ m_OutFd \in 1..Len(files)
          /\ files[m_OutFd].name = m_FileName
          /\ \/ notes' = notes
             \/ /\ \A i \in 1..Len(notes) : i \in 1..Len(notes') /\ notes'[i] = notes[i]
                /\ notes'[Len(notes) + 1].name = m_FileName
                /\ \A i \in 1..Len(notes') : i \in 1..Len(notes) \/ i = Len(notes) + 1
      BY <1>2, <2>2, Appended
    <3>2. m_FileName \in 1..names
      BY <3>1 DEF Naming
    <3> QED BY <3>1, <3>2 DEF Naming
  <2> QED BY <2>1, <2>2
<1>3. CASE Nameless
  BY <1>3 DEF Nameless, SameStart, Naming
<1> QED BY <1>1, <1>2, <1>3, NamelessSteps

LEMMA StepAnnounced ==
    ASSUME Typed, Typed', Opened, Naming, Titled, Announced, [Next]_vars
    PROVE  Announced'
<1>1. ASSUME NEW kind \in Kind, StartFlag(kind) PROVE Announced'
  <2>1. PICK ok \in BOOLEAN :
              /\ \A f \in 1..Len(files) : f \in 1..Len(files') /\ files'[f] = files[f]
              /\ files'[Current'] = NewFile(kind, ok)
              /\ \A f \in 1..Len(files') : f \in 1..Len(files) \/ f = Current'
    BY <1>1, NewFileThere
  <2>2. files'[Current'].used = FALSE
    BY <2>1 DEF NewFile
  <2>3. m_OutFd = 0 /\ notes' = notes
    BY <1>1, NoSession DEF Opened, StartFlag
  <2>4. ASSUME NEW f \in 1..Len(files'), files'[f].opened, files'[f].used PROVE \E i \in 1..Len(notes') : TheNote(f, i)'
    <3>1. f \in 1..Len(files) /\ files'[f] = files[f] /\ f # m_OutFd
      BY <2>1, <2>2, <2>3, <2>4
    <3>2. PICK i \in 1..Len(notes) : TheNote(f, i)
      BY <2>4, <3>1 DEF Announced
    <3>3. TheNote(f, i)'
      BY <2>3, <3>1, <3>2 DEF TheNote
    <3> QED BY <2>3, <3>3
  <2> QED BY <2>4 DEF Announced
<1>2. CASE Join
  <2>1. CASE UNCHANGED <<files, names, notes, m_OutFd, m_FileName>>
    <3>1. \A f, i : TheNote(f, i)' <=> TheNote(f, i)
      BY <2>1 DEF TheNote
    <3> QED BY <2>1, <3>1 DEF Announced
  <2>2. CASE ~UNCHANGED <<files, names, notes, m_OutFd, m_FileName>>
    <3>0. PICK m : m = Len(notes) + 1
      OBVIOUS
    <3> DEFINE c == m_OutFd
               Added == /\ Len(notes') = Len(notes) + 1
                        /\ \A i \in 1..Len(notes) : i \in 1..Len(notes') /\ notes'[i] = notes[i]
                        /\ m \in 1..Len(notes') /\ notes'[m].name = m_FileName
                        /\ notes'[m].code = DoneCode(files[c].kind)
                        /\ \A i \in 1..Len(notes') : i \in 1..Len(notes) \/ i = m
    <3>1. /\ files' = files /\ c \in 1..Len(files) /\ files[c].name = m_FileName /\ m_OutFd' = 0
          /\ (notes' = notes /\ files[c].used = FALSE) \/ Added
      BY <1>2, <2>2, <3>0, Appended
    <3>2. m_FileName # 0
      BY <3>1, NotesOut DEF Naming
    <3>3. ASSUME NEW f \in 1..Len(files'), files'[f].opened, files'[f].used
          PROVE  \E i \in 1..Len(notes') : TheNote(f, i)'
      <4>1. CASE f = c
        <5>1. Added
          BY <3>1, <3>3, <4>1
        <5>2. ASSUME NEW j \in 1..Len(notes'), notes'[j].name = files[c].name PROVE j = m
          <6>1. CASE j \in 1..Len(notes)
            BY <3>1, <3>2, <5>1, <5>2, <6>1 DEF Naming
          <6> QED BY <5>1, <6>1
        <5>3. TheNote(f, m)'
          <6>1. notes'[m].name = files'[f].name /\ notes'[m].code = DoneCode(files'[f].kind)
            BY <3>1, <4>1, <5>1
          <6> QED BY <3>1, <4>1, <5>2, <6>1 DEF TheNote
        <5> QED BY <5>1, <5>3
      <4>2. CASE f # c
        <5>1. f \in 1..Len(files) /\ files[f].opened /\ files[f].used
          BY <3>1, <3>3
        <5>2. PICK i \in 1..Len(notes) : TheNote(f, i)
          BY <4>2, <5>1 DEF Announced
        <5>3. files[f].name # m_FileName
          BY <3>2, <4>2, <5>1 DEF Naming
        <5>4. CASE notes' = notes
          <6>1. TheNote(f, i)'
            BY <3>1, <5>2, <5>4 DEF TheNote
          <6> QED BY <5>4, <6>1
        <5>5. CASE Added
          <6>1. i \in 1..Len(notes') /\ notes'[i] = notes[i]
            BY <5>5
          <6>2. \A j \in 1..Len(notes') : notes'[j].name = files'[f].name => j = i
            BY <3>1, <5>2, <5>3, <5>5 DEF TheNote
          <6>3. TheNote(f, i)'
            BY <3>1, <5>2, <6>1, <6>2 DEF TheNote
          <6> QED BY <6>1, <6>3
        <5> QED BY <3>1, <5>4, <5>5
      <4> QED BY <4>1, <4>2
    <3> QED BY <3>3 DEF Announced
  <2> QED BY <2>1, <2>2
<1>3. CASE Nameless
  <2>1. ASSUME NEW f \in 1..Len(files'), files'[f].opened, files'[f].used, f # m_OutFd'
        PROVE  \E i \in 1..Len(notes') : TheNote(f, i)'
    <3>1. f \in 1..Len(files) /\ SameStart(files'[f], files[f]) /\ notes' = notes /\ m_OutFd' = m_OutFd
      BY <1>3 DEF Nameless
    <3>2. ~(f = Current /\ tpc # "none")
      BY <2>1, <3>1 DEF Opened, SameStart
    <3>3. files'[f].used = files[f].used
      BY <1>3, <3>1, <3>2 DEF Nameless
    <3>4. files[f].used /\ files[f].opened
      BY <2>1, <3>1, <3>3, Zenon DEF SameStart
    <3>5. PICK i \in 1..Len(notes) : TheNote(f, i)
      BY <2>1, <3>1, <3>4 DEF Announced
    <3>6. TheNote(f, i)'
      BY <3>1, <3>5 DEF TheNote, SameStart
    <3> QED BY <3>1, <3>6
  <2> QED BY <2>1 DEF Announced
<1> QED BY <1>1, <1>2, <1>3, NamelessSteps

Told == Naming /\ Titled /\ Announced

LEMMA AlwaysTold == Spec => [](Whole /\ Told)
<1>1. Init => Whole /\ Told
  BY InitTyped, InitPipe, InitNames DEF Whole, Told
<1>2. Whole /\ Whole' /\ Told /\ [Next]_vars => Told'
  BY StepNaming, StepTitled, StepAnnounced DEF Whole, Told
<1> QED BY <1>1, <1>2, AlwaysWhole, PTL DEF Spec

(* A file that got a sample is announced once, when it is closed, under    *)
(* the kind and the name it was started with, and no two files that could  *)
(* be opened share a name: a name that a failed open leaves behind is used *)
(* for the next file only.                                                 *)
THEOREM AnnouncedAsDone == Spec => []AnnouncedOnce
<1>1. Whole /\ Told => AnnouncedOnce
  <2> SUFFICES ASSUME Whole, Told PROVE AnnouncedOnce
    OBVIOUS
  <2>0. Typed /\ Opened /\ Naming /\ Titled /\ Announced
    BY DEF Whole, Told
  <2>1. DOMAIN files = 1..Len(files) /\ DOMAIN notes = 1..Len(notes)
        /\ \A i \in 1..Len(notes) : notes[i].code \in DoneCodes
    BY <2>0, NotesOut DEF DoneCodes
  <2>2. ASSUME NEW f \in 1..Len(files), files[f].opened, files[f].used
        PROVE  IF f = m_OutFd THEN NotesOf(f) = {}
               ELSE \E i \in NotesOf(f) : NotesOf(f) = {i} /\ notes[i].code = DoneCode(files[f].kind)
    <3>0. \A i : i \in NotesOf(f) <=> i \in 1..Len(notes) /\ notes[i].name = files[f].name
      BY <2>1 DEF NotesOf
    <3>1. CASE f = m_OutFd
      <4>1. tpc # "none" /\ f = Current
        BY <2>0, <3>1 DEF Opened
      <4>2. files[f].name = m_FileName
        BY <2>0, <4>1 DEF Titled
      <4>3. m_FileName # 0
        BY <2>0, <4>2, NotesOut DEF Naming
      <4>4. \A i \in 1..Len(notes) : notes[i].name # files[f].name
        BY <2>0, <4>2, <4>3 DEF Naming
      <4> QED BY <3>0, <3>1, <4>4
    <3>2. CASE f # m_OutFd
      <4>1. PICK i \in 1..Len(notes) : TheNote(f, i)
        BY <2>0, <2>2, <3>2 DEF Announced
      <4>2. NotesOf(f) = {i} /\ notes[i].code = DoneCode(files[f].kind)
        BY <3>0, <4>1 DEF TheNote
      <4> QED BY <3>2, <4>2
    <3> QED BY <3>1, <3>2
  <2>3. \A f, g \in 1..Len(files) :
          files[f].opened /\ files[g].opened /\ files[f].name = files[g].name => f = g
    BY <2>0 DEF Naming
  <2> QED BY <2>1, <2>2, <2>3 DEF AnnouncedOnce
<1> QED BY <1>1, AlwaysTold, PTL

-----------------------------------------------------------------------------
(***************************************************************************)
(* The samples of a track: those left out first, then those put, then the  *)
(* one held.                                                               *)
(***************************************************************************)
Early(start, t, s) == s.time < start \/ (t \in Video /\ ~s.key)

Skipped(t) == Len(got[t]) - Len(put[t]) - 1
Last(t) == got[t][Len(got[t])]

Ascending ==
    \A i, j \in 1..Len(input) :
        i < j /\ input[i].track = input[j].track => input[i].time < input[j].time

Ahead(t) == \A i \in 1..Len(input) : input[i].track = t => Last(t).time < input[i].time

Lasting(t) ==
    \A i \in 1..Len(put[t]) :
        put[t][i].duration = got[t][Skipped(t) + i + 1].time
                             - (IF i = 1 THEN m_MuxStartTime ELSE got[t][Skipped(t) + i].time)

Running(t) ==
    /\ Skipped(t) \in Nat
    /\ info[t].held = {Last(t)} /\ Last(t).time >= m_MuxStartTime
    /\ \A i \in 1..Len(put[t]) : put[t][i].samples = {got[t][Skipped(t) + i]}
    /\ \A i \in 1..Skipped(t) : Early(m_MuxStartTime, t, got[t][i])
    /\ t \in Video => got[t][Skipped(t) + 1].key
    /\ info[t].total = IF Len(put[t]) = 0 THEN 0 ELSE Last(t).time - m_MuxStartTime
    /\ Lasting(t) /\ Ahead(t)

Resting(t) ==
    /\ put[t] = <<>> /\ info[t].total = 0
    /\ \A i \in 1..Len(got[t]) : Early(m_MuxStartTime, t, got[t][i])

Marked(t) ==
    /\ ~m_bStartMuxing => got[t] = <<>> /\ info[t].held = {}
    /\ m_bStartMuxing => (info[t].started <=> info[t].held # {})

Kept(t) ==
    /\ info[t].held = {} => Resting(t)
    /\ info[t].held # {} => Running(t)

Tracked ==
    /\ tpc # "none" => \A t \in Track : Marked(t) /\ Kept(t)
    /\ tpc = "none" => \A t \in Track : put[t] = <<>>

LEMMA SampleFields ==
    ASSUME NEW s \in Sample
    PROVE  s.track \in Track /\ s.time \in Time /\ s.time \in Int /\ s.key \in BOOLEAN
  BY DEF Sample, Time

LEMMA TrackTypes ==
    ASSUME Played, NEW t \in Track
    PROVE  /\ got[t] \in Seq(Sample) /\ Len(got[t]) \in Nat /\ put[t] \in Seq(PutRecord) /\ Len(put[t]) \in Nat
           /\ info[t] \in TrackRecord /\ info[t].total \in Int /\ m_MuxStartTime \in Int
           /\ input \in Seq(Sample) /\ Len(input) \in Nat
           /\ \A i \in 1..Len(got[t]) : got[t][i] \in Sample /\ got[t][i].time \in Int
           /\ \A i \in 1..Len(input) : input[i] \in Sample /\ input[i].time \in Int
<1>1. /\ got[t] \in Seq(Sample) /\ put[t] \in Seq(PutRecord)
      /\ info[t] \in TrackRecord /\ m_MuxStartTime \in Time /\ input \in Seq(Sample)
  BY DEF Played
<1>2. info[t].total \in Time
  BY <1>1 DEF TrackRecord
<1>3. (\A i \in 1..Len(got[t]) : got[t][i] \in Sample) /\ (\A i \in 1..Len(input) : input[i] \in Sample)
  BY <1>1
<1>4. Time \subseteq Int /\ Len(got[t]) \in Nat /\ Len(put[t]) \in Nat /\ Len(input) \in Nat
  BY <1>1 DEF Time
<1> QED BY <1>1, <1>2, <1>3, <1>4, SampleFields

LEMMA InitAscending == Init => Ascending
<1> SUFFICES ASSUME Init PROVE Ascending
  OBVIOUS
<1>1. input \in Streams
  BY DEF Init
<1>2. /\ input \in Seq(Sample)
      /\ \A i, j \in DOMAIN input :
            i < j /\ input[i].track = input[j].track => input[i].time < input[j].time
  BY <1>1, StreamAssumption, Zenon
<1>3. DOMAIN input = 1..Len(input)
  BY <1>2
<1> QED BY <1>2, <1>3, Zenon DEF Ascending

LEMMA TailInput ==
    ASSUME Played, ReceiveSample
    PROVE  /\ Len(input') = Len(input) - 1 /\ Len(input) \in Nat /\ 1 \in 1..Len(input)
           /\ input[1] = Head(input)
           /\ \A i \in 1..Len(input') : i + 1 \in 1..Len(input) /\ input'[i] = input[i + 1]
<1>1. input \in Seq(Sample) /\ input # <<>> /\ input' = Tail(input)
  BY DEF Played, ReceiveSample
<1> QED BY <1>1, Popping

LEMMA StepAscending ==
    ASSUME Played, Ascending, ReceiveSample
    PROVE  Ascending'
<1>1. \A i \in 1..Len(input') : i + 1 \in 1..Len(input) /\ input'[i] = input[i + 1]
  BY TailInput
<1>2. ASSUME NEW i \in 1..Len(input'), NEW j \in 1..Len(input'), i < j, input'[i].track = input'[j].track
      PROVE  input'[i].time < input'[j].time
  <2> DEFINE k == i + 1
             l == j + 1
  <2>1. /\ k \in 1..Len(input) /\ input'[i] = input[k]
        /\ l \in 1..Len(input) /\ input'[j] = input[l] /\ k < l
    BY <1>1, <1>2
  <2> HIDE DEF k, l
  <2> QED BY <1>2, <2>1 DEF Ascending
<1> QED BY <1>2 DEF Ascending

(* The sample received comes before the rest of its track. *)
LEMMA HeadFirst ==
    ASSUME Played, Ascending, ReceiveSample, NEW s, s = Head(input)
    PROVE  \A i \in 1..Len(input') : input'[i].track = s.track => s.time < input'[i].time
<1>1. ASSUME NEW i \in 1..Len(input'), input'[i].track = s.track PROVE s.time < input'[i].time
  <2> DEFINE k == i + 1
  <2>1. k \in 1..Len(input) /\ input'[i] = input[k] /\ 1 \in 1..Len(input) /\ input[1] = s /\ 1 < k
    BY TailInput
  <2> HIDE DEF k
  <2> QED BY <1>1, <2>1 DEF Ascending
<1> QED BY <1>1

-----------------------------------------------------------------------------
(* What a sample does to its track and to another one. *)
LEMMA TrackStep ==
    ASSUME Played, ReceiveSample, m_bEnableMux, NEW s, s = Head(input), NEW t \in Track
    PROVE  /\ s \in Sample /\ s.track \in Track /\ m_bStartMuxing' = TRUE
           /\ m_MuxStartTime' = StartTime(s)
           /\ m_bStartMuxing => Info = info /\ m_MuxStartTime' = m_MuxStartTime
           /\ ~m_bStartMuxing => ~Info[t].started /\ Info[t].total = 0
           /\ Info[t].held = info[t].held
           /\ got'[t] = IF t = s.track THEN Append(got[t], s) ELSE got[t]
           /\ t # s.track => info'[t] = Info[t] /\ put'[t] = put[t]
<1>1. /\ s \in Sample /\ s.track \in Track /\ m_bStartMuxing' = TRUE
      /\ m_MuxStartTime' = StartTime(s) /\ StartTime(s) \in Time
      /\ got'[s.track] = Append(got[s.track], s)
      /\ \A u \in Track : u # s.track => got'[u] = got[u]
      /\ DropSample(s) \/ StartTrack(s) \/ PutSample(s)
  BY SampleTaken
<1>2. /\ m_bStartMuxing => Info = info
      /\ ~m_bStartMuxing => ~Info[t].started /\ Info[t].total = 0
      /\ Info[t].held = info[t].held
  BY InfoTyped
<1>3. m_bStartMuxing => m_MuxStartTime' = m_MuxStartTime
  BY <1>1 DEF StartTime
<1>4. ASSUME t # s.track PROVE info'[t] = Info[t] /\ put'[t] = put[t]
  <2>1. CASE DropSample(s)
    BY <1>1, <2>1, Dropping
  <2>2. CASE StartTrack(s)
    BY <1>1, <1>4, <2>2, Starting
  <2>3. CASE PutSample(s)
    BY <1>1, <1>4, <2>3, Putting
  <2> QED BY <1>1, <2>1, <2>2, <2>3
<1> QED BY <1>1, <1>2, <1>3, <1>4

LEMMA AheadKept ==
    ASSUME Played, ReceiveSample, NEW t \in Track, Ahead(t), got'[t] = got[t]
    PROVE  Ahead(t)'
<1>1. ASSUME NEW i \in 1..Len(input'), input'[i].track = t PROVE Last(t).time < input'[i].time
  <2> DEFINE k == i + 1
  <2>1. k \in 1..Len(input) /\ input'[i] = input[k]
    BY TailInput
  <2> HIDE DEF k
  <2> QED BY <1>1, <2>1 DEF Ahead
<1> QED BY <1>1 DEF Ahead, Last

LEMMA OtherTrack ==
    ASSUME Played, ReceiveSample, m_bEnableMux, NEW t \in Track, t # Head(input).track,
           Marked(t), Kept(t)
    PROVE  Marked(t)' /\ Kept(t)'
<1> DEFINE s == Head(input)
<1> HIDE DEF s
<1>1. /\ m_bStartMuxing' = TRUE
      /\ m_bStartMuxing => Info = info /\ m_MuxStartTime' = m_MuxStartTime
      /\ ~m_bStartMuxing => ~Info[t].started /\ Info[t].total = 0
      /\ Info[t].held = info[t].held
      /\ got'[t] = got[t] /\ info'[t] = Info[t] /\ put'[t] = put[t]
  BY TrackStep DEF s
<1>2. CASE m_bStartMuxing
  <2>1. info'[t] = info[t] /\ m_MuxStartTime' = m_MuxStartTime
    BY <1>1, <1>2
  <2>2. Marked(t)'
    BY <1>1, <1>2, <2>1 DEF Marked
  <2>3. Kept(t)'
    <3>1. CASE info[t].held = {}
      BY <1>1, <2>1, <3>1 DEF Kept, Resting
    <3>2. CASE info[t].held # {}
      <4>1. Running(t)
        BY <3>2 DEF Kept
      <4>2. Ahead(t)'
        BY <1>1, <4>1, AheadKept DEF Running
      <4>3. Running(t)'
        <5>1. Skipped(t)' = Skipped(t) /\ Last(t)' = Last(t)
          BY <1>1 DEF Skipped, Last
        <5>2. Lasting(t)'
          BY <1>1, <2>1, <4>1, <5>1 DEF Running, Lasting
        <5> QED BY <1>1, <2>1, <4>1, <4>2, <5>1, <5>2 DEF Running
      <4> QED BY <2>1, <3>2, <4>3 DEF Kept
    <3> QED BY <3>1, <3>2
  <2> QED BY <2>2, <2>3
<1>3. CASE ~m_bStartMuxing
  <2>1. got[t] = <<>> /\ info[t].held = {} /\ put[t] = <<>>
    BY <1>3 DEF Marked, Kept, Resting
  <2>2. info'[t].held = {} /\ ~info'[t].started /\ info'[t].total = 0 /\ put'[t] = <<>> /\ Len(got'[t]) = 0
    BY <1>1, <1>3, <2>1
  <2>3. Marked(t)'
    BY <1>1, <2>2 DEF Marked
  <2>4. Kept(t)'
    BY <2>2 DEF Kept, Resting
  <2> QED BY <2>3, <2>4
<1> QED BY <1>2, <1>3

(* The sample is too old, or the track does not start with it. *)
LEMMA TrackSkips ==
    ASSUME Played, Ascending, ReceiveSample, m_bEnableMux, NEW s, s = Head(input), NEW t, t = s.track,
           Marked(t), Kept(t),
           DropSample(s) \/ (StartTrack(s) /\ ~Starts(s))
    PROVE  Marked(t)' /\ Kept(t)'
<1>1. /\ m_bStartMuxing' = TRUE /\ s \in Sample /\ t \in Track
      /\ m_MuxStartTime' = StartTime(s)
      /\ m_bStartMuxing => Info = info /\ m_MuxStartTime' = m_MuxStartTime
      /\ ~m_bStartMuxing => ~Info[t].started /\ Info[t].total = 0
      /\ Info[t].held = info[t].held
      /\ got'[t] = Append(got[t], s)
  <2>1. s.track \in Track /\ s \in Sample
    BY SampleTaken
  <2> QED BY <2>1, TrackStep
<1>2. info' = Info /\ put' = put
  BY <1>1, Dropping, Starting
<1>3. got[t] \in Seq(Sample) /\ Len(got[t]) \in Nat
  BY <1>1, TrackTypes
<1>4. info[t].held = {}
  <2>1. CASE StartTrack(s) /\ ~Starts(s)
    <3>1. ~Info[t].started
      BY <1>1, <2>1, Starting
    <3>2. CASE m_bStartMuxing
      <4>1. ~info[t].started
        BY <1>1, <3>1, <3>2
      <4> QED BY <3>2, <4>1, Zenon DEF Marked
    <3>3. CASE ~m_bStartMuxing
      BY <3>3 DEF Marked
    <3> QED BY <3>2, <3>3
  <2>2. CASE DropSample(s)
    <3>1. s.time < StartTime(s) /\ s.time \in Int
      BY <1>1, <2>2, Dropping, SampleFields
    <3>2. m_bStartMuxing
      BY <3>1 DEF StartTime
    <3>3. ASSUME info[t].held # {} PROVE FALSE
      <4>1. Last(t).time >= m_MuxStartTime /\ Ahead(t) /\ Skipped(t) \in Nat
        BY <3>3 DEF Kept, Running
      <4>2. Last(t).time < s.time
        <5>1. 1 \in 1..Len(input) /\ input[1] = s
          BY TailInput
        <5> QED BY <4>1, <5>1 DEF Ahead
      <4>3. StartTime(s) = m_MuxStartTime
        BY <3>2 DEF StartTime
      <4>4. Last(t).time \in Int /\ m_MuxStartTime \in Int
        <5>1. Len(got[t]) \in 1..Len(got[t])
          <6>1. Len(got[t]) - Len(put[t]) - 1 \in Nat /\ Len(put[t]) \in Nat /\ Len(got[t]) \in Nat
            BY <1>1, <4>1, TrackTypes DEF Skipped
          <6> QED BY <6>1
        <5> QED BY <1>1, <5>1, TrackTypes DEF Last
      <4> QED BY <3>1, <4>1, <4>2, <4>3, <4>4
    <3> QED BY <3>3
  <2> QED BY <2>1, <2>2
<1>5. ~info'[t].started /\ info'[t].held = {} /\ info'[t].total = 0
  <2>1. CASE m_bStartMuxing
    <3>1. Info[t] = info[t] /\ ~info[t].started
      BY <1>1, <1>4, <2>1, Zenon DEF Marked
    <3> QED BY <1>2, <1>4, <3>1 DEF Kept, Resting
  <2>2. CASE ~m_bStartMuxing
    BY <1>1, <1>2, <1>4, <2>2
  <2> QED BY <2>1, <2>2
<1>6. Marked(t)'
  BY <1>1, <1>5 DEF Marked
<1>7. Early(m_MuxStartTime', t, s)
  <2>1. CASE DropSample(s)
    BY <1>1, <2>1, Dropping DEF Early
  <2>2. CASE ~Starts(s)
    <3>1. s.track \in Track /\ s.track \notin Other /\ ~s.key
      BY <1>1, <2>2 DEF Starts
    <3> QED BY <3>1 DEF Early, Track
  <2> QED BY <2>1, <2>2
<1>8. \A i \in 1..Len(got[t]) : Early(m_MuxStartTime', t, got[t][i])
  <2>1. CASE m_bStartMuxing
    BY <1>1, <1>4, <2>1 DEF Kept, Resting
  <2>2. CASE ~m_bStartMuxing
    <3>1. Len(got[t]) = 0
      BY <2>2 DEF Marked
    <3> QED BY <3>1
  <2> QED BY <2>1, <2>2
<1>9. Resting(t)'
  <2>1. put'[t] = <<>>
    BY <1>2, <1>4 DEF Kept, Resting
  <2>2. /\ \A i \in 1..Len(got'[t]) : i \in 1..Len(got[t]) \/ i = Len(got[t]) + 1
        /\ \A i \in 1..Len(got[t]) : got'[t][i] = got[t][i]
        /\ got'[t][Len(got[t]) + 1] = s
    BY <1>1, <1>3, Queueing
  <2>3. \A i \in 1..Len(got'[t]) : Early(m_MuxStartTime', t, got'[t][i])
    BY <1>7, <1>8, <2>2
  <2> QED BY <1>5, <2>1, <2>3 DEF Resting
<1> QED BY <1>5, <1>6, <1>9 DEF Kept

(* The track starts with the sample. *)
LEMMA TrackStarts ==
    ASSUME Played, Ascending, ReceiveSample, m_bEnableMux, NEW s, s = Head(input), NEW t, t = s.track,
           Marked(t), Kept(t), StartTrack(s), Starts(s)
    PROVE  Marked(t)' /\ Kept(t)'
<1>1. /\ m_bStartMuxing' = TRUE /\ s \in Sample /\ t \in Track
      /\ m_MuxStartTime' = StartTime(s)
      /\ m_bStartMuxing => Info = info /\ m_MuxStartTime' = m_MuxStartTime
      /\ ~m_bStartMuxing => ~Info[t].started /\ Info[t].total = 0
      /\ Info[t].held = info[t].held
      /\ got'[t] = Append(got[t], s)
  <2>1. s.track \in Track /\ s \in Sample
    BY SampleTaken
  <2> QED BY <2>1, TrackStep
<1>2. /\ put' = put /\ s.time >= StartTime(s) /\ ~Info[t].started
      /\ info'[t].held = {s} /\ info'[t].started = TRUE /\ info'[t].total = Info[t].total
  BY <1>1, Starting
<1>3. got[t] \in Seq(Sample) /\ Len(got[t]) \in Nat
  BY <1>1, TrackTypes
<1>4. info[t].held = {}
  <2>1. CASE m_bStartMuxing
    <3>1. ~info[t].started
      BY <1>1, <1>2, <2>1
    <3> QED BY <2>1, <3>1, Zenon DEF Marked
  <2>2. CASE ~m_bStartMuxing
    BY <2>2 DEF Marked
  <2> QED BY <2>1, <2>2
<1>5. put'[t] = <<>> /\ info'[t].total = 0
  BY <1>1, <1>2, <1>4 DEF Kept, Resting
<1>6. Marked(t)'
  BY <1>1, <1>2 DEF Marked
<1>7. \A i \in 1..Len(got[t]) : Early(m_MuxStartTime', t, got[t][i])
  <2>1. CASE m_bStartMuxing
    BY <1>1, <1>4, <2>1 DEF Kept, Resting
  <2>2. CASE ~m_bStartMuxing
    <3>1. Len(got[t]) = 0
      BY <2>2 DEF Marked
    <3> QED BY <3>1
  <2> QED BY <2>1, <2>2
<1>8. /\ Len(got'[t]) = Len(got[t]) + 1
      /\ \A i \in 1..Len(got[t]) : got'[t][i] = got[t][i]
      /\ got'[t][Len(got[t]) + 1] = s
  BY <1>1, <1>3, Queueing
<1>9. Skipped(t)' = Len(got[t]) /\ Last(t)' = s /\ Len(put'[t]) = 0
  <2>1. Len(put'[t]) = 0
    BY <1>5
  <2>2. Skipped(t)' = Len(got[t]) + 1 - 0 - 1 /\ Last(t)' = s
    BY <1>8, <2>1 DEF Skipped, Last
  <2> QED BY <1>3, <2>1, <2>2
<1>10. t \in Video => s.key
  BY <1>1, TrackAssumption DEF Starts
<1>11. Ahead(t)'
  BY <1>9, HeadFirst DEF Ahead
<1>12. Running(t)'
  <2>1. Skipped(t)' \in Nat /\ info'[t].held = {Last(t)'} /\ Last(t)'.time >= m_MuxStartTime'
    BY <1>1, <1>2, <1>3, <1>9
  <2>2. \A i \in 1..Len(put'[t]) : put'[t][i].samples = {got'[t][Skipped(t)' + i]}
    BY <1>9
  <2>3. \A i \in 1..Skipped(t)' : Early(m_MuxStartTime', t, got'[t][i])
    BY <1>7, <1>8, <1>9
  <2>4. t \in Video => got'[t][Skipped(t)' + 1].key
    BY <1>8, <1>9, <1>10
  <2>5. info'[t].total = IF Len(put'[t]) = 0 THEN 0 ELSE Last(t)'.time - m_MuxStartTime'
    BY <1>5, <1>9
  <2>6. Lasting(t)'
    BY <1>9 DEF Lasting
  <2> QED BY <1>11, <2>1, <2>2, <2>3, <2>4, <2>5, <2>6 DEF Running
<1> QED BY <1>2, <1>6, <1>12 DEF Kept

-----------------------------------------------------------------------------
(* The indexes of g samples, p of them put, one held and k left out. *)
Indexed(g, p, k) ==
    /\ (g + 1) - (p + 1) - 1 = k /\ g \in 1..g /\ k + 1 \in 1..g /\ p + 1 # 0
    /\ \A i \in 1..k : i \in 1..g
    /\ \A i \in 1..p : k + i \in 1..g /\ k + i + 1 \in 1..g
    /\ k + (p + 1) = g /\ k + (p + 1) + 1 = g + 1
    /\ p + 1 = 1 <=> p = 0

LEMMA Counting ==
    ASSUME NEW g \in Nat, NEW p \in Nat, NEW k \in Nat, k = g - p - 1
    PROVE  Indexed(g, p, k)
  BY DEF Indexed

LEMMA Differences ==
    ASSUME NEW a \in Int, NEW b \in Int, NEW c \in Int
    PROVE  a - b - 0 = a - b /\ a - b - (c - b) = a - c
  OBVIOUS

(* The sample held is put and the one received is held. *)
LEMMA TrackPuts ==
    ASSUME Played, Ascending, ReceiveSample, m_bEnableMux, NEW s, s = Head(input), NEW t, t = s.track,
           Marked(t), Kept(t), PutSample(s)
    PROVE  Marked(t)' /\ Kept(t)'
<1> DEFINE start == m_MuxStartTime
           g == Len(got[t])
           p == Len(put[t])
           k == Skipped(t)
           d == s.time - StartTime(s) - Info[t].total
           e == [samples |-> Info[t].held, duration |-> d]
<1>1. /\ m_bStartMuxing' = TRUE /\ s \in Sample /\ t \in Track
      /\ m_MuxStartTime' = StartTime(s) /\ StartTime(s) \in Time
      /\ m_bStartMuxing => Info = info /\ m_MuxStartTime' = m_MuxStartTime
      /\ ~m_bStartMuxing => ~Info[t].started /\ Info[t].total = 0
      /\ got'[t] = Append(got[t], s)
  <2>1. s.track \in Track /\ s \in Sample /\ StartTime(s) \in Time
    BY SampleTaken
  <2> QED BY <2>1, TrackStep
<1>2. /\ s.time >= StartTime(s) /\ Info[t].started
      /\ info'[t].held = {s} /\ info'[t].started = Info[t].started
      /\ info'[t].total = s.time - StartTime(s)
      /\ e \in PutRecord /\ e.samples = Info[t].held /\ e.duration = d
      /\ put'[t] = Append(put[t], e)
  BY <1>1, Putting
<1> HIDE DEF e
<1>3. m_bStartMuxing /\ Info = info /\ m_MuxStartTime' = start /\ StartTime(s) = start
  BY <1>1, <1>2
<1>4. info[t].held # {}
  <2>1. info[t].started
    BY <1>2, <1>3
  <2> QED BY <1>3, <2>1, Zenon DEF Marked
<1>5. Running(t)
  BY <1>4 DEF Kept
<1>6. /\ g \in Nat /\ p \in Nat /\ k \in Nat /\ k = g - p - 1 /\ start \in Int /\ s.time \in Int
      /\ got[t] \in Seq(Sample) /\ put[t] \in Seq(PutRecord)
      /\ \A i \in 1..g : got[t][i].time \in Int
  BY <1>1, <1>5, TrackTypes, SampleFields DEF Running, Skipped
<1>7. /\ Len(got'[t]) = g + 1
      /\ \A i \in 1..g : i \in 1..Len(got'[t]) /\ got'[t][i] = got[t][i]
      /\ got'[t][g + 1] = s
  BY <1>1, <1>6, Queueing
<1>8. /\ Len(put'[t]) = p + 1
      /\ \A i \in 1..p : put'[t][i] = put[t][i]
      /\ put'[t][p + 1] = e
      /\ \A i \in 1..Len(put'[t]) : i \in 1..p \/ i = p + 1
  BY <1>2, <1>6, Queueing
<1>9. Skipped(t)' = (g + 1) - (p + 1) - 1 /\ Last(t)' = s /\ Last(t) = got[t][g]
  BY <1>7, <1>8 DEF Skipped, Last
<1>11. /\ info[t].held = {got[t][g]} /\ got[t][g].time >= start
       /\ \A i \in 1..p : put[t][i].samples = {got[t][k + i]}
       /\ \A i \in 1..k : Early(start, t, got[t][i])
       /\ t \in Video => got[t][k + 1].key
       /\ info[t].total = IF p = 0 THEN 0 ELSE got[t][g].time - start
       /\ \A i \in 1..p : put[t][i].duration = got[t][k + i + 1].time
                             - (IF i = 1 THEN start ELSE got[t][k + i].time)
  BY <1>5, <1>9 DEF Running, Lasting
<1> HIDE DEF k, g, p, start, d
<1>10. /\ (g + 1) - (p + 1) - 1 = k /\ g \in 1..g /\ k + 1 \in 1..g /\ p + 1 # 0
       /\ \A i \in 1..k : i \in 1..g
       /\ \A i \in 1..p : k + i \in 1..g /\ k + i + 1 \in 1..g
       /\ k + (p + 1) = g /\ k + (p + 1) + 1 = g + 1
       /\ p + 1 = 1 <=> p = 0
  <2>1. g \in Nat /\ p \in Nat /\ k \in Nat /\ k = g - p - 1
    BY <1>6
  <2>2. Indexed(g, p, k)
    BY <2>1, Counting, Zenon
  <2> QED BY <2>2, Zenon DEF Indexed
<1>17. Skipped(t)' = k
  BY <1>9, <1>10
<1>12. Marked(t)'
  BY <1>1, <1>2, Zenon DEF Marked
<1>13. \A i \in 1..Len(put'[t]) : put'[t][i].samples = {got'[t][k + i]}
  <2>1. ASSUME NEW i \in 1..Len(put'[t]) PROVE put'[t][i].samples = {got'[t][k + i]}
    <3>1. CASE i \in 1..p
      <4>1. k + i \in 1..g
        BY <1>10, <3>1
      <4>2. got'[t][k + i] = got[t][k + i]
        BY <1>7, <4>1
      <4>3. put'[t][i].samples = {got[t][k + i]}
        BY <1>8, <1>11, <3>1
      <4> QED BY <4>2, <4>3
    <3>2. CASE i = p + 1
      <4>1. k + i = g
        BY <1>10, <3>2
      <4>2. put'[t][i].samples = {got[t][g]}
        BY <1>2, <1>3, <1>8, <1>11, <3>2
      <4> QED BY <1>7, <1>10, <4>1, <4>2
    <3> QED BY <1>8, <3>1, <3>2
  <2> QED BY <2>1
<1>14. \A i \in 1..Len(put'[t]) : put'[t][i].duration = got'[t][k + i + 1].time
                             - (IF i = 1 THEN start ELSE got'[t][k + i].time)
  <2>1. ASSUME NEW i \in 1..Len(put'[t])
        PROVE  put'[t][i].duration = got'[t][k + i + 1].time - (IF i = 1 THEN start ELSE got'[t][k + i].time)
    <3>1. CASE i \in 1..p
      <4>1. k + i \in 1..g /\ k + i + 1 \in 1..g
        BY <1>10, <3>1
      <4>2. got'[t][k + i + 1] = got[t][k + i + 1] /\ got'[t][k + i] = got[t][k + i] /\ put'[t][i] = put[t][i]
        BY <1>7, <1>8, <3>1, <4>1
      <4> QED BY <1>11, <3>1, <4>2
    <3>2. CASE i = p + 1
      <4>1. k + i = g /\ k + i + 1 = g + 1
        BY <1>10, <3>2
      <4>2. got'[t][k + i + 1] = s /\ got'[t][k + i] = got[t][g]
        BY <1>7, <1>10, <4>1
      <4>3. put'[t][i].duration = s.time - start - info[t].total
        BY <1>2, <1>3, <1>8, <3>2 DEF d, start
      <4>4. i = 1 <=> p = 0
        BY <1>10, <3>2
      <4>5. CASE p = 0
        <5>1. info[t].total = 0 /\ i = 1
          BY <1>11, <4>4, <4>5
        <5>2. s.time - start - 0 = s.time - start
          BY <1>6, Differences
        <5> QED BY <4>2, <4>3, <5>1, <5>2
      <4>6. CASE p # 0
        <5>1. info[t].total = got[t][g].time - start /\ i # 1
          BY <1>11, <4>4, <4>6
        <5>2. got[t][g].time \in Int
          BY <1>6, <1>10
        <5>3. s.time - start - (got[t][g].time - start) = s.time - got[t][g].time
          BY <1>6, <5>2, Differences
        <5> QED BY <4>2, <4>3, <5>1, <5>3
      <4> QED BY <4>5, <4>6
    <3> QED BY <1>8, <3>1, <3>2
  <2> QED BY <2>1
<1>15. Ahead(t)'
  BY <1>9, HeadFirst DEF Ahead
<1>16. Running(t)'
  <2>1. Skipped(t)' \in Nat /\ info'[t].held = {Last(t)'} /\ Last(t)'.time >= m_MuxStartTime'
    BY <1>2, <1>3, <1>6, <1>9, <1>17 DEF start
  <2>2. \A i \in 1..Skipped(t)' : Early(m_MuxStartTime', t, got'[t][i])
    BY <1>3, <1>7, <1>10, <1>11, <1>17
  <2>3. t \in Video => got'[t][Skipped(t)' + 1].key
    <3>1. got'[t][k + 1] = got[t][k + 1]
      BY <1>7, <1>10
    <3> QED BY <1>11, <1>17, <3>1
  <2>4. info'[t].total = IF Len(put'[t]) = 0 THEN 0 ELSE Last(t)'.time - m_MuxStartTime'
    <3>1. Len(put'[t]) # 0
      BY <1>8, <1>10
    <3> QED BY <1>2, <1>3, <1>9, <3>1
  <2>5. Lasting(t)'
    BY <1>3, <1>14, <1>17 DEF Lasting
  <2>6. \A i \in 1..Len(put'[t]) : put'[t][i].samples = {got'[t][Skipped(t)' + i]}
    BY <1>13, <1>17
  <2> QED BY <1>15, <2>1, <2>2, <2>3, <2>4, <2>5, <2>6 DEF Running
<1> QED BY <1>2, <1>12, <1>16 DEF Kept

LEMMA InitTracked == Init => Tracked
<1> SUFFICES ASSUME Init PROVE Tracked
  OBVIOUS
<1>1. tpc = "none" /\ \A t \in Track : put[t] = <<>>
  BY DEF Init
<1> QED BY <1>1 DEF Tracked

LEMMA StepTracked ==
    ASSUME Typed, Typed', Ascending, Tracked, [Next]_vars
    PROVE  Tracked' /\ Ascending'
<1>0. Played /\ Session /\ Flow /\ Flags
  BY DEF Typed
<1>1. ASSUME NEW kind \in Kind, StartFlag(kind) PROVE Tracked' /\ Ascending'
  <2>1. /\ info' = [t \in Track |-> [info[t] EXCEPT !.held = {}, !.total = 0]]
        /\ got' = [t \in Track |-> <<>>] /\ put' = [t \in Track |-> <<>>]
        /\ m_bStartMuxing' = FALSE /\ tpc' = "loop" /\ input' = input
    BY <1>1 DEF StartFlag
  <2>2. ASSUME NEW t \in Track PROVE Marked(t)' /\ Kept(t)'
    <3>1. info[t] \in TrackRecord
      BY <1>0 DEF Played
    <3>2. info'[t].held = {} /\ info'[t].total = 0
      BY <2>1, <3>1 DEF TrackRecord
    <3>3. got'[t] = <<>> /\ put'[t] = <<>> /\ Len(got'[t]) = 0
      BY <2>1
    <3>4. Marked(t)'
      BY <2>1, <3>2, <3>3 DEF Marked
    <3>5. Kept(t)'
      BY <3>2, <3>3 DEF Kept, Resting
    <3> QED BY <3>4, <3>5
  <2>3. Ascending'
    BY <2>1 DEF Ascending
  <2> QED BY <2>1, <2>2, <2>3 DEF Tracked
<1>2. CASE ReceiveSample
  <2>0. upc = "idle" /\ tpc' = tpc
    BY <1>2, Received
  <2>1. CASE m_bEnableMux
    <3> DEFINE s == Head(input)
    <3>1. tpc # "none"
      BY <1>0, <1>2, <2>1, Threaded, Received
    <3>2. ASSUME NEW t \in Track PROVE Marked(t)' /\ Kept(t)'
      <4>1. Marked(t) /\ Kept(t)
        BY <3>1 DEF Tracked
      <4>2. DropSample(s) \/ StartTrack(s) \/ PutSample(s)
        BY <1>0, <1>2, <2>1, SampleTaken
      <4>3. CASE t # s.track
        BY <1>0, <1>2, <2>1, <4>1, <4>3, OtherTrack
      <4> HIDE DEF s
      <4>4. CASE t = s.track
        BY <1>0, <1>2, <2>1, <4>1, <4>2, <4>4, TrackSkips, TrackStarts, TrackPuts DEF s
      <4> QED BY <4>3, <4>4
    <3>3. Ascending'
      BY <1>0, <1>2, StepAscending
    <3> QED BY <2>0, <3>1, <3>2, <3>3 DEF Tracked
  <2>2. CASE ~m_bEnableMux
    <3>1. tpc = "none"
      BY <1>0, <2>0, <2>2, Zenon DEF Session
    <3>2. put' = put
      BY <1>2, <2>2 DEF ReceiveSample
    <3>3. Ascending'
      BY <1>0, <1>2, StepAscending
    <3> QED BY <2>0, <3>1, <3>2, <3>3 DEF Tracked
  <2> QED BY <2>1, <2>2
<1>3. CASE Join
  <2>1. tpc' = "none" /\ put' = [t \in Track |-> <<>>] /\ input' = input
    BY <1>3 DEF Join
  <2> QED BY <2>1 DEF Tracked, Ascending
<1>4. ASSUME UNCHANGED <<tracks, m_bStartMuxing>>, tpc' = "none" <=> tpc = "none"
      PROVE  Tracked' /\ Ascending'
  <2>1. Ascending'
    BY <1>4 DEF tracks, Ascending
  <2>2. ASSUME NEW t \in Track PROVE (Marked(t)' <=> Marked(t)) /\ (Kept(t)' <=> Kept(t))
    <3>1. UNCHANGED <<m_MuxStartTime, info, got, put, input, m_bStartMuxing>>
      BY <1>4 DEF tracks
    <3>2. Marked(t)' <=> Marked(t)
      BY <3>1 DEF Marked
    <3>3. Kept(t)' <=> Kept(t)
      BY <3>1 DEF Kept, Resting, Running, Lasting, Ahead, Skipped, Last
    <3> QED BY <3>2, <3>3
  <2> QED BY <1>4, <2>1, <2>2 DEF Tracked, tracks
<1>5. ASSUME NEW kind \in Kind, StopFlag(kind) PROVE Tracked' /\ Ascending'
  BY <1>4, <1>5 DEF StopFlag
<1>6. CASE Stop
  BY <1>4, <1>6 DEF Stop
<1>7. CASE Run
  BY <1>4, <1>7 DEF Run
<1>8. CASE GetPend \/ GetWake \/ GetTake \/ GivePush
  BY <1>4, <1>8 DEF GetPend, GetWake, GetTake, GivePush, status
<1>9. CASE GivePost \/ WakeThread
  BY <1>4, <1>9 DEF GivePost, WakeThread, PostWriter, status
<1>10. CASE LibraryReturns
  BY <1>4, <1>10 DEF LibraryReturns
<1>11. CASE SetExit
  BY <1>4, <1>11 DEF SetExit
<1>12. CASE LoopTest
  BY <1>4, <1>12 DEF LoopTest, status
<1>13. CASE ThreadPend
  BY <1>4, <1>13 DEF ThreadPend, status
<1>14. CASE ThreadWake \/ ThreadWrite \/ ThreadPost
  BY <1>4, <1>14 DEF ThreadWake, ThreadWrite, ThreadPost, status
<1>15. CASE Pop
  BY <1>4, <1>15 DEF Pop, status
<1>16. CASE UNCHANGED vars
  BY <1>4, <1>16 DEF vars, status
<1> QED
  BY <1>1, <1>2, <1>3, <1>5, <1>6, <1>7, <1>8, <1>9, <1>10, <1>11, <1>12, <1>13, <1>14, <1>15, <1>16
     DEF Next, Receive, Library, Stopping, ThreadLoop

LEMMA AlwaysTracked == Spec => [](Typed /\ Ascending /\ Tracked)
<1>1. Init => Typed /\ Ascending /\ Tracked
  BY InitTyped, InitAscending, InitTracked
<1>2. Typed /\ Ascending /\ Tracked /\ [Next]_vars => (Typed /\ Ascending /\ Tracked)'
  BY StepTyped, StepTracked
<1> QED BY <1>1, <1>2, PTL DEF Spec

-----------------------------------------------------------------------------
(* The samples taken are those put, and the one held. *)
LEMMA TakenSamples ==
    ASSUME Played, NEW t \in Track
    PROVE  /\ Len(put[t]) \in Nat /\ Taken(t) \in Seq(SUBSET Sample)
           /\ Len(Taken(t)) = Len(put[t]) + (IF info[t].held = {} THEN 0 ELSE 1)
           /\ DOMAIN Taken(t) = 1..Len(Taken(t))
           /\ \A i \in 1..Len(put[t]) : Taken(t)[i] = put[t][i].samples
           /\ info[t].held # {} => Taken(t)[Len(put[t]) + 1] = info[t].held
<1> DEFINE a == [i \in DOMAIN put[t] |-> put[t][i].samples]
           b == IF info[t].held = {} THEN <<>> ELSE <<info[t].held>>
<1>1. put[t] \in Seq(PutRecord) /\ Len(put[t]) \in Nat
  BY TrackTypes
<1>2. \A i \in 1..Len(put[t]) : put[t][i].samples \in SUBSET Sample
  <2>1. \A i \in 1..Len(put[t]) : put[t][i] \in PutRecord
    BY <1>1
  <2> QED BY <2>1 DEF PutRecord
<1>3. a \in Seq(SUBSET Sample) /\ Len(a) = Len(put[t]) /\ \A i \in 1..Len(put[t]) : a[i] = put[t][i].samples
  <2>1. DOMAIN put[t] = 1..Len(put[t])
    BY <1>1
  <2>2. a = [i \in 1..Len(put[t]) |-> put[t][i].samples]
    BY <2>1
  <2> HIDE DEF a
  <2> QED BY <1>1, <1>2, <2>2
<1>4. info[t].held \in SUBSET Sample
  BY TrackTypes DEF TrackRecord
<1>5. /\ b \in Seq(SUBSET Sample) /\ Len(b) = IF info[t].held = {} THEN 0 ELSE 1
      /\ info[t].held # {} => b[1] = info[t].held
  <2>1. CASE info[t].held = {}
    <3>1. b = <<>>
      BY <2>1
    <3> HIDE DEF b
    <3> QED BY <2>1, <3>1
  <2>2. CASE info[t].held # {}
    <3>1. b = <<info[t].held>>
      BY <2>2
    <3> HIDE DEF b
    <3> QED BY <1>4, <2>2, <3>1
  <2> QED BY <2>1, <2>2
<1>6. Taken(t) = a \o b
  BY DEF Taken
<1> HIDE DEF a, b
<1>7. /\ a \o b \in Seq(SUBSET Sample) /\ Len(a \o b) = Len(a) + Len(b)
      /\ \A i \in 1..Len(a) : (a \o b)[i] = a[i]
      /\ \A i \in 1..Len(b) : (a \o b)[Len(a) + i] = b[i]
  <2> DEFINE S == SUBSET Sample
  <2>1. a \in Seq(S) /\ b \in Seq(S)
    BY <1>3, <1>5
  <2> HIDE DEF S
  <2>2. a \o b \in Seq(S)
    BY <2>1, Joined
  <2> QED BY <2>1, <2>2, Joined DEF S
<1>8. info[t].held # {} => 1 \in 1..Len(b)
  BY <1>5
<1>9. DOMAIN (a \o b) = 1..Len(a \o b)
  BY <1>7
<1> QED BY <1>1, <1>3, <1>5, <1>6, <1>7, <1>8, <1>9

LEMMA Offsets ==
    ASSUME NEW g \in Nat, NEW p \in Nat, NEW k \in Nat, k = g - p - 1
    PROVE  /\ g - (p + 1) = k /\ k + (p + 1) = g
           /\ \A i \in 1..p + 1 : i \in 1..p \/ i = p + 1
           /\ \A i \in 1..p : i \in 1..p + 1 /\ i + 1 \in 1..p + 1 /\ k + (i + 1) = k + i + 1
  OBVIOUS

LEMMA RunningTaken ==
    ASSUME Played, NEW t \in Track, info[t].held # {}, Running(t)
    PROVE  /\ Len(got[t]) - Len(Taken(t)) = Skipped(t)
           /\ DOMAIN Taken(t) = 1..Len(put[t]) + 1
           /\ \A i \in DOMAIN Taken(t) : Taken(t)[i] = {got[t][Skipped(t) + i]}
           /\ \A i \in 1..Len(put[t]) : i \in DOMAIN Taken(t) /\ i + 1 \in DOMAIN Taken(t)
                                       /\ Skipped(t) + (i + 1) = Skipped(t) + i + 1
<1> DEFINE g == Len(got[t])
           p == Len(put[t])
           k == Skipped(t)
<1>1. /\ Len(Taken(t)) = p + 1 /\ DOMAIN Taken(t) = 1..Len(Taken(t))
      /\ \A i \in 1..p : Taken(t)[i] = put[t][i].samples
      /\ Taken(t)[p + 1] = info[t].held
  BY TakenSamples
<1>2. g \in Nat /\ p \in Nat /\ k \in Nat /\ k = g - p - 1
  BY TrackTypes DEF Running, Skipped
<1>3. info[t].held = {got[t][g]} /\ \A i \in 1..p : put[t][i].samples = {got[t][k + i]}
  BY DEF Running, Last
<1> HIDE DEF g, p, k
<1>4. /\ g - (p + 1) = k /\ k + (p + 1) = g
      /\ \A i \in 1..p + 1 : i \in 1..p \/ i = p + 1
      /\ \A i \in 1..p : i \in 1..p + 1 /\ i + 1 \in 1..p + 1 /\ k + (i + 1) = k + i + 1
  BY <1>2, Offsets
<1>5. \A i \in 1..p + 1 : Taken(t)[i] = {got[t][k + i]}
  <2>1. ASSUME NEW i \in 1..p + 1 PROVE Taken(t)[i] = {got[t][k + i]}
    <3>1. CASE i \in 1..p
      BY <1>1, <1>3, <3>1
    <3>2. CASE i = p + 1
      BY <1>1, <1>3, <1>4, <3>2
    <3> QED BY <1>4, <3>1, <3>2
  <2> QED BY <2>1
<1> QED BY <1>1, <1>4, <1>5 DEF g, p, k

LEMMA TrackedWithoutGap ==
    ASSUME Played, Tracked
    PROVE  TrackWithoutGap
<1> DEFINE gap(t) == Len(got[t]) - Len(Taken(t))
<1>1. ASSUME tpc # "none", NEW t \in Track
      PROVE  /\ \A i \in DOMAIN Taken(t) : Taken(t)[i] = {got[t][gap(t) + i]}
             /\ \A i \in 1..gap(t) : Early(m_MuxStartTime, t, got[t][i])
             /\ t \in Video /\ Taken(t) # <<>> => got[t][gap(t) + 1].key
  <2>1. CASE info[t].held = {}
    <3>1. Resting(t)
      BY <1>1, <2>1 DEF Tracked, Kept
    <3>2. Len(put[t]) = 0
      BY <3>1 DEF Resting
    <3>3. Taken(t) \in Seq(SUBSET Sample) /\ Len(Taken(t)) = 0 /\ DOMAIN Taken(t) = 1..0
      <4>1. 0 + 0 = 0
        OBVIOUS
      <4>2. Len(Taken(t)) = Len(put[t]) + 0
        BY <2>1, TakenSamples
      <4>3. Len(Taken(t)) = 0
        BY <3>2, <4>1, <4>2
      <4> QED BY <4>3, TakenSamples
    <3>4. Taken(t) = <<>> /\ DOMAIN Taken(t) = {}
      BY <3>3
    <3>5. gap(t) = Len(got[t])
      BY <3>3, TrackTypes
    <3> QED BY <3>1, <3>4, <3>5 DEF Resting
  <2>2. CASE info[t].held # {}
    <3>1. Running(t)
      BY <1>1, <2>2 DEF Tracked, Kept
    <3>2. gap(t) = Skipped(t) /\ \A i \in DOMAIN Taken(t) : Taken(t)[i] = {got[t][Skipped(t) + i]}
      BY <2>2, <3>1, RunningTaken
    <3> HIDE DEF gap
    <3> QED BY <3>1, <3>2 DEF Running
  <2> QED BY <2>1, <2>2
<1> QED BY <1>1 DEF TrackWithoutGap, Early

LEMMA TrackedInSync ==
    ASSUME Played, Tracked
    PROVE  InSync
<1>1. ASSUME NEW t \in Track, NEW i \in DOMAIN put[t],
             NEW s \in Taken(t)[i], NEW next \in Taken(t)[i + 1]
      PROVE  put[t][i].duration = next.time - (IF i = 1 THEN m_MuxStartTime ELSE s.time)
  <2>1. i \in 1..Len(put[t])
    BY <1>1, TrackTypes
  <2>2. put[t] # <<>>
    BY <2>1
  <2>3. tpc # "none"
    BY <2>2 DEF Tracked
  <2>4. info[t].held # {} /\ Running(t)
    BY <2>2, <2>3 DEF Tracked, Kept, Resting
  <2>5. /\ i \in DOMAIN Taken(t) /\ i + 1 \in DOMAIN Taken(t)
        /\ Skipped(t) + (i + 1) = Skipped(t) + i + 1
        /\ \A j \in DOMAIN Taken(t) : Taken(t)[j] = {got[t][Skipped(t) + j]}
    BY <2>1, <2>4, RunningTaken
  <2>6. s = got[t][Skipped(t) + i]
    BY <1>1, <2>5
  <2>7. next = got[t][Skipped(t) + i + 1]
    BY <1>1, <2>5
  <2>8. put[t][i].duration = got[t][Skipped(t) + i + 1].time
                             - (IF i = 1 THEN m_MuxStartTime ELSE got[t][Skipped(t) + i].time)
    BY <2>1, <2>4 DEF Running, Lasting
  <2> QED BY <2>6, <2>7, <2>8
<1> QED BY <1>1 DEF InSync

(***************************************************************************)
(* What was put and is held of a track are the latest samples it received  *)
(* for the file, from the key frame or the start time on: ReceiveSample    *)
(* (CNX_Mp4MuxerFilter.cpp) leaves out none in between.                    *)
(***************************************************************************)
THEOREM NoGap == Spec => []TrackWithoutGap
<1>1. Typed /\ Ascending /\ Tracked => TrackWithoutGap
  BY TrackedWithoutGap DEF Typed
<1> QED BY <1>1, AlwaysTracked, PTL

(***************************************************************************)
(* The durations handed to the multiplexer end where the next sample of    *)
(* the track begins, the first one counted from the start that all tracks  *)
(* share, although the code only keeps their sum.                          *)
(***************************************************************************)
THEOREM TracksInSync == Spec => []InSync
<1>1. Typed /\ Ascending /\ Tracked => InSync
  BY TrackedInSync DEF Typed
<1> QED BY <1>1, AlwaysTracked, PTL
=============================================================================
