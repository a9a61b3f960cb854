--------------------------- MODULE FileWriterProofs ---------------------------
(***************************************************************************)
(* Theorems about CNX_FileWriter for any number of bytes, flags, runs and  *)
(* failures and any write buffers: types and buffers, what is announced,   *)
(* where the bytes are, and the order of what is on its way to the file.   *)
(***************************************************************************)
EXTENDS FileWriter, TLAPS

USE KindAssumption, BoundAssumption, SizeAssumption, SpuriousAssumption

-----------------------------------------------------------------------------
(***************************************************************************)
(* Sequences.                                                              *)
(***************************************************************************)
LEMMA RangeOf ==
    ASSUME NEW S, NEW q \in Seq(S)
    PROVE  /\ Range(q) = {q[i] : i \in 1..Len(q)} /\ Range(q) \subseteq S
           /\ \A x : x \in Range(q) <=> \E i \in 1..Len(q) : x = q[i]
           /\ Len(q) \in Nat /\ DOMAIN q = 1..Len(q)
  BY DEF Range

LEMMA Joined ==
    ASSUME NEW S, NEW a \in Seq(S), NEW b \in Seq(S)
    PROVE  /\ a \o b \in Seq(S) /\ Len(a \o b) = Len(a) + Len(b)
           /\ Len(a) \in Nat /\ Len(b) \in Nat
           /\ \A i \in 1..Len(a) : i \in 1..Len(a \o b) /\ (a \o b)[i] = a[i]
           /\ \A i \in 1..Len(b) : Len(a) + i \in 1..Len(a \o b) /\ (a \o b)[Len(a) + i] = b[i]
           /\ \A i \in 1..Len(a \o b) :
                 \/ i \in 1..Len(a) /\ (a \o b)[i] = a[i]
                 \/ i - Len(a) \in 1..Len(b) /\ (a \o b)[i] = b[i - Len(a)]
<1>1. a \o b \in Seq(S) /\ Len(a \o b) = Len(a) + Len(b) /\ Len(a) \in Nat /\ Len(b) \in Nat
  OBVIOUS
<1>2. \A i \in 1..(Len(a) + Len(b)) : (a \o b)[i] = IF i <= Len(a) THEN a[i] ELSE b[i - Len(a)]
  OBVIOUS
<1>3. \A i \in 1..Len(b) : Len(a) + i \in 1..(Len(a) + Len(b)) /\ ~(Len(a) + i <= Len(a))
                            /\ (Len(a) + i) - Len(a) = i
  BY <1>1
<1> QED BY <1>1, <1>2, <1>3

LEMMA JoinedRange ==
    ASSUME NEW S, NEW a \in Seq(S), NEW b \in Seq(S)
    PROVE  Range(a \o b) = Range(a) \cup Range(b)
<1>1. a \o b \in Seq(S)
  BY Joined
<1>2. ASSUME NEW x \in Range(a \o b) PROVE x \in Range(a) \cup Range(b)
  <2>1. PICK i \in 1..Len(a \o b) : x = (a \o b)[i]
    BY <1>1, RangeOf
  <2> QED BY <2>1, Joined, RangeOf
<1>3. ASSUME NEW x \in Range(a) PROVE x \in Range(a \o b)
  <2>1. PICK i \in 1..Len(a) : x = a[i]
    BY RangeOf
  <2>2. i \in 1..Len(a \o b) /\ (a \o b)[i] = x
    BY <2>1, Joined
  <2> QED BY <1>1, <2>2, RangeOf
<1>4. ASSUME NEW x \in Range(b) PROVE x \in Range(a \o b)
  <2>1. PICK i \in 1..Len(b) : x = b[i]
    BY RangeOf
  <2> DEFINE r == a \o b
             j == Len(a) + i
  <2>2. j \in 1..Len(r) /\ r[j] = x /\ r \in Seq(S)
    BY <2>1, Joined
  <2> HIDE DEF r, j
  <2>3. x \in Range(r)
    BY <2>2, RangeOf
  <2> QED BY <2>3 DEF r
<1> QED BY <1>2, <1>3, <1>4

LEMMA JoinedIncreasing ==
    ASSUME NEW a \in Seq(Byte), NEW b \in Seq(Byte), Increasing(a), Increasing(b), Before(a, b)
    PROVE  Increasing(a \o b)
<1> SUFFICES ASSUME NEW i \in 1..Len(a \o b), NEW j \in 1..Len(a \o b), i < j
             PROVE  (a \o b)[i] < (a \o b)[j]
  BY DEF Increasing
<1>n. Len(a) \in Nat /\ Len(b) \in Nat /\ i \in Nat /\ j \in Nat
  BY Joined
<1>1. CASE i \in 1..Len(a) /\ (a \o b)[i] = a[i]
  <2>1. CASE j \in 1..Len(a) /\ (a \o b)[j] = a[j]
    BY <1>1, <2>1 DEF Increasing
  <2>2. CASE j - Len(a) \in 1..Len(b) /\ (a \o b)[j] = b[j - Len(a)]
    <3>1. a[i] \in Range(a) /\ b[j - Len(a)] \in Range(b)
      BY <1>1, <2>2, RangeOf
    <3> QED BY <1>1, <2>2, <3>1 DEF Before
  <2> QED BY <2>1, <2>2, Joined
<1>2. CASE i - Len(a) \in 1..Len(b) /\ (a \o b)[i] = b[i - Len(a)]
  <2>1. j - Len(a) \in 1..Len(b) /\ (a \o b)[j] = b[j - Len(a)]
    <3>1. j \notin 1..Len(a)
      BY <1>n, <1>2
    <3> QED BY <3>1, Joined
  <2>2. i - Len(a) < j - Len(a)
    BY <1>n
  <2> HIDE DEF Increasing
  <2>3. \A k, l \in 1..Len(b) : k < l => b[k] < b[l]
    BY DEF Increasing
  <2> QED BY <1>2, <2>1, <2>2, <2>3
<1> QED BY <1>1, <1>2, Joined

(* A sequence cut in two. *)
LEMMA Cut ==
    ASSUME NEW q \in Seq(Byte), NEW n \in 0..Len(q)
    PROVE  LET a == SubSeq(q, 1, n)
               b == SubSeq(q, n + 1, Len(q))
           IN  /\ a \in Seq(Byte) /\ Len(a) = n /\ b \in Seq(Byte) /\ Len(b) = Len(q) - n
               /\ \A i \in 1..n : i \in 1..Len(q) /\ a[i] = q[i]
               /\ \A i \in 1..Len(b) : n + i \in 1..Len(q) /\ b[i] = q[n + i]
<1> DEFINE a == SubSeq(q, 1, n)
           b == SubSeq(q, n + 1, Len(q))
<1>1. Len(q) \in Nat /\ n \in Nat /\ n <= Len(q)
  OBVIOUS
<1>2. a \in Seq(Byte) /\ Len(a) = n /\ \A i \in 1..n : a[i] = q[i]
  BY <1>1
<1>3. b \in Seq(Byte) /\ Len(b) = Len(q) - n
  BY <1>1
<1>4. \A i \in 1..(Len(q) - n) : b[i] = q[(n + 1) + i - 1]
  BY <1>1
<1>5. \A i \in 1..(Len(q) - n) : (n + 1) + i - 1 = n + i /\ n + i \in 1..Len(q)
  BY <1>1
<1> HIDE DEF a, b
<1>6. \A i \in 1..n : i \in 1..Len(q)
  BY <1>1
<1> QED BY <1>2, <1>3, <1>4, <1>5, <1>6 DEF a, b

LEMMA CutOrder ==
    ASSUME NEW q \in Seq(Byte), NEW n \in 0..Len(q)
    PROVE  LET a == SubSeq(q, 1, n)
               b == SubSeq(q, n + 1, Len(q))
           IN  /\ Range(a) \cup Range(b) = Range(q)
               /\ Increasing(q) => Increasing(a) /\ Increasing(b) /\ Before(a, b)
<1> DEFINE a == SubSeq(q, 1, n)
           b == SubSeq(q, n + 1, Len(q))
<1>0. Len(q) \in Nat /\ n \in Nat /\ n <= Len(q)
  OBVIOUS
<1>1. /\ a \in Seq(Byte) /\ Len(a) = n /\ b \in Seq(Byte) /\ Len(b) = Len(q) - n
      /\ \A i \in 1..n : i \in 1..Len(q) /\ a[i] = q[i]
      /\ \A i \in 1..Len(b) : n + i \in 1..Len(q) /\ b[i] = q[n + i]
  BY Cut
<1> HIDE DEF a, b
<1>2. Range(a) \subseteq Range(q) /\ Range(b) \subseteq Range(q)
  <2>1. ASSUME NEW x \in Range(a) PROVE x \in Range(q)
    <3>1. PICK i \in 1..n : x = a[i]
      BY <1>1, RangeOf
    <3> QED BY <1>1, <3>1, RangeOf
  <2>2. ASSUME NEW x \in Range(b) PROVE x \in Range(q)
    <3>1. PICK i \in 1..Len(b) : x = b[i]
      BY <1>1, RangeOf
    <3> QED BY <1>1, <3>1, RangeOf
  <2> QED BY <2>1, <2>2
<1>3. Range(q) \subseteq Range(a) \cup Range(b)
  <2> SUFFICES ASSUME NEW x \in Range(q) PROVE x \in Range(a) \cup Range(b)
    OBVIOUS
  <2>1. PICK i \in 1..Len(q) : x = q[i]
    BY RangeOf
  <2>2. CASE i <= n
    <3>1. i \in 1..Len(a) /\ a[i] = x
      BY <1>0, <1>1, <2>1, <2>2
    <3> QED BY <1>1, <3>1, RangeOf
  <2>3. CASE ~(i <= n)
    <3>1. i - n \in 1..Len(b) /\ n + (i - n) = i
      BY <1>0, <1>1, <2>3
    <3>2. b[i - n] = x
      BY <1>1, <2>1, <3>1
    <3> QED BY <1>1, <3>1, <3>2, RangeOf
  <2> QED BY <2>2, <2>3
<1>4. ASSUME Increasing(q) PROVE Increasing(a) /\ Increasing(b) /\ Before(a, b)
  <2>1. Increasing(a)
    BY <1>1, <1>4 DEF Increasing
  <2>2. Increasing(b)
    <3> SUFFICES ASSUME NEW i \in 1..Len(b), NEW j \in 1..Len(b), i < j PROVE b[i] < b[j]
      BY DEF Increasing
    <3>1. n + i < n + j
      BY <1>0
    <3> QED BY <1>1, <1>4, <3>1 DEF Increasing
  <2>3. ASSUME NEW x \in Range(a), NEW y \in Range(b) PROVE x < y
    <3>1. PICK i \in 1..n : x = a[i]
      BY <1>1, RangeOf
    <3>2. PICK j \in 1..Len(b) : y = b[j]
      BY <1>1, RangeOf
    <3>3. i < n + j
      BY <1>0, <1>1
    <3> QED BY <1>1, <1>4, <3>1, <3>2, <3>3 DEF Increasing
  <2> QED BY <2>1, <2>2, <2>3 DEF Before
<1> QED BY <1>2, <1>3, <1>4 DEF a, b

(* What a queue holds after a push and after a pop. *)
LEMMA Queueing ==
    ASSUME NEW S, NEW q \in Seq(S), NEW x \in S
    PROVE  /\ Append(q, x) \in Seq(S) /\ Append(q, x) # <<>>
           /\ Len(q) \in Nat /\ Len(Append(q, x)) = Len(q) + 1
           /\ \A i \in 1..Len(q) : i \in 1..Len(Append(q, x)) /\ Append(q, x)[i] = q[i]
           /\ Len(q) + 1 \in 1..Len(Append(q, x)) /\ Append(q, x)[Len(q) + 1] = x
           /\ \A i \in 1..Len(Append(q, x)) : i \in 1..Len(q) \/ i = Len(q) + 1
  OBVIOUS

LEMMA Popping ==
    ASSUME NEW S, NEW q \in Seq(S), q # <<>>
    PROVE  /\ Head(q) \in S /\ Head(q) = q[1] /\ 1 \in 1..Len(q)
           /\ Tail(q) \in Seq(S) /\ Len(Tail(q)) = Len(q) - 1 /\ Len(q) \in Nat
           /\ \A i \in 1..Len(Tail(q)) : i + 1 \in 1..Len(q) /\ Tail(q)[i] = q[i + 1]
           /\ \A i \in 1..Len(q) : i # 1 => i - 1 \in 1..Len(Tail(q)) /\ Tail(q)[i - 1] = q[i]
<1>1. /\ Head(q) \in S /\ Head(q) = q[1] /\ 1 \in 1..Len(q)
      /\ Tail(q) \in Seq(S) /\ Len(Tail(q)) = Len(q) - 1 /\ Len(q) \in Nat
      /\ \A i \in 1..Len(Tail(q)) : i + 1 \in 1..Len(q) /\ Tail(q)[i] = q[i + 1]
  OBVIOUS
<1>2. ASSUME NEW i \in 1..Len(q), i # 1 PROVE i - 1 \in 1..Len(Tail(q)) /\ Tail(q)[i - 1] = q[i]
  <2>1. i - 1 \in 1..Len(Tail(q)) /\ (i - 1) + 1 = i
    BY <1>1, <1>2
  <2> QED BY <1>1, <2>1
<1> QED BY <1>1, <1>2

(* One entry of a sequence is replaced. *)
LEMMA Replacing ==
    ASSUME NEW S, NEW q \in Seq(S), NEW i \in 1..Len(q), NEW e \in S
    PROVE  /\ [q EXCEPT ![i] = e] \in Seq(S) /\ Len([q EXCEPT ![i] = e]) = Len(q)
           /\ \A j \in 1..Len(q) : [q EXCEPT ![i] = e][j] = IF j = i THEN e ELSE q[j]
<1> DEFINE r == [q EXCEPT ![i] = e]
<1>1. Len(q) \in Nat /\ q \in [1..Len(q) -> S]
  OBVIOUS
<1>2. r \in [1..Len(q) -> S] /\ \A j \in 1..Len(q) : r[j] = IF j = i THEN e ELSE q[j]
  BY <1>1
<1> HIDE DEF r
<1>3. r \in Seq(S) /\ Len(r) = Len(q)
  BY <1>1, <1>2
<1> QED BY <1>2, <1>3 DEF r
-----------------------------------------------------------------------------
(***************************************************************************)
(* What leaves the pipeline.  A step that takes data out of it files the   *)
(* first bytes of it, gives up the others and notes at most a failure.     *)
(***************************************************************************)
Failure == [code |-> "WRITE_FAIL", name |-> Len(files)]

Filed(done) ==
    /\ files' \in Seq(FileRecord) /\ Len(files') = Len(files)
    /\ \A f \in 1..Len(files) :
          /\ files'[f].kind = files[f].kind /\ files'[f].opened = files[f].opened
          /\ files'[f].bytes = files[f].bytes
          /\ files'[f].data = IF f = m_OutFd THEN files[f].data \o done ELSE files[f].data
    /\ m_OutFd = 0 => done = <<>>

Leaves(data) ==
    \E done \in Seq(Byte), gone \in SUBSET Byte :
        /\ Range(done) \cup gone = Range(data)
        /\ Increasing(data) => Increasing(done)
        /\ lost' = lost \cup gone
        /\ Filed(done)
        /\ notes' = notes \/ notes' = Append(notes, Failure)
        /\ fails' \in Nat

LEMMA RecordTyped ==
    ASSUME NEW r \in FileRecord
    PROVE  /\ r.kind \in Kind /\ r.opened \in BOOLEAN /\ r.bytes \subseteq Byte /\ r.data \in Seq(Byte)
           /\ \A d \in Seq(Byte) :
                 LET e == [r EXCEPT !.data = d]
                 IN  /\ e \in FileRecord /\ e.data = d /\ e.kind = r.kind /\ e.opened = r.opened
                     /\ e.bytes = r.bytes
  BY DEF FileRecord

LEMMA NoneFiled ==
    ASSUME TypeOK, files' = files
    PROVE  Filed(<<>>)
<1>1. files \in Seq(FileRecord) /\ m_OutFd \in 0..Len(files)
  BY DEF TypeOK
<1>2. \A f \in 1..Len(files) : files[f].data \in Seq(Byte)
  <2>1. \A f \in 1..Len(files) : files[f] \in FileRecord
    BY <1>1
  <2> QED BY <2>1, RecordTyped
<1>3. \A q \in Seq(Byte) : q \o <<>> = q
  OBVIOUS
<1> QED BY <1>1, <1>2, <1>3 DEF Filed

LEMMA SomeFiled ==
    ASSUME TypeOK, m_OutFd # 0, NEW done \in Seq(Byte),
           files' = [files EXCEPT ![m_OutFd].data = @ \o done]
    PROVE  Filed(done)
<1>1. files \in Seq(FileRecord) /\ m_OutFd \in 1..Len(files) /\ files[m_OutFd] \in FileRecord
  BY DEF TypeOK
<1> DEFINE e == [files[m_OutFd] EXCEPT !.data = @ \o done]
<1>2. files[m_OutFd].data \o done \in Seq(Byte)
  <2>1. files[m_OutFd].data \in Seq(Byte)
    BY <1>1, RecordTyped
  <2> QED BY <2>1, Joined
<1>3. /\ e \in FileRecord /\ e.kind = files[m_OutFd].kind /\ e.opened = files[m_OutFd].opened
      /\ e.bytes = files[m_OutFd].bytes /\ e.data = files[m_OutFd].data \o done
  BY <1>1, <1>2, RecordTyped
<1>4. files' = [files EXCEPT ![m_OutFd] = e]
  OBVIOUS
<1> HIDE DEF e
<1> DEFINE r == [files EXCEPT ![m_OutFd] = e]
<1>r. /\ r \in Seq(FileRecord) /\ Len(r) = Len(files)
      /\ \A f \in 1..Len(files) : r[f] = IF f = m_OutFd THEN e ELSE files[f]
  BY <1>1, <1>3, Replacing
<1> HIDE DEF r
<1>5. files' \in Seq(FileRecord) /\ Len(files') = Len(files)
  BY <1>4, <1>r DEF r
<1>6. \A f \in 1..Len(files) : files'[f] = IF f = m_OutFd THEN e ELSE files[f]
  BY <1>4, <1>r DEF r
<1> QED BY <1>3, <1>5, <1>6 DEF Filed

LEMMA FailsNat ==
    ASSUME TypeOK, fails' = fails \/ fails' = fails + 1
    PROVE  fails' \in Nat
  BY DEF TypeOK

LEMMA WriteLeaves ==
    ASSUME TypeOK, NEW data \in Seq(Byte), Write(data)
    PROVE  Leaves(data)
<1>e. <<>> \in Seq(Byte) /\ Range(<<>>) = {} /\ Increasing(<<>>)
  BY DEF Range, Increasing
<1>r. Range(data) \subseteq Byte
  BY RangeOf
<1>1. CASE WriteOk(data)
  <2>1. Filed(data) /\ UNCHANGED <<lost, notes, fails>>
    BY <1>1, SomeFiled DEF WriteOk
  <2>2. Range(data) \cup {} = Range(data) /\ lost' = lost \cup {} /\ fails' \in Nat
    BY <2>1, FailsNat
  <2> QED BY <2>1, <2>2 DEF Leaves
<1>2. CASE WriteShort(data)
  <2>1. PICK n \in 1..(Len(data) - 1) :
           /\ files' = [files EXCEPT ![m_OutFd].data = @ \o SubSeq(data, 1, n)]
           /\ lost' = lost \cup Range(SubSeq(data, n + 1, Len(data)))
    BY <1>2 DEF WriteShort
  <2> DEFINE a == SubSeq(data, 1, n)
             b == SubSeq(data, n + 1, Len(data))
  <2>2. n \in 0..Len(data)
    OBVIOUS
  <2>3. /\ a \in Seq(Byte) /\ b \in Seq(Byte) /\ Range(a) \cup Range(b) = Range(data)
        /\ Increasing(data) => Increasing(a)
    BY <2>2, Cut, CutOrder
  <2> HIDE DEF a, b
  <2>4. Filed(a)
    BY <1>2, <2>1, <2>3, SomeFiled DEF WriteShort, a
  <2>5. lost' = lost \cup Range(b) /\ Range(b) \in SUBSET Byte /\ notes' = notes /\ fails' \in Nat
    BY <1>2, <1>r, <2>1, <2>3, FailsNat DEF WriteShort, b
  <2> QED BY <2>3, <2>4, <2>5 DEF Leaves
<1>3. CASE WriteFails(data)
  <2>1. Filed(<<>>) /\ lost' = lost \cup Range(data) /\ fails' \in Nat
    BY <1>3, NoneFiled, FailsNat DEF WriteFails
  <2>2. notes' = Append(notes, Failure)
    BY <1>3 DEF WriteFails, Note, Failure
  <2>3. Range(<<>>) \cup Range(data) = Range(data) /\ Range(data) \in SUBSET Byte
    BY <1>e, <1>r
  <2> QED BY <1>e, <2>1, <2>2, <2>3 DEF Leaves
<1> QED BY <1>1, <1>2, <1>3 DEF Write

LEMMA GivenUp ==
    ASSUME TypeOK, NEW data \in Seq(Byte), lost' = lost \cup Range(data),
           UNCHANGED <<files, notes, fails>>
    PROVE  Leaves(data)
<1>1. <<>> \in Seq(Byte) /\ Range(<<>>) = {} /\ Increasing(<<>>)
  BY DEF Range, Increasing
<1>2. Range(data) \in SUBSET Byte /\ Range(<<>>) \cup Range(data) = Range(data)
  BY <1>1, RangeOf
<1> QED BY <1>1, <1>2, NoneFiled, FailsNat DEF Leaves

LEMMA NothingLeaves ==
    ASSUME TypeOK, UNCHANGED <<files, lost, notes, fails>>
    PROVE  Leaves(<<>>)
<1>1. <<>> \in Seq(Byte) /\ Range(<<>>) = {}
  BY DEF Range
<1> QED BY <1>1, GivenUp

(* Types of what a step that takes data out changes. *)
LEMMA LeavesTyped ==
    ASSUME TypeOK, NEW data, Leaves(data), UNCHANGED m_OutFd
    PROVE  /\ files' \in Seq(FileRecord) /\ m_OutFd' \in 0..Len(files') /\ lost' \subseteq Byte
           /\ notes' \in Seq([code : Code, name : Nat]) /\ fails' \in Nat
<1>1. Failure \in [code : Code, name : Nat]
  BY DEF TypeOK, Failure, Code
<1>2. m_OutFd \in 0..Len(files) /\ lost \subseteq Byte /\ notes \in Seq([code : Code, name : Nat])
  BY DEF TypeOK
<1>3. PICK done \in Seq(Byte), gone \in SUBSET Byte :
         /\ lost' = lost \cup gone /\ Filed(done)
         /\ notes' = notes \/ notes' = Append(notes, Failure)
         /\ fails' \in Nat
  BY DEF Leaves
<1>4. files' \in Seq(FileRecord) /\ m_OutFd' \in 0..Len(files') /\ lost' \subseteq Byte /\ fails' \in Nat
  BY <1>2, <1>3 DEF Filed
<1>5. notes' \in Seq([code : Code, name : Nat])
  <2> DEFINE N == [code : Code, name : Nat]
  <2>1. notes \in Seq(N) /\ Failure \in N
    BY <1>1, <1>2
  <2> HIDE DEF N
  <2>2. notes' \in Seq(N)
    BY <1>3, <2>1
  <2> QED BY <2>2 DEF N
<1> QED BY <1>4, <1>5

-----------------------------------------------------------------------------
(***************************************************************************)
(* Types, and what the program counters say of the buffers.                *)
(***************************************************************************)
Hands ==
    /\ cur.buf = 0 <=> upc = "post"
    /\ upc = "post" => streamQ # <<>> /\ cur.data = <<>>
    /\ upc \notin {"copy", "post"} => todo = <<>>
    /\ pBuffer.buf # 0 <=> tpc \in {"test", "write", "giveBack"}
    /\ tpc \notin {"test", "write"} => pBuffer.data = <<>>
    /\ \A i \in 1..Len(writerQ) : writerQ[i].buf # 0
    /\ spc = "stopped" <=> tpc = "none"

Typed == TypeOK /\ Hands

LEMMA ChunkTyped ==
    ASSUME NEW c \in Chunk
    PROVE  /\ c.data \in Seq(Byte) /\ c.buf \in Buffer \cup {0}
           /\ \A d \in Seq(Byte) : [c EXCEPT !.data = d] \in Chunk /\ [c EXCEPT !.data = d].data = d
                                    /\ [c EXCEPT !.data = d].buf = c.buf
           /\ NoChunk \in Chunk /\ NoChunk.buf = 0 /\ NoChunk.data = <<>> /\ 0 \notin Buffer
<1>1. NoChunk \in Chunk /\ NoChunk.buf = 0 /\ NoChunk.data = <<>>
  BY DEF Chunk, NoChunk
<1>2. 0 \notin Buffer
  BY DEF Buffer
<1>3. /\ c.data \in Seq(Byte) /\ c.buf \in Buffer \cup {0}
      /\ \A d \in Seq(Byte) : [c EXCEPT !.data = d] \in Chunk /\ [c EXCEPT !.data = d].data = d
                               /\ [c EXCEPT !.data = d].buf = c.buf
  BY DEF Chunk
<1> QED BY <1>1, <1>2, <1>3

(* The first buffer of the queue. *)
LEMMA FirstChunk ==
    ASSUME Typed, writerQ # <<>>
    PROVE  /\ Head(writerQ) \in Chunk /\ Head(writerQ).buf \in Buffer
           /\ Head(writerQ).data \in Seq(Byte) /\ Tail(writerQ) \in Seq(Chunk)
           /\ \A i \in DOMAIN Tail(writerQ) :
                 Len(Tail(writerQ)[i].data) = SizeUnit /\ Tail(writerQ)[i].buf # 0
<1>1. writerQ \in Seq(Chunk) /\ \A i \in 1..Len(writerQ) : Len(writerQ[i].data) = SizeUnit /\ writerQ[i].buf # 0
  BY DEF Typed, TypeOK, Hands
<1>2. /\ Head(writerQ) \in Chunk /\ Head(writerQ) = writerQ[1] /\ 1 \in 1..Len(writerQ)
      /\ Tail(writerQ) \in Seq(Chunk)
      /\ \A i \in 1..Len(Tail(writerQ)) : i + 1 \in 1..Len(writerQ) /\ Tail(writerQ)[i] = writerQ[i + 1]
  BY <1>1, Popping
<1>3. Head(writerQ).buf \in Buffer /\ Head(writerQ).data \in Seq(Byte)
  BY <1>1, <1>2, ChunkTyped
<1>4. DOMAIN Tail(writerQ) = 1..Len(Tail(writerQ))
  BY <1>2
<1> QED BY <1>1, <1>2, <1>3, <1>4

LEMMA FilledTyped ==
    ASSUME Typed, upc = "copy", ~Fits
    PROVE  LET full == [cur EXCEPT !.data = @ \o SubSeq(todo, 1, Writable)]
           IN  /\ full \in Chunk /\ full.buf = cur.buf /\ cur.buf \in Buffer
               /\ full.data = cur.data \o SubSeq(todo, 1, Writable)
               /\ Len(full.data) = SizeUnit /\ Rest \in Seq(Byte) /\ Writable \in 0..Len(todo)
<1>1. /\ cur \in Chunk /\ todo \in Seq(Byte) /\ Len(cur.data) <= SizeUnit /\ cur.buf # 0
  BY DEF Typed, TypeOK, Hands
<1>2. cur.data \in Seq(Byte) /\ cur.buf \in Buffer
  BY <1>1, ChunkTyped
<1>3. Len(cur.data) \in Nat /\ Len(todo) \in Nat
  BY <1>1, <1>2
<1>4. Writable \in 0..Len(todo) /\ Writable + Len(cur.data) = SizeUnit
  BY <1>1, <1>3 DEF Writable, Fits
<1> DEFINE w == Writable
           a == SubSeq(todo, 1, w)
           b == SubSeq(todo, w + 1, Len(todo))
<1>5. a \in Seq(Byte) /\ Len(a) = w /\ b \in Seq(Byte)
  <2> HIDE DEF w
  <2> QED BY <1>1, <1>4, Cut DEF w
<1>6. Rest = b
  BY DEF Rest
<1> HIDE DEF a, b, w
<1> DEFINE d == cur.data \o a
<1>7. d \in Seq(Byte) /\ Len(d) = Len(cur.data) + w
  <2>1. d \in Seq(Byte) /\ Len(d) = Len(cur.data) + Len(a)
    <3> DEFINE q == cur.data
    <3>1. q \in Seq(Byte)
      BY <1>2
    <3> HIDE DEF q
    <3>2. q \o a \in Seq(Byte) /\ Len(q \o a) = Len(q) + Len(a)
      BY <1>5, <3>1, Joined
    <3> QED BY <3>2 DEF q
  <2> QED BY <1>5, <2>1
<1>8. Len(d) = SizeUnit
  BY <1>3, <1>4, <1>7 DEF w
<1> HIDE DEF d
<1>9. [cur EXCEPT !.data = d] \in Chunk /\ [cur EXCEPT !.data = d].data = d /\ [cur EXCEPT !.data = d].buf = cur.buf
  BY <1>1, <1>7, ChunkTyped
<1> QED BY <1>2, <1>4, <1>5, <1>6, <1>8, <1>9 DEF d, a, w

LEMMA FileTyped ==
    ASSUME NEW kind \in Kind, NEW ok \in BOOLEAN
    PROVE  [kind |-> kind, opened |-> ok, bytes |-> {}, data |-> <<>>] \in FileRecord
<1>1. <<>> \in Seq(Byte)
  OBVIOUS
<1> QED BY <1>1 DEF FileRecord

LEMMA InitTyped == Init => Typed
<1> SUFFICES ASSUME Init PROVE Typed
  OBVIOUS
<1>1. cur \in Chunk /\ cur.buf = 1 /\ cur.data = <<>> /\ pBuffer \in Chunk /\ pBuffer.buf = 0 /\ pBuffer.data = <<>>
  BY DEF Init, Chunk, NoChunk, Buffer
<1>2. streamQ \in Seq(Buffer)
  <2>1. NumUnit - 1 \in Nat /\ streamQ \in [1..(NumUnit - 1) -> Buffer]
    BY DEF Init, Buffer
  <2> QED BY <2>1
<1>3. writerQ \in Seq(Chunk) /\ writerQ = <<>> /\ Len(writerQ) = 0 /\ DOMAIN writerQ = {} /\ todo \in Seq(Byte)
  BY DEF Init
<1>4. files \in Seq(FileRecord) /\ notes \in Seq([code : Code, name : Nat]) /\ Len(files) = 0
  BY DEF Init
<1>5. m_bThreadExit \in BOOLEAN /\ lost \subseteq Byte /\ Len(cur.data) <= SizeUnit
  BY <1>1 DEF Init
<1> QED BY <1>1, <1>2, <1>3, <1>4, <1>5 DEF Init, Typed, TypeOK, Hands, Kind

(* The steps that take data out of the pipeline. *)
LEMMA StopWriteLeaves ==
    ASSUME Typed, StopWrite
    PROVE  Leaves(cur.data) /\ cur' \in Chunk /\ cur'.data = <<>> /\ cur'.buf = cur.buf
<1>1. cur.data \in Seq(Byte) /\ <<>> \in Seq(Byte) /\ cur \in Chunk
  BY ChunkTyped DEF Typed, TypeOK
<1>2. Leaves(cur.data)
  <2>1. CASE cur.data # <<>>
    BY <1>1, <2>1, WriteLeaves DEF StopWrite, Typed
  <2>2. CASE cur.data = <<>>
    BY <2>2, NothingLeaves DEF StopWrite, Typed
  <2> QED BY <2>1, <2>2
<1>3. cur' = [cur EXCEPT !.data = <<>>]
  BY DEF StopWrite
<1> QED BY <1>1, <1>2, <1>3, ChunkTyped

LEMMA ThreadWriteLeaves ==
    ASSUME Typed, ThreadWrite
    PROVE  Leaves(pBuffer.data) /\ pBuffer' \in Chunk /\ pBuffer'.data = <<>> /\ pBuffer'.buf = pBuffer.buf
<1>1. pBuffer.data \in Seq(Byte) /\ <<>> \in Seq(Byte) /\ pBuffer \in Chunk
  BY ChunkTyped DEF Typed, TypeOK
<1>2. Leaves(pBuffer.data)
  BY <1>1, WriteLeaves DEF ThreadWrite, Typed
<1>3. pBuffer' = [pBuffer EXCEPT !.data = <<>>]
  BY DEF ThreadWrite
<1> QED BY <1>1, <1>2, <1>3, ChunkTyped

LEMMA TestFdLeaves ==
    ASSUME Typed, TestFd, m_OutFd = 0
    PROVE  Leaves(pBuffer.data) /\ pBuffer' \in Chunk /\ pBuffer'.data = <<>> /\ pBuffer'.buf = pBuffer.buf
<1>1. pBuffer.data \in Seq(Byte) /\ <<>> \in Seq(Byte) /\ pBuffer \in Chunk
  BY ChunkTyped DEF Typed, TypeOK
<1>2. Leaves(pBuffer.data)
  BY <1>1, GivenUp DEF TestFd, Typed
<1>3. pBuffer' = [pBuffer EXCEPT !.data = <<>>]
  BY DEF TestFd
<1> QED BY <1>1, <1>2, <1>3, ChunkTyped

LEMMA FlushOneLeaves ==
    ASSUME Typed, FlushOne
    PROVE  Leaves(Head(writerQ).data)
<1>1. Head(writerQ).data \in Seq(Byte)
  BY FirstChunk DEF FlushOne
<1>2. CASE m_OutFd # 0
  BY <1>1, <1>2, WriteLeaves DEF FlushOne, Typed
<1>3. CASE m_OutFd = 0
  BY <1>1, <1>3, GivenUp DEF FlushOne, Typed
<1> QED BY <1>2, <1>3

LEMMA FlushLastLeaves ==
    ASSUME Typed, FlushLast
    PROVE  Leaves(cur.data) /\ cur' \in Chunk /\ cur'.data = <<>> /\ cur'.buf = cur.buf
<1>1. cur.data \in Seq(Byte) /\ <<>> \in Seq(Byte) /\ cur \in Chunk
  BY ChunkTyped DEF Typed, TypeOK
<1>2. Leaves(cur.data)
  <2>1. CASE cur.data # <<>> /\ m_OutFd # 0
    BY <1>1, <2>1, WriteLeaves DEF FlushLast, Typed
  <2>2. CASE ~(cur.data # <<>> /\ m_OutFd # 0)
    BY <1>1, <2>2, GivenUp DEF FlushLast, Typed
  <2> QED BY <2>1, <2>2
<1> QED BY <1>1, <1>2, ChunkTyped DEF FlushLast

LEMMA CopyDroppedLeaves ==
    ASSUME Typed, CopyDropped
    PROVE  Leaves(todo)
<1>1. todo \in Seq(Byte)
  BY DEF Typed, TypeOK
<1> QED BY <1>1, GivenUp DEF CopyDropped, Typed

LEMMA StepTyped == Typed /\ [Next]_vars => Typed'
<1> SUFFICES ASSUME Typed, [Next]_vars PROVE Typed'
  OBVIOUS
<1>t. /\ upc \in {"idle", "copy", "post", "stopWait", "stopWrite", "close"}
      /\ tpc \in {"none", "loop", "pend", "wait", "woken", "pop", "test", "write",
                  "giveBack", "flush", "closing", "done"}
      /\ spc \in {"stopped", "running", "post", "join"}
      /\ m_bThreadExit \in BOOLEAN /\ sem \in Int
      /\ last \in 0..MaxByte /\ todo \in Seq(Byte) /\ flag \in Kind
      /\ cur \in Chunk /\ streamQ \in Seq(Buffer) /\ writerQ \in Seq(Chunk) /\ pBuffer \in Chunk
      /\ Len(cur.data) <= SizeUnit /\ \A i \in DOMAIN writerQ : Len(writerQ[i].data) = SizeUnit
      /\ files \in Seq(FileRecord) /\ m_OutFd \in 0..Len(files) /\ m_WritingMode \in Kind
      /\ want \in Kind \cup {"none"} /\ lost \subseteq Byte
      /\ notes \in Seq([code : Code, name : Nat]) /\ runs \in Nat /\ fails \in Nat
  BY DEF Typed, TypeOK
<1>h. Hands
  BY DEF Typed
<1>e. <<>> \in Seq(Byte) /\ Len(<<>>) <= SizeUnit
  OBVIOUS
<1>c. cur.data \in Seq(Byte) /\ Len(cur.data) \in Nat /\ NoChunk \in Chunk /\ NoChunk.buf = 0
      /\ NoChunk.data = <<>> /\ 0 \notin Buffer /\ cur.buf \in Buffer \cup {0}
  <2>1. cur.data \in Seq(Byte)
    BY <1>t, ChunkTyped
  <2> QED BY <1>t, <2>1, ChunkTyped
<1>1. ASSUME NEW kind \in Kind, StartFlag(kind) PROVE Typed'
  <2>1. PICK ok \in BOOLEAN :
        /\ files' = Append(files, [kind |-> kind, opened |-> ok, bytes |-> {}, data |-> <<>>])
        /\ m_OutFd' = IF ok THEN Len(files) + 1 ELSE 0
        /\ notes' = IF ok THEN notes
                    ELSE Append(notes, [code |-> "OPEN_FAIL", name |-> Len(files) + 1])
        /\ fails' = IF ok THEN fails ELSE fails + 1
    BY <1>1 DEF StartFlag
  <2>2. files' \in Seq(FileRecord) /\ Len(files') = Len(files) + 1 /\ Len(files) \in Nat
    BY <1>t, <2>1, FileTyped, Queueing
  <2>3. m_OutFd' \in 0..Len(files')
    BY <2>1, <2>2
  <2>4. notes' \in Seq([code : Code, name : Nat])
    <3> DEFINE N == [code : Code, name : Nat]
               n == [code |-> "OPEN_FAIL", name |-> Len(files) + 1]
    <3>1. notes \in Seq(N) /\ n \in N /\ notes' = IF ok THEN notes ELSE Append(notes, n)
      BY <1>t, <2>1, <2>2 DEF Code
    <3> HIDE DEF N, n
    <3>2. notes' \in Seq(N)
      BY <3>1
    <3> QED BY <3>2 DEF N
  <2>5. fails' \in Nat
    BY <1>t, <2>1
  <2> QED BY <1>1, <1>t, <1>h, <2>2, <2>3, <2>4, <2>5 DEF StartFlag, Typed, TypeOK, Hands
<1>2. ASSUME NEW kind \in Kind, StopFlag(kind) PROVE Typed'
  BY <1>2, <1>t, <1>h DEF StopFlag, Typed, TypeOK, Hands
<1>3. ASSUME NEW size \in Sizes, StreamSample(size) PROVE Typed'
  <2>1. last' \in 0..MaxByte /\ last' = last + size /\ last \in Nat /\ size \in Nat
    <3>1. last' = last + size /\ last + size <= MaxByte
      BY <1>3 DEF StreamSample
    <3>2. last \in Nat /\ size \in Nat /\ MaxByte \in Nat
      BY <1>t, SampleAssumption
    <3> QED BY <3>1, <3>2
  <2>2. todo' \in Seq(Byte)
    <3>1. todo' \in [1..size -> Byte]
      BY <1>3, <2>1 DEF StreamSample, Byte
    <3> QED BY <2>1, <3>1
  <2>3. files' \in Seq(FileRecord) /\ Len(files') = Len(files)
    <3>1. CASE m_OutFd = 0
      BY <1>3, <1>t, <3>1 DEF StreamSample
    <3>2. CASE m_OutFd # 0
      <4> DEFINE b == files[m_OutFd].bytes \cup (last + 1)..(last + size)
                 e == [files[m_OutFd] EXCEPT !.bytes = b]
      <4>1. m_OutFd \in 1..Len(files) /\ files[m_OutFd] \in FileRecord
        BY <1>t, <3>2
      <4>2. b \subseteq Byte
        BY <2>1, <4>1, RecordTyped DEF Byte
      <4>3. e \in FileRecord
        <5> HIDE DEF b
        <5> QED BY <4>1, <4>2 DEF FileRecord
      <4>4. files' = [files EXCEPT ![m_OutFd] = e]
        BY <1>3, <3>2 DEF StreamSample
      <4> HIDE DEF e
      <4> QED BY <1>t, <4>1, <4>3, <4>4, Replacing
    <3> QED BY <3>1, <3>2
  <2> QED BY <1>3, <1>t, <1>h, <2>1, <2>2, <2>3 DEF StreamSample, Typed, TypeOK, Hands
<1>4. CASE CopyRest
  <2> DEFINE d == cur.data \o todo
  <2>1. d \in Seq(Byte) /\ Len(d) = Len(cur.data) + Len(todo)
    <3> DEFINE q == cur.data
    <3>1. q \in Seq(Byte)
      BY <1>c
    <3> HIDE DEF q
    <3>2. q \o todo \in Seq(Byte) /\ Len(q \o todo) = Len(q) + Len(todo)
      BY <1>t, <3>1, Joined
    <3> QED BY <3>2 DEF q
  <2>2. Len(d) <= SizeUnit
    BY <1>4, <2>1 DEF CopyRest, Fits
  <2>3. cur' = [cur EXCEPT !.data = d]
    BY <1>4 DEF CopyRest
  <2> HIDE DEF d
  <2>4. cur' \in Chunk /\ cur'.data = d /\ cur'.buf = cur.buf
    BY <1>t, <2>1, <2>3, ChunkTyped
  <2> QED BY <1>4, <1>t, <1>h, <1>e, <2>2, <2>4 DEF CopyRest, Typed, TypeOK, Hands
<1>5. CASE CopyFull
  <2> DEFINE full == [cur EXCEPT !.data = @ \o SubSeq(todo, 1, Writable)]
  <2>1. full \in Chunk /\ full.buf # 0 /\ Len(full.data) = SizeUnit /\ Rest \in Seq(Byte)
    BY <1>5, <1>c, FilledTyped DEF CopyFull
  <2>2. writerQ' = Append(writerQ, full) /\ todo' = Rest /\ cur' = NoChunk
    BY <1>5 DEF CopyFull, Queued
  <2> HIDE DEF full
  <2>3. /\ writerQ' \in Seq(Chunk) /\ Len(writerQ') = Len(writerQ) + 1
        /\ \A i \in 1..Len(writerQ') : (i \in 1..Len(writerQ) /\ writerQ'[i] = writerQ[i]) \/ writerQ'[i] = full
    BY <1>t, <2>1, <2>2, Queueing
  <2>4. \A i \in DOMAIN writerQ' : Len(writerQ'[i].data) = SizeUnit /\ writerQ'[i].buf # 0
    <3>1. DOMAIN writerQ = 1..Len(writerQ) /\ DOMAIN writerQ' = 1..Len(writerQ')
      BY <1>t, <2>3
    <3> QED BY <1>t, <1>h, <2>1, <2>3, <3>1 DEF Hands
  <2>5. DOMAIN writerQ' = 1..Len(writerQ')
    BY <2>3
  <2> QED BY <1>5, <1>t, <1>h, <1>e, <1>c, <2>1, <2>2, <2>3, <2>4, <2>5 DEF CopyFull, Typed, TypeOK, Hands
<1>6. CASE CopyPost
  <2>1. streamQ # <<>> /\ Head(streamQ) \in Buffer /\ Tail(streamQ) \in Seq(Buffer)
    BY <1>6, <1>t, <1>h, Popping DEF CopyPost, Hands
  <2>2. cur' \in Chunk /\ cur'.data = <<>> /\ cur'.buf # 0
    BY <1>6, <1>c, <1>e, <2>1 DEF CopyPost, Chunk
  <2> QED BY <1>6, <1>t, <1>h, <1>e, <2>1, <2>2 DEF CopyPost, Post, Typed, TypeOK, Hands
<1>7. CASE CopyDropped
  <2>1. lost' \subseteq Byte
    BY <1>7, <1>t, RangeOf DEF CopyDropped
  <2> QED BY <1>7, <1>t, <1>h, <1>e, <2>1 DEF CopyDropped, Typed, TypeOK, Hands
<1>8. CASE StopWaited
  BY <1>8, <1>t, <1>h DEF StopWaited, Typed, TypeOK, Hands
<1>9. CASE StopWrite
  <2>1. /\ cur' \in Chunk /\ cur'.data = <<>> /\ cur'.buf = cur.buf
        /\ files' \in Seq(FileRecord) /\ m_OutFd' \in 0..Len(files') /\ lost' \subseteq Byte
        /\ notes' \in Seq([code : Code, name : Nat]) /\ fails' \in Nat
    BY <1>9, StopWriteLeaves, LeavesTyped DEF StopWrite, Typed
  <2> QED BY <1>9, <1>t, <1>h, <1>e, <2>1 DEF StopWrite, Typed, TypeOK, Hands
<1>10. CASE StopClose
  <2>1. m_OutFd' \in 0..Len(files) /\ notes' \in Seq([code : Code, name : Nat])
    <3> DEFINE N == [code : Code, name : Nat]
               n == [code |-> DoneCode(flag), name |-> Len(files)]
    <3>1. notes \in Seq(N) /\ n \in N /\ (notes' = notes \/ notes' = Append(notes, n)) /\ m_OutFd' = 0 /\ Len(files) \in Nat
      BY <1>10, <1>t DEF StopClose, Note, DoneCode, Code
    <3> HIDE DEF N, n
    <3>2. notes' \in Seq(N)
      BY <3>1
    <3> QED BY <3>1, <3>2 DEF N
  <2> QED BY <1>10, <1>t, <1>h, <2>1 DEF StopClose, Typed, TypeOK, Hands
<1>11. CASE LoopTest \/ Pend \/ Wake
  <2>1. CASE LoopTest
    BY <1>t, <1>h, <2>1 DEF LoopTest, Typed, TypeOK, Hands
  <2>2. CASE Pend
    BY <1>t, <1>h, <2>2 DEF Pend, Typed, TypeOK, Hands
  <2>3. CASE Wake
    BY <1>t, <1>h, <2>3 DEF Wake, Typed, TypeOK, Hands
  <2> QED BY <1>11, <2>1, <2>2, <2>3
<1>12. CASE Pop
  <2>1. CASE writerQ = <<>>
    BY <1>12, <1>t, <1>h, <2>1 DEF Pop, Typed, TypeOK, Hands
  <2>2. CASE writerQ # <<>>
    <3> DEFINE h == Head(writerQ)
               r == Tail(writerQ)
    <3>1. /\ h \in Chunk /\ h.buf \in Buffer /\ r \in Seq(Chunk)
          /\ \A i \in DOMAIN r : Len(r[i].data) = SizeUnit /\ r[i].buf # 0
      BY <2>2, FirstChunk
    <3>2. pBuffer' = h /\ writerQ' = r /\ tpc' = "test"
      BY <1>12, <2>2 DEF Pop
    <3> HIDE DEF h, r
    <3>3. DOMAIN r = 1..Len(r)
      BY <3>1
    <3> QED BY <1>12, <1>t, <1>h, <1>c, <3>1, <3>2, <3>3 DEF Pop, Typed, TypeOK, Hands
  <2> QED BY <2>1, <2>2
<1>13. CASE TestFd
  <2>1. CASE m_OutFd # 0
    BY <1>13, <1>t, <1>h, <2>1 DEF TestFd, Typed, TypeOK, Hands
  <2>2. CASE m_OutFd = 0
    <3>1. pBuffer' \in Chunk /\ pBuffer'.data = <<>> /\ pBuffer'.buf = pBuffer.buf
      BY <1>13, <2>2, TestFdLeaves
    <3>2. lost' \subseteq Byte
      BY <1>13, <2>2, TestFdLeaves, LeavesTyped DEF TestFd, Typed
    <3> QED BY <1>13, <1>t, <1>h, <2>2, <3>1, <3>2 DEF TestFd, Typed, TypeOK, Hands
  <2> QED BY <2>1, <2>2
<1>14. CASE ThreadWrite
  <2>1. /\ pBuffer' \in Chunk /\ pBuffer'.data = <<>> /\ pBuffer'.buf = pBuffer.buf
        /\ files' \in Seq(FileRecord) /\ m_OutFd' \in 0..Len(files') /\ lost' \subseteq Byte
        /\ notes' \in Seq([code : Code, name : Nat]) /\ fails' \in Nat
    BY <1>14, ThreadWriteLeaves, LeavesTyped DEF ThreadWrite, Typed
  <2> QED BY <1>14, <1>t, <1>h, <2>1 DEF ThreadWrite, Typed, TypeOK, Hands
<1>15. CASE GiveBack
  <2>1. pBuffer.buf \in Buffer
    <3>1. pBuffer.buf \in Buffer \cup {0} /\ pBuffer.buf # 0
      BY <1>15, <1>t, <1>h, ChunkTyped DEF GiveBack, Hands
    <3> QED BY <3>1
  <2>2. streamQ' \in Seq(Buffer) /\ streamQ' # <<>>
    BY <1>15, <1>t, <2>1, Queueing DEF GiveBack, Freed
  <2> QED BY <1>15, <1>t, <1>h, <1>c, <2>2 DEF GiveBack, Typed, TypeOK, Hands
<1>16. CASE FlushOne
  <2>1. /\ files' \in Seq(FileRecord) /\ m_OutFd' \in 0..Len(files') /\ lost' \subseteq Byte
        /\ notes' \in Seq([code : Code, name : Nat]) /\ fails' \in Nat
    BY <1>16, FlushOneLeaves, LeavesTyped DEF FlushOne, Typed
  <2> DEFINE h == Head(writerQ)
             r == Tail(writerQ)
  <2>2. /\ h.buf \in Buffer /\ r \in Seq(Chunk)
        /\ \A i \in DOMAIN r : Len(r[i].data) = SizeUnit /\ r[i].buf # 0
    BY <1>16, FirstChunk DEF FlushOne
  <2>3. writerQ' = r /\ streamQ' = Append(streamQ, h.buf)
    BY <1>16 DEF FlushOne, Freed
  <2> HIDE DEF h, r
  <2>4. streamQ' \in Seq(Buffer) /\ streamQ' # <<>> /\ DOMAIN r = 1..Len(r)
    <3> DEFINE b == h.buf
    <3>1. b \in Buffer /\ streamQ' = Append(streamQ, b)
      BY <2>2, <2>3
    <3> HIDE DEF b
    <3>2. streamQ' \in Seq(Buffer) /\ streamQ' # <<>>
      BY <1>t, <3>1, Queueing
    <3>3. DOMAIN r = 1..Len(r)
      BY <2>2
    <3> QED BY <3>2, <3>3
  <2> QED BY <1>16, <1>t, <1>h, <2>1, <2>2, <2>3, <2>4 DEF FlushOne, Typed, TypeOK, Hands
<1>17. CASE FlushLast
  <2>1. /\ cur' \in Chunk /\ cur'.data = <<>> /\ cur'.buf = cur.buf
        /\ files' \in Seq(FileRecord) /\ m_OutFd' \in 0..Len(files') /\ lost' \subseteq Byte
        /\ notes' \in Seq([code : Code, name : Nat]) /\ fails' \in Nat
    BY <1>17, FlushLastLeaves, LeavesTyped DEF FlushLast, Typed
  <2> QED BY <1>17, <1>t, <1>h, <1>e, <2>1 DEF FlushLast, Typed, TypeOK, Hands
<1>18. CASE ExitClose
  <2>1. m_OutFd' \in 0..Len(files) /\ notes' \in Seq([code : Code, name : Nat])
    <3> DEFINE N == [code : Code, name : Nat]
               n == [code |-> DoneCode(m_WritingMode), name |-> Len(files)]
    <3>1. notes \in Seq(N) /\ n \in N /\ (notes' = notes \/ notes' = Append(notes, n)) /\ m_OutFd' = 0 /\ Len(files) \in Nat
      BY <1>18, <1>t DEF ExitClose, Note, DoneCode, Code
    <3> HIDE DEF N, n
    <3>2. notes' \in Seq(N)
      BY <3>1
    <3> QED BY <3>1, <3>2 DEF N
  <2> QED BY <1>18, <1>t, <1>h, <2>1 DEF ExitClose, Typed, TypeOK, Hands
<1>19. CASE Run \/ Stop \/ StopPost \/ Join
  <2>1. CASE Run
    <3>1. tpc = "none" /\ tpc' = "loop" /\ spc' = "running"
      BY <1>h, <2>1 DEF Run, Hands
    <3>2. Hands'
      BY <1>h, <2>1, <3>1 DEF Run, Hands
    <3>3. TypeOK'
      <4>1. runs' \in Nat /\ m_bThreadExit' \in BOOLEAN
        <5>1. runs' = runs + 1 /\ runs \in Nat
          BY <1>t, <2>1 DEF Run
        <5>2. m_bThreadExit' \in BOOLEAN
          BY <2>1 DEF Run
        <5> QED BY <5>1, <5>2
      <4> QED BY <1>t, <2>1, <3>1, <4>1 DEF Run, TypeOK
    <3> QED BY <3>2, <3>3 DEF Typed
  <2>2. CASE Stop
    BY <1>t, <1>h, <2>2 DEF Stop, Typed, TypeOK, Hands
  <2>3. CASE StopPost
    BY <1>t, <1>h, <2>3 DEF StopPost, Post, Typed, TypeOK, Hands
  <2>4. CASE Join
    BY <1>t, <1>h, <2>4 DEF Join, Typed, TypeOK, Hands
  <2> QED BY <1>19, <2>1, <2>2, <2>3, <2>4
<1>20. CASE UNCHANGED vars
  BY <1>20, <1>t, <1>h DEF vars, Typed, TypeOK, Hands
<1> QED
  BY <1>1, <1>2, <1>3, <1>4, <1>5, <1>6, <1>7, <1>8, <1>9, <1>10, <1>11, <1>12, <1>13, <1>14,
     <1>15, <1>16, <1>17, <1>18, <1>19, <1>20 DEF Next, Receive, Received, ThreadLoop, Control

(* Every variable keeps its type, whatever the two threads interleave. *)
THEOREM Typing == Spec => []TypeOK
<1>1. Typed => TypeOK
  BY DEF Typed
<1> QED BY InitTyped, StepTyped, <1>1, PTL DEF Spec

-----------------------------------------------------------------------------
(***************************************************************************)
(* The write buffers: each step moves at most one from hand to hand.       *)
(***************************************************************************)
LEMMA AppendRange ==
    ASSUME NEW S, NEW q \in Seq(S), NEW x \in S
    PROVE  /\ Range(Append(q, x)) = Range(q) \cup {x}
           /\ IsInjective(q) /\ x \notin Range(q) => IsInjective(Append(q, x))
<1> DEFINE r == Append(q, x)
<1>1. /\ DOMAIN q = 1..Len(q) /\ Len(q) \in Nat
      /\ DOMAIN r = DOMAIN q \cup {Len(q) + 1} /\ Len(q) + 1 \notin DOMAIN q
      /\ \A i \in DOMAIN q : r[i] = q[i]
      /\ r[Len(q) + 1] = x
  OBVIOUS
<1> HIDE DEF r
<1>2. Range(r) = Range(q) \cup {x}
  BY <1>1 DEF Range
<1>3. ASSUME IsInjective(q), x \notin Range(q)
      PROVE  IsInjective(r)
  BY <1>1, <1>3 DEF Range, IsInjective
<1> QED BY <1>2, <1>3 DEF r

LEMMA PoppedRange ==
    ASSUME NEW S, NEW q \in Seq(S), q # <<>>
    PROVE  /\ Range(q) = {Head(q)} \cup Range(Tail(q))
           /\ IsInjective(q) => Head(q) \notin Range(Tail(q)) /\ IsInjective(Tail(q))
<1>1. /\ Len(q) \in Nat \ {0} /\ DOMAIN q = 1..Len(q) /\ Head(q) = q[1]
      /\ DOMAIN Tail(q) = 1..(Len(q) - 1)
      /\ \A i \in 1..(Len(q) - 1) : Tail(q)[i] = q[i + 1]
  OBVIOUS
<1>2. Range(q) = {Head(q)} \cup Range(Tail(q))
  <2>1. \A i \in 1..Len(q) : i = 1 \/ (i - 1 \in 1..(Len(q) - 1) /\ q[i] = Tail(q)[i - 1])
    BY <1>1
  <2>2. ASSUME NEW x \in Range(q) PROVE x = Head(q) \/ x \in Range(Tail(q))
    <3>1. PICK i \in 1..Len(q) : x = q[i]
      BY <1>1 DEF Range
    <3>2. CASE i = 1
      BY <1>1, <3>1, <3>2
    <3>3. CASE i # 1
      BY <1>1, <2>1, <3>1, <3>3 DEF Range
    <3> QED BY <3>2, <3>3
  <2>3. Head(q) \in Range(q) /\ Range(Tail(q)) \subseteq Range(q)
    BY <1>1 DEF Range
  <2> QED BY <2>2, <2>3
<1>3. IsInjective(q) => Head(q) \notin Range(Tail(q)) /\ IsInjective(Tail(q))
  BY <1>1 DEF Range, IsInjective
<1> QED BY <1>2, <1>3

(* The buffers of a queue of the writer. *)
Bufs(q) == [i \in 1..Len(q) |-> q[i].buf]

LEMMA BufsPushed ==
    ASSUME NEW q \in Seq(Chunk), NEW c \in Chunk
    PROVE  /\ Range(Bufs(Append(q, c))) = Range(Bufs(q)) \cup {c.buf}
           /\ IsInjective(Bufs(q)) /\ c.buf \notin Range(Bufs(q)) => IsInjective(Bufs(Append(q, c)))
<1> DEFINE r == Append(q, c)
<1>1. /\ Len(q) \in Nat /\ Len(r) = Len(q) + 1
      /\ \A i \in 1..Len(q) : i \in 1..Len(r) /\ r[i] = q[i]
      /\ r[Len(q) + 1] = c
  BY Queueing
<1> HIDE DEF r
<1> DEFINE a == Bufs(q)
           b == Bufs(r)
<1>2. /\ DOMAIN a = 1..Len(q) /\ DOMAIN b = 1..Len(r)
      /\ \A i \in 1..Len(q) : a[i] = q[i].buf
      /\ \A i \in 1..Len(r) : b[i] = r[i].buf
  BY DEF Bufs
<1>3. /\ 1..Len(r) = 1..Len(q) \cup {Len(q) + 1} /\ Len(q) + 1 \notin 1..Len(q)
  BY <1>1
<1> HIDE DEF a, b
<1>4. /\ DOMAIN b = DOMAIN a \cup {Len(q) + 1} /\ Len(q) + 1 \notin DOMAIN a
      /\ \A i \in DOMAIN a : b[i] = a[i]
      /\ b[Len(q) + 1] = c.buf
  BY <1>1, <1>2, <1>3
<1>5. Range(b) = Range(a) \cup {c.buf}
  BY <1>4 DEF Range
<1>6. IsInjective(a) /\ c.buf \notin Range(a) => IsInjective(b)
  BY <1>4 DEF Range, IsInjective
<1> QED BY <1>5, <1>6 DEF a, b, r

LEMMA BufsPopped ==
    ASSUME NEW q \in Seq(Chunk), q # <<>>
    PROVE  /\ Range(Bufs(q)) = {Head(q).buf} \cup Range(Bufs(Tail(q)))
           /\ IsInjective(Bufs(q)) => Head(q).buf \notin Range(Bufs(Tail(q))) /\ IsInjective(Bufs(Tail(q)))
<1> DEFINE r == Tail(q)
           h == Head(q)
<1>1. /\ h = q[1] /\ 1 \in 1..Len(q) /\ Len(q) \in Nat /\ Len(r) = Len(q) - 1
      /\ \A i \in 1..Len(r) : i + 1 \in 1..Len(q) /\ r[i] = q[i + 1]
      /\ \A i \in 1..Len(q) : i # 1 => i - 1 \in 1..Len(r) /\ r[i - 1] = q[i]
  BY Popping
<1> HIDE DEF r, h
<1> DEFINE a == Bufs(q)
           b == Bufs(r)
<1>2. /\ DOMAIN a = 1..Len(q) /\ DOMAIN b = 1..Len(r)
      /\ \A i \in 1..Len(q) : a[i] = q[i].buf
      /\ \A i \in 1..Len(r) : b[i] = r[i].buf
  BY DEF Bufs
<1> HIDE DEF a, b
<1>3. /\ a[1] = h.buf /\ 1 \in DOMAIN a
      /\ \A i \in DOMAIN b : i + 1 \in DOMAIN a /\ b[i] = a[i + 1]
      /\ \A i \in DOMAIN a : i # 1 => i - 1 \in DOMAIN b /\ b[i - 1] = a[i]
      /\ \A i \in DOMAIN b : i + 1 # 1
      /\ \A i, j \in DOMAIN b : i + 1 = j + 1 => i = j
  <2>1. \A i \in 1..Len(r) : i + 1 # 1
    BY <1>1
  <2>2. \A i, j \in 1..Len(r) : i + 1 = j + 1 => i = j
    BY <1>1
  <2>3. a[1] = h.buf /\ 1 \in DOMAIN a
    BY <1>1, <1>2
  <2>4. \A i \in DOMAIN b : i + 1 \in DOMAIN a /\ b[i] = a[i + 1]
    BY <1>1, <1>2
  <2>5. ASSUME NEW i \in DOMAIN a, i # 1 PROVE i - 1 \in DOMAIN b /\ b[i - 1] = a[i]
    <3>1. i \in 1..Len(q) /\ i - 1 \in 1..Len(r) /\ r[i - 1] = q[i]
      BY <1>1, <1>2, <2>5
    <3> QED BY <1>2, <3>1
  <2> QED BY <1>2, <2>1, <2>2, <2>3, <2>4, <2>5
<1>4. Range(a) = {h.buf} \cup Range(b)
  <2>1. ASSUME NEW x \in Range(a) PROVE x = h.buf \/ x \in Range(b)
    <3>1. PICK i \in DOMAIN a : x = a[i]
      BY DEF Range
    <3> QED BY <1>3, <3>1 DEF Range
  <2>2. h.buf \in Range(a) /\ Range(b) \subseteq Range(a)
    BY <1>3 DEF Range
  <2> QED BY <2>1, <2>2
<1>5. IsInjective(a) => h.buf \notin Range(b) /\ IsInjective(b)
  BY <1>3 DEF Range, IsInjective
<1> QED BY <1>4, <1>5 DEF a, b, r, h

(* The two queues share all the buffers with the hands, each one once. *)
Shared ==
    /\ Range(streamQ) \cup Range(WriterBufs) \cup HandBufs = Buffer
    /\ IsInjective(streamQ) /\ IsInjective(WriterBufs)
    /\ Range(streamQ) \cap Range(WriterBufs) = {}
    /\ HandBufs \cap (Range(streamQ) \cup Range(WriterBufs)) = {}
    /\ cur.buf = pBuffer.buf => cur.buf = 0

LEMMA InitShared == Init => Shared
<1> SUFFICES ASSUME Init PROVE Shared
  OBVIOUS
<1>1. /\ Range(WriterBufs) = {} /\ IsInjective(WriterBufs)
  <2>1. DOMAIN WriterBufs = {}
    BY DEF Init, WriterBufs
  <2> QED BY <2>1 DEF Range, IsInjective
<1>2. HandBufs = {1} /\ cur.buf = 1 /\ pBuffer.buf = 0
  BY DEF Init, HandBufs, NoChunk
<1>3. /\ DOMAIN streamQ = 1..(NumUnit - 1) /\ \A i \in 1..(NumUnit - 1) : streamQ[i] = i + 1
  BY DEF Init
<1>4. IsInjective(streamQ)
  BY <1>3 DEF IsInjective
<1>5. Range(streamQ) = Buffer \ {1}
  <2>1. ASSUME NEW b \in Buffer, b # 1 PROVE b \in Range(streamQ)
    <3>1. b - 1 \in 1..(NumUnit - 1) /\ (b - 1) + 1 = b
      BY <2>1 DEF Buffer
    <3> QED BY <1>3, <3>1 DEF Range
  <2>2. ASSUME NEW b \in Range(streamQ) PROVE b \in Buffer /\ b # 1
    <3>1. PICK i \in 1..(NumUnit - 1) : b = i + 1
      BY <1>3 DEF Range
    <3> QED BY <3>1 DEF Buffer
  <2> QED BY <2>1, <2>2
<1>6. 1 \in Buffer
  BY DEF Buffer
<1> QED BY <1>1, <1>2, <1>4, <1>5, <1>6 DEF Shared

LEMMA UnmovedShared ==
    ASSUME Shared, cur'.buf = cur.buf, pBuffer'.buf = pBuffer.buf, UNCHANGED <<streamQ, writerQ>>
    PROVE  Shared'
  BY DEF Shared, WriterBufs, HandBufs

LEMMA StepShared == Typed /\ Shared /\ [Next]_vars => Shared'
<1> SUFFICES ASSUME Typed, Shared, [Next]_vars PROVE Shared'
  OBVIOUS
<1>t. cur \in Chunk /\ pBuffer \in Chunk /\ streamQ \in Seq(Buffer) /\ writerQ \in Seq(Chunk) /\ todo \in Seq(Byte)
  BY DEF Typed, TypeOK
<1>w. WriterBufs = Bufs(writerQ) /\ WriterBufs' = Bufs(writerQ')
  BY DEF WriterBufs, Bufs
<1>0. 0 \notin Buffer /\ NoChunk.buf = 0
  BY <1>t, ChunkTyped
<1>d. /\ cur.data \in Seq(Byte) /\ pBuffer.data \in Seq(Byte) /\ <<>> \in Seq(Byte)
      /\ \A d \in Seq(Byte) : [cur EXCEPT !.data = d].buf = cur.buf
      /\ \A d \in Seq(Byte) : [pBuffer EXCEPT !.data = d].buf = pBuffer.buf
  BY <1>t, ChunkTyped
<1>1. CASE CopyFull
  <2> DEFINE full == [cur EXCEPT !.data = @ \o SubSeq(todo, 1, Writable)]
  <2>1. full \in Chunk /\ full.buf = cur.buf /\ cur.buf \in Buffer
    BY <1>1, FilledTyped DEF CopyFull
  <2>2. writerQ' = Append(writerQ, full) /\ cur' = NoChunk /\ UNCHANGED <<streamQ, pBuffer>>
    BY <1>1 DEF CopyFull, Queued
  <2> HIDE DEF full
  <2>3. cur.buf \in HandBufs
    BY <1>0, <2>1 DEF HandBufs
  <2>4. cur.buf \notin Range(WriterBufs) /\ cur.buf \notin Range(streamQ)
    BY <2>3 DEF Shared
  <2>5. Range(WriterBufs') = Range(WriterBufs) \cup {cur.buf} /\ IsInjective(WriterBufs')
    BY <1>t, <1>w, <2>1, <2>2, <2>4, BufsPushed DEF Shared
  <2>6. HandBufs' = HandBufs \ {cur.buf} /\ cur.buf # pBuffer.buf /\ cur'.buf = 0 /\ pBuffer'.buf = pBuffer.buf
    BY <1>0, <2>1, <2>2 DEF HandBufs, Shared
  <2> QED BY <2>2, <2>3, <2>4, <2>5, <2>6 DEF Shared
<1>2. CASE CopyPost
  <2> DEFINE h == Head(streamQ)
  <2>1. streamQ # <<>> /\ h \in Buffer /\ cur.buf = 0
    BY <1>2, <1>t, Popping DEF CopyPost, Typed, Hands
  <2>2. cur'.buf = h /\ streamQ' = Tail(streamQ) /\ UNCHANGED <<writerQ, pBuffer>>
    BY <1>2 DEF CopyPost
  <2>3. /\ Range(streamQ) = {h} \cup Range(streamQ') /\ h \notin Range(streamQ') /\ IsInjective(streamQ')
    BY <1>t, <2>1, <2>2, PoppedRange DEF Shared
  <2> HIDE DEF h
  <2>4. h \notin Range(WriterBufs) /\ h \notin HandBufs
    BY <2>3 DEF Shared
  <2>5. HandBufs' = HandBufs \cup {h} /\ WriterBufs' = WriterBufs /\ h # pBuffer'.buf
    BY <1>0, <2>1, <2>2, <2>4 DEF HandBufs, WriterBufs
  <2> QED BY <2>2, <2>3, <2>4, <2>5 DEF Shared
<1>3. CASE Pop
  <2>1. CASE writerQ = <<>>
    BY <1>3, <2>1, UnmovedShared DEF Pop
  <2>2. CASE writerQ # <<>>
    <3> DEFINE h == Head(writerQ).buf
    <3>1. h \in Buffer /\ pBuffer.buf = 0
      BY <1>3, <2>2, FirstChunk DEF Pop, Typed, Hands
    <3>2. pBuffer'.buf = h /\ writerQ' = Tail(writerQ) /\ UNCHANGED <<streamQ, cur>>
      BY <1>3, <2>2 DEF Pop
    <3>3. /\ Range(WriterBufs) = {h} \cup Range(WriterBufs') /\ h \notin Range(WriterBufs') /\ IsInjective(WriterBufs')
      BY <1>t, <1>w, <2>2, <3>2, BufsPopped DEF Shared
    <3> HIDE DEF h
    <3>4. h \notin Range(streamQ) /\ h \notin HandBufs
      BY <3>3 DEF Shared
    <3>5. HandBufs' = HandBufs \cup {h} /\ h # cur'.buf
      BY <1>0, <3>1, <3>2, <3>4 DEF HandBufs
    <3> QED BY <3>2, <3>3, <3>4, <3>5 DEF Shared
  <2> QED BY <2>1, <2>2
<1>4. CASE GiveBack
  <2> DEFINE h == pBuffer.buf
  <2>1. h \in Buffer
    <3>1. h \in Buffer \cup {0} /\ h # 0
      BY <1>4, <1>t, ChunkTyped DEF GiveBack, Typed, Hands
    <3> QED BY <3>1
  <2>2. streamQ' = Append(streamQ, h) /\ pBuffer'.buf = 0 /\ UNCHANGED <<writerQ, cur>>
    BY <1>4, <1>0 DEF GiveBack, Freed
  <2>3. h \in HandBufs /\ h # cur.buf
    BY <1>0, <2>1 DEF HandBufs, Shared
  <2>4. h \notin Range(streamQ) /\ h \notin Range(WriterBufs)
    BY <2>3 DEF Shared
  <2> HIDE DEF h
  <2>5. Range(streamQ') = Range(streamQ) \cup {h} /\ IsInjective(streamQ')
    BY <1>t, <2>1, <2>2, <2>4, AppendRange DEF Shared
  <2>6. HandBufs' = HandBufs \ {h} /\ WriterBufs' = WriterBufs
    BY <1>0, <2>1, <2>2, <2>3 DEF HandBufs, WriterBufs, h
  <2>7. cur'.buf = pBuffer'.buf => cur'.buf = 0
    BY <2>2
  <2> QED BY <2>2, <2>3, <2>4, <2>5, <2>6, <2>7 DEF Shared
<1>5. CASE FlushOne
  <2> DEFINE h == Head(writerQ).buf
  <2>1. h \in Buffer /\ writerQ # <<>>
    BY <1>5, FirstChunk DEF FlushOne
  <2>2. streamQ' = Append(streamQ, h) /\ writerQ' = Tail(writerQ) /\ UNCHANGED pBuffer /\ UNCHANGED cur
    BY <1>5 DEF FlushOne, Freed
  <2>3. /\ Range(WriterBufs) = {h} \cup Range(WriterBufs') /\ h \notin Range(WriterBufs') /\ IsInjective(WriterBufs')
    BY <1>t, <1>w, <2>1, <2>2, BufsPopped DEF Shared
  <2> HIDE DEF h
  <2>4. h \notin Range(streamQ) /\ h \notin HandBufs
    BY <2>3 DEF Shared
  <2>5. Range(streamQ') = Range(streamQ) \cup {h} /\ IsInjective(streamQ')
    BY <1>t, <2>1, <2>2, <2>4, AppendRange DEF Shared
  <2>6. HandBufs' = HandBufs
    BY <2>2 DEF HandBufs
  <2> QED BY <2>2, <2>3, <2>4, <2>5, <2>6 DEF Shared
<1>6. CASE CopyRest \/ StopWrite \/ FlushLast
  <2>1. cur'.buf = cur.buf
    <3>1. CASE CopyRest
      <4> DEFINE q == cur.data
      <4>1. q \in Seq(Byte)
        BY <1>d
      <4> HIDE DEF q
      <4>2. q \o todo \in Seq(Byte)
        BY <1>t, <4>1, Joined
      <4>3. cur' = [cur EXCEPT !.data = q \o todo]
        BY <3>1 DEF CopyRest, q
      <4> QED BY <1>d, <4>2, <4>3
    <3>2. CASE StopWrite \/ FlushLast
      BY <3>2, StopWriteLeaves, FlushLastLeaves
    <3> QED BY <1>6, <3>1, <3>2
  <2> QED BY <1>6, <2>1, UnmovedShared DEF CopyRest, StopWrite, FlushLast
<1>7. CASE TestFd \/ ThreadWrite
  <2>1. pBuffer'.buf = pBuffer.buf
    BY <1>7, TestFdLeaves, ThreadWriteLeaves DEF TestFd
  <2> QED BY <1>7, <2>1, UnmovedShared DEF TestFd, ThreadWrite
<1>8. ASSUME NEW kind \in Kind, StartFlag(kind) \/ StopFlag(kind) PROVE Shared'
  BY <1>8, UnmovedShared DEF StartFlag, StopFlag
<1>9. ASSUME NEW size \in Sizes, StreamSample(size) PROVE Shared'
  BY <1>9, UnmovedShared DEF StreamSample
<1>10. CASE CopyDropped \/ StopWaited \/ StopClose \/ LoopTest \/ Pend \/ Wake \/ ExitClose \/ Control
  BY <1>10, UnmovedShared
     DEF CopyDropped, StopWaited, StopClose, LoopTest, Pend, Wake, ExitClose, Control, Run, Stop,
         StopPost, Join
<1>11. CASE UNCHANGED vars
  BY <1>11, UnmovedShared DEF vars
<1> QED
  BY <1>1, <1>2, <1>3, <1>4, <1>5, <1>6, <1>7, <1>8, <1>9, <1>10, <1>11
     DEF Next, Receive, Received, ThreadLoop

(* No write buffer is lost and none has two owners: NUM_WRITE_UNIT buffers go *)
(* round between Receive, the writer thread and the two queues.               *)
THEOREM Conservation == Spec => []BuffersConserved
<1> DEFINE Inv == Typed /\ Shared
<1>1. Init => Inv
  BY InitTyped, InitShared
<1>2. Inv /\ [Next]_vars => Inv'
  BY StepTyped, StepShared
<1>3. Inv => BuffersConserved
  BY DEF Typed, Shared, BuffersConserved
<1> QED BY <1>1, <1>2, <1>3, PTL DEF Spec

-----------------------------------------------------------------------------
(***************************************************************************)
(* The thread, the handle and what has been announced.                     *)
(***************************************************************************)
Threads ==
    /\ spc = "running" <=> ~m_bThreadExit
    /\ spc # "running" => upc = "idle"
    /\ tpc \in {"flush", "closing", "done"} => m_bThreadExit
    /\ tpc \in {"closing", "done"} => writerQ = <<>> /\ cur.data = <<>>

LEMMA InitThreads == Init => Threads
  BY DEF Init, Threads

LEMMA StepThreads == Typed /\ Threads /\ [Next]_vars => Threads'
<1> SUFFICES ASSUME Typed, Threads, [Next]_vars PROVE Threads'
  OBVIOUS
<1>h. spc = "stopped" <=> tpc = "none"
  BY DEF Typed, Hands
<1>t. m_bThreadExit \in BOOLEAN /\ spc \in {"stopped", "running", "post", "join"}
  BY DEF Typed, TypeOK
<1>1. ASSUME NEW kind \in Kind, StartFlag(kind) \/ StopFlag(kind) PROVE Threads'
  BY <1>1 DEF StartFlag, StopFlag, Threads
<1>2. ASSUME NEW size \in Sizes, StreamSample(size) PROVE Threads'
  BY <1>2 DEF StreamSample, Threads
<1>3. CASE CopyRest \/ CopyFull \/ CopyPost \/ CopyDropped \/ StopWaited \/ StopClose
  BY <1>3 DEF CopyRest, CopyFull, CopyPost, Post, CopyDropped, StopWaited, StopClose, Threads
<1>4. CASE StopWrite
  BY <1>4, StopWriteLeaves DEF StopWrite, Threads
<1>5. CASE LoopTest
  BY <1>5 DEF LoopTest, Threads
<1>6. CASE Pend \/ Wake \/ TestFd \/ ThreadWrite \/ GiveBack
  BY <1>6 DEF Pend, Wake, TestFd, ThreadWrite, GiveBack, Threads
<1>7. CASE Pop \/ FlushOne
  BY <1>7 DEF Pop, FlushOne, Threads
<1>8. CASE FlushLast
  BY <1>8, FlushLastLeaves DEF FlushLast, Threads
<1>9. CASE ExitClose
  BY <1>9 DEF ExitClose, Threads
<1>10. CASE Run
  BY <1>10, <1>h DEF Run, Threads
<1>11. CASE Stop
  BY <1>11, <1>h DEF Stop, Threads
<1>12. CASE StopPost
  BY <1>12 DEF StopPost, Post, Threads
<1>13. CASE Join
  BY <1>13 DEF Join, Threads
<1>14. CASE UNCHANGED vars
  BY <1>14 DEF vars, Threads
<1> QED
  BY <1>1, <1>2, <1>3, <1>4, <1>5, <1>6, <1>7, <1>8, <1>9, <1>10, <1>11, <1>12, <1>13, <1>14
     DEF Next, Receive, Received, ThreadLoop, Control

-----------------------------------------------------------------------------
(* The open file is the newest one, and it is the one the buffering filter    *)
(* has started: the next start flag comes after it has been closed.           *)
Handle ==
    /\ m_OutFd # 0 =>
          /\ m_OutFd = Len(files) /\ files[m_OutFd].opened
          /\ files[m_OutFd].kind = m_WritingMode
          /\ upc \in {"stopWait", "stopWrite", "close"} => flag = m_WritingMode
          /\ upc \notin {"stopWait", "stopWrite", "close"} => want = m_WritingMode
    /\ tpc \in {"done", "none"} => m_OutFd = 0

(* What does not touch a file but for its bytes and data. *)
SameFiles ==
    /\ Len(files') = Len(files)
    /\ \A f \in 1..Len(files) :
          files'[f].kind = files[f].kind /\ files'[f].opened = files[f].opened

LEMMA LeavesSame ==
    ASSUME NEW data, Leaves(data)
    PROVE  SameFiles /\ (notes' = notes \/ notes' = Append(notes, Failure))
  BY DEF Leaves, Filed, SameFiles

LEMMA UnchangedSame == UNCHANGED files => SameFiles
  BY DEF SameFiles

LEMMA SampledFiles ==
    ASSUME Typed, NEW size \in Sizes, StreamSample(size)
    PROVE  /\ SameFiles
           /\ \A f \in 1..Len(files) :
                 /\ files'[f].data = files[f].data
                 /\ files'[f].bytes = IF f = m_OutFd THEN files[f].bytes \cup (last + 1)..(last + size)
                                                     ELSE files[f].bytes
<1>1. files \in Seq(FileRecord) /\ m_OutFd \in 0..Len(files)
  BY DEF Typed, TypeOK
<1>2. CASE m_OutFd = 0
  <2>1. files' = files
    BY <1>2 DEF StreamSample
  <2> QED BY <1>1, <1>2, <2>1 DEF SameFiles
<1>3. CASE m_OutFd # 0
  <2> DEFINE b == files[m_OutFd].bytes \cup (last + 1)..(last + size)
             e == [files[m_OutFd] EXCEPT !.bytes = b]
  <2>1. m_OutFd \in 1..Len(files) /\ files[m_OutFd] \in FileRecord
    BY <1>1, <1>3
  <2>2. b \subseteq Byte
    <3>1. last + size <= MaxByte /\ last \in Nat /\ size \in Nat /\ MaxByte \in Nat
      BY SampleAssumption DEF StreamSample, Typed, TypeOK
    <3>2. (last + 1)..(last + size) \subseteq Byte
      BY <3>1 DEF Byte
    <3> QED BY <2>1, <3>2, RecordTyped
  <2>3. e \in FileRecord /\ e.kind = files[m_OutFd].kind /\ e.opened = files[m_OutFd].opened
        /\ e.data = files[m_OutFd].data /\ e.bytes = b
    <3> HIDE DEF b
    <3> QED BY <2>1, <2>2 DEF FileRecord
  <2>4. files' = [files EXCEPT ![m_OutFd] = e]
    BY <1>3 DEF StreamSample
  <2> HIDE DEF e
  <2> DEFINE r == [files EXCEPT ![m_OutFd] = e]
  <2>5. Len(r) = Len(files) /\ \A f \in 1..Len(files) : r[f] = IF f = m_OutFd THEN e ELSE files[f]
    BY <1>1, <2>1, <2>3, Replacing
  <2> HIDE DEF r
  <2>6. Len(files') = Len(files) /\ \A f \in 1..Len(files) : files'[f] = IF f = m_OutFd THEN e ELSE files[f]
    BY <2>4, <2>5 DEF r
  <2> QED BY <2>3, <2>6 DEF SameFiles
<1> QED BY <1>2, <1>3

LEMMA StartedFiles ==
    ASSUME Typed, NEW kind \in Kind, StartFlag(kind)
    PROVE  \E ok \in BOOLEAN :
              /\ Len(files') = Len(files) + 1 /\ Len(files) \in Nat
              /\ \A f \in 1..Len(files) : f \in 1..Len(files') /\ files'[f] = files[f]
              /\ \A f \in 1..Len(files') : f \in 1..Len(files) \/ f = Len(files) + 1
              /\ files'[Len(files')] = [kind |-> kind, opened |-> ok, bytes |-> {}, data |-> <<>>]
              /\ m_OutFd' = IF ok THEN Len(files') ELSE 0
              /\ notes' = IF ok THEN notes
                          ELSE Append(notes, [code |-> "OPEN_FAIL", name |-> Len(files) + 1])
<1>1. files \in Seq(FileRecord)
  BY DEF Typed, TypeOK
<1>2. PICK ok \in BOOLEAN :
        /\ files' = Append(files, [kind |-> kind, opened |-> ok, bytes |-> {}, data |-> <<>>])
        /\ m_OutFd' = IF ok THEN Len(files) + 1 ELSE 0
        /\ notes' = IF ok THEN notes
                    ELSE Append(notes, [code |-> "OPEN_FAIL", name |-> Len(files) + 1])
  BY DEF StartFlag
<1> DEFINE e == [kind |-> kind, opened |-> ok, bytes |-> {}, data |-> <<>>]
<1>3. e \in FileRecord
  BY FileTyped
<1> HIDE DEF e
<1>4. files' = Append(files, e)
  BY <1>2 DEF e
<1>5. /\ Len(files') = Len(files) + 1 /\ Len(files) \in Nat
      /\ \A f \in 1..Len(files) : f \in 1..Len(files') /\ files'[f] = files[f]
      /\ \A f \in 1..Len(files') : f \in 1..Len(files) \/ f = Len(files) + 1
      /\ files'[Len(files) + 1] = e
  BY <1>1, <1>3, <1>4, Queueing
<1> QED BY <1>2, <1>5 DEF e

LEMMA InitHandle == Init => Handle
  BY DEF Init, Handle

LEMMA KeptHandle ==
    ASSUME Typed, Handle, SameFiles,
           UNCHANGED <<m_OutFd, m_WritingMode, flag, want>>,
           upc' = upc \/ (upc \in {"idle", "copy", "post"} /\ upc' \in {"idle", "copy", "post"})
                      \/ (upc \in {"stopWait", "stopWrite"} /\ upc' \in {"stopWrite", "close"}),
           tpc' \in {"done", "none"} => tpc \in {"done", "none"}
    PROVE  Handle'
<1>1. m_OutFd \in 0..Len(files)
  BY DEF Typed, TypeOK
<1> QED BY <1>1 DEF Handle, SameFiles

LEMMA StepHandle == Typed /\ Threads /\ Handle /\ [Next]_vars => Handle'
<1> SUFFICES ASSUME Typed, Threads, Handle, [Next]_vars PROVE Handle'
  OBVIOUS
<1>t. m_OutFd \in 0..Len(files) /\ m_WritingMode \in Kind /\ want \in Kind \cup {"none"}
  BY DEF Typed, TypeOK
<1>1. ASSUME NEW kind \in Kind, StartFlag(kind) PROVE Handle'
  <2>1. tpc \notin {"done", "none"}
    BY <1>1 DEF StartFlag, Threads, Typed, Hands
  <2>2. PICK ok \in BOOLEAN :
           /\ Len(files') = Len(files) + 1 /\ Len(files) \in Nat
           /\ files'[Len(files')] = [kind |-> kind, opened |-> ok, bytes |-> {}, data |-> <<>>]
           /\ m_OutFd' = IF ok THEN Len(files') ELSE 0
    BY <1>1, StartedFiles
  <2>3. m_WritingMode' = kind /\ want' = kind /\ upc' = "idle" /\ tpc' = tpc
    BY <1>1 DEF StartFlag
  <2>4. CASE m_OutFd' # 0
    <3>1. files'[m_OutFd'].opened /\ files'[m_OutFd'].kind = kind /\ m_OutFd' = Len(files')
      BY <2>2, <2>4
    <3> QED BY <2>1, <2>3, <3>1 DEF Handle
  <2>5. CASE m_OutFd' = 0
    BY <2>5 DEF Handle
  <2> QED BY <2>4, <2>5
<1>2. ASSUME NEW kind \in Kind, StopFlag(kind) PROVE Handle'
  <2>1. SameFiles /\ "none" \notin Kind
    BY <1>2 DEF StopFlag, SameFiles, Kind
  <2>2. m_OutFd # 0 => want = kind /\ kind = m_WritingMode
    BY <1>t, <1>2, <2>1 DEF StopFlag, Handle
  <2> QED BY <1>2, <2>1, <2>2 DEF StopFlag, Handle
<1>3. ASSUME NEW size \in Sizes, StreamSample(size) PROVE Handle'
  BY <1>3, SampledFiles, KeptHandle DEF StreamSample
<1>4. CASE CopyRest \/ CopyFull \/ CopyPost \/ CopyDropped \/ StopWaited
  <2>1. UNCHANGED files
    BY <1>4 DEF CopyRest, CopyFull, CopyPost, CopyDropped, StopWaited
  <2> QED BY <1>4, <2>1, UnchangedSame, KeptHandle DEF CopyRest, CopyFull, CopyPost, Post, CopyDropped, StopWaited
<1>5. CASE StopWrite
  BY <1>5, StopWriteLeaves, LeavesSame, KeptHandle DEF StopWrite
<1>6. CASE StopClose
  BY <1>6 DEF StopClose, Handle
<1>7. CASE LoopTest \/ Pend \/ Wake \/ Pop \/ GiveBack
  <2>1. UNCHANGED files
    BY <1>7 DEF LoopTest, Pend, Wake, Pop, GiveBack
  <2> QED BY <1>7, <2>1, UnchangedSame, KeptHandle DEF LoopTest, Pend, Wake, Pop, GiveBack
<1>8. CASE TestFd
  BY <1>8, UnchangedSame, KeptHandle DEF TestFd
<1>9. CASE ThreadWrite
  BY <1>9, ThreadWriteLeaves, LeavesSame, KeptHandle DEF ThreadWrite
<1>10. CASE FlushOne
  BY <1>10, FlushOneLeaves, LeavesSame, KeptHandle DEF FlushOne
<1>11. CASE FlushLast
  BY <1>11, FlushLastLeaves, LeavesSame, KeptHandle DEF FlushLast
<1>12. CASE ExitClose
  BY <1>12 DEF ExitClose, Handle
<1>13. CASE Run \/ Stop \/ StopPost
  <2>1. UNCHANGED files /\ (spc = "stopped" => tpc = "none")
    BY <1>13 DEF Run, Stop, StopPost, Typed, Hands
  <2> QED BY <1>13, <2>1, UnchangedSame, KeptHandle DEF Run, Stop, StopPost, Post
<1>14. CASE Join
  <2>1. m_OutFd = 0 /\ m_OutFd' = 0
    BY <1>14 DEF Join, Handle
  <2> QED BY <2>1 DEF Handle
<1>15. CASE UNCHANGED vars
  BY <1>15 DEF vars, Handle
<1> QED
  BY <1>1, <1>2, <1>3, <1>4, <1>5, <1>6, <1>7, <1>8, <1>9, <1>10, <1>11, <1>12, <1>13, <1>14, <1>15
     DEF Next, Receive, Received, ThreadLoop, Control

(* What has been announced. *)
Done(n) == n.code \in {"NORMAL_DONE", "EVENT_DONE"}

Told ==
    /\ \A f \in 1..Len(files) :
          (\E i \in 1..Len(notes) : notes[i].name = f /\ Done(notes[i]))
             <=> files[f].opened /\ f # m_OutFd
    /\ \A i \in 1..Len(notes) : Done(notes[i]) =>
          notes[i].name \in 1..Len(files) /\ notes[i].code = DoneCode(files[notes[i].name].kind)
    /\ \A i, j \in 1..Len(notes) :
          Done(notes[i]) /\ Done(notes[j]) /\ notes[i].name = notes[j].name => i = j

LEMMA InitTold == Init => Told
<1> SUFFICES ASSUME Init PROVE Told
  OBVIOUS
<1>1. Len(files) = 0 /\ Len(notes) = 0
  BY DEF Init
<1> QED BY <1>1 DEF Told

(* A failure is no announcement. *)
LEMMA Grown ==
    ASSUME Typed, NEW n \in [code : Code, name : Nat], notes' = Append(notes, n)
    PROVE  /\ Len(notes') = Len(notes) + 1 /\ Len(notes) \in Nat
           /\ \A i \in 1..Len(notes) : i \in 1..Len(notes') /\ notes'[i] = notes[i] /\ i # Len(notes')
           /\ \A i \in 1..Len(notes') : i \in 1..Len(notes) \/ i = Len(notes')
           /\ notes'[Len(notes')] = n /\ Len(notes') \in 1..Len(notes')
<1> DEFINE N == [code : Code, name : Nat]
<1>1. notes \in Seq(N) /\ n \in N
  BY DEF Typed, TypeOK
<1> HIDE DEF N
<1>2. /\ Len(notes) \in Nat /\ Len(notes') = Len(notes) + 1
      /\ \A i \in 1..Len(notes) : i \in 1..Len(notes') /\ notes'[i] = notes[i]
      /\ Len(notes) + 1 \in 1..Len(notes') /\ notes'[Len(notes) + 1] = n
      /\ \A i \in 1..Len(notes') : i \in 1..Len(notes) \/ i = Len(notes) + 1
  BY <1>1, Queueing
<1>3. \A i \in 1..Len(notes) : i # Len(notes) + 1
  BY <1>2
<1> QED BY <1>2, <1>3

LEMMA KeptTold ==
    ASSUME Typed, Told, SameFiles, UNCHANGED m_OutFd,
           notes' = notes \/ \E n \in [code : Code, name : Nat] : ~Done(n) /\ notes' = Append(notes, n)
    PROVE  Told'
<1>1. CASE notes' = notes
  BY <1>1 DEF Told, SameFiles
<1>2. ASSUME NEW n \in [code : Code, name : Nat], ~Done(n), notes' = Append(notes, n) PROVE Told'
  <2>1. /\ \A i \in 1..Len(notes) : i \in 1..Len(notes') /\ notes'[i] = notes[i]
        /\ \A i \in 1..Len(notes') : Done(notes'[i]) => i \in 1..Len(notes)
    BY <1>2, Grown
  <2>2. \A f : (\E i \in 1..Len(notes') : notes'[i].name = f /\ Done(notes'[i]))
                 <=> (\E i \in 1..Len(notes) : notes[i].name = f /\ Done(notes[i]))
    BY <2>1
  <2>3. \A f \in 1..Len(files') :
          (\E i \in 1..Len(notes') : notes'[i].name = f /\ Done(notes'[i]))
             <=> files'[f].opened /\ f # m_OutFd'
    <3> SUFFICES ASSUME NEW f \in 1..Len(files')
                 PROVE  (\E i \in 1..Len(notes') : notes'[i].name = f /\ Done(notes'[i]))
                           <=> files'[f].opened /\ f # m_OutFd'
      OBVIOUS
    <3>1. f \in 1..Len(files) /\ files'[f].opened = files[f].opened /\ m_OutFd' = m_OutFd
      BY DEF SameFiles
    <3>2. (\E i \in 1..Len(notes) : notes[i].name = f /\ Done(notes[i]))
             <=> files[f].opened /\ f # m_OutFd
      BY <3>1 DEF Told
    <3> HIDE DEF Done
    <3> QED BY <2>2, <3>1, <3>2
  <2>4. \A i \in 1..Len(notes') : Done(notes'[i]) =>
          notes'[i].name \in 1..Len(files') /\ notes'[i].code = DoneCode(files'[notes'[i].name].kind)
    <3> SUFFICES ASSUME NEW i \in 1..Len(notes'), Done(notes'[i])
                 PROVE  notes'[i].name \in 1..Len(files')
                        /\ notes'[i].code = DoneCode(files'[notes'[i].name].kind)
      OBVIOUS
    <3>1. i \in 1..Len(notes) /\ notes'[i] = notes[i]
      BY <2>1
    <3>2. notes[i].name \in 1..Len(files) /\ notes[i].code = DoneCode(files[notes[i].name].kind)
      BY <3>1 DEF Told
    <3>3. files'[notes[i].name].kind = files[notes[i].name].kind /\ Len(files') = Len(files)
      BY <3>2 DEF SameFiles
    <3> QED BY <3>1, <3>2, <3>3
  <2>5. \A i, j \in 1..Len(notes') :
          Done(notes'[i]) /\ Done(notes'[j]) /\ notes'[i].name = notes'[j].name => i = j
    BY <2>1 DEF Told
  <2> QED BY <2>3, <2>4, <2>5 DEF Told
<1> QED BY <1>1, <1>2

LEMMA LeavesTold ==
    ASSUME Typed, Told, NEW data, Leaves(data), UNCHANGED m_OutFd
    PROVE  Told'
<1>1. Failure \in [code : Code, name : Nat] /\ ~Done(Failure)
  BY DEF Failure, Done, Code, Typed, TypeOK
<1> QED BY <1>1, LeavesSame, KeptTold

(* The file is closed by the kind of flag that started it. *)
LEMMA ClosedTold ==
    ASSUME Typed, Handle, Told, UNCHANGED files, m_OutFd' = 0,
           notes' = IF m_OutFd # 0 THEN Note(DoneCode(m_WritingMode)) ELSE notes
    PROVE  Told'
<1>1. CASE m_OutFd = 0
  BY <1>1 DEF Told
<1>2. CASE m_OutFd # 0
  <2> DEFINE n == [code |-> DoneCode(m_WritingMode), name |-> m_OutFd]
  <2>1. /\ n \in [code : Code, name : Nat] /\ Done(n) /\ n.name = m_OutFd
        /\ n.code = DoneCode(files[m_OutFd].kind) /\ m_OutFd \in 1..Len(files) /\ files[m_OutFd].opened
    BY <1>2 DEF Typed, TypeOK, Handle, Done, DoneCode, Code
  <2>2. notes' = Append(notes, n)
    BY <1>2 DEF Note, Handle
  <2> HIDE DEF n
  <2>3. /\ \A i \in 1..Len(notes) : i \in 1..Len(notes') /\ notes'[i] = notes[i] /\ i # Len(notes')
        /\ \A i \in 1..Len(notes') : i \in 1..Len(notes) \/ i = Len(notes')
        /\ notes'[Len(notes')] = n /\ Len(notes') \in 1..Len(notes')
    BY <2>1, <2>2, Grown
  <2>4. \A f : (\E i \in 1..Len(notes') : notes'[i].name = f /\ Done(notes'[i]))
                 <=> f = m_OutFd \/ (\E i \in 1..Len(notes) : notes[i].name = f /\ Done(notes[i]))
    BY <2>1, <2>3
  <2>5. \A f \in 1..Len(files') :
          (\E i \in 1..Len(notes') : notes'[i].name = f /\ Done(notes'[i]))
             <=> files'[f].opened /\ f # m_OutFd'
    <3>1. \A f \in 1..Len(files) : f # 0
      BY DEF Typed, TypeOK
    <3> QED BY <2>1, <2>4, <3>1 DEF Told
  <2>6. \A i \in 1..Len(notes') : Done(notes'[i]) =>
          notes'[i].name \in 1..Len(files') /\ notes'[i].code = DoneCode(files'[notes'[i].name].kind)
    BY <2>1, <2>3 DEF Told
  <2>7. \A i \in 1..Len(notes) : Done(notes[i]) => notes[i].name # m_OutFd
    BY <2>1 DEF Told
  <2>8. \A i, j \in 1..Len(notes') :
          Done(notes'[i]) /\ Done(notes'[j]) /\ notes'[i].name = notes'[j].name => i = j
    BY <2>1, <2>3, <2>7 DEF Told
  <2> QED BY <2>5, <2>6, <2>8 DEF Told
<1> QED BY <1>1, <1>2

LEMMA StartedTold ==
    ASSUME Typed, Handle, Told, NEW kind \in Kind, StartFlag(kind)
    PROVE  Told'
<1>1. m_OutFd = 0
  BY DEF StartFlag, Handle, Typed, TypeOK, Kind
<1>2. PICK ok \in BOOLEAN :
        /\ Len(files') = Len(files) + 1 /\ Len(files) \in Nat
        /\ \A f \in 1..Len(files) : f \in 1..Len(files') /\ files'[f] = files[f]
        /\ \A f \in 1..Len(files') : f \in 1..Len(files) \/ f = Len(files) + 1
        /\ files'[Len(files')] = [kind |-> kind, opened |-> ok, bytes |-> {}, data |-> <<>>]
        /\ m_OutFd' = IF ok THEN Len(files') ELSE 0
        /\ notes' = IF ok THEN notes
                    ELSE Append(notes, [code |-> "OPEN_FAIL", name |-> Len(files) + 1])
  BY StartedFiles
<1> DEFINE n == [code |-> "OPEN_FAIL", name |-> Len(files) + 1]
           e == [kind |-> kind, opened |-> ok, bytes |-> {}, data |-> <<>>]
<1>3. n \in [code : Code, name : Nat] /\ ~Done(n)
  BY <1>2 DEF Done, Code
<1>4. e.opened = ok
  OBVIOUS
<1> HIDE DEF n, e
<1>5. /\ \A i \in 1..Len(notes) : i \in 1..Len(notes') /\ notes'[i] = notes[i]
      /\ \A i \in 1..Len(notes') : Done(notes'[i]) => i \in 1..Len(notes)
  <2>1. CASE ok
    BY <1>2, <2>1
  <2>2. CASE ~ok
    BY <1>2, <1>3, <2>2, Grown DEF n
  <2> QED BY <2>1, <2>2
<1>6. \A f : (\E i \in 1..Len(notes') : notes'[i].name = f /\ Done(notes'[i]))
               <=> (\E i \in 1..Len(notes) : notes[i].name = f /\ Done(notes[i]))
  BY <1>5
<1>7. \A f \in 1..Len(files) : f # Len(files) + 1 /\ f # 0
  BY <1>2
<1>8. ASSUME NEW f \in 1..Len(files')
      PROVE  (\E i \in 1..Len(notes') : notes'[i].name = f /\ Done(notes'[i]))
                <=> files'[f].opened /\ f # m_OutFd'
  <2>1. CASE f \in 1..Len(files)
    <3>1. f # m_OutFd' /\ f # m_OutFd /\ files'[f] = files[f]
      BY <1>1, <1>2, <1>7, <2>1
    <3> QED BY <1>6, <2>1, <3>1 DEF Told
  <2>2. CASE f = Len(files) + 1
    <3>1. ~(\E i \in 1..Len(notes) : notes[i].name = f /\ Done(notes[i]))
      BY <1>7, <2>2 DEF Told
    <3>2. files'[f].opened = ok
      BY <1>2, <1>4, <2>2 DEF e
    <3>3. ok => f = m_OutFd'
      BY <1>2, <2>2
    <3> QED BY <1>6, <3>1, <3>2, <3>3
  <2> QED BY <1>2, <2>1, <2>2
<1>9. \A i \in 1..Len(notes') : Done(notes'[i]) =>
        notes'[i].name \in 1..Len(files') /\ notes'[i].code = DoneCode(files'[notes'[i].name].kind)
  BY <1>2, <1>5 DEF Told
<1>10. \A i, j \in 1..Len(notes') :
        Done(notes'[i]) /\ Done(notes'[j]) /\ notes'[i].name = notes'[j].name => i = j
  BY <1>5 DEF Told
<1> QED BY <1>8, <1>9, <1>10 DEF Told

LEMMA StepTold == Typed /\ Handle /\ Told /\ [Next]_vars => Told'
<1> SUFFICES ASSUME Typed, Handle, Told, [Next]_vars PROVE Told'
  OBVIOUS
<1>1. ASSUME NEW kind \in Kind, StartFlag(kind) PROVE Told'
  BY <1>1, StartedTold
<1>2. ASSUME NEW size \in Sizes, StreamSample(size) PROVE Told'
  BY <1>2, SampledFiles, KeptTold DEF StreamSample
<1>3. CASE StopWrite \/ ThreadWrite \/ FlushOne \/ FlushLast
  BY <1>3, StopWriteLeaves, ThreadWriteLeaves, FlushOneLeaves, FlushLastLeaves, LeavesTold
     DEF StopWrite, ThreadWrite, FlushOne, FlushLast
<1>4. CASE StopClose
  <2>1. UNCHANGED files /\ m_OutFd' = 0
    BY <1>4 DEF StopClose
  <2>2. notes' = IF m_OutFd # 0 THEN Note(DoneCode(m_WritingMode)) ELSE notes
    BY <1>4 DEF StopClose, Handle
  <2> QED BY <2>1, <2>2, ClosedTold
<1>5. CASE ExitClose
  BY <1>5, ClosedTold DEF ExitClose
<1>6. ASSUME NEW kind \in Kind, StopFlag(kind) PROVE Told'
  BY <1>6 DEF StopFlag, Told
<1>7. CASE CopyRest \/ CopyFull \/ CopyPost \/ CopyDropped \/ StopWaited
  BY <1>7 DEF CopyRest, CopyFull, CopyPost, CopyDropped, StopWaited, Told
<1>8. CASE LoopTest \/ Pend \/ Wake \/ Pop \/ TestFd \/ GiveBack \/ Control
  BY <1>8 DEF LoopTest, Pend, Wake, Pop, TestFd, GiveBack, Control, Run, Stop, StopPost, Join, Told
<1>9. CASE UNCHANGED vars
  BY <1>9 DEF vars, Told
<1> QED
  BY <1>1, <1>2, <1>3, <1>4, <1>5, <1>6, <1>7, <1>8, <1>9 DEF Next, Receive, Received, ThreadLoop

(* Two threads close the file, the one that answers a stop flag and the one   *)
(* that ends: whichever it is, the file is announced as done once, with the   *)
(* code of the flag that started it, and one that never opened is not.        *)
THEOREM AnnouncedAsDone == Spec => []AnnouncedOnce
<1> DEFINE Inv == Typed /\ Threads /\ Handle /\ Told
<1>1. Init => Inv
  BY InitTyped, InitThreads, InitHandle, InitTold
<1>2. Inv /\ [Next]_vars => Inv'
  BY StepTyped, StepThreads, StepHandle, StepTold
<1>3. Inv => AnnouncedOnce
  <2> SUFFICES ASSUME Typed, Told PROVE AnnouncedOnce
    OBVIOUS
  <2>1. DOMAIN files = 1..Len(files) /\ DOMAIN notes = 1..Len(notes)
    BY DEF Typed, TypeOK
  <2>2. \A f \in DOMAIN files : Announced(f) <=> files[f].opened /\ f # m_OutFd
    BY <2>1 DEF Told, Announced, Done
  <2>3. ASSUME NEW i \in DOMAIN notes, NEW j \in DOMAIN notes, Done(notes[i])
        PROVE  notes[i].code = DoneCode(files[notes[i].name].kind) /\ (notes[j] = notes[i] => i = j)
    BY <2>1, <2>3 DEF Told
  <2> QED BY <2>2, <2>3 DEF AnnouncedOnce, Done
<1> QED BY <1>1, <1>2, <1>3, PTL DEF Spec

-----------------------------------------------------------------------------
(***************************************************************************)
(* The order of what is on its way: what the thread holds, then the queue, *)
(* then the current buffer, then the rest of the sample.                   *)
(***************************************************************************)
LEMMA Ordering ==
    /\ Range(<<>>) = {} /\ Increasing(<<>>) /\ <<>> \in Seq(Byte)
    /\ \A a, b, c, d : Before(a, b) /\ Range(c) \subseteq Range(a) /\ Range(d) \subseteq Range(b) => Before(c, d)
    /\ \A a : Before(<<>>, a) /\ Before(a, <<>>)
    /\ \A a, b, c, d : Before(a, b) /\ Before(a, c) /\ Range(d) \subseteq Range(b) \cup Range(c) => Before(a, d)
    /\ \A a, b, c, d : Before(b, a) /\ Before(c, a) /\ Range(d) \subseteq Range(b) \cup Range(c) => Before(d, a)
<1>1. Range(<<>>) = {} /\ Increasing(<<>>) /\ <<>> \in Seq(Byte)
  BY DEF Range, Increasing
<1> QED BY <1>1 DEF Before

InQueue(q) == UNION {Range(q[i].data) : i \in 1..Len(q)}

Row ==
    /\ Increasing(pBuffer.data) /\ Increasing(cur.data) /\ Increasing(todo)
    /\ Before(pBuffer.data, cur.data) /\ Before(pBuffer.data, todo) /\ Before(cur.data, todo)
    /\ \A i \in 1..Len(writerQ) :
          /\ Increasing(writerQ[i].data) /\ Before(pBuffer.data, writerQ[i].data)
          /\ Before(writerQ[i].data, cur.data) /\ Before(writerQ[i].data, todo)
          /\ \A j \in 1..Len(writerQ) : i < j => Before(writerQ[i].data, writerQ[j].data)

(* The stages by their places. *)
StageOf(p, q, c, t, k) ==
    CASE k = 0 -> p
      [] k \in 1..Len(q) -> q[k].data
      [] k = Len(q) + 1 -> c
      [] k = Len(q) + 2 -> t

LEMMA Places ==
    ASSUME NEW p, NEW q, NEW c, NEW t, Len(q) \in Nat
    PROVE  /\ StageOf(p, q, c, t, 0) = p
           /\ \A k \in 1..Len(q) : StageOf(p, q, c, t, k) = q[k].data
           /\ StageOf(p, q, c, t, Len(q) + 1) = c /\ StageOf(p, q, c, t, Len(q) + 2) = t
           /\ \A k \in 0..(Len(q) + 2) : k = 0 \/ k \in 1..Len(q) \/ k = Len(q) + 1 \/ k = Len(q) + 2
<1> DEFINE n == Len(q)
<1>1. n \in Nat
  OBVIOUS
<1>2. n + 1 # 0 /\ n + 2 # 0 /\ n + 1 # n + 2 /\ n + 1 \notin 1..n /\ n + 2 \notin 1..n
      /\ \A k \in 1..n : k # 0
  BY <1>1
<1>3. \A k \in 0..(n + 2) : k = 0 \/ k \in 1..n \/ k = n + 1 \/ k = n + 2
  BY <1>1
<1>4. 0 \notin 1..n
  BY <1>1
<1> QED BY <1>2, <1>3, <1>4 DEF StageOf

WayOf(p, q, c, t) == UNION {Range(StageOf(p, q, c, t, k)) : k \in 0..(Len(q) + 2)}

LEMMA WayIs ==
    ASSUME NEW p, NEW q, NEW c, NEW t, Len(q) \in Nat
    PROVE  WayOf(p, q, c, t) = Range(p) \cup InQueue(q) \cup Range(c) \cup Range(t)
<1> DEFINE K == 0..(Len(q) + 2)
           A == Range(p) \cup InQueue(q) \cup Range(c) \cup Range(t)
           U == UNION {Range(StageOf(p, q, c, t, k)) : k \in K}
<1>1. 0 \in K /\ Len(q) + 1 \in K /\ Len(q) + 2 \in K /\ \A k \in 1..Len(q) : k \in K
  OBVIOUS
<1>2. \A k \in K : k = 0 \/ k \in 1..Len(q) \/ k = Len(q) + 1 \/ k = Len(q) + 2
  BY Places
<1>3. StageOf(p, q, c, t, 0) = p /\ StageOf(p, q, c, t, Len(q) + 1) = c /\ StageOf(p, q, c, t, Len(q) + 2) = t
  BY Places
<1>4. ASSUME NEW k \in 1..Len(q) PROVE StageOf(p, q, c, t, k) = q[k].data
  <2>1. k # 0
    OBVIOUS
  <2> QED BY <2>1 DEF StageOf
<1> HIDE DEF K
<1>5. ASSUME NEW k \in K PROVE Range(StageOf(p, q, c, t, k)) \subseteq A
  BY <1>2, <1>3, <1>4 DEF InQueue
<1>6. Range(p) \subseteq U /\ Range(c) \subseteq U /\ Range(t) \subseteq U
  BY <1>1, <1>3
<1>7. InQueue(q) \subseteq U
  <2> SUFFICES ASSUME NEW k \in 1..Len(q) PROVE Range(q[k].data) \subseteq U
    BY DEF InQueue
  <2> QED BY <1>1, <1>4
<1>8. U \subseteq A
  BY <1>5
<1>9. U = A
  BY <1>6, <1>7, <1>8
<1> QED BY <1>9 DEF K, WayOf

LEMMA OnTheWayIs ==
    ASSUME Typed, Typed'
    PROVE  /\ OnTheWay = Range(pBuffer.data) \cup InQueue(writerQ) \cup Range(cur.data) \cup Range(todo)
           /\ OnTheWay' = Range(pBuffer'.data) \cup InQueue(writerQ') \cup Range(cur'.data) \cup Range(todo')
<1>1. Len(writerQ) \in Nat /\ Len(writerQ') \in Nat
  <2>1. writerQ \in Seq(Chunk) /\ writerQ' \in Seq(Chunk)
    BY DEF Typed, TypeOK
  <2> QED BY <2>1
<1>2. \A k : Stage(k) = StageOf(pBuffer.data, writerQ, cur.data, todo, k)
  BY DEF Stage, StageOf
<1>3. \A k : Stage(k)' = StageOf(pBuffer'.data, writerQ', cur'.data, todo', k)
  BY DEF Stage, StageOf
<1>4. OnTheWay = WayOf(pBuffer.data, writerQ, cur.data, todo)
  BY <1>2 DEF WayOf, OnTheWay, Stages
<1>5. OnTheWay' = WayOf(pBuffer'.data, writerQ', cur'.data, todo')
  BY <1>3 DEF WayOf, OnTheWay, Stages
<1>6. OnTheWay = Range(pBuffer.data) \cup InQueue(writerQ) \cup Range(cur.data) \cup Range(todo)
  BY <1>1, <1>4, WayIs
<1>7. OnTheWay' = Range(pBuffer'.data) \cup InQueue(writerQ') \cup Range(cur'.data) \cup Range(todo')
  BY <1>1, <1>5, WayIs
<1> QED BY <1>6, <1>7

LEMMA QueuePushed ==
    ASSUME NEW q \in Seq(Chunk), NEW c \in Chunk
    PROVE  InQueue(Append(q, c)) = InQueue(q) \cup Range(c.data)
<1> DEFINE r == Append(q, c)
<1>1. /\ \A i \in 1..Len(q) : i \in 1..Len(r) /\ r[i] = q[i]
      /\ Len(q) + 1 \in 1..Len(r) /\ r[Len(q) + 1] = c
      /\ \A i \in 1..Len(r) : i \in 1..Len(q) \/ i = Len(q) + 1
  BY Queueing
<1> HIDE DEF r
<1>2. InQueue(r) = InQueue(q) \cup Range(c.data)
  BY <1>1 DEF InQueue
<1> QED BY <1>2 DEF r

LEMMA QueuePopped ==
    ASSUME NEW q \in Seq(Chunk), q # <<>>
    PROVE  InQueue(q) = Range(Head(q).data) \cup InQueue(Tail(q))
<1> DEFINE r == Tail(q)
           h == Head(q)
<1>1. /\ h = q[1] /\ 1 \in 1..Len(q)
      /\ \A i \in 1..Len(r) : i + 1 \in 1..Len(q) /\ r[i] = q[i + 1]
      /\ \A i \in 1..Len(q) : i # 1 => i - 1 \in 1..Len(r) /\ r[i - 1] = q[i]
  BY Popping
<1> HIDE DEF r, h
<1>2. \A x : x \in InQueue(q) => x \in Range(h.data) \cup InQueue(r)
  <2> SUFFICES ASSUME NEW i \in 1..Len(q), NEW x \in Range(q[i].data) PROVE x \in Range(h.data) \cup InQueue(r)
    BY DEF InQueue
  <2>1. CASE i = 1
    BY <1>1, <2>1
  <2>2. CASE i # 1
    BY <1>1, <2>2 DEF InQueue
  <2> QED BY <2>1, <2>2
<1>3. \A x : x \in Range(h.data) \cup InQueue(r) => x \in InQueue(q)
  BY <1>1 DEF InQueue
<1>4. InQueue(q) = Range(h.data) \cup InQueue(r)
  BY <1>2, <1>3
<1> QED BY <1>4 DEF r, h

LEMMA InitRow == Init => Row
<1> SUFFICES ASSUME Init PROVE Row
  OBVIOUS
<1>1. pBuffer.data = <<>> /\ cur.data = <<>> /\ todo = <<>> /\ Len(writerQ) = 0
  BY DEF Init, NoChunk
<1> QED BY <1>1, Ordering DEF Row

LEMMA RowShrinks ==
    ASSUME Row, writerQ' = writerQ,
           pBuffer'.data = pBuffer.data \/ pBuffer'.data = <<>>,
           cur'.data = cur.data \/ cur'.data = <<>>,
           todo' = todo \/ todo' = <<>>
    PROVE  Row'
  BY Ordering DEF Row

LEMMA RowSampled ==
    ASSUME Typed, Row, OnTheWay \subseteq 1..last, Typed',
           NEW size \in Sizes, StreamSample(size)
    PROVE  Row' /\ OnTheWay' = OnTheWay \cup (last + 1)..(last + size)
<1>1. todo' = [i \in 1..size |-> last + i] /\ UNCHANGED <<pBuffer, writerQ, cur>> /\ todo = <<>>
  BY DEF StreamSample, Typed, Hands
<1>2. last \in Nat /\ size \in Nat
  BY SampleAssumption DEF Typed, TypeOK
<1>3. Range(todo') = (last + 1)..(last + size)
  <2>1. DOMAIN todo' = 1..size /\ \A i \in 1..size : todo'[i] = last + i
    BY <1>1
  <2>2. \A x \in (last + 1)..(last + size) : x - last \in 1..size /\ last + (x - last) = x
    BY <1>2
  <2>3. \A i \in 1..size : last + i \in (last + 1)..(last + size)
    BY <1>2
  <2> QED BY <2>1, <2>2, <2>3 DEF Range
<1>4. Increasing(todo')
  <2>1. Len(todo') = size /\ \A i \in 1..size : todo'[i] = last + i
    BY <1>1, <1>2
  <2> QED BY <1>2, <2>1 DEF Increasing
<1>5. /\ OnTheWay = Range(pBuffer.data) \cup InQueue(writerQ) \cup Range(cur.data) \cup Range(todo)
      /\ OnTheWay' = Range(pBuffer.data) \cup InQueue(writerQ) \cup Range(cur.data) \cup Range(todo')
  BY <1>1, OnTheWayIs
<1>6. \A q : Range(q) \subseteq OnTheWay => Before(q, todo')
  <2>1. \A x \in 1..last, y \in (last + 1)..(last + size) : x < y
    BY <1>2
  <2> QED BY <1>3, <2>1 DEF Before
<1>7. Before(pBuffer.data, todo') /\ Before(cur.data, todo') /\ \A i \in 1..Len(writerQ) : Before(writerQ[i].data, todo')
  BY <1>5, <1>6 DEF InQueue
<1>8. OnTheWay' = OnTheWay \cup (last + 1)..(last + size)
  BY <1>1, <1>3, <1>5, Ordering
<1>9. Row'
  BY <1>1, <1>4, <1>7 DEF Row
<1> QED BY <1>8, <1>9

LEMMA RowCopied ==
    ASSUME Typed, Row, Typed', CopyRest
    PROVE  Row' /\ OnTheWay' = OnTheWay
<1> DEFINE q == cur.data
           d == q \o todo
<1>1. q \in Seq(Byte) /\ todo \in Seq(Byte) /\ cur \in Chunk
  BY ChunkTyped DEF Typed, TypeOK
<1>2. d \in Seq(Byte) /\ Range(d) = Range(q) \cup Range(todo) /\ (Increasing(q) /\ Increasing(todo) /\ Before(q, todo) => Increasing(d))
  <2> HIDE DEF q
  <2> QED BY <1>1, Joined, JoinedRange, JoinedIncreasing
<1>3. cur'.data = d /\ todo' = <<>> /\ UNCHANGED <<pBuffer, writerQ>>
  <2>1. cur' = [cur EXCEPT !.data = d] /\ todo' = <<>> /\ UNCHANGED <<pBuffer, writerQ>>
    BY DEF CopyRest
  <2> HIDE DEF d
  <2> QED BY <1>1, <1>2, <2>1, ChunkTyped
<1> HIDE DEF d
<1>4. Row'
  <2>1. Increasing(cur'.data)
    BY <1>2, <1>3 DEF Row
  <2>2. Before(pBuffer.data, cur'.data)
    BY <1>2, <1>3, Ordering DEF Row
  <2>3. \A i \in 1..Len(writerQ) : Before(writerQ[i].data, cur'.data)
    BY <1>2, <1>3, Ordering DEF Row
  <2> QED BY <1>3, <2>1, <2>2, <2>3, Ordering DEF Row
<1>5. OnTheWay' = OnTheWay
  <2>1. /\ OnTheWay = Range(pBuffer.data) \cup InQueue(writerQ) \cup Range(cur.data) \cup Range(todo)
        /\ OnTheWay' = Range(pBuffer'.data) \cup InQueue(writerQ') \cup Range(cur'.data) \cup Range(todo')
    BY OnTheWayIs
  <2> QED BY <1>2, <1>3, <2>1, Ordering
<1> QED BY <1>4, <1>5

LEMMA RowFilled ==
    ASSUME Typed, Row, Typed', CopyFull
    PROVE  Row' /\ OnTheWay' = OnTheWay
<1> DEFINE full == [cur EXCEPT !.data = @ \o SubSeq(todo, 1, Writable)]
           q == cur.data
           w == Writable
           a == SubSeq(todo, 1, w)
           b == SubSeq(todo, w + 1, Len(todo))
           d == q \o a
<1>1. /\ q \in Seq(Byte) /\ todo \in Seq(Byte) /\ writerQ \in Seq(Chunk) /\ full \in Chunk
      /\ full.data = d /\ w \in 0..Len(todo) /\ b = Rest
  <2>1. cur \in Chunk /\ todo \in Seq(Byte) /\ writerQ \in Seq(Chunk)
    BY DEF Typed, TypeOK
  <2>2. full \in Chunk /\ full.data = d /\ w \in 0..Len(todo)
    BY FilledTyped DEF CopyFull
  <2>3. b = Rest
    BY DEF Rest
  <2> QED BY <2>1, <2>2, <2>3, ChunkTyped
<1>2. /\ a \in Seq(Byte) /\ b \in Seq(Byte) /\ Range(a) \cup Range(b) = Range(todo)
      /\ Increasing(todo) => Increasing(a) /\ Increasing(b) /\ Before(a, b)
  <2> HIDE DEF w
  <2> QED BY <1>1, Cut, CutOrder
<1> HIDE DEF a, b, w
<1>3. Range(d) = Range(q) \cup Range(a) /\ (Increasing(q) /\ Increasing(a) /\ Before(q, a) => Increasing(d))
  <2>1. q \in Seq(Byte) /\ a \in Seq(Byte)
    BY <1>1, <1>2
  <2> HIDE DEF q
  <2> QED BY <2>1, JoinedRange, JoinedIncreasing
<1>4. writerQ' = Append(writerQ, full) /\ todo' = b /\ cur'.data = <<>> /\ UNCHANGED pBuffer
  BY <1>1 DEF CopyFull, Queued, NoChunk
<1> HIDE DEF full, q, d
<1>5. /\ Len(writerQ) \in Nat /\ Len(writerQ') = Len(writerQ) + 1
      /\ \A i \in 1..Len(writerQ) : i \in 1..Len(writerQ') /\ writerQ'[i] = writerQ[i]
      /\ writerQ'[Len(writerQ) + 1] = full
      /\ \A i \in 1..Len(writerQ') : i \in 1..Len(writerQ) \/ i = Len(writerQ) + 1
  BY <1>1, <1>4, Queueing
<1>6. OnTheWay' = OnTheWay
  <2>1. /\ OnTheWay = Range(pBuffer.data) \cup InQueue(writerQ) \cup Range(q) \cup Range(todo)
        /\ OnTheWay' = Range(pBuffer'.data) \cup InQueue(writerQ') \cup Range(cur'.data) \cup Range(todo')
    BY OnTheWayIs DEF q
  <2>2. InQueue(writerQ') = InQueue(writerQ) \cup Range(d)
    BY <1>1, <1>4, QueuePushed
  <2> QED BY <1>2, <1>3, <1>4, <2>1, <2>2, Ordering
<1>7. /\ Increasing(q) /\ Increasing(todo) /\ Before(q, todo) /\ Increasing(pBuffer.data)
      /\ Before(pBuffer.data, q) /\ Before(pBuffer.data, todo)
      /\ \A i \in 1..Len(writerQ) :
            /\ Increasing(writerQ[i].data) /\ Before(pBuffer.data, writerQ[i].data)
            /\ Before(writerQ[i].data, q) /\ Before(writerQ[i].data, todo)
            /\ \A j \in 1..Len(writerQ) : i < j => Before(writerQ[i].data, writerQ[j].data)
  BY DEF Row, q
<1>8. /\ Increasing(a) /\ Increasing(b) /\ Before(a, b) /\ Before(q, a) /\ Before(q, b)
      /\ Before(pBuffer.data, a) /\ Before(pBuffer.data, b)
      /\ \A i \in 1..Len(writerQ) : Before(writerQ[i].data, a) /\ Before(writerQ[i].data, b)
  <2>1. Range(a) \subseteq Range(todo) /\ Range(b) \subseteq Range(todo)
    BY <1>2
  <2>2. \A c : Before(c, todo) => Before(c, a) /\ Before(c, b)
    BY <2>1, Ordering
  <2> QED BY <1>2, <1>7, <2>2
<1>9. /\ Increasing(d) /\ Before(d, b) /\ Before(pBuffer.data, d)
      /\ \A i \in 1..Len(writerQ) : Before(writerQ[i].data, d)
  BY <1>3, <1>7, <1>8, Ordering
<1>10. ASSUME NEW i \in 1..Len(writerQ')
       PROVE  /\ Increasing(writerQ'[i].data) /\ Before(pBuffer.data, writerQ'[i].data)
              /\ Before(writerQ'[i].data, b)
              /\ \A j \in 1..Len(writerQ') : i < j => Before(writerQ'[i].data, writerQ'[j].data)
  <2>1. CASE i \in 1..Len(writerQ)
    <3>1. ASSUME NEW j \in 1..Len(writerQ'), i < j PROVE Before(writerQ'[i].data, writerQ'[j].data)
      BY <1>1, <1>5, <1>7, <1>9, <2>1, <3>1
    <3> QED BY <1>5, <1>7, <1>8, <2>1, <3>1
  <2>2. CASE i = Len(writerQ) + 1
    <3>1. \A j \in 1..Len(writerQ') : ~(i < j)
      BY <1>5, <2>2
    <3> QED BY <1>1, <1>5, <1>9, <2>2, <3>1
  <2> QED BY <1>5, <2>1, <2>2
<1>11. Row'
  BY <1>4, <1>7, <1>8, <1>10, Ordering DEF Row
<1> QED BY <1>6, <1>11

(* The rest of the queue once its first buffer is gone. *)
LEMMA RowPopped ==
    ASSUME Typed, Row, writerQ # <<>>, writerQ' = Tail(writerQ), UNCHANGED <<cur, todo>>,
           pBuffer.data = <<>>, pBuffer'.data = <<>> \/ pBuffer' = Head(writerQ)
    PROVE  Row'
<1>1. writerQ \in Seq(Chunk)
  BY DEF Typed, TypeOK
<1>2. /\ Head(writerQ) = writerQ[1] /\ 1 \in 1..Len(writerQ)
      /\ \A i \in 1..Len(writerQ') : i + 1 \in 1..Len(writerQ) /\ writerQ'[i] = writerQ[i + 1]
  BY <1>1, Popping
<1>3. \A i \in 1..Len(writerQ') : 1 < i + 1
  OBVIOUS
<1>4. \A i, j \in 1..Len(writerQ') : i < j => i + 1 < j + 1
  OBVIOUS
<1>5. \A i \in 1..Len(writerQ') :
          /\ Increasing(writerQ'[i].data) /\ Before(writerQ[1].data, writerQ'[i].data)
          /\ Before(writerQ'[i].data, cur.data) /\ Before(writerQ'[i].data, todo)
          /\ \A j \in 1..Len(writerQ') : i < j => Before(writerQ'[i].data, writerQ'[j].data)
  BY <1>2, <1>3, <1>4 DEF Row
<1>6. Increasing(pBuffer'.data) /\ Before(pBuffer'.data, cur.data) /\ Before(pBuffer'.data, todo)
      /\ \A i \in 1..Len(writerQ') : Before(pBuffer'.data, writerQ'[i].data)
  BY <1>2, <1>5, Ordering DEF Row
<1> QED BY <1>5, <1>6 DEF Row

-----------------------------------------------------------------------------
(***************************************************************************)
(* Where the bytes are.                                                    *)
(***************************************************************************)
InFiles == UNION {Range(files[f].data) : f \in 1..Len(files)}

Accounts ==
    /\ 1..last = OnTheWay \cup lost \cup InFiles
    /\ \A f \in 1..Len(files) : Range(files[f].data) \cap OnTheWay = {}
    /\ \A f, g \in 1..Len(files) : f # g => Disjoint(files[f].data, files[g].data)

(* What is in the open file comes before what is on its way to it. *)
OpenFirst ==
    (m_OutFd # 0 /\ upc \notin {"stopWrite", "close"}) =>
        /\ Increasing(files[m_OutFd].data)
        /\ \A x \in Range(files[m_OutFd].data), y \in OnTheWay : x < y

(* No byte is in a file older than the one it was received for, and the open *)
(* file is the newest.                                                       *)
Own ==
    /\ m_OutFd # 0 => m_OutFd = Len(files)
    /\ \A f \in 1..Len(files) : files[f].bytes \subseteq 1..last
    /\ \A f, g \in 1..Len(files) : f < g => files[g].bytes \cap Range(files[f].data) = {}

LEMMA FilesTyped ==
    ASSUME TypeOK
    PROVE  /\ m_OutFd \in 0..Len(files) /\ DOMAIN files = 1..Len(files) /\ Len(files) \in Nat
           /\ \A f \in 1..Len(files) : files[f].data \in Seq(Byte)
           /\ last \in Nat /\ pBuffer.data \in Seq(Byte) /\ cur.data \in Seq(Byte) /\ todo \in Seq(Byte)
           /\ \A i \in 1..Len(writerQ) : writerQ[i].data \in Seq(Byte)
<1>1. /\ files \in Seq(FileRecord) /\ m_OutFd \in 0..Len(files) /\ last \in Nat /\ pBuffer \in Chunk
      /\ cur \in Chunk /\ todo \in Seq(Byte) /\ writerQ \in Seq(Chunk)
  BY DEF TypeOK
<1>2. \A f \in 1..Len(files) : files[f] \in FileRecord
  BY <1>1
<1>3. \A i \in 1..Len(writerQ) : writerQ[i] \in Chunk
  BY <1>1
<1>4. \A f \in 1..Len(files) : files[f].data \in Seq(Byte)
  BY <1>2, RecordTyped
<1>5. \A i \in 1..Len(writerQ) : writerQ[i].data \in Seq(Byte)
  BY <1>3, ChunkTyped
<1>6. pBuffer.data \in Seq(Byte) /\ cur.data \in Seq(Byte)
  BY <1>1, ChunkTyped
<1>7. DOMAIN files = 1..Len(files) /\ Len(files) \in Nat
  BY <1>1
<1> QED BY <1>1, <1>4, <1>5, <1>6, <1>7

(* What leaves is the first or the last of the row. *)
LEMMA Apart ==
    ASSUME NEW a \in Seq(Byte), NEW B \in SUBSET Byte,
           (\A x \in Range(a), y \in B : x < y) \/ (\A x \in Range(a), y \in B : y < x)
    PROVE  Range(a) \cap B = {}
<1>1. Range(a) \subseteq Byte
  BY RangeOf
<1>2. \A x \in Byte : ~(x < x)
  BY DEF Byte
<1> QED BY <1>1, <1>2

LEMMA WayTyped ==
    ASSUME Typed, Typed'
    PROVE  OnTheWay \subseteq Byte /\ OnTheWay' \subseteq Byte
<1>1. /\ \A i \in 1..Len(writerQ) : writerQ[i].data \in Seq(Byte)
      /\ pBuffer.data \in Seq(Byte) /\ cur.data \in Seq(Byte) /\ todo \in Seq(Byte)
  BY FilesTyped DEF Typed
<1>2. /\ \A i \in 1..Len(writerQ) : Range(writerQ[i].data) \subseteq Byte
      /\ Range(pBuffer.data) \subseteq Byte /\ Range(cur.data) \subseteq Byte /\ Range(todo) \subseteq Byte
  BY <1>1, RangeOf
<1>3. OnTheWay \subseteq Byte
  BY <1>2, OnTheWayIs DEF InQueue
<1>4. pBuffer' \in Chunk /\ cur' \in Chunk /\ todo' \in Seq(Byte) /\ writerQ' \in Seq(Chunk)
  BY DEF Typed, TypeOK
<1>5. \A i \in 1..Len(writerQ') : writerQ'[i] \in Chunk
  BY <1>4
<1>6. \A c \in Chunk : Range(c.data) \subseteq Byte
  BY ChunkTyped, RangeOf
<1>7. Range(todo') \subseteq Byte
  BY <1>4, RangeOf
<1>8. InQueue(writerQ') \subseteq Byte
  BY <1>5, <1>6 DEF InQueue
<1>9. OnTheWay' \subseteq Byte
  BY <1>4, <1>6, <1>7, <1>8, OnTheWayIs
<1> QED BY <1>3, <1>9

LEMMA ThreadTakes ==
    ASSUME Typed, Row, Typed', UNCHANGED <<writerQ, cur, todo>>, pBuffer'.data = <<>>
    PROVE  /\ OnTheWay = Range(pBuffer.data) \cup OnTheWay'
           /\ \A x \in Range(pBuffer.data), y \in OnTheWay' : x < y
<1>1. /\ OnTheWay = Range(pBuffer.data) \cup InQueue(writerQ) \cup Range(cur.data) \cup Range(todo)
      /\ OnTheWay' = Range(pBuffer'.data) \cup InQueue(writerQ) \cup Range(cur.data) \cup Range(todo)
  BY OnTheWayIs
<1>2. OnTheWay' = InQueue(writerQ) \cup Range(cur.data) \cup Range(todo)
  BY <1>1, Ordering
<1>3. \A x \in Range(pBuffer.data), y \in OnTheWay' : x < y
  BY <1>2 DEF Row, Before, InQueue
<1> QED BY <1>1, <1>2, <1>3

LEMMA FlushTakes ==
    ASSUME Typed, Row, Typed', FlushOne
    PROVE  /\ OnTheWay = Range(Head(writerQ).data) \cup OnTheWay'
           /\ \A x \in Range(Head(writerQ).data), y \in OnTheWay' : x < y
           /\ Increasing(Head(writerQ).data)
<1>1. /\ pBuffer.data = <<>> /\ writerQ' = Tail(writerQ) /\ writerQ # <<>> /\ writerQ \in Seq(Chunk)
      /\ UNCHANGED <<pBuffer, cur, todo>>
  BY DEF FlushOne, Typed, TypeOK, Hands
<1>2. /\ OnTheWay = Range(pBuffer.data) \cup InQueue(writerQ) \cup Range(cur.data) \cup Range(todo)
      /\ OnTheWay' = Range(pBuffer.data) \cup InQueue(writerQ') \cup Range(cur.data) \cup Range(todo)
  BY <1>1, OnTheWayIs
<1>3. InQueue(writerQ) = Range(Head(writerQ).data) \cup InQueue(writerQ')
  BY <1>1, QueuePopped
<1>4. /\ Head(writerQ) = writerQ[1] /\ 1 \in 1..Len(writerQ)
      /\ \A i \in 1..Len(writerQ') : i + 1 \in 1..Len(writerQ) /\ writerQ'[i] = writerQ[i + 1]
  BY <1>1, Popping
<1>5. \A i \in 1..Len(writerQ') : 1 < i + 1
  OBVIOUS
<1>6. \A i \in 1..Len(writerQ') : Before(writerQ[1].data, writerQ'[i].data)
  BY <1>4, <1>5 DEF Row
<1>7. \A x \in Range(writerQ[1].data), y \in InQueue(writerQ') : x < y
  BY <1>6 DEF Before, InQueue
<1>8. Before(writerQ[1].data, cur.data) /\ Before(writerQ[1].data, todo) /\ Increasing(writerQ[1].data)
  BY <1>4 DEF Row
<1>9. OnTheWay' = InQueue(writerQ') \cup Range(cur.data) \cup Range(todo)
  BY <1>1, <1>2, Ordering
<1>10. \A x \in Range(writerQ[1].data), y \in OnTheWay' : x < y
  BY <1>7, <1>8, <1>9 DEF Before
<1>11. OnTheWay = Range(Head(writerQ).data) \cup OnTheWay'
  BY <1>1, <1>2, <1>3, <1>9, Ordering
<1> QED BY <1>4, <1>8, <1>10, <1>11

LEMMA LastTakes ==
    ASSUME Typed, Row, Typed', FlushLast
    PROVE  /\ OnTheWay = Range(cur.data) \cup OnTheWay'
           /\ \A x \in Range(cur.data), y \in OnTheWay' : x < y
<1>1. /\ pBuffer.data = <<>> /\ writerQ = <<>> /\ UNCHANGED <<pBuffer, writerQ, todo>> /\ cur'.data = <<>>
  BY FlushLastLeaves DEF FlushLast, Typed, Hands
<1>2. InQueue(writerQ) = {}
  BY <1>1 DEF InQueue
<1>3. /\ OnTheWay = Range(pBuffer.data) \cup InQueue(writerQ) \cup Range(cur.data) \cup Range(todo)
      /\ OnTheWay' = Range(pBuffer.data) \cup InQueue(writerQ) \cup Range(cur'.data) \cup Range(todo)
  BY <1>1, OnTheWayIs
<1>4. OnTheWay' = Range(todo) /\ OnTheWay = Range(cur.data) \cup Range(todo)
  BY <1>1, <1>2, <1>3, Ordering
<1> QED BY <1>4 DEF Row, Before

LEMMA StopTakes ==
    ASSUME Typed, Row, Typed', StopWrite
    PROVE  /\ OnTheWay = Range(cur.data) \cup OnTheWay'
           /\ \A x \in Range(cur.data), y \in OnTheWay' : y < x
<1>1. /\ todo = <<>> /\ UNCHANGED <<pBuffer, writerQ, todo>> /\ cur'.data = <<>>
  BY StopWriteLeaves DEF StopWrite, Typed, Hands
<1>2. /\ OnTheWay = Range(pBuffer.data) \cup InQueue(writerQ) \cup Range(cur.data) \cup Range(todo)
      /\ OnTheWay' = Range(pBuffer.data) \cup InQueue(writerQ) \cup Range(cur'.data) \cup Range(todo)
  BY <1>1, OnTheWayIs
<1>3. OnTheWay' = Range(pBuffer.data) \cup InQueue(writerQ)
  BY <1>1, <1>2, Ordering
<1>4. OnTheWay = Range(cur.data) \cup OnTheWay'
  BY <1>1, <1>2, <1>3, Ordering
<1> QED BY <1>3, <1>4 DEF Row, Before, InQueue

LEMMA DropTakes ==
    ASSUME Typed, Row, Typed', CopyDropped
    PROVE  /\ OnTheWay = Range(todo) \cup OnTheWay'
           /\ \A x \in Range(todo), y \in OnTheWay' : y < x
<1>1. todo' = <<>> /\ UNCHANGED <<pBuffer, writerQ, cur>>
  BY DEF CopyDropped
<1>2. /\ OnTheWay = Range(pBuffer.data) \cup InQueue(writerQ) \cup Range(cur.data) \cup Range(todo)
      /\ OnTheWay' = Range(pBuffer.data) \cup InQueue(writerQ) \cup Range(cur.data) \cup Range(todo')
  BY <1>1, OnTheWayIs
<1>3. OnTheWay' = Range(pBuffer.data) \cup InQueue(writerQ) \cup Range(cur.data)
  BY <1>1, <1>2, Ordering
<1> QED BY <1>2, <1>3 DEF Row, Before, InQueue

LEMMA StillTakes ==
    ASSUME Typed, Typed', pBuffer'.data = pBuffer.data, cur'.data = cur.data, UNCHANGED <<writerQ, todo>>
    PROVE  OnTheWay' = OnTheWay
  BY OnTheWayIs

LEMMA PopTakes ==
    ASSUME Typed, Typed', Pop
    PROVE  OnTheWay' = OnTheWay
<1>1. CASE writerQ = <<>>
  BY <1>1, StillTakes DEF Pop
<1>2. CASE writerQ # <<>>
  <2>1. /\ pBuffer.data = <<>> /\ pBuffer' = Head(writerQ) /\ writerQ' = Tail(writerQ) /\ writerQ \in Seq(Chunk)
        /\ UNCHANGED <<cur, todo>>
    BY <1>2 DEF Pop, Typed, TypeOK, Hands
  <2>2. InQueue(writerQ) = Range(pBuffer'.data) \cup InQueue(writerQ')
    BY <1>2, <2>1, QueuePopped
  <2>3. /\ OnTheWay = Range(pBuffer.data) \cup InQueue(writerQ) \cup Range(cur.data) \cup Range(todo)
        /\ OnTheWay' = Range(pBuffer'.data) \cup InQueue(writerQ') \cup Range(cur.data) \cup Range(todo)
    BY <2>1, OnTheWayIs
  <2> QED BY <2>1, <2>2, <2>3, Ordering
<1> QED BY <1>1, <1>2

(* The books when data leaves. *)
Settled(data, done, gone) ==
    /\ Range(done) \cup gone = Range(data) /\ (Increasing(data) => Increasing(done))
    /\ lost' = lost \cup gone
    /\ Len(files') = Len(files)
    /\ \A f \in 1..Len(files) :
          /\ files'[f].bytes = files[f].bytes
          /\ files'[f].data = IF f = m_OutFd THEN files[f].data \o done ELSE files[f].data
          /\ Range(files'[f].data) = IF f = m_OutFd THEN Range(files[f].data) \cup Range(done)
                                                    ELSE Range(files[f].data)
    /\ m_OutFd = 0 => Range(done) = {}

LEMMA LeavesFiles ==
    ASSUME Typed, NEW data \in Seq(Byte), Leaves(data)
    PROVE  \E done \in Seq(Byte), gone \in SUBSET Byte : Settled(data, done, gone)
<1>1. PICK done \in Seq(Byte), gone \in SUBSET Byte :
        /\ Range(done) \cup gone = Range(data)
        /\ Increasing(data) => Increasing(done)
        /\ lost' = lost \cup gone
        /\ Filed(done)
  BY DEF Leaves
<1>2. \A f \in 1..Len(files) : files[f].data \in Seq(Byte)
  BY FilesTyped DEF Typed
<1>3. \A f \in 1..Len(files) : Range(files[f].data \o done) = Range(files[f].data) \cup Range(done)
  <2>1. \A q \in Seq(Byte) : Range(q \o done) = Range(q) \cup Range(done)
    BY JoinedRange
  <2> QED BY <1>2, <2>1
<1>4. \A f \in 1..Len(files) :
         Range(files'[f].data) = IF f = m_OutFd THEN Range(files[f].data) \cup Range(done)
                                                ELSE Range(files[f].data)
  BY <1>1, <1>3 DEF Filed
<1>5. m_OutFd = 0 => Range(done) = {}
  BY <1>1, Ordering DEF Filed
<1> QED BY <1>1, <1>4, <1>5 DEF Filed, Settled

LEMMA LeavesBooks ==
    ASSUME Typed, Accounts, NEW data \in Seq(Byte), Leaves(data), UNCHANGED <<m_OutFd, last>>,
           OnTheWay = Range(data) \cup OnTheWay', Range(data) \cap OnTheWay' = {}
    PROVE  Accounts'
<1>0. PICK done \in Seq(Byte), gone \in SUBSET Byte : Settled(data, done, gone)
  BY LeavesFiles
<1>1. /\ Range(done) \cup gone = Range(data)
      /\ lost' = lost \cup gone
      /\ Len(files') = Len(files)
      /\ \A f \in 1..Len(files) :
            Range(files'[f].data) = IF f = m_OutFd THEN Range(files[f].data) \cup Range(done)
                                                   ELSE Range(files[f].data)
      /\ m_OutFd = 0 => Range(done) = {}
  BY <1>0 DEF Settled
<1>2. m_OutFd \in 0..Len(files)
  BY DEF Typed, TypeOK
<1>3. InFiles' = InFiles \cup Range(done)
  <2>1. \A x : x \in InFiles' <=> \E f \in 1..Len(files) : x \in Range(files'[f].data)
    BY <1>1 DEF InFiles
  <2>2. \A x : x \in InFiles <=> \E f \in 1..Len(files) : x \in Range(files[f].data)
    BY DEF InFiles
  <2>3. CASE m_OutFd = 0
    BY <1>1, <2>1, <2>2, <2>3
  <2>4. CASE m_OutFd # 0
    <3>1. m_OutFd \in 1..Len(files)
      BY <1>2, <2>4
    <3> QED BY <1>1, <2>1, <2>2, <3>1
  <2> QED BY <2>3, <2>4
<1>4. 1..last' = OnTheWay' \cup lost' \cup InFiles'
  BY <1>1, <1>3 DEF Accounts
<1>5. \A f \in 1..Len(files') : Range(files'[f].data) \cap OnTheWay' = {}
  BY <1>1 DEF Accounts
<1>6. \A f, g \in 1..Len(files') : f # g => Disjoint(files'[f].data, files'[g].data)
  <2>1. \A f \in 1..Len(files) : Range(files[f].data) \cap Range(done) = {}
    BY <1>1 DEF Accounts
  <2> QED BY <1>1, <2>1 DEF Accounts, Disjoint
<1> QED BY <1>4, <1>5, <1>6 DEF Accounts

LEMMA KeptBooks ==
    ASSUME Accounts, OnTheWay' = OnTheWay, UNCHANGED <<lost, last>>,
           \A f \in 1..Len(files) : f \in 1..Len(files') /\ files'[f].data = files[f].data,
           \A f \in 1..Len(files') : f \in 1..Len(files) \/ files'[f].data = <<>>
    PROVE  Accounts'
<1>1. InFiles' = InFiles
  <2>1. \A x : x \in InFiles' <=> \E f \in 1..Len(files') : x \in Range(files'[f].data)
    BY DEF InFiles
  <2>2. \A x : x \in InFiles <=> \E f \in 1..Len(files) : x \in Range(files[f].data)
    BY DEF InFiles
  <2>3. Range(<<>>) = {}
    BY Ordering
  <2>4. \A x : x \in InFiles' <=> x \in InFiles
    BY <2>1, <2>2, <2>3
  <2> QED BY <2>4
<1>2. \A f \in 1..Len(files') : Range(files'[f].data) \cap OnTheWay' = {}
  BY Ordering DEF Accounts
<1>3. \A f, g \in 1..Len(files') : f # g => Disjoint(files'[f].data, files'[g].data)
  BY Ordering DEF Accounts, Disjoint
<1> QED BY <1>1, <1>2, <1>3 DEF Accounts

LEMMA InitAccounts == Init => Accounts /\ OpenFirst /\ Own
<1> SUFFICES ASSUME Init PROVE Accounts /\ OpenFirst /\ Own
  OBVIOUS
<1>1. Len(files) = 0 /\ last = 0 /\ lost = {} /\ m_OutFd = 0 /\ 1..0 = {} /\ Len(writerQ) = 0
  BY DEF Init
<1>2. InFiles = {}
  BY <1>1 DEF InFiles
<1>3. OnTheWay = {}
  <2>1. pBuffer.data = <<>> /\ cur.data = <<>> /\ todo = <<>>
    BY DEF Init, NoChunk
  <2>2. \A k : Stage(k) = StageOf(<<>>, writerQ, <<>>, <<>>, k)
    BY <2>1 DEF Stage, StageOf
  <2>3. OnTheWay = WayOf(<<>>, writerQ, <<>>, <<>>)
    BY <2>2 DEF WayOf, OnTheWay, Stages
  <2>4. InQueue(writerQ) = {}
    BY <1>1 DEF InQueue
  <2> QED BY <1>1, <2>3, <2>4, WayIs, Ordering
<1> QED BY <1>1, <1>2, <1>3 DEF Accounts, OpenFirst, Own

-----------------------------------------------------------------------------
(* What each step does to the row, to the books and to the open file. *)
Booked == Row /\ Accounts /\ OpenFirst /\ Own

LEMMA LeavesFirst ==
    ASSUME Typed, OpenFirst, NEW data \in Seq(Byte), Leaves(data), Increasing(data),
           UNCHANGED <<m_OutFd, upc>>,
           OnTheWay = Range(data) \cup OnTheWay', \A x \in Range(data), y \in OnTheWay' : x < y
    PROVE  OpenFirst'
<1>1. PICK done \in Seq(Byte), gone \in SUBSET Byte : Settled(data, done, gone)
  BY LeavesFiles
<1> SUFFICES ASSUME m_OutFd # 0, upc \notin {"stopWrite", "close"}
             PROVE  /\ Increasing(files'[m_OutFd].data)
                    /\ \A x \in Range(files'[m_OutFd].data), y \in OnTheWay' : x < y
  BY DEF OpenFirst
<1>2. m_OutFd \in 1..Len(files) /\ files[m_OutFd].data \in Seq(Byte)
  BY FilesTyped DEF Typed
<1> DEFINE q == files[m_OutFd].data
<1>3. /\ files'[m_OutFd].data = q \o done /\ Range(files'[m_OutFd].data) = Range(q) \cup Range(done)
      /\ Range(done) \subseteq Range(data) /\ Increasing(done)
  BY <1>1, <1>2 DEF Settled
<1>4. Increasing(q) /\ \A x \in Range(q), y \in OnTheWay : x < y
  BY DEF OpenFirst
<1>5. Before(q, done)
  BY <1>3, <1>4 DEF Before
<1>6. Increasing(q \o done)
  <2>1. q \in Seq(Byte)
    BY <1>2
  <2> HIDE DEF q
  <2> QED BY <1>3, <1>4, <1>5, <2>1, JoinedIncreasing
<1>7. \A x \in Range(q) \cup Range(done), y \in OnTheWay' : x < y
  BY <1>3, <1>4
<1> QED BY <1>3, <1>6, <1>7

LEMMA LeavesOwn ==
    ASSUME Typed, Own, NEW data \in Seq(Byte), Leaves(data), UNCHANGED <<m_OutFd, last>>
    PROVE  Own'
<1>1. PICK done \in Seq(Byte), gone \in SUBSET Byte : Settled(data, done, gone)
  BY LeavesFiles
<1>2. Len(files') = Len(files)
  BY <1>1 DEF Settled
<1>3. \A f \in 1..Len(files) :
         files'[f].bytes = files[f].bytes /\ (f # m_OutFd => Range(files'[f].data) = Range(files[f].data))
  BY <1>1 DEF Settled
<1>4. m_OutFd \in 0..Len(files) /\ Len(files) \in Nat
  BY FilesTyped DEF Typed
<1>5. ASSUME NEW f \in 1..Len(files), NEW g \in 1..Len(files), f < g
      PROVE  files'[g].bytes \cap Range(files'[f].data) = {}
  <2>1. f # m_OutFd
    BY <1>4, <1>5 DEF Own
  <2> QED BY <1>3, <1>5, <2>1 DEF Own
<1> QED BY <1>2, <1>3, <1>5 DEF Own

LEMMA KeptFirst ==
    ASSUME OpenFirst, Own, UNCHANGED <<m_OutFd, files, last>>, OnTheWay' \subseteq OnTheWay,
           upc' \notin {"stopWrite", "close"} => upc \notin {"stopWrite", "close"}
    PROVE  OpenFirst' /\ Own'
  BY DEF OpenFirst, Own

LEMMA ClosedFirst ==
    ASSUME Own, m_OutFd' = 0, UNCHANGED <<files, last>>
    PROVE  OpenFirst' /\ Own'
  BY DEF OpenFirst, Own

LEMMA ByteApart ==
    ASSUME Typed, Typed', NEW a \in Seq(Byte),
           (\A x \in Range(a), y \in OnTheWay' : x < y) \/ (\A x \in Range(a), y \in OnTheWay' : y < x)
    PROVE  Range(a) \cap OnTheWay' = {}
<1> DEFINE B == OnTheWay'
<1>1. B \in SUBSET Byte
  BY WayTyped
<1>2. (\A x \in Range(a), y \in B : x < y) \/ (\A x \in Range(a), y \in B : y < x)
  OBVIOUS
<1> HIDE DEF B
<1>3. Range(a) \cap B = {}
  BY <1>1, <1>2, Apart
<1> QED BY <1>3 DEF B

(* The thread files what it holds, or one buffer of the queue when it ends. *)
LEMMA ThreadBooked ==
    ASSUME Typed, Typed', Booked, ThreadWrite \/ FlushOne \/ FlushLast
    PROVE  Booked'
<1>1. CASE ThreadWrite
  <2>1. Leaves(pBuffer.data) /\ pBuffer'.data = <<>> /\ pBuffer.data \in Seq(Byte)
    BY <1>1, ThreadWriteLeaves, FilesTyped DEF Typed
  <2>2. UNCHANGED <<writerQ, cur, todo, m_OutFd, last, upc>>
    BY <1>1 DEF ThreadWrite
  <2>3. /\ OnTheWay = Range(pBuffer.data) \cup OnTheWay'
        /\ \A x \in Range(pBuffer.data), y \in OnTheWay' : x < y
    BY <2>1, <2>2, ThreadTakes DEF Booked
  <2>4. Row' /\ Increasing(pBuffer.data)
    BY <2>1, <2>2, RowShrinks DEF Booked, Row
  <2>5. Range(pBuffer.data) \cap OnTheWay' = {}
    BY <2>1, <2>3, ByteApart
  <2>6. Accounts'
    BY <2>1, <2>2, <2>3, <2>5, LeavesBooks DEF Booked
  <2>7. OpenFirst'
    BY <2>1, <2>2, <2>3, <2>4, LeavesFirst DEF Booked
  <2>8. Own'
    BY <2>1, <2>2, LeavesOwn DEF Booked
  <2> QED BY <2>4, <2>6, <2>7, <2>8 DEF Booked
<1>2. CASE FlushOne
  <2> DEFINE d == Head(writerQ).data
  <2>1. Leaves(d) /\ d \in Seq(Byte)
    BY <1>2, FlushOneLeaves, FirstChunk DEF FlushOne
  <2>2. UNCHANGED <<pBuffer, cur, todo, m_OutFd, last, upc>> /\ writerQ # <<>> /\ writerQ' = Tail(writerQ)
        /\ pBuffer.data = <<>>
    BY <1>2 DEF FlushOne, Typed, Hands
  <2>3. OnTheWay = Range(d) \cup OnTheWay' /\ (\A x \in Range(d), y \in OnTheWay' : x < y) /\ Increasing(d)
    BY <1>2, FlushTakes DEF Booked
  <2>4. Row'
    BY <2>2, RowPopped DEF Booked
  <2> HIDE DEF d
  <2>5. Range(d) \cap OnTheWay' = {}
    BY <2>1, <2>3, ByteApart
  <2>6. Accounts'
    BY <2>1, <2>2, <2>3, <2>5, LeavesBooks DEF Booked
  <2>7. OpenFirst'
    BY <2>1, <2>2, <2>3, LeavesFirst DEF Booked
  <2>8. Own'
    BY <2>1, <2>2, LeavesOwn DEF Booked
  <2> QED BY <2>4, <2>6, <2>7, <2>8 DEF Booked
<1>3. CASE FlushLast
  <2>1. Leaves(cur.data) /\ cur'.data = <<>> /\ cur.data \in Seq(Byte)
    BY <1>3, FlushLastLeaves, FilesTyped DEF Typed
  <2>2. UNCHANGED <<writerQ, pBuffer, todo, m_OutFd, last, upc>>
    BY <1>3 DEF FlushLast
  <2>3. /\ OnTheWay = Range(cur.data) \cup OnTheWay'
        /\ \A x \in Range(cur.data), y \in OnTheWay' : x < y
    BY <1>3, LastTakes DEF Booked
  <2>4. Row' /\ Increasing(cur.data)
    BY <2>1, <2>2, RowShrinks DEF Booked, Row
  <2>5. Range(cur.data) \cap OnTheWay' = {}
    BY <2>1, <2>3, ByteApart
  <2>6. Accounts'
    BY <2>1, <2>2, <2>3, <2>5, LeavesBooks DEF Booked
  <2>7. OpenFirst'
    BY <2>1, <2>2, <2>3, <2>4, LeavesFirst DEF Booked
  <2>8. Own'
    BY <2>1, <2>2, LeavesOwn DEF Booked
  <2> QED BY <2>4, <2>6, <2>7, <2>8 DEF Booked
<1> QED BY <1>1, <1>2, <1>3

(* Data that is given up, or written by the thread of Receive. *)
LEMMA OtherBooked ==
    ASSUME Typed, Typed', Booked, StopWrite \/ CopyDropped \/ TestFd
    PROVE  Booked'
<1>1. CASE StopWrite
  <2>1. Leaves(cur.data) /\ cur'.data = <<>> /\ cur.data \in Seq(Byte)
    BY <1>1, StopWriteLeaves, FilesTyped DEF Typed
  <2>2. UNCHANGED <<writerQ, pBuffer, todo, m_OutFd, last>> /\ upc' = "close"
    BY <1>1 DEF StopWrite
  <2>3. OnTheWay = Range(cur.data) \cup OnTheWay' /\ \A x \in Range(cur.data), y \in OnTheWay' : y < x
    BY <1>1, StopTakes DEF Booked
  <2>4. Row'
    BY <2>1, <2>2, RowShrinks DEF Booked
  <2>5. Range(cur.data) \cap OnTheWay' = {}
    BY <2>1, <2>3, ByteApart
  <2>6. Accounts'
    BY <2>1, <2>2, <2>3, <2>5, LeavesBooks DEF Booked
  <2>7. OpenFirst'
    BY <2>2 DEF OpenFirst
  <2>8. Own'
    BY <2>1, <2>2, LeavesOwn DEF Booked
  <2> QED BY <2>4, <2>6, <2>7, <2>8 DEF Booked
<1>2. CASE CopyDropped
  <2>1. Leaves(todo) /\ todo' = <<>> /\ todo \in Seq(Byte)
    BY <1>2, CopyDroppedLeaves, FilesTyped DEF Typed, CopyDropped
  <2>2. UNCHANGED <<writerQ, pBuffer, cur, m_OutFd, last, files>> /\ upc = "copy"
    BY <1>2 DEF CopyDropped
  <2>3. OnTheWay = Range(todo) \cup OnTheWay' /\ \A x \in Range(todo), y \in OnTheWay' : y < x
    BY <1>2, DropTakes DEF Booked
  <2>4. Row'
    BY <2>1, <2>2, RowShrinks DEF Booked
  <2>5. Range(todo) \cap OnTheWay' = {}
    BY <2>1, <2>3, ByteApart
  <2>6. Accounts'
    BY <2>1, <2>2, <2>3, <2>5, LeavesBooks DEF Booked
  <2>7. OpenFirst' /\ Own'
    BY <2>2, <2>3, KeptFirst DEF Booked
  <2> QED BY <2>4, <2>6, <2>7 DEF Booked
<1>3. CASE TestFd /\ m_OutFd = 0
  <2>1. Leaves(pBuffer.data) /\ pBuffer'.data = <<>> /\ pBuffer.data \in Seq(Byte)
    BY <1>3, TestFdLeaves, FilesTyped DEF Typed
  <2>2. UNCHANGED <<writerQ, cur, todo, m_OutFd, last, upc, files>>
    BY <1>3 DEF TestFd
  <2>3. /\ OnTheWay = Range(pBuffer.data) \cup OnTheWay'
        /\ \A x \in Range(pBuffer.data), y \in OnTheWay' : x < y
    BY <2>1, <2>2, ThreadTakes DEF Booked
  <2>4. Row'
    BY <2>1, <2>2, RowShrinks DEF Booked
  <2>5. Range(pBuffer.data) \cap OnTheWay' = {}
    BY <2>1, <2>3, ByteApart
  <2>6. Accounts'
    BY <2>1, <2>2, <2>3, <2>5, LeavesBooks DEF Booked
  <2>7. OpenFirst' /\ Own'
    BY <2>2, <2>3, KeptFirst DEF Booked
  <2> QED BY <2>4, <2>6, <2>7 DEF Booked
<1>4. CASE TestFd /\ m_OutFd # 0
  <2>1. UNCHANGED <<pBuffer, lost, writerQ, cur, todo, m_OutFd, last, upc, files>>
    BY <1>4 DEF TestFd
  <2>2. OnTheWay' = OnTheWay
    BY <2>1, StillTakes
  <2> QED BY <2>1, <2>2, RowShrinks, KeptBooks, KeptFirst DEF Booked
<1> QED BY <1>1, <1>2, <1>3, <1>4

(* Data that moves along the row, and steps that move none. *)
LEMMA MovedBooked ==
    ASSUME Typed, Typed', Booked, CopyRest \/ CopyFull \/ CopyPost \/ Pop \/ GiveBack
    PROVE  Booked'
<1>1. UNCHANGED <<m_OutFd, files, last, lost>> /\ (upc' \in {"idle", "copy", "post"} \/ upc' = upc)
      /\ (upc \in {"copy", "post"} \/ upc' = upc)
  BY DEF CopyRest, CopyFull, CopyPost, Pop, GiveBack
<1>2. Row' /\ OnTheWay' = OnTheWay
  <2>1. CASE CopyRest
    BY <2>1, RowCopied DEF Booked
  <2>2. CASE CopyFull
    BY <2>2, RowFilled DEF Booked
  <2>3. CASE CopyPost
    <3>1. cur'.data = cur.data /\ UNCHANGED <<writerQ, pBuffer, todo>>
      BY <2>3 DEF CopyPost, Typed, Hands
    <3> QED BY <3>1, RowShrinks, StillTakes DEF Booked
  <2>4. CASE Pop
    <3>1. OnTheWay' = OnTheWay
      BY <2>4, PopTakes
    <3>2. CASE writerQ = <<>>
      BY <2>4, <3>1, <3>2, RowShrinks DEF Pop, Booked
    <3>3. CASE writerQ # <<>>
      <4>1. pBuffer.data = <<>> /\ pBuffer' = Head(writerQ) /\ writerQ' = Tail(writerQ) /\ UNCHANGED <<cur, todo>>
        BY <2>4, <3>3 DEF Pop, Typed, Hands
      <4> QED BY <3>1, <3>3, <4>1, RowPopped DEF Booked
    <3> QED BY <3>2, <3>3
  <2>5. CASE GiveBack
    <3>1. pBuffer'.data = pBuffer.data /\ UNCHANGED <<writerQ, cur, todo>>
      BY <2>5 DEF GiveBack, Typed, Hands, NoChunk
    <3> QED BY <3>1, RowShrinks, StillTakes DEF Booked
  <2> QED BY <2>1, <2>2, <2>3, <2>4, <2>5
<1>3. Accounts'
  BY <1>1, <1>2, KeptBooks DEF Booked
<1>4. OpenFirst' /\ Own'
  BY <1>1, <1>2, KeptFirst DEF Booked
<1> QED BY <1>2, <1>3, <1>4 DEF Booked

LEMMA StillBooked ==
    ASSUME Typed, Typed', Booked, UNCHANGED <<pBuffer, writerQ, cur, todo, files, last, lost>>,
           \/ m_OutFd' = 0
           \/ /\ m_OutFd' = m_OutFd
              /\ upc' \notin {"stopWrite", "close"} => upc \notin {"stopWrite", "close"}
    PROVE  Booked'
<1>1. OnTheWay' = OnTheWay
  BY StillTakes
<1>2. Row'
  BY RowShrinks DEF Booked
<1>3. Accounts'
  BY <1>1, KeptBooks DEF Booked
<1>4. OpenFirst' /\ Own'
  BY <1>1, KeptFirst, ClosedFirst DEF Booked
<1> QED BY <1>2, <1>3, <1>4 DEF Booked

(* A new file has no data, and what is received next is newer than all of it. *)
LEMMA StartedBooked ==
    ASSUME Typed, Typed', Booked, NEW kind \in Kind, StartFlag(kind)
    PROVE  Booked'
<1>1. PICK ok \in BOOLEAN :
        /\ Len(files') = Len(files) + 1 /\ Len(files) \in Nat
        /\ \A f \in 1..Len(files) : f \in 1..Len(files') /\ files'[f] = files[f]
        /\ \A f \in 1..Len(files') : f \in 1..Len(files) \/ f = Len(files) + 1
        /\ files'[Len(files')] = [kind |-> kind, opened |-> ok, bytes |-> {}, data |-> <<>>]
        /\ m_OutFd' = IF ok THEN Len(files') ELSE 0
  BY StartedFiles
<1>2. files'[Len(files')].data = <<>> /\ files'[Len(files')].bytes = {}
  BY <1>1
<1>3. UNCHANGED <<pBuffer, writerQ, cur, todo, last, lost>>
  BY DEF StartFlag
<1>4. OnTheWay' = OnTheWay /\ Row'
  BY <1>3, StillTakes, RowShrinks DEF Booked
<1>5. Accounts'
  BY <1>1, <1>2, <1>3, <1>4, KeptBooks DEF Booked
<1>6. OpenFirst'
  BY <1>1, <1>2, Ordering DEF OpenFirst
<1>7. Own'
  <2>1. \A f \in 1..Len(files') : files'[f].bytes \subseteq 1..last'
    BY <1>1, <1>2, <1>3 DEF Booked, Own
  <2>2. m_OutFd' # 0 => m_OutFd' = Len(files')
    BY <1>1
  <2>3. ASSUME NEW f \in 1..Len(files'), NEW g \in 1..Len(files'), f < g
        PROVE  files'[g].bytes \cap Range(files'[f].data) = {}
    <3>1. CASE g = Len(files')
      BY <1>2, <3>1
    <3>2. CASE g # Len(files')
      <4>1. f \in 1..Len(files) /\ g \in 1..Len(files)
        BY <1>1, <2>3, <3>2
      <4> QED BY <1>1, <2>3, <4>1 DEF Booked, Own
    <3> QED BY <3>1, <3>2
  <2> QED BY <2>1, <2>2, <2>3 DEF Own
<1> QED BY <1>4, <1>5, <1>6, <1>7 DEF Booked

LEMMA SampledBooked ==
    ASSUME Typed, Typed', Booked, NEW size \in Sizes, StreamSample(size)
    PROVE  Booked'
<1>1. last \in Nat /\ size \in Nat /\ m_OutFd \in 0..Len(files)
  BY SampleAssumption DEF Typed, TypeOK
<1> DEFINE new == (last + 1)..(last + size)
<1>2. /\ Len(files') = Len(files)
      /\ \A f \in 1..Len(files) :
            /\ files'[f].data = files[f].data
            /\ files'[f].bytes = IF f = m_OutFd THEN files[f].bytes \cup new ELSE files[f].bytes
  BY SampledFiles DEF SameFiles
<1>3. OnTheWay \subseteq 1..last /\ lost \subseteq 1..last /\ InFiles \subseteq 1..last
  BY DEF Booked, Accounts
<1>4. Row' /\ OnTheWay' = OnTheWay \cup new
  BY <1>3, RowSampled DEF Booked
<1>5. last' = last + size /\ UNCHANGED <<lost, m_OutFd>> /\ upc = "idle"
  BY DEF StreamSample
<1>6. 1..(last + size) = 1..last \cup new /\ (\A x \in 1..last, y \in new : x < y)
  BY <1>1
<1>7. 1..last \cap new = {}
  BY <1>1
<1> HIDE DEF new
<1>8. \A f \in 1..Len(files) : Range(files[f].data) \subseteq 1..last
  BY <1>3 DEF InFiles
<1>9. InFiles' = InFiles
  <2>1. \A x : x \in InFiles' <=> \E f \in 1..Len(files) : x \in Range(files'[f].data)
    BY <1>2 DEF InFiles
  <2>2. \A x : x \in InFiles <=> \E f \in 1..Len(files) : x \in Range(files[f].data)
    BY DEF InFiles
  <2> QED BY <1>2, <2>1, <2>2
<1>10. Accounts'
  <2>1. 1..last' = OnTheWay' \cup lost' \cup InFiles'
    BY <1>4, <1>5, <1>6, <1>9 DEF Booked, Accounts
  <2>2. \A f \in 1..Len(files') : Range(files'[f].data) \cap OnTheWay' = {}
    BY <1>2, <1>4, <1>7, <1>8 DEF Booked, Accounts
  <2>3. \A f, g \in 1..Len(files') : f # g => Disjoint(files'[f].data, files'[g].data)
    BY <1>2 DEF Booked, Accounts
  <2> QED BY <2>1, <2>2, <2>3 DEF Accounts
<1>11. OpenFirst'
  <2> SUFFICES ASSUME m_OutFd # 0
               PROVE  /\ Increasing(files'[m_OutFd].data)
                      /\ \A x \in Range(files'[m_OutFd].data), y \in OnTheWay' : x < y
    BY <1>5 DEF OpenFirst
  <2>0. m_OutFd \in 1..Len(files)
    BY <1>1
  <2>1. m_OutFd \in 1..Len(files) /\ files'[m_OutFd].data = files[m_OutFd].data
    BY <1>2, <2>0
  <2>2. Increasing(files[m_OutFd].data) /\ \A x \in Range(files[m_OutFd].data), y \in OnTheWay : x < y
    BY <1>5 DEF Booked, OpenFirst
  <2>3. \A x \in Range(files[m_OutFd].data), y \in new : x < y
    BY <1>6, <1>8, <2>1
  <2> QED BY <1>4, <2>1, <2>2, <2>3
<1>12. Own'
  <2>1. \A f \in 1..Len(files') : files'[f].bytes \subseteq 1..last'
    BY <1>2, <1>5, <1>6 DEF Booked, Own
  <2>2. ASSUME NEW f \in 1..Len(files), NEW g \in 1..Len(files), f < g
        PROVE  files'[g].bytes \cap Range(files'[f].data) = {}
    <3>1. files'[g].bytes \subseteq files[g].bytes \cup new /\ files'[f].data = files[f].data
      BY <1>2
    <3>2. files[g].bytes \cap Range(files[f].data) = {}
      BY <2>2 DEF Booked, Own
    <3> QED BY <1>7, <1>8, <3>1, <3>2
  <2>3. m_OutFd' # 0 => m_OutFd' = Len(files')
    BY <1>2, <1>5 DEF Booked, Own
  <2> QED BY <1>2, <2>1, <2>2, <2>3 DEF Own
<1> QED BY <1>4, <1>10, <1>11, <1>12 DEF Booked

LEMMA StepBooked == Typed /\ Typed' /\ Booked /\ [Next]_vars => Booked'
<1> SUFFICES ASSUME Typed, Typed', Booked, [Next]_vars PROVE Booked'
  OBVIOUS
<1>1. ASSUME NEW kind \in Kind, StartFlag(kind) PROVE Booked'
  BY <1>1, StartedBooked
<1>2. ASSUME NEW size \in Sizes, StreamSample(size) PROVE Booked'
  BY <1>2, SampledBooked
<1>3. ASSUME NEW kind \in Kind, StopFlag(kind) PROVE Booked'
  BY <1>3, StillBooked DEF StopFlag
<1>4. CASE StopWaited
  BY <1>4, StillBooked DEF StopWaited
<1>5. CASE StopClose \/ ExitClose
  BY <1>5, StillBooked DEF StopClose, ExitClose
<1>6. CASE LoopTest \/ Pend \/ Wake
  BY <1>6, StillBooked DEF LoopTest, Pend, Wake
<1>7. CASE Control
  BY <1>7, StillBooked DEF Control, Run, Stop, StopPost, Join
<1>8. CASE UNCHANGED vars
  BY <1>8, StillBooked DEF vars
<1>9. CASE CopyRest \/ CopyFull \/ CopyPost \/ Pop \/ GiveBack
  BY <1>9, MovedBooked
<1>10. CASE StopWrite \/ CopyDropped \/ TestFd
  BY <1>10, OtherBooked
<1>11. CASE ThreadWrite \/ FlushOne \/ FlushLast
  BY <1>11, ThreadBooked
<1> QED
  BY <1>1, <1>2, <1>3, <1>4, <1>5, <1>6, <1>7, <1>8, <1>9, <1>10, <1>11
     DEF Next, Receive, Received, ThreadLoop

(* The invariant the three theorems share. *)
Whole == Typed /\ Threads /\ Booked

LEMMA InitWhole == Init => Whole
  BY InitTyped, InitThreads, InitRow, InitAccounts DEF Whole, Booked
LEMMA StepWhole == Whole /\ [Next]_vars => Whole'
  BY StepTyped, StepThreads, StepBooked DEF Whole

(* A byte given to Receive is never in two places, in none only where the     *)
(* code gives it up, and never in a file older than its own: no interleaving  *)
(* of the two threads loses or doubles one.                                   *)
THEOREM NoneLostOrTwice == Spec => []BytesAccounted
<1>1. Whole => BytesAccounted
  <2> SUFFICES ASSUME Typed, Accounts, Own PROVE BytesAccounted
    BY DEF Whole, Booked
  <2>1. DOMAIN files = 1..Len(files)
    BY FilesTyped DEF Typed
  <2>2. \A f, g \in DOMAIN files : f < g => files[g].bytes \cap Range(files[f].data) = {}
    BY <2>1 DEF Own
  <2> QED BY <2>1, <2>2 DEF Accounts, BytesAccounted, InFiles
<1> QED BY InitWhole, StepWhole, <1>1, PTL DEF Spec

(* Until a stop flag overtakes the writer, the open file and what is on its   *)
(* way to it are one increasing row of bytes.                                 *)
THEOREM FiledInOrder == Spec => []OpenFileInOrder
<1>1. Whole => OpenFileInOrder
  <2> SUFFICES ASSUME Typed, Row, OpenFirst, m_OutFd # 0, upc \notin {"stopWrite", "close"}
               PROVE  /\ Increasing(files[m_OutFd].data)
                      /\ \A k \in Stages :
                            /\ Increasing(Stage(k))
                            /\ Before(files[m_OutFd].data, Stage(k))
                            /\ \A l \in Stages : k < l => Before(Stage(k), Stage(l))
    BY DEF Whole, Booked, OpenFileInOrder
  <2> DEFINE n == Len(writerQ)
  <2>1. n \in Nat
    BY DEF Typed, TypeOK
  <2>2. /\ Stage(0) = pBuffer.data /\ (\A k \in 1..n : Stage(k) = writerQ[k].data)
        /\ Stage(n + 1) = cur.data /\ Stage(n + 2) = todo
        /\ \A k \in Stages : k = 0 \/ k \in 1..n \/ k = n + 1 \/ k = n + 2
    <3>1. \A k : Stage(k) = StageOf(pBuffer.data, writerQ, cur.data, todo, k)
      BY DEF Stage, StageOf
    <3>2. Stage(0) = pBuffer.data /\ Stage(n + 1) = cur.data /\ Stage(n + 2) = todo
      BY <2>1, <3>1, Places
    <3>3. ASSUME NEW k \in 1..n PROVE Stage(k) = writerQ[k].data
      <4>1. k # 0
        OBVIOUS
      <4> QED BY <4>1 DEF Stage
    <3>4. \A k \in Stages : k = 0 \/ k \in 1..n \/ k = n + 1 \/ k = n + 2
      BY <2>1 DEF Stages
    <3> QED BY <3>2, <3>3, <3>4
  <2>3. \A k \in Stages : Increasing(Stage(k))
    BY <2>2 DEF Row
  <2>4. ASSUME NEW k \in Stages PROVE Before(files[m_OutFd].data, Stage(k))
    <3>1. Range(Stage(k)) \subseteq OnTheWay
      BY DEF OnTheWay
    <3> QED BY <3>1 DEF OpenFirst, Before
  <2>5. ASSUME NEW k \in Stages, NEW l \in Stages, k < l PROVE Before(Stage(k), Stage(l))
    <3>1. l # 0 /\ (k = n + 1 => l = n + 2) /\ k # n + 2 /\ (l \in 1..n => k = 0 \/ k \in 1..n)
      BY <2>1, <2>5 DEF Stages
    <3>2. CASE l = n + 2
      BY <2>2, <3>1, <3>2 DEF Row
    <3>3. CASE l = n + 1
      BY <2>1, <2>2, <2>5, <3>1, <3>3 DEF Row
    <3>4. CASE l \in 1..n
      BY <2>2, <2>5, <3>1, <3>4 DEF Row
    <3> QED BY <2>2, <3>1, <3>2, <3>3, <3>4
  <2>6. Increasing(files[m_OutFd].data)
    BY DEF OpenFirst
  <2> QED BY <2>3, <2>4, <2>5, <2>6
<1> QED BY InitWhole, StepWhole, <1>1, PTL DEF Spec

(* Stop loses nothing: when the thread is about to close the file, everything *)
(* received for it is in it, but for what was given up on the way.            *)
THEOREM AllFlushed == Spec => []FlushedAtStop
<1>1. Whole => FlushedAtStop
  <2> SUFFICES ASSUME Typed, Threads, Accounts, Own, tpc = "closing", m_OutFd # 0
               PROVE  files[m_OutFd].bytes \subseteq Range(files[m_OutFd].data) \cup lost
    BY DEF Whole, Booked, FlushedAtStop
  <2>1. pBuffer.data = <<>> /\ writerQ = <<>> /\ cur.data = <<>> /\ todo = <<>>
    BY DEF Typed, Hands, Threads
  <2>2. OnTheWay = {}
    <3>1. InQueue(writerQ) = {} /\ Len(writerQ) \in Nat
      BY <2>1 DEF InQueue
    <3>2. \A k : Stage(k) = StageOf(<<>>, writerQ, <<>>, <<>>, k)
      BY <2>1 DEF Stage, StageOf
    <3>3. OnTheWay = WayOf(<<>>, writerQ, <<>>, <<>>)
      BY <3>2 DEF WayOf, OnTheWay, Stages
    <3> QED BY <3>1, <3>3, WayIs, Ordering
  <2>3. m_OutFd \in 1..Len(files)
    BY DEF Typed, TypeOK
  <2>4. files[m_OutFd].bytes \subseteq lost \cup InFiles
    BY <2>2, <2>3 DEF Own, Accounts
  <2>5. files[m_OutFd].bytes \cap InFiles \subseteq Range(files[m_OutFd].data)
    <3>1. m_OutFd = Len(files) /\ Len(files) \in Nat
      BY FilesTyped DEF Own, Typed
    <3>2. \A f \in 1..Len(files) : f = m_OutFd \/ f < m_OutFd
      BY <3>1
    <3> QED BY <2>3, <3>2 DEF Own, InFiles
  <2> QED BY <2>4, <2>5
<1> QED BY InitWhole, StepWhole, <1>1, PTL DEF Spec
=============================================================================
