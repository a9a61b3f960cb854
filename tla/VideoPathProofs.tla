--------------------------- MODULE VideoPathProofs ---------------------------
(***************************************************************************)
(* Theorems about the way of a picture from the camera to the encoder, for *)
(* any number of samples, any sampling of the motion detector and any      *)
(* number of calls: types, the references to the samples, the memory of    *)
(* the camera and its supply.                                              *)
(***************************************************************************)
EXTENDS VideoPath, FiniteSetTheorems, SequenceTheorems, TLAPS

-----------------------------------------------------------------------------
(***************************************************************************)
(* Queues, by how often a sample is in them.                               *)
(***************************************************************************)
(* A condition as the number that it adds to a count.                      *)
B(b) == IF b THEN 1 ELSE 0

LEMMA UpTo ==
    ASSUME NEW n \in Nat
    PROVE  IsFiniteSet(1..n) /\ Cardinality(1..n) = n
<1>1. IsFiniteSet(1..n) /\ Cardinality(1..n) = IF 1 > n THEN 0 ELSE n - 1 + 1
  BY FS_Interval, 1 \in Int, n \in Int, Zenon
<1> QED BY <1>1

(* How often a sample is in a queue, after a push, a pop, or a push that   *)
(* keeps the queue sorted.                                                 *)
LEMMA TimesNat ==
    ASSUME NEW S, NEW q \in Seq(S), NEW x
    PROVE  /\ IsFiniteSet({i \in DOMAIN q : q[i] = x})
           /\ Times(x, q) \in Nat
           /\ Times(x, q) = 0 <=> \A i \in 1..Len(q) : q[i] # x
<1>1. Len(q) \in Nat /\ DOMAIN q = 1..Len(q)
  OBVIOUS
<1>2. IsFiniteSet(1..Len(q))
  BY <1>1, UpTo
<1>3. IsFiniteSet({i \in DOMAIN q : q[i] = x})
  BY <1>1, <1>2, FS_Subset
<1>4. Times(x, q) \in Nat
  BY <1>3, FS_CardinalityType DEF Times
<1>5. Times(x, q) = 0 <=> {i \in DOMAIN q : q[i] = x} = {}
  BY <1>3, FS_EmptySet DEF Times
<1> QED BY <1>1, <1>3, <1>4, <1>5

LEMMA TimesNone == \A x : Times(x, <<>>) = 0
<1> TAKE x
<1>1. {i \in DOMAIN <<>> : <<>>[i] = x} = {}
  OBVIOUS
<1> QED BY <1>1, FS_EmptySet DEF Times

LEMMA TimesOne == \A x, y : Times(x, <<y>>) = B(x = y)
<1> TAKE x, y
<1>1. DOMAIN <<y>> = {1} /\ <<y>>[1] = y
  OBVIOUS
<1>2. CASE x = y
  <2>1. {i \in DOMAIN <<y>> : <<y>>[i] = x} = {1}
    BY <1>1, <1>2
  <2> QED BY <2>1, <1>2, FS_Singleton DEF Times, B
<1>3. CASE x # y
  <2>1. {i \in DOMAIN <<y>> : <<y>>[i] = x} = {}
    BY <1>1, <1>3
  <2> QED BY <2>1, <1>3, FS_EmptySet DEF Times, B
<1> QED BY <1>2, <1>3

LEMMA CardDisjoint ==
    ASSUME NEW A, NEW E, IsFiniteSet(A), IsFiniteSet(E), A \cap E = {}
    PROVE  Cardinality(A \cup E) = Cardinality(A) + Cardinality(E)
<1>1. Cardinality(A \cup E) = Cardinality(A) + Cardinality(E) - Cardinality(A \cap E)
  BY FS_Union, Zenon
<1>2. Cardinality(A) \in Nat /\ Cardinality(E) \in Nat
  BY FS_CardinalityType
<1>3. Cardinality(A \cap E) = 0
  BY FS_EmptySet
<1> QED BY <1>1, <1>2, <1>3

LEMMA TimesJoined ==
    ASSUME NEW S, NEW a \in Seq(S), NEW b \in Seq(S), NEW x
    PROVE  Times(x, a \o b) = Times(x, a) + Times(x, b)
<1> DEFINE c == a \o b
           I(q) == {i \in DOMAIN q : q[i] = x}
           U == {i \in I(c) : i > Len(a)}
           f == [i \in I(b) |-> i + Len(a)]
<1>1. /\ Len(a) \in Nat /\ Len(b) \in Nat /\ DOMAIN a = 1..Len(a) /\ DOMAIN b = 1..Len(b)
      /\ c \in Seq(S) /\ Len(c) = Len(a) + Len(b) /\ DOMAIN c = 1..(Len(a) + Len(b))
      /\ \A i \in 1..(Len(a) + Len(b)) : c[i] = IF i <= Len(a) THEN a[i] ELSE b[i - Len(a)]
  OBVIOUS
<1> HIDE DEF c
<1>2. I(c) = I(a) \cup U /\ I(a) \cap U = {}
  BY <1>1
<1>3. IsFiniteSet(I(a)) /\ IsFiniteSet(I(b)) /\ Times(x, a) \in Nat /\ Times(x, b) \in Nat
  <2>1. IsFiniteSet(I(a)) /\ Times(x, a) \in Nat
    BY TimesNat
  <2>2. IsFiniteSet(I(b)) /\ Times(x, b) \in Nat
    BY TimesNat
  <2> QED BY <2>1, <2>2
<1>4. f \in Bijection(I(b), U)
  <2>1. \A i \in I(b) : i \in 1..Len(b) /\ f[i] = i + Len(a) /\ f[i] \in U
    BY <1>1
  <2>2. f \in Injection(I(b), U)
    BY <1>1, <2>1 DEF Injection, IsInjective
  <2>3. ASSUME NEW j \in U PROVE \E i \in I(b) : f[i] = j
    <3>1. j \in 1..(Len(a) + Len(b)) /\ c[j] = x /\ j > Len(a)
      BY <1>1
    <3>2. j - Len(a) \in 1..Len(b) /\ b[j - Len(a)] = x /\ (j - Len(a)) + Len(a) = j
      BY <1>1, <3>1
    <3>3. j - Len(a) \in I(b)
      BY <1>1, <3>2
    <3> QED BY <3>2, <3>3
  <2>4. f \in Surjection(I(b), U)
    BY <2>1, <2>3 DEF Surjection
  <2> QED BY <2>2, <2>4 DEF Bijection
<1>5. ExistsBijection(I(b), U)
  BY <1>4 DEF ExistsBijection
<1>6. IsFiniteSet(U) /\ Cardinality(U) = Cardinality(I(b))
  BY <1>3, <1>5, FS_Bijection
<1>7. Times(x, a) = Cardinality(I(a)) /\ Times(x, b) = Cardinality(I(b)) /\ Times(x, c) = Cardinality(I(c))
  BY DEF Times
<1> HIDE DEF I, U, f
<1>8. Cardinality(I(c)) = Cardinality(I(a)) + Cardinality(U)
  <2>1. Cardinality(I(a) \cup U) = Cardinality(I(a)) + Cardinality(U)
    BY <1>2, <1>3, <1>6, CardDisjoint
  <2> QED BY <1>2, <2>1
<1>9. Times(x, c) = Times(x, a) + Times(x, b)
  BY <1>6, <1>7, <1>8
<1> QED BY <1>9 DEF c

LEMMA TimesPushed ==
    ASSUME NEW S, NEW q \in Seq(S), NEW y \in S, NEW x
    PROVE  /\ Append(q, y) \in Seq(S) /\ Len(Append(q, y)) = Len(q) + 1
           /\ Times(x, Append(q, y)) = Times(x, q) + B(x = y)
<1>1. Append(q, y) = q \o <<y>> /\ <<y>> \in Seq(S)
  OBVIOUS
<1>2. Times(x, q \o <<y>>) = Times(x, q) + Times(x, <<y>>)
  BY <1>1, TimesJoined
<1> QED BY <1>1, <1>2, TimesOne

LEMMA TimesPopped ==
    ASSUME NEW S, NEW q \in Seq(S), q # <<>>, NEW x
    PROVE  /\ Head(q) \in S /\ Tail(q) \in Seq(S) /\ Len(q) = Len(Tail(q)) + 1
           /\ Times(x, q) = Times(x, Tail(q)) + B(x = Head(q))
<1>1. Head(q) \in S /\ Tail(q) \in Seq(S) /\ Len(q) = Len(Tail(q)) + 1
  OBVIOUS
<1>2. q = <<Head(q)>> \o Tail(q) /\ <<Head(q)>> \in Seq(S)
  OBVIOUS
<1>3. Times(x, <<Head(q)>> \o Tail(q)) = Times(x, <<Head(q)>>) + Times(x, Tail(q))
  BY <1>1, <1>2, TimesJoined
<1>4. Times(x, Tail(q)) \in Nat /\ B(x = Head(q)) \in Nat
  BY <1>1, TimesNat DEF B
<1>5. Times(x, <<Head(q)>>) = B(x = Head(q))
  BY TimesOne
<1>6. Times(x, q) = B(x = Head(q)) + Times(x, Tail(q))
  BY <1>2, <1>3, <1>5
<1> QED BY <1>1, <1>4, <1>6

LEMMA TimesSorted ==
    ASSUME NEW q \in Seq(Sample), NEW y \in Sample, NEW x
    PROVE  /\ SortedIn(y, q) \in Seq(Sample) /\ Len(SortedIn(y, q)) = Len(q) + 1
           /\ Times(x, SortedIn(y, q)) = Times(x, q) + B(x = y)
<1> DEFINE I == {i \in DOMAIN q : q[i] < y}
           k == Cardinality(I) + 1
           a == SubSeq(q, 1, k - 1)
           b == SubSeq(q, k, Len(q))
<1>1. Len(q) \in Nat /\ DOMAIN q = 1..Len(q)
  OBVIOUS
<1>2. IsFiniteSet(1..Len(q)) /\ Cardinality(1..Len(q)) = Len(q)
  BY <1>1, UpTo
<1>3. Cardinality(I) \in Nat /\ Cardinality(I) <= Len(q)
  BY <1>1, <1>2, FS_Subset, FS_CardinalityType
<1>4. k \in 1..(Len(q) + 1)
  BY <1>1, <1>3
<1> HIDE DEF k
<1>5. a \in Seq(Sample) /\ b \in Seq(Sample) /\ q = a \o b /\ <<y>> \in Seq(Sample)
  <2>1. \A i \in 1..(k - 1) : q[i] \in Sample
    BY <1>1, <1>4
  <2>2. \A i \in k..Len(q) : q[i] \in Sample
    BY <1>1, <1>4
  <2>3. a \in Seq(Sample)
    BY <1>4, <2>1, SubSeqProperties
  <2>4. b \in Seq(Sample)
    BY <1>1, <1>4, <2>2, SubSeqProperties
  <2>5. k - 1 \in 1 - 1..Len(q) /\ Len(q) \in k - 1..Len(q) /\ (k - 1) + 1 = k /\ 1 \in 1..Len(q) + 1
    BY <1>1, <1>4
  <2>6. SubSeq(q, 1, k - 1) \o SubSeq(q, (k - 1) + 1, Len(q)) = SubSeq(q, 1, Len(q))
    BY <2>5, ConcatAdjacentSubSeq
  <2>7. SubSeq(q, 1, Len(q)) = q
    BY SubSeqFull
  <2>8. a \o b = SubSeq(q, 1, Len(q))
    BY <2>5, <2>6, Zenon
  <2>9. <<y>> \in Seq(Sample)
    OBVIOUS
  <2> QED BY <2>3, <2>4, <2>7, <2>8, <2>9, Zenon
<1> HIDE DEF a, b
<1>6. Len(q) = Len(a) + Len(b) /\ Len(a) \in Nat /\ Len(b) \in Nat
  BY <1>5
<1>7. (a \o <<y>>) \o b \in Seq(Sample) /\ Len((a \o <<y>>) \o b) = Len(a) + 1 + Len(b)
      /\ a \o <<y>> \in Seq(Sample)
  BY <1>5
<1>8. SortedIn(y, q) = (a \o <<y>>) \o b
  BY DEF SortedIn, InsertAt, a, b, k
<1>9. Times(x, (a \o <<y>>) \o b) = Times(x, a) + B(x = y) + Times(x, b)
  <2>1. Times(x, (a \o <<y>>) \o b) = Times(x, a \o <<y>>) + Times(x, b)
    BY <1>5, <1>7, TimesJoined
  <2>2. Times(x, a \o <<y>>) = Times(x, a) + Times(x, <<y>>)
    BY <1>5, TimesJoined
  <2> QED BY <2>1, <2>2, TimesOne
<1>10. Times(x, q) = Times(x, a) + Times(x, b)
  BY <1>5, TimesJoined
<1>11. Times(x, a) \in Nat /\ Times(x, b) \in Nat /\ B(x = y) \in Nat
  BY <1>5, TimesNat DEF B
<1> QED BY <1>6, <1>7, <1>8, <1>9, <1>10, <1>11

(* The queue of a set, each member once. *)
LEMMA OnceEach ==
    ASSUME NEW T, NEW q \in Seq(T), \A x \in T : Times(x, q) <= 1
    PROVE  \A i, j \in 1..Len(q) : q[i] = q[j] => i = j
<1> SUFFICES ASSUME NEW i \in 1..Len(q), NEW j \in 1..Len(q), q[i] = q[j], i # j PROVE FALSE
  OBVIOUS
<1> DEFINE I == {k \in DOMAIN q : q[k] = q[i]}
<1>1. Len(q) \in Nat /\ DOMAIN q = 1..Len(q) /\ q[i] \in T
  OBVIOUS
<1>2. {i, j} \in SUBSET I
  BY <1>1
<1>3. IsFiniteSet(I) /\ Cardinality(I) \in Nat
  BY <1>1, TimesNat, FS_CardinalityType
<1>4. Cardinality({i, j}) <= Cardinality(I)
  BY <1>2, <1>3, FS_Subset
<1>5. IsFiniteSet({i}) /\ Cardinality({i}) = 1
  BY FS_Singleton
<1>6. {i} \cup {j} = {i, j} /\ j \notin {i}
  OBVIOUS
<1>7. Cardinality({i, j}) = 2
  <2>1. Cardinality({i} \cup {j}) = Cardinality({i}) + 1
    BY <1>5, <1>6, FS_AddElement, Zenon
  <2>2. Cardinality({i, j}) = 1 + 1
    BY <1>5, <1>6, <2>1, Zenon
  <2> QED BY <2>2
<1>8. Cardinality(I) <= 1
  BY <1>1 DEF Times
<1> QED BY <1>3, <1>4, <1>7, <1>8

(* A queue that has no member of T twice is no longer than T has members,  *)
(* one that has each member once just as long.                             *)
LEMMA OnceFits ==
    ASSUME NEW T, IsFiniteSet(T), NEW q \in Seq(T), \A x \in T : Times(x, q) <= 1
    PROVE  Len(q) <= Cardinality(T)
<1>1. Len(q) \in Nat /\ DOMAIN q = 1..Len(q) /\ q \in [1..Len(q) -> T]
  OBVIOUS
<1>2. q \in Injection(1..Len(q), T)
  BY <1>1, OnceEach DEF Injection, IsInjective
<1>3. IsFiniteSet(1..Len(q)) /\ Cardinality(1..Len(q)) = Len(q)
  BY <1>1, UpTo
<1> QED BY <1>2, <1>3, FS_Injection

LEMMA OnceFills ==
    ASSUME NEW T, IsFiniteSet(T), NEW q \in Seq(T), \A x \in T : Times(x, q) = 1
    PROVE  Len(q) = Cardinality(T)
<1>1. Len(q) \in Nat /\ DOMAIN q = 1..Len(q) /\ q \in [1..Len(q) -> T]
  OBVIOUS
<1>2. q \in Injection(1..Len(q), T)
  BY <1>1, OnceEach DEF Injection, IsInjective
<1>3. q \in Surjection(1..Len(q), T)
  <2>1. ASSUME NEW x \in T PROVE \E i \in 1..Len(q) : q[i] = x
    <3>1. Times(x, q) # 0
      OBVIOUS
    <3> QED BY <3>1, TimesNat
  <2> QED BY <1>1, <2>1 DEF Surjection
<1>4. IsFiniteSet(1..Len(q)) /\ Cardinality(1..Len(q)) = Len(q)
  BY <1>1, UpTo
<1>5. ExistsBijection(1..Len(q), T)
  BY <1>2, <1>3 DEF Bijection, ExistsBijection
<1> QED BY <1>4, <1>5, FS_Bijection

-----------------------------------------------------------------------------
(***************************************************************************)
(* Types, and where the threads are.                                       *)
(***************************************************************************)
USE ConfigAssumption, BoundAssumption

(* TypeOK, in parts.                                                       *)
PoolTyped ==
    /\ m_SampleOutQueue \in Seq(Sample) /\ m_ReleaseQueue \in Nat /\ driver \in Nat
    /\ m_pSemOut \in Nat /\ image \subseteq Sample /\ ref \in [Sample -> Nat]
QueueTyped == inQ \in [{"md", "enc"} -> Seq(Sample)] /\ m_pSemIn \in [{"md", "enc"} -> Nat]
FilterTyped ==
    /\ m_bThreadExit \in [Filter -> BOOLEAN]
    /\ prev \in [{"md", "vr"} -> Sample \cup {None}]
    /\ m_bEnabled \in BOOLEAN /\ m_SamplingFrameCnt \in 0..m_SamplingFrame
    /\ shown \in Seq(Sample)
    /\ m_hDsp \in BOOLEAN /\ m_bEnable \in BOOLEAN /\ m_bEnableHdmi \in BOOLEAN
    /\ m_DisplayEnable \in BOOLEAN /\ m_MdEnable \in BOOLEAN
ThreadTyped ==
    /\ pc \in [Thread -> Pc] /\ ret \in [Thread -> Pc \cup {"test", "leave"}]
    /\ cur \in [Thread -> Sample \cup {None}] /\ rel \in [Thread -> Sample \cup {None}]

Typed == PoolTyped /\ QueueTyped /\ FilterTyped /\ ThreadTyped

LEMMA TypedOK == TypeOK <=> Typed
  BY DEF TypeOK, Typed, PoolTyped, QueueTyped, FilterTyped, ThreadTyped

(* ReleaseSample is on the way, on thread t.                               *)
Releasing(t) == pc[t] \in {"memory", "home"}

(* Where each thread may be, and what it has in its hands there. *)
VipThere ==
    /\ pc["vip"] \in {"begin", "get", "capture", "deliver", "unlock", "dequeue", "memory", "home", "gone"}
    /\ m_MdEnable => pc["vip"] # "dequeue"
    /\ Releasing("vip") => ret["vip"] \in {"test", "leave"} /\ (m_MdEnable => ret["vip"] = "test")
    /\ cur["vip"] # None <=> \/ pc["vip"] \in {"capture", "deliver", "unlock", "dequeue"}
                             \/ Releasing("vip") /\ ret["vip"] = "leave"
    /\ pc["vip"] = "dequeue" \/ Releasing("vip") => rel["vip"] # None
MdThere ==
    /\ pc["md"] \in {"begin", "get", "deliver", "motion", "unlock", "dequeue", "memory", "home",
                     "drain", "gone"}
    /\ ~m_MdEnable => pc["md"] = "gone"
    /\ Releasing("md") => ret["md"] \in {"test", "unlock", "drain", "leave"}
    /\ cur["md"] # None <=> \/ pc["md"] \in {"deliver", "motion", "unlock", "dequeue"}
                            \/ Releasing("md") /\ ret["md"] \in {"leave", "unlock"}
    /\ pc["md"] = "dequeue" \/ Releasing("md") => rel["md"] # None
EncThere ==
    /\ pc["enc"] \in {"begin", "get", "encode", "memory", "home", "drain", "gone"}
    /\ Releasing("enc") => ret["enc"] \in {"test", "drain"} /\ rel["enc"] # None
    /\ cur["enc"] # None <=> pc["enc"] = "encode"
AppThere ==
    /\ pc["app"] \in {"call", "memory", "home"}
    /\ Releasing("app") => ret["app"] = "leave" /\ rel["app"] # None
    /\ cur["app"] = None

(* A thread leaves its loop when it is told to, and its queue empty. *)
VipLeaves == pc["vip"] = "gone" => m_bThreadExit["vip"]
MdLeaves ==
    /\ pc["md"] = "drain" \/ (Releasing("md") /\ ret["md"] = "drain") => m_bThreadExit["md"]
    /\ pc["md"] = "gone" => inQ["md"] = <<>> /\ (m_MdEnable => m_bThreadExit["md"])
EncLeaves ==
    /\ pc["enc"] = "drain" \/ (Releasing("enc") /\ ret["enc"] = "drain") => m_bThreadExit["enc"]
    /\ pc["enc"] = "gone" => inQ["enc"] = <<>> /\ m_bThreadExit["enc"]

There == VipThere /\ MdThere /\ EncThere /\ AppThere

LEMMA AtCases ==
    /\ \A t \in Thread : At(t, "test") = IF m_bThreadExit[t] THEN IF t = "vip" THEN "gone" ELSE "drain"
                                         ELSE "get"
    /\ \A t \in Thread : At(t, "leave") = IF t = "app" THEN "call" ELSE After
    /\ \A t \in Thread : \A l : l \notin {"test", "leave"} => At(t, l) = l
  BY DEF At

LEMMA AtPc == \A t \in Thread : \A l \in Pc \cup {"test", "leave"} : At(t, l) \in Pc
  BY AtCases DEF Pc, After

LEMMA AtValues ==
    /\ At("vip", "test") = IF m_bThreadExit["vip"] THEN "gone" ELSE "get"
    /\ At("md", "test") = IF m_bThreadExit["md"] THEN "drain" ELSE "get"
    /\ At("enc", "test") = IF m_bThreadExit["enc"] THEN "drain" ELSE "get"
    /\ At("app", "leave") = "call"
    /\ m_MdEnable => At("md", "leave") = "motion"
    /\ ~m_MdEnable => At("vip", "leave") = "unlock"
    /\ \A t \in Thread : \A l \in Pc : At(t, l) = l
  BY AtCases DEF Thread, Filter, After, Pc

(* Thread t goes on at label l; the others stay where they are.            *)
GoneTo(t, l) ==
    /\ pc' \in [Thread -> Pc] /\ pc'[t] = At(t, l)
    /\ \A u \in Thread : u # t => pc'[u] = pc[u]
LEMMA Going ==
    ASSUME ThreadTyped, NEW t \in Thread, NEW l \in Pc \cup {"test", "leave"}, Goto(t, l)
    PROVE  GoneTo(t, l)
  BY AtPc DEF ThreadTyped, Goto, GoneTo

LEMMA Lowered == ASSUME NEW n \in Nat
                 PROVE  Max({0, n - 1}) \in Nat /\ (n # 0 => Max({0, n - 1}) = n - 1)
<1>1. CASE n = 0
  <2>1. \A y \in {0, n - 1} : 0 >= y
    BY <1>1
  <2>2. Max({0, n - 1}) \in {0, n - 1} /\ \A y \in {0, n - 1} : Max({0, n - 1}) >= y
    BY <2>1 DEF Max
  <2> QED BY <1>1, <2>2
<1>2. CASE n # 0
  <2>1. \A y \in {0, n - 1} : n - 1 >= y
    BY <1>2
  <2>2. Max({0, n - 1}) \in {0, n - 1} /\ \A y \in {0, n - 1} : Max({0, n - 1}) >= y
    BY <2>1 DEF Max
  <2> QED BY <1>2, <2>2
<1> QED BY <1>1, <1>2

LEMMA Unlocking ==
    ASSUME PoolTyped, ThreadTyped, NEW t \in Thread, NEW s \in Sample, NEW next, Unlock(t, s, next)
    PROVE  /\ ref' \in [Sample -> Nat]
           /\ \A x \in Sample : x # s => ref'[x] = ref[x]
           /\ ref[s] # 0 => ref'[s] = ref[s] - 1
           /\ \/ /\ ref[s] = 1 /\ pc' = [pc EXCEPT ![t] = "memory"]
                 /\ rel' = [rel EXCEPT ![t] = s] /\ ret' = [ret EXCEPT ![t] = next]
              \/ /\ ref[s] # 1 /\ pc' = [pc EXCEPT ![t] = At(t, next)]
                 /\ rel' = [rel EXCEPT ![t] = None] /\ ret' = ret
<1>1. ref[s] \in Nat /\ ref \in [Sample -> Nat]
  BY DEF PoolTyped
<1>2. Max({0, ref[s] - 1}) \in Nat /\ (ref[s] # 0 => Max({0, ref[s] - 1}) = ref[s] - 1)
  BY <1>1, Lowered
<1>3. ref' = [ref EXCEPT ![s] = Max({0, ref[s] - 1})]
  BY DEF Unlock
<1>4. /\ ref' \in [Sample -> Nat]
      /\ \A x \in Sample : x # s => ref'[x] = ref[x]
      /\ ref[s] # 0 => ref'[s] = ref[s] - 1
  BY <1>1, <1>2, <1>3
<1>5. At(t, "memory") = "memory"
  BY AtCases
<1> QED BY <1>4, <1>5 DEF Unlock, Goto

(* All that an Unlock does: the count goes down, and the last reference    *)
(* makes the thread bring the sample home before it goes on.               *)
UnlockedTo(t, s, next) ==
    /\ ref' \in [Sample -> Nat]
    /\ \A x \in Sample : x # s => ref'[x] = ref[x]
    /\ ref[s] # 0 => ref'[s] = ref[s] - 1
    /\ pc' \in [Thread -> Pc] /\ ret' \in [Thread -> Pc \cup {"test", "leave"}]
    /\ rel' \in [Thread -> Sample \cup {None}]
    /\ \A u \in Thread : u # t => pc'[u] = pc[u] /\ ret'[u] = ret[u] /\ rel'[u] = rel[u]
    /\ ref[s] = 1 => pc'[t] = "memory" /\ rel'[t] = s /\ ret'[t] = next
    /\ ref[s] # 1 => pc'[t] = At(t, next) /\ rel'[t] = None /\ ret'[t] = ret[t]
LEMMA Unlocked ==
    ASSUME PoolTyped, ThreadTyped, NEW t \in Thread, NEW s \in Sample,
           NEW next \in Pc \cup {"test", "leave"}, Unlock(t, s, next)
    PROVE  UnlockedTo(t, s, next)
<1>1. \/ /\ ref[s] = 1 /\ pc' = [pc EXCEPT ![t] = "memory"]
         /\ rel' = [rel EXCEPT ![t] = s] /\ ret' = [ret EXCEPT ![t] = next]
      \/ /\ ref[s] # 1 /\ pc' = [pc EXCEPT ![t] = At(t, next)]
         /\ rel' = [rel EXCEPT ![t] = None] /\ ret' = ret
  BY Unlocking
<1>2. At(t, next) \in Pc /\ "memory" \in Pc
  BY AtPc DEF Pc
<1>3. /\ pc' \in [Thread -> Pc] /\ ret' \in [Thread -> Pc \cup {"test", "leave"}]
      /\ rel' \in [Thread -> Sample \cup {None}]
      /\ \A u \in Thread : u # t => pc'[u] = pc[u] /\ ret'[u] = ret[u] /\ rel'[u] = rel[u]
      /\ ref[s] = 1 => pc'[t] = "memory" /\ rel'[t] = s /\ ret'[t] = next
      /\ ref[s] # 1 => pc'[t] = At(t, next) /\ rel'[t] = None /\ ret'[t] = ret[t]
  BY <1>1, <1>2 DEF ThreadTyped
<1> QED BY <1>3, Unlocking DEF UnlockedTo

LEMMA Counting ==
    ASSUME FilterTyped, m_SamplingFrameCnt % m_SamplingFrame # 0
    PROVE  m_SamplingFrameCnt + 1 \in 0..m_SamplingFrame
<1>1. m_SamplingFrame % m_SamplingFrame = 0
  OBVIOUS
<1> QED BY <1>1 DEF FilterTyped

-----------------------------------------------------------------------------
(***************************************************************************)
(* Where the steps of each thread lead it; the others stay where they are. *)
(***************************************************************************)
(* Thread t makes no step; nobody is told to stop.                         *)
Still(t) == pc'[t] = pc[t] /\ ret'[t] = ret[t] /\ cur'[t] = cur[t] /\ rel'[t] = rel[t]
Fixed == m_bThreadExit' = m_bThreadExit /\ m_MdEnable' = m_MdEnable

LEMMA SameThere ==
    ASSUME m_MdEnable' = m_MdEnable
    PROVE  /\ VipThere /\ Still("vip") => VipThere'
           /\ MdThere /\ Still("md") => MdThere'
           /\ EncThere /\ Still("enc") => EncThere'
           /\ AppThere /\ Still("app") => AppThere'
  BY DEF VipThere, MdThere, EncThere, AppThere, Still, Releasing

LEMMA SameTyped ==
    /\ PoolTyped /\ UNCHANGED poolVars => PoolTyped'
    /\ QueueTyped /\ UNCHANGED <<inQ, m_pSemIn>> => QueueTyped'
    /\ FilterTyped /\ UNCHANGED <<m_bThreadExit, prev, mdVars, vrVars, m_DisplayEnable, m_MdEnable>>
         => FilterTyped'
  BY DEF PoolTyped, QueueTyped, FilterTyped, poolVars, mdVars, vrVars

LEMMA VipMoves ==
    ASSUME Typed, VipThere, VipLeaves, VipThread
    PROVE  /\ Typed' /\ VipThere' /\ VipLeaves' /\ pc'["vip"] # "begin"
           /\ Still("md") /\ Still("enc") /\ Still("app") /\ Fixed
<1> USE DEF Typed
<1>1. CASE Begin
  <2>2. GoneTo("vip", "test")
    BY <1>1, Going DEF Thread, Filter, Pc, Begin
  <2>3. PoolTyped'
    BY <1>1, <2>2 DEF PoolTyped, Begin
  <2>4. QueueTyped'
    BY <1>1, SameTyped DEF Begin
  <2>5. FilterTyped' /\ Fixed
    BY <1>1, SameTyped DEF Fixed, appVars, Begin
  <2>6. ThreadTyped' /\ Still("md") /\ Still("enc") /\ Still("app")
    BY <1>1, <2>2 DEF ThreadTyped, GoneTo, Still, Thread, Filter, Pc, appVars, threadVars, Begin
  <2>7. pc'["vip"] \in {"get", "gone"} /\ cur'["vip"] = cur["vip"]
    BY <1>1, <2>2, AtValues DEF ThreadTyped, VipThere, GoneTo, Thread, Filter, Pc, Sample, None,
       Releasing, Begin
  <2>8. VipThere'
    BY <1>1, <2>5, <2>7 DEF Fixed, VipThere, Releasing, None, Sample, Begin
  <2>9. VipLeaves' /\ pc'["vip"] # "begin"
    BY <1>1, <2>5, <2>7, <2>2, AtValues DEF Fixed, VipLeaves, VipThere, FilterTyped, Releasing,
       GoneTo, UnlockedTo, Thread, Filter, Pc, Queued, Sample, Begin
  <2> QED BY <2>3, <2>4, <2>5, <2>6, <2>7, <2>8, <2>9
<1>2. CASE GetDeliverySample /\ m_SampleOutQueue = <<>>
  <2>2. GoneTo("vip", "test")
    BY <1>2, Going DEF Thread, Filter, Pc, GetDeliverySample
  <2>3. PoolTyped'
    BY <1>2, <2>2 DEF PoolTyped, GetDeliverySample
  <2>4. QueueTyped'
    BY <1>2, SameTyped DEF GetDeliverySample
  <2>5. FilterTyped' /\ Fixed
    BY <1>2, SameTyped DEF Fixed, appVars, GetDeliverySample
  <2>6. ThreadTyped' /\ Still("md") /\ Still("enc") /\ Still("app")
    BY <1>2, <2>2 DEF ThreadTyped, GoneTo, Still, Thread, Filter, Pc, appVars, threadVars,
       GetDeliverySample
  <2>7. pc'["vip"] \in {"get", "gone"} /\ cur'["vip"] = None
    BY <1>2, <2>2, AtValues DEF ThreadTyped, VipThere, GoneTo, Thread, Filter, Pc, Sample, None,
       Releasing, GetDeliverySample
  <2>8. VipThere'
    BY <1>2, <2>5, <2>7 DEF Fixed, VipThere, Releasing, None, Sample, GetDeliverySample
  <2>9. VipLeaves' /\ pc'["vip"] # "begin"
    BY <1>2, <2>5, <2>7, <2>2, AtValues DEF Fixed, VipLeaves, VipThere, FilterTyped, Releasing,
       GoneTo, UnlockedTo, Thread, Filter, Pc, Queued, Sample, GetDeliverySample
  <2> QED BY <2>3, <2>4, <2>5, <2>6, <2>7, <2>8, <2>9
<1>3. CASE GetDeliverySample /\ m_SampleOutQueue # <<>>
  <2>1. Head(m_SampleOutQueue) \in Sample /\ Tail(m_SampleOutQueue) \in Seq(Sample)
    BY <1>3 DEF PoolTyped
  <2>2. GoneTo("vip", "capture")
    BY <1>3, <2>1, Going DEF Thread, Filter, Pc, GetDeliverySample
  <2>3. PoolTyped'
    <3>1. /\ m_pSemOut' = m_pSemOut - 1 /\ m_pSemOut > 0
          /\ m_SampleOutQueue' = Tail(m_SampleOutQueue)
          /\ ref' = [ref EXCEPT ![Head(m_SampleOutQueue)] = @ + 1]
          /\ UNCHANGED <<m_ReleaseQueue, driver, image>>
      BY <1>3 DEF GetDeliverySample
    <3> QED BY <2>1, <3>1 DEF PoolTyped
  <2>4. QueueTyped'
    BY <1>3, <2>1, SameTyped DEF GetDeliverySample
  <2>5. FilterTyped' /\ Fixed
    BY <1>3, <2>1, SameTyped DEF Fixed, appVars, GetDeliverySample
  <2>6. ThreadTyped' /\ Still("md") /\ Still("enc") /\ Still("app")
    BY <1>3, <2>1, <2>2 DEF ThreadTyped, GoneTo, Still, Thread, Filter, Pc, appVars, threadVars,
       GetDeliverySample
  <2>7. pc'["vip"] \in {"capture"} /\ cur'["vip"] # None
    BY <1>3, <2>1, <2>2, AtValues DEF ThreadTyped, VipThere, GoneTo, Thread, Filter, Pc, Sample,
       None, Releasing, GetDeliverySample
  <2>8. VipThere'
    BY <1>3, <2>1, <2>5, <2>7 DEF Fixed, VipThere, Releasing, None, Sample, GetDeliverySample
  <2>9. VipLeaves' /\ pc'["vip"] # "begin"
    BY <1>3, <2>1, <2>5, <2>7, <2>2, AtValues DEF Fixed, VipLeaves, VipThere, FilterTyped,
       Releasing, GoneTo, UnlockedTo, Thread, Filter, Pc, Queued, Sample, GetDeliverySample
  <2> QED BY <2>3, <2>4, <2>5, <2>6, <2>7, <2>8, <2>9
<1>4. CASE Capture /\ Requeued < 2
  <2>1. cur["vip"] \in Sample /\ Unlock("vip", cur["vip"], "test")
    BY <1>4 DEF ThreadTyped, VipThere, Thread, Filter, Capture
  <2>2. UnlockedTo("vip", cur["vip"], "test")
    BY <1>4, <2>1, Unlocked DEF Thread, Filter, Pc
  <2>3. PoolTyped'
    BY <1>4, <2>1, <2>2 DEF PoolTyped, UnlockedTo, Capture, Requeued
  <2>4. QueueTyped'
    BY <1>4, <2>1, SameTyped DEF Capture
  <2>5. FilterTyped' /\ Fixed
    BY <1>4, <2>1, SameTyped DEF Fixed, appVars, Capture
  <2>6. ThreadTyped' /\ Still("md") /\ Still("enc") /\ Still("app")
    BY <1>4, <2>1, <2>2 DEF ThreadTyped, UnlockedTo, Still, Thread, Filter, Pc, appVars,
       threadVars, Capture
  <2>7. /\ \/ pc'["vip"] \in {"get", "gone"}
           \/ pc'["vip"] = "memory" /\ ret'["vip"] = "test" /\ rel'["vip"] # None
        /\ cur'["vip"] = None
    BY <1>4, <2>1, <2>2, AtValues DEF ThreadTyped, VipThere, UnlockedTo, Thread, Filter, Pc,
       Sample, None, Releasing, Capture
  <2>8. VipThere'
    BY <1>4, <2>1, <2>5, <2>7 DEF Fixed, VipThere, Releasing, None, Sample, Capture
  <2>9. VipLeaves' /\ pc'["vip"] # "begin"
    BY <1>4, <2>1, <2>5, <2>7, <2>2, AtValues DEF Fixed, VipLeaves, VipThere, FilterTyped,
       Releasing, GoneTo, UnlockedTo, Thread, Filter, Pc, Queued, Sample, Capture
  <2> QED BY <2>3, <2>4, <2>5, <2>6, <2>7, <2>8, <2>9
<1>5. CASE Capture /\ ~(Requeued < 2)
  <2>1. cur["vip"] \in Sample
    BY <1>5 DEF ThreadTyped, VipThere, Thread, Filter, Capture
  <2>2. GoneTo("vip", "deliver")
    BY <1>5, <2>1, Going DEF Thread, Filter, Pc, Capture
  <2>3. PoolTyped'
    BY <1>5, <2>1, <2>2 DEF PoolTyped, Capture, Requeued
  <2>4. QueueTyped'
    BY <1>5, <2>1, SameTyped DEF Capture
  <2>5. FilterTyped' /\ Fixed
    BY <1>5, <2>1, SameTyped DEF Fixed, appVars, Capture
  <2>6. ThreadTyped' /\ Still("md") /\ Still("enc") /\ Still("app")
    BY <1>5, <2>1, <2>2 DEF ThreadTyped, GoneTo, Still, Thread, Filter, Pc, appVars, threadVars, Capture
  <2>7. pc'["vip"] \in {"deliver"} /\ cur'["vip"] = cur["vip"]
    BY <1>5, <2>1, <2>2, AtValues DEF ThreadTyped, VipThere, GoneTo, Thread, Filter, Pc, Sample,
       None, Releasing, Capture
  <2>8. VipThere'
    BY <1>5, <2>1, <2>5, <2>7 DEF Fixed, VipThere, Releasing, None, Sample, Capture
  <2>9. VipLeaves' /\ pc'["vip"] # "begin"
    BY <1>5, <2>1, <2>5, <2>7, <2>2, AtValues DEF Fixed, VipLeaves, VipThere, FilterTyped,
       Releasing, GoneTo, UnlockedTo, Thread, Filter, Pc, Queued, Sample, Capture
  <2> QED BY <2>3, <2>4, <2>5, <2>6, <2>7, <2>8, <2>9
<1>6. CASE DeliverToDetector
  <2>1. cur["vip"] \in Sample
    BY <1>6 DEF ThreadTyped, VipThere, Thread, Filter, DeliverToDetector
  <2>2. GoneTo("vip", "unlock")
    BY <1>6, <2>1, Going DEF Thread, Filter, Pc, DeliverToDetector
  <2>3. PoolTyped'
    BY <1>6, <2>1, <2>2 DEF PoolTyped, DeliverToDetector
  <2>4. QueueTyped'
    BY <1>6, <2>1 DEF QueueTyped, Queued, DeliverToDetector
  <2>5. FilterTyped' /\ Fixed
    BY <1>6, <2>1, SameTyped DEF Fixed, appVars, DeliverToDetector
  <2>6. ThreadTyped' /\ Still("md") /\ Still("enc") /\ Still("app")
    BY <1>6, <2>1, <2>2 DEF ThreadTyped, GoneTo, Still, Thread, Filter, Pc, appVars, threadVars,
       DeliverToDetector
  <2>7. pc'["vip"] \in {"unlock"} /\ cur'["vip"] = cur["vip"]
    BY <1>6, <2>1, <2>2, AtValues DEF ThreadTyped, VipThere, GoneTo, Thread, Filter, Pc, Sample,
       None, Releasing, DeliverToDetector
  <2>8. VipThere'
    BY <1>6, <2>1, <2>5, <2>7 DEF Fixed, VipThere, Releasing, None, Sample, DeliverToDetector
  <2>9. VipLeaves' /\ pc'["vip"] # "begin"
    BY <1>6, <2>1, <2>5, <2>7, <2>2, AtValues DEF Fixed, VipLeaves, VipThere, FilterTyped,
       Releasing, GoneTo, UnlockedTo, Thread, Filter, Pc, Queued, Sample, DeliverToDetector
  <2> QED BY <2>3, <2>4, <2>5, <2>6, <2>7, <2>8, <2>9
<1>7. CASE UnlockOwn("vip")
  <2>1. cur["vip"] \in Sample /\ Unlock("vip", cur["vip"], "test")
    BY <1>7 DEF ThreadTyped, VipThere, Thread, Filter, UnlockOwn
  <2>2. UnlockedTo("vip", cur["vip"], "test")
    BY <1>7, <2>1, Unlocked DEF Thread, Filter, Pc
  <2>3. PoolTyped'
    BY <1>7, <2>1, <2>2 DEF PoolTyped, UnlockedTo, UnlockOwn
  <2>4. QueueTyped'
    BY <1>7, <2>1, SameTyped DEF UnlockOwn
  <2>5. FilterTyped' /\ Fixed
    BY <1>7, <2>1, SameTyped DEF Fixed, appVars, UnlockOwn
  <2>6. ThreadTyped' /\ Still("md") /\ Still("enc") /\ Still("app")
    BY <1>7, <2>1, <2>2 DEF ThreadTyped, UnlockedTo, Still, Thread, Filter, Pc, appVars,
       threadVars, UnlockOwn
  <2>7. /\ \/ pc'["vip"] \in {"get", "gone"}
           \/ pc'["vip"] = "memory" /\ ret'["vip"] = "test" /\ rel'["vip"] # None
        /\ cur'["vip"] = None
    BY <1>7, <2>1, <2>2, AtValues DEF ThreadTyped, VipThere, UnlockedTo, Thread, Filter, Pc,
       Sample, None, Releasing, UnlockOwn
  <2>8. VipThere'
    BY <1>7, <2>1, <2>5, <2>7 DEF Fixed, VipThere, Releasing, None, Sample, UnlockOwn
  <2>9. VipLeaves' /\ pc'["vip"] # "begin"
    BY <1>7, <2>1, <2>5, <2>7, <2>2, AtValues DEF Fixed, VipLeaves, VipThere, FilterTyped,
       Releasing, GoneTo, UnlockedTo, Thread, Filter, Pc, Queued, Sample, UnlockOwn
  <2> QED BY <2>3, <2>4, <2>5, <2>6, <2>7, <2>8, <2>9
<1>8. CASE ReleaseMemory("vip")
  <2>2. GoneTo("vip", "home")
    BY <1>8, Going DEF Thread, Filter, Pc, ReleaseMemory
  <2>3. PoolTyped'
    BY <1>8, <2>2 DEF PoolTyped, ReleaseMemory
  <2>4. QueueTyped'
    BY <1>8, SameTyped DEF ReleaseMemory
  <2>5. FilterTyped' /\ Fixed
    BY <1>8, SameTyped DEF Fixed, appVars, ReleaseMemory
  <2>6. ThreadTyped' /\ Still("md") /\ Still("enc") /\ Still("app")
    BY <1>8, <2>2 DEF ThreadTyped, GoneTo, Still, Thread, Filter, Pc, appVars, threadVars, ReleaseMemory
  <2>7. /\ pc'["vip"] \in {"home"} /\ cur'["vip"] = cur["vip"]
        /\ ret'["vip"] = ret["vip"] /\ rel'["vip"] = rel["vip"]
    BY <1>8, <2>2, AtValues DEF ThreadTyped, VipThere, GoneTo, Thread, Filter, Pc, Sample, None,
       Releasing, ReleaseMemory
  <2>8. VipThere'
    BY <1>8, <2>5, <2>7 DEF Fixed, VipThere, Releasing, None, Sample, ReleaseMemory
  <2>9. VipLeaves' /\ pc'["vip"] # "begin"
    BY <1>8, <2>5, <2>7, <2>2, AtValues DEF Fixed, VipLeaves, VipThere, FilterTyped, Releasing,
       GoneTo, UnlockedTo, Thread, Filter, Pc, Queued, Sample, ReleaseMemory
  <2> QED BY <2>3, <2>4, <2>5, <2>6, <2>7, <2>8, <2>9
<1>9. CASE ReleaseToQueue("vip")
  <2>1. rel["vip"] \in Sample /\ ret["vip"] \in Pc \cup {"test", "leave"} /\ Releasing("vip")
    BY <1>9 DEF ThreadTyped, VipThere, Thread, Filter, ReleaseToQueue, Releasing
  <2>2. GoneTo("vip", ret["vip"])
    BY <1>9, <2>1, Going DEF Thread, Filter, Pc, ReleaseToQueue
  <2>3. PoolTyped'
    <3>1. SortedIn(rel["vip"], m_SampleOutQueue) \in Seq(Sample)
      BY <2>1, TimesSorted DEF PoolTyped
    <3> QED BY <1>9, <3>1 DEF PoolTyped, ReleaseToQueue
  <2>4. QueueTyped'
    BY <1>9, <2>1, SameTyped DEF ReleaseToQueue
  <2>5. FilterTyped' /\ Fixed
    BY <1>9, <2>1, SameTyped DEF Fixed, appVars, ReleaseToQueue
  <2>6. ThreadTyped' /\ Still("md") /\ Still("enc") /\ Still("app")
    BY <1>9, <2>1, <2>2 DEF ThreadTyped, GoneTo, Still, Thread, Filter, Pc, appVars, threadVars,
       ReleaseToQueue
  <2>7. IF ret["vip"] = "test"
        THEN pc'["vip"] \in {"get", "gone"} /\ cur'["vip"] = None
        ELSE pc'["vip"] = "unlock" /\ cur'["vip"] # None
    BY <1>9, <2>1, <2>2, AtValues DEF ThreadTyped, VipThere, GoneTo, Thread, Filter, Pc, Sample,
       None, Releasing, ReleaseToQueue, FilterTyped
  <2>8. VipThere'
    BY <1>9, <2>1, <2>5, <2>7 DEF Fixed, VipThere, Releasing, None, Sample, ReleaseToQueue
  <2>9. VipLeaves' /\ pc'["vip"] # "begin"
    BY <1>9, <2>1, <2>5, <2>7, <2>2, AtValues DEF Fixed, VipLeaves, VipThere, FilterTyped,
       Releasing, GoneTo, UnlockedTo, Thread, Filter, Pc, Queued, Sample, ReleaseToQueue
  <2> QED BY <2>3, <2>4, <2>5, <2>6, <2>7, <2>8, <2>9
<1>10. CASE Before = "vip" /\ VrReceive /\ (m_bEnable \/ m_bEnableHdmi) /\ prev["vr"] # None
  <2>1. ~m_MdEnable /\ cur["vip"] \in Sample /\ prev["vr"] \in Sample
    BY <1>10 DEF ThreadTyped, VipThere, Thread, Filter, Before, FilterTyped, VrReceive
  <2>2. GoneTo("vip", "dequeue")
    BY <1>10, <2>1, Going DEF Thread, Filter, Pc, VrReceive
  <2>3. PoolTyped'
    <3>1. /\ ref' = [ref EXCEPT ![cur["vip"]] = @ + 2]
          /\ UNCHANGED <<m_SampleOutQueue, m_ReleaseQueue, m_pSemOut, driver, image>>
      BY <1>10 DEF VrReceive
    <3> QED BY <2>1, <3>1 DEF PoolTyped
  <2>4. QueueTyped'
    BY <1>10, <2>1 DEF QueueTyped, Queued, VrReceive
  <2>5. FilterTyped' /\ Fixed
    <3>1. /\ shown' = IF m_hDsp THEN Append(shown, cur["vip"]) ELSE shown
          /\ prev' = [prev EXCEPT !["vr"] = cur["vip"]]
          /\ UNCHANGED <<m_bThreadExit, mdVars, m_hDsp, m_bEnable, m_bEnableHdmi, appVars>>
      BY <1>10 DEF VrReceive
    <3> QED BY <2>1, <3>1 DEF FilterTyped, Fixed, mdVars, appVars
  <2>6. ThreadTyped' /\ Still("md") /\ Still("enc") /\ Still("app")
    BY <1>10, <2>1, <2>2 DEF ThreadTyped, GoneTo, Still, Thread, Filter, Pc, appVars, threadVars,
       VrReceive
  <2>7. pc'["vip"] = "dequeue" /\ rel'["vip"] # None /\ cur'["vip"] = cur["vip"]
    BY <1>10, <2>1, <2>2, AtValues DEF ThreadTyped, VipThere, GoneTo, Thread, Filter, Pc, Sample,
       None, Releasing, VrReceive
  <2>8. VipThere'
    BY <1>10, <2>1, <2>5, <2>7 DEF Fixed, VipThere, Releasing, None, Sample, VrReceive
  <2>9. VipLeaves' /\ pc'["vip"] # "begin"
    BY <1>10, <2>1, <2>5, <2>7, <2>2, AtValues DEF Fixed, VipLeaves, VipThere, FilterTyped,
       Releasing, GoneTo, UnlockedTo, Thread, Filter, Pc, Queued, Sample, VrReceive
  <2> QED BY <2>3, <2>4, <2>5, <2>6, <2>7, <2>8, <2>9
<1>11. CASE Before = "vip" /\ VrReceive /\ (m_bEnable \/ m_bEnableHdmi => prev["vr"] = None)
  <2>1. ~m_MdEnable /\ cur["vip"] \in Sample
    BY <1>11 DEF ThreadTyped, VipThere, Thread, Filter, Before, VrReceive
  <2>2. GoneTo("vip", "leave")
    BY <1>11, <2>1, Going DEF Thread, Filter, Pc, VrReceive
  <2>3. PoolTyped'
    <3>1. ref' \in [Sample -> Nat]
      BY <1>11, <2>1 DEF PoolTyped, VrReceive
    <3> QED BY <1>11, <2>1, <3>1 DEF PoolTyped, VrReceive
  <2>4. QueueTyped'
    BY <1>11, <2>1 DEF QueueTyped, Queued, VrReceive
  <2>5. FilterTyped' /\ Fixed
    <3>1. shown' \in Seq(Sample)
      <4>1. shown' = shown \/ shown' = Append(shown, cur["vip"])
        BY <1>11, <2>1 DEF Before, VrReceive
      <4>2. shown \in Seq(Sample)
        BY DEF FilterTyped
      <4> QED BY <2>1, <4>1, <4>2
    <3>2. prev' \in [{"md", "vr"} -> Sample \cup {None}]
      BY <1>11, <2>1 DEF FilterTyped, vrVars, VrReceive
    <3>3. UNCHANGED <<m_bThreadExit, mdVars, m_hDsp, m_bEnable, m_bEnableHdmi, m_DisplayEnable, m_MdEnable>>
      BY <1>11 DEF VrReceive, appVars
    <3> QED BY <3>1, <3>2, <3>3 DEF FilterTyped, Fixed, mdVars
  <2>6. ThreadTyped' /\ Still("md") /\ Still("enc") /\ Still("app")
    BY <1>11, <2>1, <2>2 DEF ThreadTyped, GoneTo, Still, Thread, Filter, Pc, appVars, threadVars,
       VrReceive
  <2>7. pc'["vip"] = "unlock" /\ cur'["vip"] = cur["vip"]
    BY <1>11, <2>1, <2>2, AtValues DEF ThreadTyped, VipThere, GoneTo, Thread, Filter, Pc, Sample,
       None, Releasing, VrReceive
  <2>8. VipThere'
    BY <1>11, <2>1, <2>5, <2>7 DEF Fixed, VipThere, Releasing, None, Sample, VrReceive
  <2>9. VipLeaves' /\ pc'["vip"] # "begin"
    BY <1>11, <2>1, <2>5, <2>7, <2>2, AtValues DEF Fixed, VipLeaves, VipThere, FilterTyped,
       Releasing, GoneTo, UnlockedTo, Thread, Filter, Pc, Queued, Sample, VrReceive
  <2> QED BY <2>3, <2>4, <2>5, <2>6, <2>7, <2>8, <2>9
<1>12. CASE Before = "vip" /\ DspDequeue
  <2>1. ~m_MdEnable /\ rel["vip"] \in Sample /\ Unlock("vip", rel["vip"], "leave")
    BY <1>12 DEF ThreadTyped, VipThere, Thread, Filter, Before, DspDequeue
  <2>2. UnlockedTo("vip", rel["vip"], "leave")
    BY <1>12, <2>1, Unlocked DEF Thread, Filter, Pc
  <2>3. PoolTyped'
    BY <1>12, <2>1, <2>2 DEF PoolTyped, UnlockedTo, DspDequeue
  <2>4. QueueTyped'
    BY <1>12, <2>1, SameTyped DEF DspDequeue
  <2>5. FilterTyped' /\ Fixed
    BY <1>12, <2>1 DEF FilterTyped, Fixed, mdVars, vrVars, appVars, DspDequeue
  <2>6. ThreadTyped' /\ Still("md") /\ Still("enc") /\ Still("app")
    BY <1>12, <2>1, <2>2 DEF ThreadTyped, UnlockedTo, Still, Thread, Filter, Pc, appVars,
       threadVars, DspDequeue
  <2>7. /\ \/ pc'["vip"] \in {"unlock"}
           \/ pc'["vip"] = "memory" /\ ret'["vip"] = "leave" /\ rel'["vip"] # None
        /\ cur'["vip"] = cur["vip"]
    BY <1>12, <2>1, <2>2, AtValues DEF ThreadTyped, VipThere, UnlockedTo, Thread, Filter, Pc,
       Sample, None, Releasing, DspDequeue
  <2>8. VipThere'
    BY <1>12, <2>1, <2>5, <2>7 DEF Fixed, VipThere, Releasing, None, Sample, DspDequeue
  <2>9. VipLeaves' /\ pc'["vip"] # "begin"
    BY <1>12, <2>1, <2>5, <2>7, <2>2, AtValues DEF Fixed, VipLeaves, VipThere, FilterTyped,
       Releasing, GoneTo, UnlockedTo, Thread, Filter, Pc, Queued, Sample, DspDequeue
  <2> QED BY <2>3, <2>4, <2>5, <2>6, <2>7, <2>8, <2>9
<1> QED BY <1>1, <1>2, <1>3, <1>4, <1>5, <1>6, <1>7, <1>8, <1>9, <1>10, <1>11, <1>12
    DEF VipThread, Release, Display

LEMMA MdMoves ==
    ASSUME Typed, MdThere, MdLeaves, MdThread
    PROVE  /\ Typed' /\ MdThere' /\ MdLeaves' /\ pc'["md"] # "begin"
           /\ Still("vip") /\ Still("enc") /\ Still("app") /\ Fixed
<1> USE DEF Typed
<1>1. CASE BeginLoop("md")
  <2>2. GoneTo("md", "test")
    BY <1>1, Going DEF Thread, Filter, Pc, BeginLoop
  <2>3. PoolTyped'
    BY <1>1, SameTyped DEF BeginLoop
  <2>4. QueueTyped'
    BY <1>1, SameTyped DEF BeginLoop
  <2>5. FilterTyped' /\ Fixed
    BY <1>1, SameTyped DEF Fixed, appVars, BeginLoop
  <2>6. ThreadTyped' /\ Still("vip") /\ Still("enc") /\ Still("app")
    BY <1>1, <2>2 DEF ThreadTyped, GoneTo, Still, Thread, Filter, Pc, appVars, threadVars, BeginLoop
  <2>7. pc'["md"] \in {"get", "drain"} /\ cur'["md"] = cur["md"]
    BY <1>1, <2>2, AtValues DEF ThreadTyped, MdThere, GoneTo, Thread, Filter, Pc, Sample, None,
       Releasing, BeginLoop
  <2>8. MdThere'
    BY <1>1, <2>5, <2>7 DEF Fixed, MdThere, Releasing, None, Sample, BeginLoop
  <2>9. MdLeaves' /\ pc'["md"] # "begin"
    BY <1>1, <2>5, <2>7, <2>2, AtValues DEF Fixed, MdLeaves, MdThere, FilterTyped, Releasing,
       GoneTo, UnlockedTo, Thread, Filter, Pc, Queued, Sample, BeginLoop
  <2> QED BY <2>3, <2>4, <2>5, <2>6, <2>7, <2>8, <2>9
<1>2. CASE GetSample("md") /\ inQ["md"] = <<>>
  <2>2. GoneTo("md", "test")
    BY <1>2, Going DEF Thread, Filter, Pc, GetSample
  <2>3. PoolTyped'
    BY <1>2, SameTyped DEF GetSample
  <2>4. QueueTyped'
    <3>1. m_pSemIn' = [m_pSemIn EXCEPT !["md"] = @ - 1] /\ m_pSemIn["md"] > 0 /\ inQ' = inQ
      BY <1>2 DEF Queued, GetSample
    <3> QED BY <3>1 DEF QueueTyped
  <2>5. FilterTyped' /\ Fixed
    BY <1>2, SameTyped DEF Fixed, appVars, GetSample
  <2>6. ThreadTyped' /\ Still("vip") /\ Still("enc") /\ Still("app")
    BY <1>2, <2>2 DEF ThreadTyped, GoneTo, Still, Thread, Filter, Pc, appVars, threadVars, GetSample
  <2>7. pc'["md"] \in {"get", "drain"} /\ cur'["md"] = None
    BY <1>2, <2>2, AtValues DEF ThreadTyped, MdThere, GoneTo, Thread, Filter, Pc, Sample, None,
       Releasing, GetSample
  <2>8. MdThere'
    BY <1>2, <2>5, <2>7 DEF Fixed, MdThere, Releasing, None, Sample, GetSample
  <2>9. MdLeaves' /\ pc'["md"] # "begin"
    BY <1>2, <2>5, <2>7, <2>2, AtValues DEF Fixed, MdLeaves, MdThere, FilterTyped, Releasing,
       GoneTo, UnlockedTo, Thread, Filter, Pc, Queued, Sample, GetSample
  <2> QED BY <2>3, <2>4, <2>5, <2>6, <2>7, <2>8, <2>9
<1>3. CASE GetSample("md") /\ inQ["md"] # <<>>
  <2>1. Head(inQ["md"]) \in Sample /\ Tail(inQ["md"]) \in Seq(Sample)
    BY <1>3 DEF QueueTyped
  <2>2. GoneTo("md", "deliver")
    BY <1>3, <2>1, Going DEF Thread, Filter, Pc, GetSample
  <2>3. PoolTyped'
    BY <1>3, <2>1, SameTyped DEF GetSample
  <2>4. QueueTyped'
    <3>1. /\ m_pSemIn' = [m_pSemIn EXCEPT !["md"] = @ - 1] /\ m_pSemIn["md"] > 0
          /\ inQ' = [inQ EXCEPT !["md"] = Tail(@)]
      BY <1>3, <2>1 DEF Queued, GetSample
    <3> QED BY <2>1, <3>1 DEF QueueTyped
  <2>5. FilterTyped' /\ Fixed
    BY <1>3, <2>1, SameTyped DEF Fixed, appVars, GetSample
  <2>6. ThreadTyped' /\ Still("vip") /\ Still("enc") /\ Still("app")
    BY <1>3, <2>1, <2>2 DEF ThreadTyped, GoneTo, Still, Thread, Filter, Pc, appVars, threadVars,
       GetSample
  <2>7. pc'["md"] \in {"deliver"} /\ cur'["md"] # None
    BY <1>3, <2>1, <2>2, AtValues DEF ThreadTyped, MdThere, GoneTo, Thread, Filter, Pc, Sample,
       None, Releasing, GetSample
  <2>8. MdThere'
    BY <1>3, <2>1, <2>5, <2>7 DEF Fixed, MdThere, Releasing, None, Sample, GetSample
  <2>9. MdLeaves' /\ pc'["md"] # "begin"
    BY <1>3, <2>1, <2>5, <2>7, <2>2, AtValues DEF Fixed, MdLeaves, MdThere, FilterTyped,
       Releasing, GoneTo, UnlockedTo, Thread, Filter, Pc, Queued, Sample, GetSample
  <2> QED BY <2>3, <2>4, <2>5, <2>6, <2>7, <2>8, <2>9
<1>4. CASE DetectMotion /\ m_bEnabled /\ m_SamplingFrameCnt % m_SamplingFrame = 0 /\ prev["md"] = None
  <2>1. cur["md"] \in Sample
    BY <1>4 DEF ThreadTyped, MdThere, Thread, Filter, FilterTyped, DetectMotion
  <2>2. GoneTo("md", "test")
    BY <1>4, <2>1, Going DEF Thread, Filter, Pc, DetectMotion, GiveUpPrev
  <2>3. PoolTyped'
    BY <1>4, <2>1, <2>2 DEF PoolTyped, DetectMotion, GiveUpPrev
  <2>4. QueueTyped'
    BY <1>4, <2>1, SameTyped DEF DetectMotion, GiveUpPrev
  <2>5. FilterTyped' /\ Fixed
    <3>1. /\ m_SamplingFrameCnt' = 1 /\ prev' = [prev EXCEPT !["md"] = cur["md"]]
          /\ UNCHANGED <<m_bThreadExit, m_bEnabled, vrVars, appVars>>
      BY <1>4, <2>1 DEF DetectMotion, GiveUpPrev
    <3> QED BY <2>1, <3>1 DEF FilterTyped, Fixed, mdVars, vrVars, appVars
  <2>6. ThreadTyped' /\ Still("vip") /\ Still("enc") /\ Still("app")
    BY <1>4, <2>1, <2>2 DEF ThreadTyped, GoneTo, Still, Thread, Filter, Pc, appVars, threadVars,
       DetectMotion, GiveUpPrev
  <2>7. pc'["md"] \in {"get", "drain"} /\ cur'["md"] = None
    BY <1>4, <2>1, <2>2, AtValues DEF ThreadTyped, MdThere, GoneTo, Thread, Filter, Pc, Sample,
       None, Releasing, DetectMotion, GiveUpPrev
  <2>8. MdThere'
    BY <1>4, <2>1, <2>5, <2>7 DEF Fixed, MdThere, Releasing, None, Sample, DetectMotion, GiveUpPrev
  <2>9. MdLeaves' /\ pc'["md"] # "begin"
    BY <1>4, <2>1, <2>5, <2>7, <2>2, AtValues DEF Fixed, MdLeaves, MdThere, FilterTyped,
       Releasing, GoneTo, UnlockedTo, Thread, Filter, Pc, Queued, Sample, DetectMotion, GiveUpPrev
  <2> QED BY <2>3, <2>4, <2>5, <2>6, <2>7, <2>8, <2>9
<1>5. CASE DetectMotion /\ m_bEnabled /\ m_SamplingFrameCnt % m_SamplingFrame = 0 /\ prev["md"] # None
  <2>1. cur["md"] \in Sample /\ prev["md"] \in Sample /\ Unlock("md", prev["md"], "test")
    BY <1>5 DEF ThreadTyped, MdThere, Thread, Filter, FilterTyped, DetectMotion, GiveUpPrev
  <2>2. UnlockedTo("md", prev["md"], "test")
    BY <1>5, <2>1, Unlocked DEF Thread, Filter, Pc
  <2>3. PoolTyped'
    BY <1>5, <2>1, <2>2 DEF PoolTyped, UnlockedTo, DetectMotion, GiveUpPrev
  <2>4. QueueTyped'
    BY <1>5, <2>1, SameTyped DEF DetectMotion, GiveUpPrev
  <2>5. FilterTyped' /\ Fixed
    <3>1. /\ m_SamplingFrameCnt' = 1 /\ prev' = [prev EXCEPT !["md"] = cur["md"]]
          /\ UNCHANGED <<m_bThreadExit, m_bEnabled, vrVars, appVars>>
      BY <1>5, <2>1 DEF DetectMotion, GiveUpPrev
    <3> QED BY <2>1, <3>1 DEF FilterTyped, Fixed, mdVars, vrVars, appVars
  <2>6. ThreadTyped' /\ Still("vip") /\ Still("enc") /\ Still("app")
    BY <1>5, <2>1, <2>2 DEF ThreadTyped, UnlockedTo, Still, Thread, Filter, Pc, appVars,
       threadVars, DetectMotion, GiveUpPrev
  <2>7. /\ \/ pc'["md"] \in {"get", "drain"}
           \/ pc'["md"] = "memory" /\ ret'["md"] = "test" /\ rel'["md"] # None
        /\ cur'["md"] = None
    BY <1>5, <2>1, <2>2, AtValues DEF ThreadTyped, MdThere, UnlockedTo, Thread, Filter, Pc,
       Sample, None, Releasing, DetectMotion, GiveUpPrev
  <2>8. MdThere'
    BY <1>5, <2>1, <2>5, <2>7 DEF Fixed, MdThere, Releasing, None, Sample, DetectMotion, GiveUpPrev
  <2>9. MdLeaves' /\ pc'["md"] # "begin"
    BY <1>5, <2>1, <2>5, <2>7, <2>2, AtValues DEF Fixed, MdLeaves, MdThere, FilterTyped,
       Releasing, GoneTo, UnlockedTo, Thread, Filter, Pc, Queued, Sample, DetectMotion, GiveUpPrev
  <2> QED BY <2>3, <2>4, <2>5, <2>6, <2>7, <2>8, <2>9
<1>6. CASE DetectMotion /\ m_bEnabled /\ m_SamplingFrameCnt % m_SamplingFrame # 0
  <2>1. cur["md"] \in Sample
    BY <1>6 DEF ThreadTyped, MdThere, Thread, Filter, FilterTyped, DetectMotion
  <2>2. GoneTo("md", "unlock")
    BY <1>6, <2>1, Going DEF Thread, Filter, Pc, DetectMotion, GiveUpPrev
  <2>3. PoolTyped'
    BY <1>6, <2>1, <2>2 DEF PoolTyped, DetectMotion, GiveUpPrev
  <2>4. QueueTyped'
    BY <1>6, <2>1, SameTyped DEF DetectMotion, GiveUpPrev
  <2>5. FilterTyped' /\ Fixed
    <3>1. /\ m_SamplingFrameCnt' = m_SamplingFrameCnt + 1 /\ prev' = prev
          /\ UNCHANGED <<m_bThreadExit, m_bEnabled, vrVars, appVars>>
      BY <1>6, <2>1 DEF DetectMotion, GiveUpPrev
    <3> QED BY <1>6, <3>1, Counting DEF FilterTyped, Fixed, mdVars, vrVars, appVars
  <2>6. ThreadTyped' /\ Still("vip") /\ Still("enc") /\ Still("app")
    BY <1>6, <2>1, <2>2 DEF ThreadTyped, GoneTo, Still, Thread, Filter, Pc, appVars, threadVars,
       DetectMotion, GiveUpPrev
  <2>7. pc'["md"] \in {"unlock"} /\ cur'["md"] = cur["md"]
    BY <1>6, <2>1, <2>2, AtValues DEF ThreadTyped, MdThere, GoneTo, Thread, Filter, Pc, Sample,
       None, Releasing, DetectMotion, GiveUpPrev
  <2>8. MdThere'
    BY <1>6, <2>1, <2>5, <2>7 DEF Fixed, MdThere, Releasing, None, Sample, DetectMotion, GiveUpPrev
  <2>9. MdLeaves' /\ pc'["md"] # "begin"
    BY <1>6, <2>1, <2>5, <2>7, <2>2, AtValues DEF Fixed, MdLeaves, MdThere, FilterTyped,
       Releasing, GoneTo, UnlockedTo, Thread, Filter, Pc, Queued, Sample, DetectMotion, GiveUpPrev
  <2> QED BY <2>3, <2>4, <2>5, <2>6, <2>7, <2>8, <2>9
<1>7. CASE DetectMotion /\ ~m_bEnabled /\ prev["md"] = None
  <2>1. cur["md"] \in Sample
    BY <1>7 DEF ThreadTyped, MdThere, Thread, Filter, FilterTyped, DetectMotion
  <2>2. GoneTo("md", "unlock")
    BY <1>7, <2>1, Going DEF Thread, Filter, Pc, DetectMotion, GiveUpPrev
  <2>3. PoolTyped'
    BY <1>7, <2>1, <2>2 DEF PoolTyped, DetectMotion, GiveUpPrev
  <2>4. QueueTyped'
    BY <1>7, <2>1, SameTyped DEF DetectMotion, GiveUpPrev
  <2>5. FilterTyped' /\ Fixed
    <3>1. /\ m_SamplingFrameCnt' = 0 /\ prev' = [prev EXCEPT !["md"] = None]
          /\ UNCHANGED <<m_bThreadExit, m_bEnabled, vrVars, appVars>>
      BY <1>7, <2>1 DEF DetectMotion, GiveUpPrev
    <3> QED BY <2>1, <3>1 DEF FilterTyped, Fixed, mdVars, vrVars, appVars
  <2>6. ThreadTyped' /\ Still("vip") /\ Still("enc") /\ Still("app")
    BY <1>7, <2>1, <2>2 DEF ThreadTyped, GoneTo, Still, Thread, Filter, Pc, appVars, threadVars,
       DetectMotion, GiveUpPrev
  <2>7. pc'["md"] \in {"unlock"} /\ cur'["md"] = cur["md"]
    BY <1>7, <2>1, <2>2, AtValues DEF ThreadTyped, MdThere, GoneTo, Thread, Filter, Pc, Sample,
       None, Releasing, DetectMotion, GiveUpPrev
  <2>8. MdThere'
    BY <1>7, <2>1, <2>5, <2>7 DEF Fixed, MdThere, Releasing, None, Sample, DetectMotion, GiveUpPrev
  <2>9. MdLeaves' /\ pc'["md"] # "begin"
    BY <1>7, <2>1, <2>5, <2>7, <2>2, AtValues DEF Fixed, MdLeaves, MdThere, FilterTyped,
       Releasing, GoneTo, UnlockedTo, Thread, Filter, Pc, Queued, Sample, DetectMotion, GiveUpPrev
  <2> QED BY <2>3, <2>4, <2>5, <2>6, <2>7, <2>8, <2>9
<1>8. CASE DetectMotion /\ ~m_bEnabled /\ prev["md"] # None
  <2>1. cur["md"] \in Sample /\ prev["md"] \in Sample /\ Unlock("md", prev["md"], "unlock")
    BY <1>8 DEF ThreadTyped, MdThere, Thread, Filter, FilterTyped, DetectMotion, GiveUpPrev
  <2>2. UnlockedTo("md", prev["md"], "unlock")
    BY <1>8, <2>1, Unlocked DEF Thread, Filter, Pc
  <2>3. PoolTyped'
    BY <1>8, <2>1, <2>2 DEF PoolTyped, UnlockedTo, DetectMotion, GiveUpPrev
  <2>4. QueueTyped'
    BY <1>8, <2>1, SameTyped DEF DetectMotion, GiveUpPrev
  <2>5. FilterTyped' /\ Fixed
    <3>1. /\ m_SamplingFrameCnt' = 0 /\ prev' = [prev EXCEPT !["md"] = None]
          /\ UNCHANGED <<m_bThreadExit, m_bEnabled, vrVars, appVars>>
      BY <1>8, <2>1 DEF DetectMotion, GiveUpPrev
    <3> QED BY <2>1, <3>1 DEF FilterTyped, Fixed, mdVars, vrVars, appVars
  <2>6. ThreadTyped' /\ Still("vip") /\ Still("enc") /\ Still("app")
    BY <1>8, <2>1, <2>2 DEF ThreadTyped, UnlockedTo, Still, Thread, Filter, Pc, appVars,
       threadVars, DetectMotion, GiveUpPrev
  <2>7. /\ \/ pc'["md"] \in {"unlock"}
           \/ pc'["md"] = "memory" /\ ret'["md"] = "unlock" /\ rel'["md"] # None
        /\ cur'["md"] = cur["md"]
    BY <1>8, <2>1, <2>2, AtValues DEF ThreadTyped, MdThere, UnlockedTo, Thread, Filter, Pc,
       Sample, None, Releasing, DetectMotion, GiveUpPrev
  <2>8. MdThere'
    BY <1>8, <2>1, <2>5, <2>7 DEF Fixed, MdThere, Releasing, None, Sample, DetectMotion, GiveUpPrev
  <2>9. MdLeaves' /\ pc'["md"] # "begin"
    BY <1>8, <2>1, <2>5, <2>7, <2>2, AtValues DEF Fixed, MdLeaves, MdThere, FilterTyped,
       Releasing, GoneTo, UnlockedTo, Thread, Filter, Pc, Queued, Sample, DetectMotion, GiveUpPrev
  <2> QED BY <2>3, <2>4, <2>5, <2>6, <2>7, <2>8, <2>9
<1>9. CASE UnlockOwn("md")
  <2>1. cur["md"] \in Sample /\ Unlock("md", cur["md"], "test")
    BY <1>9 DEF ThreadTyped, MdThere, Thread, Filter, UnlockOwn
  <2>2. UnlockedTo("md", cur["md"], "test")
    BY <1>9, <2>1, Unlocked DEF Thread, Filter, Pc
  <2>3. PoolTyped'
    BY <1>9, <2>1, <2>2 DEF PoolTyped, UnlockedTo, UnlockOwn
  <2>4. QueueTyped'
    BY <1>9, <2>1, SameTyped DEF UnlockOwn
  <2>5. FilterTyped' /\ Fixed
    BY <1>9, <2>1, SameTyped DEF Fixed, appVars, UnlockOwn
  <2>6. ThreadTyped' /\ Still("vip") /\ Still("enc") /\ Still("app")
    BY <1>9, <2>1, <2>2 DEF ThreadTyped, UnlockedTo, Still, Thread, Filter, Pc, appVars,
       threadVars, UnlockOwn
  <2>7. /\ \/ pc'["md"] \in {"get", "drain"}
           \/ pc'["md"] = "memory" /\ ret'["md"] = "test" /\ rel'["md"] # None
        /\ cur'["md"] = None
    BY <1>9, <2>1, <2>2, AtValues DEF ThreadTyped, MdThere, UnlockedTo, Thread, Filter, Pc,
       Sample, None, Releasing, UnlockOwn
  <2>8. MdThere'
    BY <1>9, <2>1, <2>5, <2>7 DEF Fixed, MdThere, Releasing, None, Sample, UnlockOwn
  <2>9. MdLeaves' /\ pc'["md"] # "begin"
    BY <1>9, <2>1, <2>5, <2>7, <2>2, AtValues DEF Fixed, MdLeaves, MdThere, FilterTyped,
       Releasing, GoneTo, UnlockedTo, Thread, Filter, Pc, Queued, Sample, UnlockOwn
  <2> QED BY <2>3, <2>4, <2>5, <2>6, <2>7, <2>8, <2>9
<1>10. CASE DrainInput("md") /\ inQ["md"] = <<>>
  <2>2. GoneTo("md", "gone")
    BY <1>10, Going DEF Thread, Filter, Pc, DrainInput
  <2>3. PoolTyped'
    BY <1>10, <2>2 DEF PoolTyped, DrainInput
  <2>4. QueueTyped'
    <3>1. inQ' = inQ /\ m_pSemIn' = m_pSemIn
      BY <1>10 DEF Queued, DrainInput
    <3> QED BY <3>1 DEF QueueTyped
  <2>5. FilterTyped' /\ Fixed
    BY <1>10, SameTyped DEF Fixed, appVars, DrainInput
  <2>6. ThreadTyped' /\ Still("vip") /\ Still("enc") /\ Still("app")
    BY <1>10, <2>2 DEF ThreadTyped, GoneTo, Still, Thread, Filter, Pc, appVars, threadVars, DrainInput
  <2>7. pc'["md"] \in {"gone"} /\ cur'["md"] = cur["md"]
    BY <1>10, <2>2, AtValues DEF ThreadTyped, MdThere, GoneTo, Thread, Filter, Pc, Sample, None,
       Releasing, DrainInput
  <2>8. MdThere'
    BY <1>10, <2>5, <2>7 DEF Fixed, MdThere, Releasing, None, Sample, DrainInput
  <2>9. MdLeaves' /\ pc'["md"] # "begin"
    BY <1>10, <2>5, <2>7, <2>2, AtValues DEF Fixed, MdLeaves, MdThere, FilterTyped, Releasing,
       GoneTo, UnlockedTo, Thread, Filter, Pc, Queued, Sample, DrainInput
  <2> QED BY <2>3, <2>4, <2>5, <2>6, <2>7, <2>8, <2>9
<1>11. CASE DrainInput("md") /\ inQ["md"] # <<>>
  <2>1. /\ Head(inQ["md"]) \in Sample /\ Tail(inQ["md"]) \in Seq(Sample)
        /\ Unlock("md", Head(inQ["md"]), "drain")
    BY <1>11 DEF QueueTyped, DrainInput
  <2>2. UnlockedTo("md", Head(inQ["md"]), "drain")
    BY <1>11, <2>1, Unlocked DEF Thread, Filter, Pc
  <2>3. PoolTyped'
    BY <1>11, <2>1, <2>2 DEF PoolTyped, UnlockedTo, DrainInput
  <2>4. QueueTyped'
    <3>1. inQ' = [inQ EXCEPT !["md"] = Tail(@)] /\ m_pSemIn' = m_pSemIn
      BY <1>11, <2>1 DEF Queued, DrainInput
    <3> QED BY <2>1, <3>1 DEF QueueTyped
  <2>5. FilterTyped' /\ Fixed
    BY <1>11, <2>1, SameTyped DEF Fixed, appVars, DrainInput
  <2>6. ThreadTyped' /\ Still("vip") /\ Still("enc") /\ Still("app")
    BY <1>11, <2>1, <2>2 DEF ThreadTyped, UnlockedTo, Still, Thread, Filter, Pc, appVars,
       threadVars, DrainInput
  <2>7. /\ \/ pc'["md"] \in {"drain"}
           \/ pc'["md"] = "memory" /\ ret'["md"] = "drain" /\ rel'["md"] # None
        /\ cur'["md"] = cur["md"]
    BY <1>11, <2>1, <2>2, AtValues DEF ThreadTyped, MdThere, UnlockedTo, Thread, Filter, Pc,
       Sample, None, Releasing, DrainInput
  <2>8. MdThere'
    BY <1>11, <2>1, <2>5, <2>7 DEF Fixed, MdThere, Releasing, None, Sample, DrainInput
  <2>9. MdLeaves' /\ pc'["md"] # "begin"
    BY <1>11, <2>1, <2>5, <2>7, <2>2, AtValues DEF Fixed, MdLeaves, MdThere, FilterTyped,
       Releasing, GoneTo, UnlockedTo, Thread, Filter, Pc, Queued, Sample, DrainInput
  <2> QED BY <2>3, <2>4, <2>5, <2>6, <2>7, <2>8, <2>9
<1>12. CASE ReleaseMemory("md")
  <2>2. GoneTo("md", "home")
    BY <1>12, Going DEF Thread, Filter, Pc, ReleaseMemory
  <2>3. PoolTyped'
    BY <1>12, <2>2 DEF PoolTyped, ReleaseMemory
  <2>4. QueueTyped'
    BY <1>12, SameTyped DEF ReleaseMemory
  <2>5. FilterTyped' /\ Fixed
    BY <1>12, SameTyped DEF Fixed, appVars, ReleaseMemory
  <2>6. ThreadTyped' /\ Still("vip") /\ Still("enc") /\ Still("app")
    BY <1>12, <2>2 DEF ThreadTyped, GoneTo, Still, Thread, Filter, Pc, appVars, threadVars,
       ReleaseMemory
  <2>7. /\ pc'["md"] \in {"home"} /\ cur'["md"] = cur["md"]
        /\ ret'["md"] = ret["md"] /\ rel'["md"] = rel["md"]
    BY <1>12, <2>2, AtValues DEF ThreadTyped, MdThere, GoneTo, Thread, Filter, Pc, Sample, None,
       Releasing, ReleaseMemory
  <2>8. MdThere'
    BY <1>12, <2>5, <2>7 DEF Fixed, MdThere, Releasing, None, Sample, ReleaseMemory
  <2>9. MdLeaves' /\ pc'["md"] # "begin"
    BY <1>12, <2>5, <2>7, <2>2, AtValues DEF Fixed, MdLeaves, MdThere, FilterTyped, Releasing,
       GoneTo, UnlockedTo, Thread, Filter, Pc, Queued, Sample, ReleaseMemory
  <2> QED BY <2>3, <2>4, <2>5, <2>6, <2>7, <2>8, <2>9
<1>13. CASE ReleaseToQueue("md")
  <2>1. rel["md"] \in Sample /\ ret["md"] \in Pc \cup {"test", "leave"} /\ Releasing("md") /\ m_MdEnable
    BY <1>13 DEF ThreadTyped, MdThere, Thread, Filter, FilterTyped, ReleaseToQueue, Releasing
  <2>2. GoneTo("md", ret["md"])
    BY <1>13, <2>1, Going DEF Thread, Filter, Pc, ReleaseToQueue
  <2>3. PoolTyped'
    <3>1. SortedIn(rel["md"], m_SampleOutQueue) \in Seq(Sample)
      BY <2>1, TimesSorted DEF PoolTyped
    <3> QED BY <1>13, <3>1 DEF PoolTyped, ReleaseToQueue
  <2>4. QueueTyped'
    BY <1>13, <2>1, SameTyped DEF ReleaseToQueue
  <2>5. FilterTyped' /\ Fixed
    BY <1>13, <2>1, SameTyped DEF Fixed, appVars, ReleaseToQueue
  <2>6. ThreadTyped' /\ Still("vip") /\ Still("enc") /\ Still("app")
    BY <1>13, <2>1, <2>2 DEF ThreadTyped, GoneTo, Still, Thread, Filter, Pc, appVars, threadVars,
       ReleaseToQueue
  <2>7. /\ ret["md"] = "test" => pc'["md"] \in {"get", "drain"} /\ cur'["md"] = None
        /\ ret["md"] = "drain" => pc'["md"] = "drain" /\ cur'["md"] = None
        /\ ret["md"] = "unlock" => pc'["md"] = "unlock" /\ cur'["md"] # None
        /\ ret["md"] = "leave" => pc'["md"] = "motion" /\ cur'["md"] # None
    BY <1>13, <2>1, <2>2, AtValues DEF ThreadTyped, MdThere, GoneTo, Thread, Filter, Pc, Sample,
       None, Releasing, ReleaseToQueue, FilterTyped
  <2>8. MdThere'
    BY <1>13, <2>1, <2>5, <2>7 DEF Fixed, MdThere, Releasing, None, Sample, ReleaseToQueue
  <2>9. MdLeaves' /\ pc'["md"] # "begin"
    BY <1>13, <2>1, <2>5, <2>7, <2>2, AtValues DEF Fixed, MdLeaves, MdThere, FilterTyped,
       Releasing, GoneTo, UnlockedTo, Thread, Filter, Pc, Queued, Sample, ReleaseToQueue
  <2> QED BY <2>3, <2>4, <2>5, <2>6, <2>7, <2>8, <2>9
<1>14. CASE Before = "md" /\ VrReceive /\ (m_bEnable \/ m_bEnableHdmi) /\ prev["vr"] # None
  <2>1. m_MdEnable /\ cur["md"] \in Sample /\ prev["vr"] \in Sample
    BY <1>14 DEF ThreadTyped, MdThere, Thread, Filter, Before, FilterTyped, VrReceive
  <2>2. GoneTo("md", "dequeue")
    BY <1>14, <2>1, Going DEF Thread, Filter, Pc, VrReceive
  <2>3. PoolTyped'
    <3>1. /\ ref' = [ref EXCEPT ![cur["md"]] = @ + 2]
          /\ UNCHANGED <<m_SampleOutQueue, m_ReleaseQueue, m_pSemOut, driver, image>>
      BY <1>14, <2>1 DEF VrReceive
    <3> QED BY <2>1, <3>1 DEF PoolTyped
  <2>4. QueueTyped'
    BY <1>14, <2>1 DEF QueueTyped, Queued, VrReceive
  <2>5. FilterTyped' /\ Fixed
    <3>1. /\ shown' = IF m_hDsp THEN Append(shown, cur["md"]) ELSE shown
          /\ prev' = [prev EXCEPT !["vr"] = cur["md"]]
          /\ UNCHANGED <<m_bThreadExit, mdVars, m_hDsp, m_bEnable, m_bEnableHdmi, appVars>>
      BY <1>14, <2>1 DEF VrReceive
    <3> QED BY <2>1, <3>1 DEF FilterTyped, Fixed, mdVars, vrVars, appVars
  <2>6. ThreadTyped' /\ Still("vip") /\ Still("enc") /\ Still("app")
    BY <1>14, <2>1, <2>2 DEF ThreadTyped, GoneTo, Still, Thread, Filter, Pc, appVars, threadVars,
       VrReceive
  <2>7. pc'["md"] = "dequeue" /\ rel'["md"] # None /\ cur'["md"] = cur["md"]
    BY <1>14, <2>1, <2>2, AtValues DEF ThreadTyped, MdThere, GoneTo, Thread, Filter, Pc, Sample,
       None, Releasing, VrReceive
  <2>8. MdThere'
    BY <1>14, <2>1, <2>5, <2>7 DEF Fixed, MdThere, Releasing, None, Sample, VrReceive
  <2>9. MdLeaves' /\ pc'["md"] # "begin"
    BY <1>14, <2>1, <2>5, <2>7, <2>2, AtValues DEF Fixed, MdLeaves, MdThere, FilterTyped,
       Releasing, GoneTo, UnlockedTo, Thread, Filter, Pc, Queued, Sample, VrReceive
  <2> QED BY <2>3, <2>4, <2>5, <2>6, <2>7, <2>8, <2>9
<1>15. CASE Before = "md" /\ VrReceive /\ (m_bEnable \/ m_bEnableHdmi) /\ prev["vr"] = None
  <2>1. m_MdEnable /\ cur["md"] \in Sample
    BY <1>15 DEF ThreadTyped, MdThere, Thread, Filter, Before, FilterTyped, VrReceive
  <2>2. GoneTo("md", "leave")
    BY <1>15, <2>1, Going DEF Thread, Filter, Pc, VrReceive
  <2>3. PoolTyped'
    <3>1. /\ ref' = [ref EXCEPT ![cur["md"]] = @ + 2]
          /\ UNCHANGED <<m_SampleOutQueue, m_ReleaseQueue, m_pSemOut, driver, image>>
      BY <1>15, <2>1 DEF VrReceive
    <3> QED BY <2>1, <3>1 DEF PoolTyped
  <2>4. QueueTyped'
    BY <1>15, <2>1 DEF QueueTyped, Queued, VrReceive
  <2>5. FilterTyped' /\ Fixed
    <3>1. /\ shown' = IF m_hDsp THEN Append(shown, cur["md"]) ELSE shown
          /\ prev' = [prev EXCEPT !["vr"] = cur["md"]]
          /\ UNCHANGED <<m_bThreadExit, mdVars, m_hDsp, m_bEnable, m_bEnableHdmi, appVars>>
      BY <1>15, <2>1 DEF VrReceive
    <3> QED BY <2>1, <3>1 DEF FilterTyped, Fixed, mdVars, vrVars, appVars
  <2>6. ThreadTyped' /\ Still("vip") /\ Still("enc") /\ Still("app")
    BY <1>15, <2>1, <2>2 DEF ThreadTyped, GoneTo, Still, Thread, Filter, Pc, appVars, threadVars,
       VrReceive
  <2>7. pc'["md"] = "motion" /\ cur'["md"] = cur["md"]
    BY <1>15, <2>1, <2>2, AtValues DEF ThreadTyped, MdThere, GoneTo, Thread, Filter, Pc, Sample,
       None, Releasing, VrReceive
  <2>8. MdThere'
    BY <1>15, <2>1, <2>5, <2>7 DEF Fixed, MdThere, Releasing, None, Sample, VrReceive
  <2>9. MdLeaves' /\ pc'["md"] # "begin"
    BY <1>15, <2>1, <2>5, <2>7, <2>2, AtValues DEF Fixed, MdLeaves, MdThere, FilterTyped,
       Releasing, GoneTo, UnlockedTo, Thread, Filter, Pc, Queued, Sample, VrReceive
  <2> QED BY <2>3, <2>4, <2>5, <2>6, <2>7, <2>8, <2>9
<1>16. CASE Before = "md" /\ VrReceive /\ ~(m_bEnable \/ m_bEnableHdmi)
  <2>1. m_MdEnable /\ cur["md"] \in Sample
    BY <1>16 DEF ThreadTyped, MdThere, Thread, Filter, Before, FilterTyped, VrReceive
  <2>2. GoneTo("md", "leave")
    BY <1>16, <2>1, Going DEF Thread, Filter, Pc, VrReceive
  <2>3. PoolTyped'
    <3>1. /\ ref' = [ref EXCEPT ![cur["md"]] = @ + 1]
          /\ UNCHANGED <<m_SampleOutQueue, m_ReleaseQueue, m_pSemOut, driver, image>>
      BY <1>16, <2>1 DEF VrReceive
    <3> QED BY <2>1, <3>1 DEF PoolTyped
  <2>4. QueueTyped'
    BY <1>16, <2>1 DEF QueueTyped, Queued, VrReceive
  <2>5. FilterTyped' /\ Fixed
    <3>1. UNCHANGED <<shown, prev, m_bThreadExit, mdVars, m_hDsp, m_bEnable, m_bEnableHdmi, appVars>>
      BY <1>16, <2>1 DEF VrReceive
    <3> QED BY <2>1, <3>1 DEF FilterTyped, Fixed, mdVars, vrVars, appVars
  <2>6. ThreadTyped' /\ Still("vip") /\ Still("enc") /\ Still("app")
    BY <1>16, <2>1, <2>2 DEF ThreadTyped, GoneTo, Still, Thread, Filter, Pc, appVars, threadVars,
       VrReceive
  <2>7. pc'["md"] = "motion" /\ cur'["md"] = cur["md"]
    BY <1>16, <2>1, <2>2, AtValues DEF ThreadTyped, MdThere, GoneTo, Thread, Filter, Pc, Sample,
       None, Releasing, VrReceive
  <2>8. MdThere'
    BY <1>16, <2>1, <2>5, <2>7 DEF Fixed, MdThere, Releasing, None, Sample, VrReceive
  <2>9. MdLeaves' /\ pc'["md"] # "begin"
    BY <1>16, <2>1, <2>5, <2>7, <2>2, AtValues DEF Fixed, MdLeaves, MdThere, FilterTyped,
       Releasing, GoneTo, UnlockedTo, Thread, Filter, Pc, Queued, Sample, VrReceive
  <2> QED BY <2>3, <2>4, <2>5, <2>6, <2>7, <2>8, <2>9
<1>17. CASE Before = "md" /\ DspDequeue
  <2>1. m_MdEnable /\ rel["md"] \in Sample /\ Unlock("md", rel["md"], "leave")
    BY <1>17 DEF ThreadTyped, MdThere, Thread, Filter, Before, FilterTyped, DspDequeue
  <2>2. UnlockedTo("md", rel["md"], "leave")
    BY <1>17, <2>1, Unlocked DEF Thread, Filter, Pc
  <2>3. PoolTyped'
    BY <1>17, <2>1, <2>2 DEF PoolTyped, UnlockedTo, DspDequeue
  <2>4. QueueTyped'
    BY <1>17, <2>1, SameTyped DEF DspDequeue
  <2>5. FilterTyped' /\ Fixed
    BY <1>17, <2>1 DEF FilterTyped, Fixed, mdVars, vrVars, appVars, DspDequeue
  <2>6. ThreadTyped' /\ Still("vip") /\ Still("enc") /\ Still("app")
    BY <1>17, <2>1, <2>2 DEF ThreadTyped, UnlockedTo, Still, Thread, Filter, Pc, appVars,
       threadVars, DspDequeue
  <2>7. /\ \/ pc'["md"] \in {"motion"}
           \/ pc'["md"] = "memory" /\ ret'["md"] = "leave" /\ rel'["md"] # None
        /\ cur'["md"] = cur["md"]
    BY <1>17, <2>1, <2>2, AtValues DEF ThreadTyped, MdThere, UnlockedTo, Thread, Filter, Pc,
       Sample, None, Releasing, DspDequeue
  <2>8. MdThere'
    BY <1>17, <2>1, <2>5, <2>7 DEF Fixed, MdThere, Releasing, None, Sample, DspDequeue
  <2>9. MdLeaves' /\ pc'["md"] # "begin"
    BY <1>17, <2>1, <2>5, <2>7, <2>2, AtValues DEF Fixed, MdLeaves, MdThere, FilterTyped,
       Releasing, GoneTo, UnlockedTo, Thread, Filter, Pc, Queued, Sample, DspDequeue
  <2> QED BY <2>3, <2>4, <2>5, <2>6, <2>7, <2>8, <2>9
<1> QED BY <1>1, <1>2, <1>3, <1>4, <1>5, <1>6, <1>7, <1>8, <1>9, <1>10, <1>11, <1>12, <1>13,
    <1>14, <1>15, <1>16, <1>17 DEF MdThread, Release, Display, DetectMotion

LEMMA EncMoves ==
    ASSUME Typed, EncThere, EncLeaves, EncThread
    PROVE  /\ Typed' /\ EncThere' /\ EncLeaves' /\ pc'["enc"] # "begin"
           /\ Still("vip") /\ Still("md") /\ Still("app") /\ Fixed
<1> USE DEF Typed
<1>1. CASE BeginLoop("enc")
  <2>2. GoneTo("enc", "test")
    BY <1>1, Going DEF Thread, Filter, Pc, BeginLoop
  <2>3. PoolTyped'
    BY <1>1, SameTyped DEF BeginLoop
  <2>4. QueueTyped'
    BY <1>1, SameTyped DEF BeginLoop
  <2>5. FilterTyped' /\ Fixed
    BY <1>1, SameTyped DEF Fixed, appVars, BeginLoop
  <2>6. ThreadTyped' /\ Still("vip") /\ Still("md") /\ Still("app")
    BY <1>1, <2>2 DEF ThreadTyped, GoneTo, Still, Thread, Filter, Pc, appVars, threadVars, BeginLoop
  <2>7. pc'["enc"] \in {"get", "drain"} /\ cur'["enc"] = cur["enc"]
    BY <1>1, <2>2, AtValues DEF ThreadTyped, EncThere, GoneTo, Thread, Filter, Pc, Sample, None,
       Releasing, BeginLoop
  <2>8. EncThere'
    BY <1>1, <2>5, <2>7 DEF Fixed, EncThere, Releasing, None, Sample, BeginLoop
  <2>9. EncLeaves' /\ pc'["enc"] # "begin"
    BY <1>1, <2>5, <2>7, <2>2, AtValues DEF Fixed, EncLeaves, EncThere, FilterTyped, Releasing,
       GoneTo, UnlockedTo, Thread, Filter, Pc, Queued, Sample, BeginLoop
  <2> QED BY <2>3, <2>4, <2>5, <2>6, <2>7, <2>8, <2>9
<1>2. CASE GetSample("enc") /\ inQ["enc"] = <<>>
  <2>2. GoneTo("enc", "test")
    BY <1>2, Going DEF Thread, Filter, Pc, GetSample
  <2>3. PoolTyped'
    BY <1>2, SameTyped DEF GetSample
  <2>4. QueueTyped'
    <3>1. m_pSemIn' = [m_pSemIn EXCEPT !["enc"] = @ - 1] /\ m_pSemIn["enc"] > 0 /\ inQ' = inQ
      BY <1>2 DEF Queued, GetSample
    <3> QED BY <3>1 DEF QueueTyped
  <2>5. FilterTyped' /\ Fixed
    BY <1>2, SameTyped DEF Fixed, appVars, GetSample
  <2>6. ThreadTyped' /\ Still("vip") /\ Still("md") /\ Still("app")
    BY <1>2, <2>2 DEF ThreadTyped, GoneTo, Still, Thread, Filter, Pc, appVars, threadVars, GetSample
  <2>7. pc'["enc"] \in {"get", "drain"} /\ cur'["enc"] = None
    BY <1>2, <2>2, AtValues DEF ThreadTyped, EncThere, GoneTo, Thread, Filter, Pc, Sample, None,
       Releasing, GetSample
  <2>8. EncThere'
    BY <1>2, <2>5, <2>7 DEF Fixed, EncThere, Releasing, None, Sample, GetSample
  <2>9. EncLeaves' /\ pc'["enc"] # "begin"
    BY <1>2, <2>5, <2>7, <2>2, AtValues DEF Fixed, EncLeaves, EncThere, FilterTyped, Releasing,
       GoneTo, UnlockedTo, Thread, Filter, Pc, Queued, Sample, GetSample
  <2> QED BY <2>3, <2>4, <2>5, <2>6, <2>7, <2>8, <2>9
<1>3. CASE GetSample("enc") /\ inQ["enc"] # <<>>
  <2>1. Head(inQ["enc"]) \in Sample /\ Tail(inQ["enc"]) \in Seq(Sample)
    BY <1>3 DEF QueueTyped
  <2>2. GoneTo("enc", "encode")
    BY <1>3, <2>1, Going DEF Thread, Filter, Pc, GetSample
  <2>3. PoolTyped'
    BY <1>3, <2>1, SameTyped DEF GetSample
  <2>4. QueueTyped'
    <3>1. /\ m_pSemIn' = [m_pSemIn EXCEPT !["enc"] = @ - 1] /\ m_pSemIn["enc"] > 0
          /\ inQ' = [inQ EXCEPT !["enc"] = Tail(@)]
      BY <1>3, <2>1 DEF Queued, GetSample
    <3> QED BY <2>1, <3>1 DEF QueueTyped
  <2>5. FilterTyped' /\ Fixed
    BY <1>3, <2>1, SameTyped DEF Fixed, appVars, GetSample
  <2>6. ThreadTyped' /\ Still("vip") /\ Still("md") /\ Still("app")
    BY <1>3, <2>1, <2>2 DEF ThreadTyped, GoneTo, Still, Thread, Filter, Pc, appVars, threadVars,
       GetSample
  <2>7. pc'["enc"] \in {"encode"} /\ cur'["enc"] # None
    BY <1>3, <2>1, <2>2, AtValues DEF ThreadTyped, EncThere, GoneTo, Thread, Filter, Pc, Sample,
       None, Releasing, GetSample
  <2>8. EncThere'
    BY <1>3, <2>1, <2>5, <2>7 DEF Fixed, EncThere, Releasing, None, Sample, GetSample
  <2>9. EncLeaves' /\ pc'["enc"] # "begin"
    BY <1>3, <2>1, <2>5, <2>7, <2>2, AtValues DEF Fixed, EncLeaves, EncThere, FilterTyped,
       Releasing, GoneTo, UnlockedTo, Thread, Filter, Pc, Queued, Sample, GetSample
  <2> QED BY <2>3, <2>4, <2>5, <2>6, <2>7, <2>8, <2>9
<1>4. CASE Encode
  <2>1. cur["enc"] \in Sample /\ Unlock("enc", cur["enc"], "test")
    BY <1>4 DEF ThreadTyped, EncThere, Thread, Filter, Encode
  <2>2. UnlockedTo("enc", cur["enc"], "test")
    BY <1>4, <2>1, Unlocked DEF Thread, Filter, Pc
  <2>3. PoolTyped'
    BY <1>4, <2>1, <2>2 DEF PoolTyped, UnlockedTo, Encode
  <2>4. QueueTyped'
    BY <1>4, <2>1, SameTyped DEF Encode
  <2>5. FilterTyped' /\ Fixed
    BY <1>4, <2>1, SameTyped DEF Fixed, appVars, Encode
  <2>6. ThreadTyped' /\ Still("vip") /\ Still("md") /\ Still("app")
    BY <1>4, <2>1, <2>2 DEF ThreadTyped, UnlockedTo, Still, Thread, Filter, Pc, appVars,
       threadVars, Encode
  <2>7. /\ \/ pc'["enc"] \in {"get", "drain"}
           \/ pc'["enc"] = "memory" /\ ret'["enc"] = "test" /\ rel'["enc"] # None
        /\ cur'["enc"] = None
    BY <1>4, <2>1, <2>2, AtValues DEF ThreadTyped, EncThere, UnlockedTo, Thread, Filter, Pc,
       Sample, None, Releasing, Encode
  <2>8. EncThere'
    BY <1>4, <2>1, <2>5, <2>7 DEF Fixed, EncThere, Releasing, None, Sample, Encode
  <2>9. EncLeaves' /\ pc'["enc"] # "begin"
    BY <1>4, <2>1, <2>5, <2>7, <2>2, AtValues DEF Fixed, EncLeaves, EncThere, FilterTyped,
       Releasing, GoneTo, UnlockedTo, Thread, Filter, Pc, Queued, Sample, Encode
  <2> QED BY <2>3, <2>4, <2>5, <2>6, <2>7, <2>8, <2>9
<1>5. CASE DrainInput("enc") /\ inQ["enc"] = <<>>
  <2>2. GoneTo("enc", "gone")
    BY <1>5, Going DEF Thread, Filter, Pc, DrainInput
  <2>3. PoolTyped'
    BY <1>5, <2>2 DEF PoolTyped, DrainInput
  <2>4. QueueTyped'
    <3>1. inQ' = inQ /\ m_pSemIn' = m_pSemIn
      BY <1>5 DEF Queued, DrainInput
    <3> QED BY <3>1 DEF QueueTyped
  <2>5. FilterTyped' /\ Fixed
    BY <1>5, SameTyped DEF Fixed, appVars, DrainInput
  <2>6. ThreadTyped' /\ Still("vip") /\ Still("md") /\ Still("app")
    BY <1>5, <2>2 DEF ThreadTyped, GoneTo, Still, Thread, Filter, Pc, appVars, threadVars, DrainInput
  <2>7. pc'["enc"] \in {"gone"} /\ cur'["enc"] = cur["enc"]
    BY <1>5, <2>2, AtValues DEF ThreadTyped, EncThere, GoneTo, Thread, Filter, Pc, Sample, None,
       Releasing, DrainInput
  <2>8. EncThere'
    BY <1>5, <2>5, <2>7 DEF Fixed, EncThere, Releasing, None, Sample, DrainInput
  <2>9. EncLeaves' /\ pc'["enc"] # "begin"
    BY <1>5, <2>5, <2>7, <2>2, AtValues DEF Fixed, EncLeaves, EncThere, FilterTyped, Releasing,
       GoneTo, UnlockedTo, Thread, Filter, Pc, Queued, Sample, DrainInput
  <2> QED BY <2>3, <2>4, <2>5, <2>6, <2>7, <2>8, <2>9
<1>6. CASE DrainInput("enc") /\ inQ["enc"] # <<>>
  <2>1. /\ Head(inQ["enc"]) \in Sample /\ Tail(inQ["enc"]) \in Seq(Sample)
        /\ Unlock("enc", Head(inQ["enc"]), "drain")
    BY <1>6 DEF QueueTyped, DrainInput
  <2>2. UnlockedTo("enc", Head(inQ["enc"]), "drain")
    BY <1>6, <2>1, Unlocked DEF Thread, Filter, Pc
  <2>3. PoolTyped'
    BY <1>6, <2>1, <2>2 DEF PoolTyped, UnlockedTo, DrainInput
  <2>4. QueueTyped'
    <3>1. inQ' = [inQ EXCEPT !["enc"] = Tail(@)] /\ m_pSemIn' = m_pSemIn
      BY <1>6, <2>1 DEF Queued, DrainInput
    <3> QED BY <2>1, <3>1 DEF QueueTyped
  <2>5. FilterTyped' /\ Fixed
    BY <1>6, <2>1, SameTyped DEF Fixed, appVars, DrainInput
  <2>6. ThreadTyped' /\ Still("vip") /\ Still("md") /\ Still("app")
    BY <1>6, <2>1, <2>2 DEF ThreadTyped, UnlockedTo, Still, Thread, Filter, Pc, appVars,
       threadVars, DrainInput
  <2>7. /\ \/ pc'["enc"] \in {"drain"}
           \/ pc'["enc"] = "memory" /\ ret'["enc"] = "drain" /\ rel'["enc"] # None
        /\ cur'["enc"] = cur["enc"]
    BY <1>6, <2>1, <2>2, AtValues DEF ThreadTyped, EncThere, UnlockedTo, Thread, Filter, Pc,
       Sample, None, Releasing, DrainInput
  <2>8. EncThere'
    BY <1>6, <2>1, <2>5, <2>7 DEF Fixed, EncThere, Releasing, None, Sample, DrainInput
  <2>9. EncLeaves' /\ pc'["enc"] # "begin"
    BY <1>6, <2>1, <2>5, <2>7, <2>2, AtValues DEF Fixed, EncLeaves, EncThere, FilterTyped,
       Releasing, GoneTo, UnlockedTo, Thread, Filter, Pc, Queued, Sample, DrainInput
  <2> QED BY <2>3, <2>4, <2>5, <2>6, <2>7, <2>8, <2>9
<1>7. CASE ReleaseMemory("enc")
  <2>2. GoneTo("enc", "home")
    BY <1>7, Going DEF Thread, Filter, Pc, ReleaseMemory
  <2>3. PoolTyped'
    BY <1>7, <2>2 DEF PoolTyped, ReleaseMemory
  <2>4. QueueTyped'
    BY <1>7, SameTyped DEF ReleaseMemory
  <2>5. FilterTyped' /\ Fixed
    BY <1>7, SameTyped DEF Fixed, appVars, ReleaseMemory
  <2>6. ThreadTyped' /\ Still("vip") /\ Still("md") /\ Still("app")
    BY <1>7, <2>2 DEF ThreadTyped, GoneTo, Still, Thread, Filter, Pc, appVars, threadVars, ReleaseMemory
  <2>7. /\ pc'["enc"] \in {"home"} /\ cur'["enc"] = cur["enc"]
        /\ ret'["enc"] = ret["enc"] /\ rel'["enc"] = rel["enc"]
    BY <1>7, <2>2, AtValues DEF ThreadTyped, EncThere, GoneTo, Thread, Filter, Pc, Sample, None,
       Releasing, ReleaseMemory
  <2>8. EncThere'
    BY <1>7, <2>5, <2>7 DEF Fixed, EncThere, Releasing, None, Sample, ReleaseMemory
  <2>9. EncLeaves' /\ pc'["enc"] # "begin"
    BY <1>7, <2>5, <2>7, <2>2, AtValues DEF Fixed, EncLeaves, EncThere, FilterTyped, Releasing,
       GoneTo, UnlockedTo, Thread, Filter, Pc, Queued, Sample, ReleaseMemory
  <2> QED BY <2>3, <2>4, <2>5, <2>6, <2>7, <2>8, <2>9
<1>8. CASE ReleaseToQueue("enc")
  <2>1. rel["enc"] \in Sample /\ ret["enc"] \in Pc \cup {"test", "leave"} /\ Releasing("enc")
    BY <1>8 DEF ThreadTyped, EncThere, Thread, Filter, FilterTyped, ReleaseToQueue, Releasing
  <2>2. GoneTo("enc", ret["enc"])
    BY <1>8, <2>1, Going DEF Thread, Filter, Pc, ReleaseToQueue
  <2>3. PoolTyped'
    <3>1. SortedIn(rel["enc"], m_SampleOutQueue) \in Seq(Sample)
      BY <2>1, TimesSorted DEF PoolTyped
    <3> QED BY <1>8, <3>1 DEF PoolTyped, ReleaseToQueue
  <2>4. QueueTyped'
    BY <1>8, <2>1, SameTyped DEF ReleaseToQueue
  <2>5. FilterTyped' /\ Fixed
    BY <1>8, <2>1, SameTyped DEF Fixed, appVars, ReleaseToQueue
  <2>6. ThreadTyped' /\ Still("vip") /\ Still("md") /\ Still("app")
    BY <1>8, <2>1, <2>2 DEF ThreadTyped, GoneTo, Still, Thread, Filter, Pc, appVars, threadVars,
       ReleaseToQueue
  <2>7. /\ ret["enc"] = "test" => pc'["enc"] \in {"get", "drain"} /\ cur'["enc"] = None
        /\ ret["enc"] = "drain" => pc'["enc"] = "drain" /\ cur'["enc"] = None
    BY <1>8, <2>1, <2>2, AtValues DEF ThreadTyped, EncThere, GoneTo, Thread, Filter, Pc, Sample,
       None, Releasing, ReleaseToQueue, FilterTyped
  <2>8. EncThere'
    BY <1>8, <2>1, <2>5, <2>7 DEF Fixed, EncThere, Releasing, None, Sample, ReleaseToQueue
  <2>9. EncLeaves' /\ pc'["enc"] # "begin"
    BY <1>8, <2>1, <2>5, <2>7, <2>2, AtValues DEF Fixed, EncLeaves, EncThere, FilterTyped,
       Releasing, GoneTo, UnlockedTo, Thread, Filter, Pc, Queued, Sample, ReleaseToQueue
  <2> QED BY <2>3, <2>4, <2>5, <2>6, <2>7, <2>8, <2>9
<1> QED BY <1>1, <1>2, <1>3, <1>4, <1>5, <1>6, <1>7, <1>8 DEF EncThread, Release

StillThreads == Still("vip") /\ Still("md") /\ Still("enc") /\ m_MdEnable' = m_MdEnable

LEMMA ClosingMoves ==
    ASSUME Typed, AppThere, pc["app"] = "call", CloseDisplay
    PROVE  PoolTyped' /\ QueueTyped' /\ ThreadTyped' /\ AppThere' /\ StillThreads
<1> USE DEF Typed
<1>1. /\ UNCHANGED <<m_SampleOutQueue, m_ReleaseQueue, m_pSemOut, driver, image, inQ, m_pSemIn, cur>>
      /\ m_MdEnable' = m_MdEnable
  BY DEF CloseDisplay, Done
<1>2. QueueTyped'
  BY <1>1, SameTyped
<1>3. CASE prev["vr"] = None
  <2>1. UNCHANGED <<ref, pc, rel, ret>>
    BY <1>3 DEF CloseDisplay
  <2>2. PoolTyped' /\ ThreadTyped'
    BY <1>1, <2>1 DEF PoolTyped, ThreadTyped
  <2>3. StillThreads /\ Still("app")
    BY <1>1, <2>1 DEF StillThreads, Still
  <2> QED BY <1>1, <1>2, <2>2, <2>3, SameThere
<1>4. CASE prev["vr"] # None
  <2>1. prev["vr"] \in Sample /\ Unlock("app", prev["vr"], "leave")
    BY <1>4 DEF CloseDisplay, FilterTyped
  <2>2. UnlockedTo("app", prev["vr"], "leave")
    BY <2>1, Unlocked DEF Thread, Filter, Pc
  <2>3. PoolTyped'
    BY <1>1, <2>2 DEF PoolTyped, UnlockedTo
  <2>4. ThreadTyped' /\ StillThreads
    BY <1>1, <2>2 DEF ThreadTyped, UnlockedTo, StillThreads, Still, Thread, Filter
  <2>5. /\ pc'["app"] = "call" \/ (pc'["app"] = "memory" /\ ret'["app"] = "leave" /\ rel'["app"] # None)
        /\ cur'["app"] = cur["app"]
    BY <1>1, <2>1, <2>2, AtValues DEF UnlockedTo, Sample, None
  <2>6. AppThere'
    BY <2>5 DEF AppThere, Releasing
  <2> QED BY <1>2, <2>3, <2>4, <2>6
<1> QED BY <1>3, <1>4

LEMMA AppMoves ==
    ASSUME Typed, AppThere, CallStep
    PROVE  Typed' /\ AppThere' /\ StillThreads
<1> USE DEF Typed
<1>1. ASSUME UNCHANGED <<threadVars, m_MdEnable>>
      PROVE  ThreadTyped' /\ AppThere' /\ StillThreads
  BY <1>1, SameThere DEF ThreadTyped, threadVars, Still, StillThreads
<1>2. CASE TurnOn
  <2>1. PoolTyped' /\ QueueTyped'
    BY <1>2, SameTyped DEF TurnOn
  <2>2. FilterTyped'
    BY <1>2 DEF TurnOn, Done, FilterTyped, mdVars
  <2> QED BY <1>1, <1>2, <2>1, <2>2 DEF TurnOn, Done
<1>3. CASE TurnOff \/ StopVr
  <2>1. pc["app"] = "call" /\ CloseDisplay
    BY <1>3 DEF TurnOff, StopVr, Due
  <2>2. FilterTyped'
    <3>1. /\ m_hDsp' = FALSE /\ shown' = <<>> /\ prev' = [prev EXCEPT !["vr"] = None]
          /\ UNCHANGED <<m_bThreadExit, mdVars, m_DisplayEnable, m_MdEnable>>
      BY <2>1 DEF CloseDisplay, Done
    <3>2. m_bEnable' \in BOOLEAN /\ m_bEnableHdmi' \in BOOLEAN
      BY <1>3 DEF TurnOff, StopVr, FilterTyped
    <3>3. prev' \in [{"md", "vr"} -> Sample \cup {None}] /\ shown' \in Seq(Sample)
      BY <3>1 DEF FilterTyped
    <3> QED BY <3>1, <3>2, <3>3 DEF FilterTyped, mdVars
  <2> QED BY <2>1, <2>2, ClosingMoves
<1>4. CASE StopVip
  <2>1. PoolTyped' /\ QueueTyped'
    BY <1>4 DEF StopVip, PoolTyped, QueueTyped
  <2>2. FilterTyped'
    BY <1>4 DEF StopVip, Done, FilterTyped, vrVars, Filter
  <2> QED BY <1>1, <1>4, <2>1, <2>2 DEF StopVip, Done
<1>5. CASE JoinVip
  <2>1. PoolTyped' /\ QueueTyped'
    BY <1>5 DEF JoinVip, PoolTyped, QueueTyped
  <2>2. FilterTyped'
    BY <1>5 DEF JoinVip, Done, FilterTyped, vrVars, mdVars, Filter
  <2> QED BY <1>1, <1>5, <2>1, <2>2 DEF JoinVip, Done
<1>6. CASE Join("md") \/ Join("enc")
  <2>1. PoolTyped' /\ QueueTyped' /\ FilterTyped'
    BY <1>6, SameTyped DEF Join, Done
  <2> QED BY <1>1, <1>6, <2>1 DEF Join, Done
<1>7. CASE StopEnc
  <2>1. PoolTyped' /\ QueueTyped'
    BY <1>7, SameTyped DEF StopEnc, QueueTyped
  <2>2. FilterTyped'
    BY <1>7 DEF StopEnc, Done, FilterTyped, vrVars, mdVars, Filter
  <2> QED BY <1>1, <1>7, <2>1, <2>2 DEF StopEnc, Done
<1>8. CASE ReleaseMemory("app")
  <2>1. GoneTo("app", "home")
    BY <1>8, Going DEF Thread, Filter, Pc, ReleaseMemory
  <2>2. PoolTyped' /\ QueueTyped' /\ FilterTyped'
    BY <1>8, SameTyped DEF PoolTyped, ReleaseMemory, appVars
  <2>3. ThreadTyped' /\ StillThreads
    BY <1>8, <2>1 DEF GoneTo, ThreadTyped, StillThreads, Still, Thread, Filter, ReleaseMemory, appVars
  <2>4. AppThere'
    BY <1>8, <2>1, AtValues DEF GoneTo, AppThere, Releasing, Thread, Pc, ReleaseMemory
  <2> QED BY <2>2, <2>3, <2>4
<1>9. CASE ReleaseToQueue("app")
  <2>1. rel["app"] \in Sample /\ ret["app"] = "leave"
    BY <1>9 DEF ThreadTyped, AppThere, ReleaseToQueue, Releasing, Thread, Filter
  <2>2. GoneTo("app", "leave")
    BY <1>9, <2>1, Going DEF Thread, Filter, Pc, ReleaseToQueue
  <2>3. SortedIn(rel["app"], m_SampleOutQueue) \in Seq(Sample)
    BY <2>1, TimesSorted DEF PoolTyped
  <2>4. PoolTyped'
    BY <1>9, <2>3 DEF PoolTyped, ReleaseToQueue
  <2>5. QueueTyped' /\ FilterTyped'
    BY <1>9, SameTyped DEF ReleaseToQueue, appVars
  <2>6. ThreadTyped' /\ StillThreads
    BY <1>9, <2>2 DEF GoneTo, ThreadTyped, StillThreads, Still, Thread, Filter, Pc,
       ReleaseToQueue, appVars
  <2>7. AppThere'
    BY <1>9, <2>2, AtValues DEF GoneTo, AppThere, Releasing, ReleaseToQueue
  <2> QED BY <2>4, <2>5, <2>6, <2>7
<1> QED BY <1>2, <1>3, <1>4, <1>5, <1>6, <1>7, <1>8, <1>9 DEF CallStep, Release

LEMMA StartMoves ==
    ASSUME Typed, There, Start, \A t \in Filter : cur[t] = None
    PROVE  Typed' /\ There'
<1> USE DEF Typed, There
<1>1. PoolTyped' /\ QueueTyped'
  BY SameTyped DEF Start
<1>2. FilterTyped'
  BY DEF Start, FilterTyped, Filter
<1>3. ThreadTyped' /\ \A t \in Thread : cur'[t] = cur[t] /\ rel'[t] = rel[t] /\ ret'[t] = ret[t]
  BY DEF Start, ThreadTyped, Thread, Filter, Pc
<1>4. pc'["vip"] = "begin" /\ pc'["enc"] = "begin" /\ pc'["app"] = pc["app"]
      /\ pc'["md"] = (IF m_MdEnable THEN "begin" ELSE pc["md"]) /\ m_MdEnable' = m_MdEnable
  BY DEF Start, Thread, Filter
<1>5. VipThere' /\ EncThere' /\ AppThere'
  BY <1>3, <1>4 DEF VipThere, EncThere, AppThere, Releasing, Thread, Filter
<1>6. MdThere'
  BY <1>3, <1>4 DEF MdThere, Releasing, Thread, Filter
<1> QED BY <1>1, <1>2, <1>3, <1>5, <1>6

LEMMA CallMoves ==
    ASSUME Typed, EnableMotionDetect \/ Stop \/ SetDisplay \/ SetPreview
    PROVE  Typed' /\ StillThreads /\ Still("app") /\ Fixed
<1> USE DEF Typed
<1>1. CASE EnableMotionDetect
  <2>1. PoolTyped' /\ QueueTyped' /\ ThreadTyped' /\ StillThreads /\ Still("app") /\ Fixed
    BY <1>1, SameTyped DEF EnableMotionDetect, ThreadTyped, threadVars, Still, StillThreads, Fixed
  <2>2. FilterTyped'
    BY <1>1 DEF EnableMotionDetect, FilterTyped, vrVars
  <2> QED BY <2>1, <2>2
<1>2. ASSUME NEW list, Call(list), m_DisplayEnable' \in BOOLEAN
      PROVE  Typed' /\ StillThreads /\ Still("app") /\ Fixed
  <2>1. PoolTyped' /\ QueueTyped' /\ ThreadTyped' /\ StillThreads /\ Still("app") /\ Fixed
    BY <1>2, SameTyped DEF Call, ThreadTyped, threadVars, Still, StillThreads, Fixed
  <2>2. FilterTyped'
    BY <1>2 DEF Call, FilterTyped, vrVars, mdVars
  <2> QED BY <2>1, <2>2
<1>3. CASE Stop \/ SetDisplay \/ SetPreview
  <2>1. m_DisplayEnable' \in BOOLEAN
    BY <1>3 DEF Stop, SetDisplay, SetPreview, FilterTyped
  <2>2. \E list : Call(list)
    BY <1>3 DEF Stop, SetDisplay, SetPreview
  <2> QED BY <1>2, <2>1, <2>2
<1> QED BY <1>1, <1>3

(***************************************************************************)
(* The order of a Stop.                                                    *)
(***************************************************************************)
StopCalls == <<"StopVip", "JoinVip", "JoinMd", "StopVr", "StopEnc", "JoinEnc">>
StopFrom(n) == SubSeq(StopCalls, n, 6)
Switches == {"RenderOn", "RenderOff", "HdmiOn", "HdmiOff"}

(* What is left of the call is either made of switches or the end of a     *)
(* Stop.                                                                   *)
Lists == todo \in Seq(Switches) \/ \E n \in 1..6 : todo = StopFrom(n)

(* A Stop goes from the camera to the encoder: who is told to stop has no  *)
(* picture coming any more.                                                *)
StopOrder ==
    /\ m_bThreadExit["md"] => pc["vip"] = "gone"
    /\ m_bThreadExit["enc"] => /\ pc["vip"] = "gone" /\ pc["md"] = "gone"
                               /\ prev["vr"] = None /\ pc["app"] = "call"
    /\ \A n \in 1..6 : todo = StopFrom(n) =>
         /\ n >= 3 => m_bThreadExit["md"]
         /\ n >= 4 => pc["md"] = "gone"
         /\ n >= 5 => prev["vr"] = None

(* A run begins with nothing left of the one before. *)
Fresh ==
    /\ calls \in Nat
    /\ calls = 0 \/ ~m_MdEnable => pc["md"] = "gone" /\ prev["md"] = None
    /\ pc["vip"] = "begin" =>
         /\ inQ["md"] = <<>> /\ inQ["enc"] = <<>>
         /\ prev["md"] = None /\ prev["vr"] = None
         /\ pc["md"] \in {"begin", "get", "gone"} /\ pc["enc"] \in {"begin", "get"}
         /\ pc["app"] = "call"

Leaves == VipLeaves /\ MdLeaves /\ EncLeaves

LEMMA StopLists ==
    /\ \A n \in 1..6 : /\ StopFrom(n) # <<>> /\ Head(StopFrom(n)) = StopCalls[n]
                       /\ n # 6 => Tail(StopFrom(n)) = StopFrom(n + 1)
                       /\ Len(StopFrom(n)) = 7 - n
    /\ Tail(StopFrom(6)) = <<>>
<1> DEFINE S == {"StopVip", "JoinVip", "JoinMd", "StopVr", "StopEnc", "JoinEnc"}
<1>1. StopCalls \in Seq(S) /\ Len(StopCalls) = 6
  BY DEF StopCalls
<1> HIDE DEF S
<1>2. ASSUME NEW n \in 1..6
      PROVE  /\ Len(StopFrom(n)) = 7 - n /\ StopFrom(n) # <<>>
             /\ Head(StopFrom(n)) = StopCalls[n] /\ Tail(StopFrom(n)) = SubSeq(StopCalls, n + 1, 6)
  <2>1. n \in 1..Len(StopCalls) /\ 6 \in n..Len(StopCalls) /\ n \in Int /\ 6 \in Int
    BY <1>1
  <2>2. \A i \in n..6 : StopCalls[i] \in S
    <3>1. \A i \in n..6 : i \in 1..6
      OBVIOUS
    <3>2. \A i \in 1..6 : StopCalls[i] \in S
      BY <1>1, ElementOfSeq
    <3> QED BY <3>1, <3>2
  <2>3. StopFrom(n) \in Seq(S) /\ Len(StopFrom(n)) = 7 - n
    BY <2>1, <2>2, SubSeqProperties DEF StopFrom
  <2>4. StopFrom(n) # <<>>
    BY <2>3
  <2> QED BY <1>1, <2>1, <2>3, <2>4, HeadTailOfSubSeq DEF StopFrom
<1>3. SubSeq(StopCalls, 6 + 1, 6) = <<>>
  BY SubSeqEmpty
<1> QED BY <1>2, <1>3 DEF StopFrom

LEMMA DueAt ==
    ASSUME Lists, NEW n \in 1..6, Due(StopCalls[n])
    PROVE  /\ todo = StopFrom(n)
           /\ Done => IF n = 6 THEN todo' = <<>> ELSE todo' = StopFrom(n + 1)
<1>1. todo # <<>> /\ Head(todo) = StopCalls[n]
  BY DEF Due
<1>2. StopCalls[n] \notin Switches /\ \A m \in 1..6 : StopCalls[m] = StopCalls[n] => m = n
  BY DEF StopCalls, Switches
<1>3. todo \notin Seq(Switches)
  <2>1. todo \in Seq(Switches) => Head(todo) \in Switches
    BY <1>1
  <2> QED BY <1>1, <1>2, <2>1
<1>4. PICK m \in 1..6 : todo = StopFrom(m)
  BY <1>3 DEF Lists
<1>5. m = n
  BY <1>1, <1>2, <1>4, StopLists
<1> QED BY <1>4, <1>5, StopLists DEF Done

LEMMA StopNames ==
    /\ StopCalls[1] = "StopVip" /\ StopCalls[2] = "JoinVip" /\ StopCalls[3] = "JoinMd"
    /\ StopCalls[4] = "StopVr" /\ StopCalls[5] = "StopEnc" /\ StopCalls[6] = "JoinEnc"
  BY DEF StopCalls

LEMMA NotStop ==
    /\ \A q \in Seq(Switches) : \A n \in 1..6 : q # StopFrom(n)
    /\ <<>> \in Seq(Switches)
    /\ \A m, n \in 1..6 : StopFrom(m) = StopFrom(n) => m = n
    /\ \A q \in Seq(Switches) : q # <<>> => Head(q) \in Switches /\ Tail(q) \in Seq(Switches)
<1>1. \A n \in 1..6 : StopCalls[n] \notin Switches
  BY DEF StopCalls, Switches
<1>2. ASSUME NEW q \in Seq(Switches), NEW n \in 1..6, q = StopFrom(n) PROVE FALSE
  <2>1. q # <<>> /\ Head(q) \notin Switches
    BY <1>1, <1>2, StopLists
  <2> QED BY <2>1
<1>3. \A m, n \in 1..6 : StopFrom(m) = StopFrom(n) => m = n
  <2>1. \A m, n \in 1..6 : 7 - m = 7 - n => m = n
    OBVIOUS
  <2> QED BY <2>1, StopLists
<1>4. \A q \in Seq(Switches) : q # <<>> => Head(q) \in Switches /\ Tail(q) \in Seq(Switches)
  OBVIOUS
<1> QED BY <1>2, <1>3, <1>4

-----------------------------------------------------------------------------
(***************************************************************************)
(* Every step keeps what is said of the places and of the order of a Stop. *)
(***************************************************************************)
(* Nothing here speaks of references yet: all that the later invariants    *)
(* need to know of where the threads are.                                  *)
Base == Typed /\ There /\ Leaves /\ Lists /\ StopOrder /\ Fresh

LEMMA SameLists == Lists /\ todo' = todo => Lists'
  BY DEF Lists

LEMMA VipActs ==
    ASSUME Typed, There, VipThread
    PROVE  /\ pc["vip"] # "gone" /\ UNCHANGED appVars
           /\ prev'["md"] = prev["md"]
           /\ ~m_MdEnable => inQ'["md"] = inQ["md"]
<1> USE DEF Typed, FilterTyped, QueueTyped
<1>1. CASE Begin \/ GetDeliverySample \/ Capture \/ UnlockOwn("vip") \/ Release("vip")
  BY <1>1 DEF Begin, GetDeliverySample, Capture, UnlockOwn, Release, ReleaseMemory, ReleaseToQueue
<1>2. CASE DeliverToDetector
  BY <1>2 DEF DeliverToDetector
<1>3. CASE Display("vip")
  BY <1>3 DEF Display, VrReceive, Queued, DspDequeue
<1> QED BY <1>1, <1>2, <1>3 DEF VipThread

LEMMA MdActs ==
    ASSUME Typed, There, MdThread
    PROVE  /\ pc["md"] # "gone" /\ UNCHANGED appVars
           /\ pc["md"] \in {"begin", "get"} /\ inQ["md"] = <<>> =>
                UNCHANGED <<inQ, prev>> /\ (~m_bThreadExit["md"] => pc'["md"] = "get")
<1> USE DEF Typed, FilterTyped, QueueTyped, ThreadTyped
<1>1. CASE BeginLoop("md")
  BY <1>1, AtCases DEF BeginLoop, Goto, Thread, Filter
<1>2. CASE GetSample("md")
  BY <1>2, AtCases DEF GetSample, Goto, Thread, Filter
<1>3. CASE DetectMotion \/ UnlockOwn("md") \/ DrainInput("md") \/ Release("md") \/ Display("md")
  BY <1>3 DEF DetectMotion, UnlockOwn, DrainInput, Release, ReleaseMemory, ReleaseToQueue, Display,
              VrReceive, DspDequeue
<1> QED BY <1>1, <1>2, <1>3 DEF MdThread

LEMMA EncActs ==
    ASSUME Typed, There, EncThread
    PROVE  /\ pc["enc"] # "gone" /\ UNCHANGED <<appVars, prev>> /\ inQ'["md"] = inQ["md"]
           /\ pc["enc"] \in {"begin", "get"} /\ inQ["enc"] = <<>> =>
                inQ' = inQ /\ (~m_bThreadExit["enc"] => pc'["enc"] = "get")
<1> USE DEF Typed, FilterTyped, QueueTyped, ThreadTyped
<1>1. CASE BeginLoop("enc")
  BY <1>1, AtCases DEF BeginLoop, Goto, Thread, Filter
<1>2. CASE GetSample("enc")
  BY <1>2, AtCases DEF GetSample, Goto, Thread, Filter
<1>3. CASE Encode \/ Release("enc")
  BY <1>3 DEF Encode, Release, ReleaseMemory, ReleaseToQueue
<1>4. CASE DrainInput("enc")
  BY <1>4 DEF DrainInput
<1> QED BY <1>1, <1>2, <1>3, <1>4 DEF EncThread

LEMMA VipBase == ASSUME Base, VipThread PROVE Base'
<1> USE DEF Base
<1>1. /\ Typed' /\ VipThere' /\ VipLeaves' /\ pc'["vip"] # "begin"
      /\ Still("md") /\ Still("enc") /\ Still("app") /\ Fixed
  BY VipMoves DEF There, Leaves
<1>2. There'
  BY <1>1, SameThere DEF There, Fixed
<1>3. ~m_bThreadExit["md"] /\ ~m_bThreadExit["enc"] /\ UNCHANGED appVars
  BY VipActs DEF StopOrder
<1>4. Leaves'
  BY <1>1, <1>3, VipActs DEF Leaves, MdLeaves, EncLeaves, Still, Fixed, Releasing
<1>5. Lists'
  BY <1>3, SameLists DEF appVars
<1>6. StopOrder'
  BY <1>1, <1>3 DEF StopOrder, Fixed, appVars
<1>7. Fresh'
  BY <1>1, <1>3, VipActs DEF Fresh, Fixed, Still, appVars
<1> QED BY <1>1, <1>2, <1>4, <1>5, <1>6, <1>7

LEMMA MdBase == ASSUME Base, MdThread PROVE Base'
<1> USE DEF Base
<1>1. /\ Typed' /\ MdThere' /\ MdLeaves' /\ pc'["md"] # "begin"
      /\ Still("vip") /\ Still("enc") /\ Still("app") /\ Fixed
  BY MdMoves DEF There, Leaves
<1>2. There'
  BY <1>1, SameThere DEF There, Fixed
<1>3. ~m_bThreadExit["enc"] /\ UNCHANGED appVars /\ m_MdEnable /\ pc["md"] # "gone"
  BY MdActs DEF StopOrder, There, MdThere
<1>4. Leaves'
  BY <1>1, <1>3 DEF Leaves, VipLeaves, EncLeaves, Still, Fixed, Releasing
<1>5. Lists'
  BY <1>3, SameLists DEF appVars
<1>6. StopOrder'
  BY <1>1, <1>3 DEF StopOrder, Fixed, Still, appVars
<1>7. Fresh'
  <2>1. ~(calls = 0 \/ ~m_MdEnable) /\ calls \in Nat
    BY <1>3 DEF Fresh
  <2>2. ASSUME pc["vip"] = "begin"
        PROVE  /\ UNCHANGED <<inQ, prev>> /\ pc'["md"] = "get"
    <3>1. pc["md"] \in {"begin", "get"} /\ inQ["md"] = <<>> /\ ~m_bThreadExit["md"]
      BY <1>3, <2>2 DEF Fresh, StopOrder
    <3> QED BY <3>1, MdActs
  <2> QED BY <1>1, <1>3, <2>1, <2>2 DEF Fresh, Fixed, Still, appVars
<1> QED BY <1>1, <1>2, <1>4, <1>5, <1>6, <1>7

LEMMA EncBase == ASSUME Base, EncThread PROVE Base'
<1> USE DEF Base
<1>1. /\ Typed' /\ EncThere' /\ EncLeaves' /\ pc'["enc"] # "begin"
      /\ Still("vip") /\ Still("md") /\ Still("app") /\ Fixed
  BY EncMoves DEF There, Leaves
<1>2. There'
  BY <1>1, SameThere DEF There, Fixed
<1>3. UNCHANGED <<appVars, prev>> /\ pc["enc"] # "gone" /\ inQ'["md"] = inQ["md"]
  BY EncActs
<1>4. Leaves'
  BY <1>1, <1>3 DEF Leaves, VipLeaves, MdLeaves, Still, Fixed, Releasing
<1>5. Lists'
  BY <1>3, SameLists DEF appVars
<1>6. StopOrder'
  BY <1>1, <1>3 DEF StopOrder, Fixed, Still, appVars
<1>7. Fresh'
  <2>2. ASSUME pc["vip"] = "begin"
        PROVE  /\ inQ' = inQ /\ pc'["enc"] = "get"
    <3>1. pc["enc"] \in {"begin", "get"} /\ inQ["enc"] = <<>> /\ ~m_bThreadExit["enc"]
      BY <1>3, <2>2 DEF Fresh, StopOrder
    <3> QED BY <3>1, EncActs
  <2> QED BY <1>1, <1>3, <2>2 DEF Fresh, Fixed, Still, appVars
<1> QED BY <1>1, <1>2, <1>4, <1>5, <1>6, <1>7

LEMMA SwitchAt ==
    ASSUME Lists, NEW c \in Switches, Due(c), Done
    PROVE  todo \in Seq(Switches) /\ todo' \in Seq(Switches)
<1>1. todo # <<>> /\ Head(todo) = c /\ todo' = Tail(todo)
  BY DEF Due, Done
<1>2. \A n \in 1..6 : StopCalls[n] \notin Switches
  BY DEF StopCalls, Switches
<1>3. todo \in Seq(Switches)
  BY <1>1, <1>2, StopLists DEF Lists
<1> QED BY <1>1, <1>3, NotStop

(* What the calls of the manager do not touch. *)
LEMMA SameLeaves ==
    ASSUME Leaves, StillThreads, \A f \in Filter : m_bThreadExit[f] => m_bThreadExit'[f],
           inQ' = inQ
    PROVE  Leaves'
  BY DEF Leaves, VipLeaves, MdLeaves, EncLeaves, StillThreads, Still, Releasing, Filter

LEMMA ClosingActs ==
    ASSUME Typed, There, CloseDisplay
    PROVE  /\ prev'["vr"] = None /\ prev'["md"] = prev["md"]
           /\ prev["vr"] = None => pc' = pc
           /\ inQ' = inQ /\ m_bThreadExit' = m_bThreadExit /\ calls' = calls
           /\ m_MdEnable' = m_MdEnable /\ Done
  BY DEF CloseDisplay, Done, Typed, FilterTyped

LEMMA SwitchBase == ASSUME Base, TurnOn \/ TurnOff PROVE Base'
<1> USE DEF Base
<1>1. CallStep
  BY DEF CallStep
<1>2. Typed' /\ AppThere' /\ StillThreads
  BY <1>1, AppMoves DEF There
<1>3. There'
  BY <1>2, SameThere DEF There, StillThreads
<1>4. /\ inQ' = inQ /\ m_bThreadExit' = m_bThreadExit /\ calls' = calls /\ Done
      /\ prev'["md"] = prev["md"] /\ (prev["vr"] = None => prev'["vr"] = None /\ pc' = pc)
      /\ m_MdEnable' = m_MdEnable
  BY ClosingActs DEF TurnOn, TurnOff, Done, threadVars
<1>5. todo' \in Seq(Switches)
  BY <1>4, SwitchAt DEF TurnOn, TurnOff, Switches
<1>6. Leaves'
  BY <1>2, <1>4, SameLeaves
<1>7. StopOrder'
  BY <1>2, <1>4, <1>5, NotStop DEF StopOrder, StillThreads, Still
<1>8. Fresh'
  BY <1>2, <1>4 DEF Fresh, StillThreads, Still
<1> QED BY <1>2, <1>3, <1>5, <1>6, <1>7, <1>8 DEF Lists

LEMMA StopBase ==
    ASSUME Base, StopVip \/ JoinVip \/ Join("md") \/ StopVr \/ StopEnc \/ Join("enc")
    PROVE  Base'
<1> USE DEF Base
<1>1. CallStep
  BY DEF CallStep
<1>2. Typed' /\ AppThere' /\ StillThreads
  BY <1>1, AppMoves DEF There
<1>3. There'
  BY <1>2, SameThere DEF There, StillThreads
<1>4. \A f \in Filter : m_bThreadExit[f] \in BOOLEAN
  BY DEF Typed, FilterTyped
<1>5. /\ m_bThreadExit \in [Filter -> BOOLEAN] /\ prev \in [{"md", "vr"} -> Sample \cup {None}]
  BY DEF Typed, FilterTyped
<1>6. CASE StopVip
  <2>1. /\ todo' = StopFrom(2) /\ UNCHANGED <<inQ, prev, pc, calls, m_MdEnable>>
        /\ m_bThreadExit' = [m_bThreadExit EXCEPT !["vip"] = TRUE]
    BY <1>6, DueAt, StopNames DEF StopVip, Done, threadVars
  <2>2. Leaves' /\ Fresh'
    BY <1>2, <1>5, <2>1, SameLeaves DEF Fresh, StillThreads, Still, Filter
  <2>3. StopOrder' /\ Lists'
    BY <1>2, <1>5, <2>1, NotStop DEF StopOrder, Lists, StillThreads, Still, Filter
  <2> QED BY <1>2, <1>3, <2>2, <2>3
<1>7. CASE JoinVip
  <2>1. /\ todo' = StopFrom(3) /\ UNCHANGED <<inQ, prev, pc, calls, m_MdEnable>>
        /\ m_bThreadExit' = [m_bThreadExit EXCEPT !["md"] = TRUE] /\ pc["vip"] = "gone"
    BY <1>7, DueAt, StopNames DEF JoinVip, Done, threadVars
  <2>2. Leaves' /\ Fresh'
    BY <1>2, <1>5, <2>1, SameLeaves DEF Fresh, StillThreads, Still, Filter
  <2>3. StopOrder' /\ Lists'
    BY <1>2, <1>5, <2>1, NotStop DEF StopOrder, Lists, StillThreads, Still, Filter
  <2> QED BY <1>2, <1>3, <2>2, <2>3
<1>8. CASE Join("md")
  <2>1. /\ todo = StopFrom(3) /\ todo' = StopFrom(4)
        /\ UNCHANGED <<inQ, prev, pc, calls, m_MdEnable, m_bThreadExit>> /\ pc["md"] = "gone"
    BY <1>8, DueAt, StopNames DEF Join, Done, threadVars
  <2>2. Leaves' /\ Fresh'
    BY <1>2, <2>1, SameLeaves DEF Fresh
  <2>3. StopOrder' /\ Lists'
    BY <2>1, NotStop DEF StopOrder, Lists
  <2> QED BY <1>2, <1>3, <2>2, <2>3
<1>9. CASE StopVr
  <2>1. /\ todo = StopFrom(4) /\ todo' = StopFrom(5)
    BY <1>9, ClosingActs, DueAt, StopNames DEF StopVr
  <2>2. /\ inQ' = inQ /\ m_bThreadExit' = m_bThreadExit /\ calls' = calls
        /\ prev'["md"] = prev["md"] /\ prev'["vr"] = None /\ (prev["vr"] = None => pc' = pc)
        /\ m_MdEnable' = m_MdEnable
    BY <1>9, ClosingActs DEF StopVr
  <2>3. Leaves' /\ Fresh'
    BY <1>2, <2>2, SameLeaves DEF Fresh, StillThreads, Still
  <2>4. StopOrder' /\ Lists'
    BY <1>2, <2>1, <2>2, NotStop DEF StopOrder, Lists, StillThreads, Still
  <2> QED BY <1>2, <1>3, <2>3, <2>4
<1>10. CASE StopEnc
  <2>1. /\ todo = StopFrom(5) /\ todo' = StopFrom(6) /\ pc["app"] = "call"
        /\ UNCHANGED <<inQ, prev, pc, calls, m_MdEnable>>
        /\ m_bThreadExit' = [m_bThreadExit EXCEPT !["enc"] = TRUE]
    BY <1>10, DueAt, StopNames DEF StopEnc, Done, Due, threadVars
  <2>2. Leaves' /\ Fresh'
    BY <1>2, <1>5, <2>1, SameLeaves DEF Fresh, StillThreads, Still, Filter
  <2>3. StopOrder' /\ Lists'
    BY <1>2, <1>5, <2>1, NotStop DEF StopOrder, Lists, StillThreads, Still, Filter
  <2> QED BY <1>2, <1>3, <2>2, <2>3
<1>11. CASE Join("enc")
  <2>1. /\ todo' = <<>> /\ UNCHANGED <<inQ, prev, pc, calls, m_MdEnable, m_bThreadExit>>
    BY <1>11, DueAt, StopNames DEF Join, Done, threadVars
  <2>2. Leaves' /\ Fresh'
    BY <1>2, <2>1, SameLeaves DEF Fresh
  <2>3. StopOrder' /\ Lists'
    BY <2>1, NotStop DEF StopOrder, Lists
  <2> QED BY <1>2, <1>3, <2>2, <2>3
<1> QED BY <1>6, <1>7, <1>8, <1>9, <1>10, <1>11

LEMMA AppBase == ASSUME Base, Release("app") PROVE Base'
<1> USE DEF Base
<1>1. CallStep
  BY DEF CallStep
<1>2. Typed' /\ AppThere' /\ StillThreads
  BY <1>1, AppMoves DEF There
<1>3. There'
  BY <1>2, SameThere DEF There, StillThreads
<1>4. pc["app"] # "call" /\ UNCHANGED <<inQ, prev, m_bThreadExit, appVars>>
  BY DEF Release, ReleaseMemory, ReleaseToQueue
<1>5. Leaves'
  BY <1>2, <1>4, SameLeaves
<1>6. Lists' /\ StopOrder' /\ Fresh'
  BY <1>2, <1>4, SameLists DEF StopOrder, Fresh, StillThreads, Still, appVars
<1> QED BY <1>2, <1>3, <1>5, <1>6

LEMMA StartBase == ASSUME Base, Start PROVE Base'
<1> USE DEF Base
<1>1. /\ pc["vip"] = "gone" /\ pc["md"] = "gone" /\ pc["enc"] = "gone" /\ pc["app"] = "call"
      /\ prev["vr"] = None
  BY DEF Start, Running, Leaves, EncLeaves, StopOrder
<1>2. \A t \in Filter : cur[t] = None
  BY <1>1 DEF There, VipThere, MdThere, EncThere, Releasing, Filter
<1>3. Typed' /\ There'
  BY <1>2, StartMoves
<1>4. /\ pc'["vip"] = "begin" /\ pc'["enc"] = "begin" /\ pc'["app"] = "call"
      /\ pc'["md"] = (IF m_MdEnable THEN "begin" ELSE "gone")
      /\ UNCHANGED <<inQ, prev, m_MdEnable, todo>> /\ calls' = calls + 1
      /\ m_bThreadExit' = [f \in Filter |-> FALSE] /\ (m_MdEnable => calls = 0) /\ todo = <<>>
  BY <1>1 DEF Start, Thread, Filter
<1>5. inQ["md"] = <<>> /\ inQ["enc"] = <<>>
  BY <1>1 DEF Leaves, MdLeaves, EncLeaves
<1>6. Leaves'
  BY <1>4, <1>5 DEF Leaves, VipLeaves, MdLeaves, EncLeaves, Releasing
<1>7. Lists' /\ StopOrder'
  BY <1>4, NotStop DEF Lists, StopOrder, Filter
<1>8. Fresh'
  BY <1>1, <1>4, <1>5 DEF Fresh
<1> QED BY <1>3, <1>6, <1>7, <1>8

LEMMA CallBase == ASSUME Base, EnableMotionDetect \/ Stop \/ SetDisplay \/ SetPreview PROVE Base'
<1> USE DEF Base
<1>1. Typed' /\ StillThreads /\ Still("app") /\ Fixed
  BY CallMoves
<1>2. There'
  BY <1>1, SameThere DEF There, StillThreads
<1>3. UNCHANGED <<inQ, prev>>
  BY DEF EnableMotionDetect, Stop, SetDisplay, SetPreview, Call
<1>4. Leaves'
  BY <1>1, <1>3, SameLeaves DEF Fixed
<1>5. calls' \in Nat /\ (calls' = 0 => calls = 0)
  BY DEF EnableMotionDetect, Stop, SetDisplay, SetPreview, Fresh
<1>6. Fresh'
  BY <1>1, <1>3, <1>5 DEF Fresh, StillThreads, Still, Fixed
<1>7. CASE EnableMotionDetect
  <2>1. Lists' /\ StopOrder'
    BY <1>1, <1>3, <1>7, SameLists DEF EnableMotionDetect, StopOrder, StillThreads, Still, Fixed
  <2> QED BY <1>1, <1>2, <1>4, <1>6, <2>1
<1>8. CASE Stop
  <2>1. StopFrom(1) = StopCalls
    <3>1. /\ StopCalls \in Seq({"StopVip", "JoinVip", "JoinMd", "StopVr", "StopEnc", "JoinEnc"})
          /\ Len(StopCalls) = 6
      BY DEF StopCalls
    <3> QED BY <3>1, SubSeqFull DEF StopFrom
  <2>2. todo' = StopFrom(1)
    BY <1>8, <2>1 DEF Stop, Call, StopCalls
  <2>3. Lists' /\ StopOrder'
    BY <1>1, <1>3, <2>2, NotStop DEF Lists, StopOrder, StillThreads, Still, Fixed
  <2> QED BY <1>1, <1>2, <1>4, <1>6, <2>3
<1>9. CASE SetDisplay \/ SetPreview
  <2>1. todo' \in Seq(Switches)
    <3>1. Off \in Seq(Switches) /\ <<"RenderOn">> \in Seq(Switches)
      BY DEF Off, Switches
    <3>2. \A on \in {"RenderOn", "HdmiOn"} : Append(Off, on) \in Seq(Switches)
      BY <3>1 DEF Switches
    <3> QED BY <1>9, <3>1, <3>2 DEF SetDisplay, SetPreview, Call
  <2>2. Lists' /\ StopOrder'
    BY <1>1, <1>3, <2>1, NotStop DEF Lists, StopOrder, StillThreads, Still, Fixed
  <2> QED BY <1>1, <1>2, <1>4, <1>6, <2>2
<1> QED BY <1>7, <1>8, <1>9

LEMMA InitBase == Init => Base
<1> SUFFICES ASSUME Init PROVE Base
  OBVIOUS
<1>1. PoolTyped /\ QueueTyped
  BY DEF Init, PoolTyped, QueueTyped, Sample
<1>2. FilterTyped
  <2>1. 0 \in 0..m_SamplingFrame /\ <<>> \in Seq(Sample)
    OBVIOUS
  <2> QED BY <2>1 DEF Init, FilterTyped
<1>6. ThreadTyped
  BY DEF Init, ThreadTyped, Thread, Filter, Pc
<1>3. There
  BY DEF Init, There, VipThere, MdThere, EncThere, AppThere, Releasing, Thread, Filter
<1>4. Leaves /\ Lists
  BY NotStop DEF Init, Leaves, VipLeaves, MdLeaves, EncLeaves, Lists, Releasing, Thread, Filter
<1>5. StopOrder /\ Fresh
  BY NotStop DEF Init, StopOrder, Fresh, Thread, Filter
<1> QED BY <1>1, <1>2, <1>3, <1>4, <1>5, <1>6 DEF Base, Typed

LEMMA StillBase == Base /\ UNCHANGED vars => Base'
<1> SUFFICES ASSUME Base, UNCHANGED vars PROVE Base'
  OBVIOUS
<1> USE DEF Base, vars, poolVars, mdVars, vrVars, threadVars, appVars
<1>1. Typed'
  BY SameTyped DEF Typed, ThreadTyped
<1>2. There'
  BY SameThere DEF There, Still
<1>3. Leaves' /\ Lists' /\ StopOrder' /\ Fresh'
  BY SameLists DEF Leaves, VipLeaves, MdLeaves, EncLeaves, StopOrder, Fresh, Releasing
<1> QED BY <1>1, <1>2, <1>3

LEMMA StepBase == Base /\ [Next]_vars => Base'
  BY VipBase, MdBase, EncBase, SwitchBase, StopBase, AppBase, StartBase, CallBase, StillBase
     DEF Next, CallStep

LEMMA AlwaysBase == Spec => []Base
  BY InitBase, StepBase, PTL DEF Spec

(***************************************************************************)
(* References.                                                             *)
(***************************************************************************)
LEMMA BNat == \A b : B(b) \in {0, 1} /\ (B(b) = 1 <=> b) /\ (B(b) = 0 <=> ~b)
  BY DEF B

(* The members of a small set, counted one by one.                         *)
LEMMA OneMore ==
    ASSUME NEW A, IsFiniteSet(A), NEW x, x \notin A, NEW T
    PROVE  /\ IsFiniteSet(A \cup {x})
           /\ Cardinality(T \cap (A \cup {x})) = Cardinality(T \cap A) + B(x \in T)
<1>1. IsFiniteSet(A \cup {x})
  BY FS_AddElement
<1>2. IsFiniteSet(T \cap A) /\ Cardinality(T \cap A) \in Nat
  BY FS_Intersection, FS_CardinalityType
<1>3. CASE x \in T
  <2>1. T \cap (A \cup {x}) = (T \cap A) \cup {x} /\ x \notin T \cap A
    BY <1>3
  <2>2. Cardinality((T \cap A) \cup {x}) = Cardinality(T \cap A) + 1
    BY <1>2, <2>1, FS_AddElement
  <2> QED BY <1>1, <1>3, <2>1, <2>2 DEF B
<1>4. CASE x \notin T
  <2>1. T \cap (A \cup {x}) = T \cap A
    BY <1>4
  <2>2. B(x \in T) = 0
    BY <1>4 DEF B
  <2>3. Cardinality(T \cap (A \cup {x})) = Cardinality(T \cap A)
    BY <2>1
  <2> QED BY <1>1, <1>2, <2>2, <2>3
<1> QED BY <1>3, <1>4

LEMMA OnlyOne ==
    ASSUME NEW T, NEW x
    PROVE  IsFiniteSet({x}) /\ Cardinality(T \cap {x}) = B(x \in T)
<1>1. IsFiniteSet({x}) /\ Cardinality({x}) = 1 /\ Cardinality({}) = 0
  BY FS_Singleton, FS_EmptySet
<1>2. CASE x \in T
  <2>1. T \cap {x} = {x}
    BY <1>2
  <2> QED BY <1>1, <1>2, <2>1 DEF B
<1>3. CASE x \notin T
  <2>1. T \cap {x} = {}
    BY <1>3
  <2> QED BY <1>1, <1>3, <2>1 DEF B
<1> QED BY <1>2, <1>3

LEMMA FilterCount ==
    ASSUME NEW T \in SUBSET {"md", "vr"}
    PROVE  Cardinality(T) = B("md" \in T) + B("vr" \in T)
<1>1. IsFiniteSet({"md"}) /\ Cardinality(T \cap {"md"}) = B("md" \in T)
  BY OnlyOne
<1>2. Cardinality(T \cap ({"md"} \cup {"vr"})) = Cardinality(T \cap {"md"}) + B("vr" \in T)
  <2>1. "vr" \notin {"md"} /\ IsFiniteSet({"md"})
    BY <1>1
  <2> QED BY <2>1, OneMore, Zenon
<1>3. T \cap ({"md"} \cup {"vr"}) = T
  OBVIOUS
<1> QED BY <1>1, <1>2, <1>3

LEMMA ThreadCount ==
    ASSUME NEW T \in SUBSET Thread
    PROVE  Cardinality(T) = B("vip" \in T) + B("md" \in T) + B("enc" \in T) + B("app" \in T)
<1>1. IsFiniteSet({"vip"}) /\ Cardinality(T \cap {"vip"}) = B("vip" \in T)
  BY OnlyOne
<1>2. IsFiniteSet({"vip", "md"}) /\ Cardinality(T \cap {"vip", "md"}) = B("vip" \in T) + B("md" \in T)
  <2>1. {"vip"} \cup {"md"} = {"vip", "md"}
    OBVIOUS
  <2>2. /\ IsFiniteSet({"vip"} \cup {"md"})
        /\ Cardinality(T \cap ({"vip"} \cup {"md"})) = Cardinality(T \cap {"vip"}) + B("md" \in T)
    BY <1>1, OneMore
  <2> QED BY <1>1, <2>1, <2>2
<1>3. /\ IsFiniteSet({"vip", "md", "enc"})
      /\ Cardinality(T \cap {"vip", "md", "enc"}) = B("vip" \in T) + B("md" \in T) + B("enc" \in T)
  <2>1. {"vip", "md"} \cup {"enc"} = {"vip", "md", "enc"}
    OBVIOUS
  <2>2. /\ IsFiniteSet({"vip", "md"} \cup {"enc"})
        /\ Cardinality(T \cap ({"vip", "md"} \cup {"enc"})) = Cardinality(T \cap {"vip", "md"}) + B("enc" \in T)
    BY <1>2, OneMore
  <2> QED BY <1>2, <2>1, <2>2
<1>4. /\ IsFiniteSet({"vip", "md", "enc"} \cup {"app"})
      /\ Cardinality(T \cap ({"vip", "md", "enc"} \cup {"app"})) = Cardinality(T \cap {"vip", "md", "enc"}) + B("app" \in T)
  <2>1. "app" \notin {"vip", "md", "enc"}
    OBVIOUS
  <2> QED BY <1>3, <2>1, OneMore
<1>5. T \cap ({"vip", "md", "enc"} \cup {"app"}) = T
  BY DEF Thread, Filter
<1> QED BY <1>3, <1>4, <1>5

(* The places that hold sample s, written out, and the threads that bring  *)
(* it home.                                                                *)
Held(s) ==
    Times(s, inQ["md"]) + Times(s, inQ["enc"])
    + B(cur["vip"] = s) + B(cur["md"] = s) + B(cur["enc"] = s)
    + B(prev["md"] = s) + B(prev["vr"] = s)
    + B(pc["vip"] = "dequeue" /\ rel["vip"] = s) + B(pc["md"] = "dequeue" /\ rel["md"] = s)
Gone(t, s) == B(Releasing(t) /\ rel[t] = s)
Homeward(s) == Gone("vip", s) + Gone("md", s) + Gone("enc", s) + Gone("app", s)

(* Every reference is somewhere; a sample without any is at home or        *)
(* brought home by one thread.                                             *)
Referenced == \A s \in Sample : ref[s] = Held(s)
AtHome == \A s \in Sample : Times(s, m_SampleOutQueue) + Homeward(s) = B(ref[s] = 0)

LEMMA HeldByHolders ==
    ASSUME Base, NEW s \in Sample
    PROVE  /\ Holders(s) = Held(s)
           /\ Cardinality({t \in Thread : pc[t] \in {"memory", "home"} /\ rel[t] = s}) = Homeward(s)
<1> DEFINE C == {t \in Thread : cur[t] = s}
           P == {f \in {"md", "vr"} : prev[f] = s}
           D == {t \in Thread : pc[t] = "dequeue" /\ rel[t] = s}
           G == {t \in Thread : pc[t] \in {"memory", "home"} /\ rel[t] = s}
<1>1. Cardinality(C) = B("vip" \in C) + B("md" \in C) + B("enc" \in C) + B("app" \in C)
  BY ThreadCount
<1>2. Cardinality(P) = B("md" \in P) + B("vr" \in P)
  BY FilterCount
<1>3. Cardinality(D) = B("vip" \in D) + B("md" \in D) + B("enc" \in D) + B("app" \in D)
  BY ThreadCount
<1>4. Cardinality(G) = B("vip" \in G) + B("md" \in G) + B("enc" \in G) + B("app" \in G)
  BY ThreadCount
<1>5. /\ ("vip" \in C <=> cur["vip"] = s) /\ ("md" \in C <=> cur["md"] = s)
      /\ ("enc" \in C <=> cur["enc"] = s) /\ "app" \notin C
      /\ ("md" \in P <=> prev["md"] = s) /\ ("vr" \in P <=> prev["vr"] = s)
      /\ ("vip" \in D <=> pc["vip"] = "dequeue" /\ rel["vip"] = s)
      /\ ("md" \in D <=> pc["md"] = "dequeue" /\ rel["md"] = s)
      /\ "enc" \notin D /\ "app" \notin D
      /\ \A t \in Thread : t \in G <=> Releasing(t) /\ rel[t] = s
  BY DEF Base, There, AppThere, EncThere, Thread, Filter, Releasing, None, Sample
<1>6. Times(s, inQ["md"]) \in Nat /\ Times(s, inQ["enc"]) \in Nat
  BY TimesNat DEF Base, Typed, QueueTyped
<1>7. Holders(s) = Times(s, inQ["md"]) + Times(s, inQ["enc"]) + Cardinality(C) + Cardinality(P) + Cardinality(D)
  BY DEF Holders
<1> HIDE DEF C, P, D, G
<1>8. Holders(s) = Held(s)
  BY <1>1, <1>2, <1>3, <1>5, <1>6, <1>7 DEF Held, B
<1>9. Cardinality(G) = Homeward(s)
  BY <1>4, <1>5 DEF Homeward, Gone, B, Thread, Filter
<1> QED BY <1>8, <1>9 DEF G

LEMMA Referred ==
    ASSUME Base, Referenced, NEW s \in Sample
    PROVE  /\ ref[s] \in Nat
           /\ \/ cur["vip"] = s \/ cur["md"] = s \/ cur["enc"] = s
              \/ prev["md"] = s \/ prev["vr"] = s
              \/ (pc["vip"] = "dequeue" /\ rel["vip"] = s) \/ (pc["md"] = "dequeue" /\ rel["md"] = s)
              => ref[s] # 0
           /\ inQ["md"] # <<>> /\ Head(inQ["md"]) = s => ref[s] # 0
           /\ inQ["enc"] # <<>> /\ Head(inQ["enc"]) = s => ref[s] # 0
<1>1. inQ["md"] \in Seq(Sample) /\ inQ["enc"] \in Seq(Sample) /\ ref[s] \in Nat
  BY DEF Base, Typed, QueueTyped, PoolTyped
<1>2. Times(s, inQ["md"]) \in Nat /\ Times(s, inQ["enc"]) \in Nat
  BY <1>1, TimesNat
<1>3. ASSUME NEW q \in Seq(Sample), q # <<>>, Head(q) = s PROVE Times(s, q) # 0
  <2>1. 1 \in 1..Len(q) /\ q[1] = s
    BY <1>3
  <2>2. Times(s, q) = 0 <=> \A i \in 1..Len(q) : q[i] # s
    BY TimesNat
  <2> QED BY <2>1, <2>2
<1>4. ref[s] = Held(s)
  BY DEF Referenced
<1>5. /\ Times(s, inQ["md"]) # 0 => Held(s) # 0
      /\ Times(s, inQ["enc"]) # 0 => Held(s) # 0
  BY <1>2 DEF Held, B
<1>6. \/ cur["vip"] = s \/ cur["md"] = s \/ cur["enc"] = s
      \/ prev["md"] = s \/ prev["vr"] = s
      \/ (pc["vip"] = "dequeue" /\ rel["vip"] = s) \/ (pc["md"] = "dequeue" /\ rel["md"] = s)
      => Held(s) # 0
  BY <1>2 DEF Held, B
<1> QED BY <1>1, <1>3, <1>4, <1>5, <1>6

-----------------------------------------------------------------------------
(***************************************************************************)
(* The references, step by step.                                           *)
(***************************************************************************)
Books == Referenced /\ AtHome

(* Where a thread goes on after an Unlock.                                 *)
Plain == {"test", "leave", "drain", "unlock"}
LEMMA AtPlain ==
    \A t \in Thread : \A l \in Plain : At(t, l) \notin {"memory", "home", "dequeue", "begin", "capture"}
  BY AtCases DEF Plain, After

LEMMA TimesAll ==
    ASSUME Typed, NEW s
    PROVE  /\ Times(s, inQ["md"]) \in Nat /\ Times(s, inQ["enc"]) \in Nat
           /\ Times(s, m_SampleOutQueue) \in Nat
<1>1. inQ["md"] \in Seq(Sample) /\ inQ["enc"] \in Seq(Sample) /\ m_SampleOutQueue \in Seq(Sample)
  BY DEF Typed, QueueTyped, PoolTyped
<1> QED BY <1>1, TimesNat

(* A step that gives nobody a sample and takes none. *)
LEMMA BooksSame ==
    ASSUME Books, UNCHANGED <<ref, inQ, prev, cur, rel, m_SampleOutQueue>>,
           \A t \in Thread : (pc'[t] = "dequeue" <=> pc[t] = "dequeue") /\ (Releasing(t)' <=> Releasing(t))
    PROVE  Books'
  BY DEF Books, Referenced, AtHome, Held, Homeward, Gone, B, Times, Releasing, Thread, Filter

(* Nobody begins or ends to bring a sample home. *)
LEMMA HomeSame ==
    ASSUME AtHome, m_SampleOutQueue' = m_SampleOutQueue,
           \A s \in Sample : ref'[s] = 0 <=> ref[s] = 0,
           \A t \in Thread : (pc'[t] = pc[t] /\ rel'[t] = rel[t]) \/ (~Releasing(t) /\ ~Releasing(t)')
    PROVE  AtHome'
<1>1. ASSUME NEW t \in Thread, NEW s PROVE Gone(t, s)' = Gone(t, s)
  BY <1>1 DEF Gone, Releasing, B
<1>2. \A s : Homeward(s)' = Homeward(s)
  BY <1>1 DEF Homeward, Thread, Filter
<1>3. \A s \in Sample : B(ref[s] = 0)' = B(ref[s] = 0)
  BY DEF B
<1>4. ASSUME NEW s \in Sample PROVE Times(s, m_SampleOutQueue)' + Homeward(s)' = B(ref[s] = 0)'
  BY <1>2, <1>3, <1>4 DEF AtHome
<1> QED BY <1>4 DEF AtHome

(* A reference is given up. *)
LEMMA BooksGivenUp ==
    ASSUME Base, Books, NEW t \in Thread, NEW x \in Sample, NEW next \in Plain,
           UnlockedTo(t, x, next), ~Releasing(t), ref[x] # 0,
           m_SampleOutQueue' = m_SampleOutQueue,
           \A s \in Sample : Held(s)' = Held(s) - B(s = x)
    PROVE  Books'
<1>1. ref \in [Sample -> Nat]
  BY DEF Base, Typed, PoolTyped
<1>2. ASSUME NEW s \in Sample PROVE ref'[s] = ref[s] - B(s = x)
  BY <1>1 DEF UnlockedTo, B
<1>3. Referenced'
  BY <1>2 DEF Referenced, Books
<1>4. CASE ref[x] # 1
  <2>1. \A s \in Sample : ref'[s] = 0 <=> ref[s] = 0
    BY <1>1, <1>4 DEF UnlockedTo
  <2>2. ~Releasing(t)'
    BY <1>4, AtPlain DEF UnlockedTo, Releasing
  <2>3. AtHome'
    BY <2>1, <2>2, HomeSame DEF UnlockedTo, Books
  <2> QED BY <1>3, <2>3 DEF Books
<1>5. CASE ref[x] = 1
  <2>1. \A s : Gone(t, s) = 0 /\ Gone(t, s)' = B(s = x)
    BY <1>5 DEF UnlockedTo, Gone, Releasing, B
  <2>2. \A u \in Thread : u # t => \A s : Gone(u, s)' = Gone(u, s)
    BY DEF UnlockedTo, Gone, Releasing
  <2>3. \A u \in Thread : \A s : Gone(u, s) \in Nat
    BY DEF Gone, B
  <2>4. ASSUME NEW s PROVE Homeward(s)' = Homeward(s) + B(s = x)
    <3>1. B(s = x) \in Nat
      BY DEF B
    <3>2. \A u \in Thread : Gone(u, s) \in Nat /\ Gone(u, s)' = (IF u = t THEN B(s = x) ELSE Gone(u, s))
      BY <2>1, <2>2, <2>3
    <3> QED BY <2>1, <3>1, <3>2 DEF Homeward, Thread, Filter
  <2>5. \A s \in Sample : B(ref[s] = 0)' = B(ref[s] = 0) + B(s = x)
    BY <1>1, <1>5 DEF UnlockedTo, B
  <2>6. \A s \in Sample : Times(s, m_SampleOutQueue) \in Nat
    BY TimesAll DEF Base
  <2>7. \A s : Homeward(s) \in Nat /\ B(s = x) \in Nat
    BY <2>3 DEF Homeward, Thread, Filter, B
  <2>8. ASSUME NEW s \in Sample PROVE Times(s, m_SampleOutQueue)' + Homeward(s)' = B(ref[s] = 0)'
    <3>1. Times(s, m_SampleOutQueue) + Homeward(s) = B(ref[s] = 0)
      BY DEF Books, AtHome
    <3>2. Times(s, m_SampleOutQueue)' = Times(s, m_SampleOutQueue)
      OBVIOUS
    <3> QED BY <2>4, <2>5, <2>6, <2>7, <3>1, <3>2
  <2> QED BY <1>3, <2>8 DEF Books, AtHome
<1> QED BY <1>4, <1>5

(* A sample comes home. *)
LEMMA BooksHome ==
    ASSUME Base, Books, NEW t \in Thread, ReleaseToQueue(t), ret[t] \in Plain
    PROVE  /\ Books' /\ Len(m_SampleOutQueue) < NumBuffer
           /\ Len(m_SampleOutQueue') = Len(m_SampleOutQueue) + 1
<1> DEFINE x == rel[t]
<1>1. pc[t] = "home" /\ x \in Sample
  BY DEF ReleaseToQueue, Base, There, VipThere, MdThere, EncThere, AppThere, Releasing, Typed, ThreadTyped,
         Thread, Filter
<1>2. GoneTo(t, ret[t])
  BY Going DEF ReleaseToQueue, Base, Typed, Plain, Pc
<1>3. pc'[t] \notin {"memory", "home", "dequeue"}
  BY <1>2, AtPlain DEF GoneTo
<1>4. /\ UNCHANGED <<ref, inQ, prev, cur>> /\ rel' = [rel EXCEPT ![t] = None]
      /\ rel \in [Thread -> Sample \cup {None}]
  BY DEF ReleaseToQueue, Base, Typed, ThreadTyped
<1>5. \A u \in Thread : u # t => pc'[u] = pc[u] /\ rel'[u] = rel[u]
  BY <1>2, <1>4 DEF GoneTo
<1>6. Referenced'
  <2>1. ASSUME NEW s \in Sample PROVE Held(s)' = Held(s)
    <3>1. ASSUME NEW u \in Thread PROVE (pc[u] = "dequeue" /\ rel[u] = s)' <=> (pc[u] = "dequeue" /\ rel[u] = s)
      BY <1>1, <1>3, <1>5, <3>1
    <3> QED BY <1>4, <3>1 DEF Held, Times, B, Thread, Filter
  <2> QED BY <1>4, <2>1 DEF Books, Referenced
<1>7. \A u \in Thread : \A s : Gone(u, s) \in Nat /\ Gone(t, s) = B(s = x) /\ Gone(t, s)' = 0
  BY <1>1, <1>3 DEF Gone, Releasing, B
<1>8. \A u \in Thread : u # t => \A s : Gone(u, s)' = Gone(u, s)
  BY <1>5 DEF Gone, Releasing
<1>9. ASSUME NEW s PROVE /\ Homeward(s)' \in Nat /\ Homeward(s) = Homeward(s)' + B(s = x)
                         /\ B(s = x) \in Nat
  <2>1. B(s = x) \in Nat
    BY DEF B
  <2> QED BY <1>7, <1>8, <2>1 DEF Homeward, Thread, Filter
<1>10. ASSUME NEW s \in Sample
       PROVE  /\ Times(s, m_SampleOutQueue) \in Nat /\ Times(s, m_SampleOutQueue) <= 1
              /\ s = x => Times(s, m_SampleOutQueue) = 0
  <2>1. Times(s, m_SampleOutQueue) + Homeward(s) = B(ref[s] = 0)
    BY DEF Books, AtHome
  <2>2. Times(s, m_SampleOutQueue) \in Nat
    BY TimesAll DEF Base
  <2> QED BY <1>9, <2>1, <2>2 DEF B
<1>11. m_SampleOutQueue \in Seq(Sample)
  BY DEF Base, Typed, PoolTyped
<1>12. Len(m_SampleOutQueue) < NumBuffer
  <2>1. \A i \in 1..Len(m_SampleOutQueue) : m_SampleOutQueue[i] # x
    BY <1>1, <1>10, <1>11, TimesNat
  <2>2. m_SampleOutQueue \in Seq(Sample \ {x})
    BY <1>11, <2>1
  <2>3. IsFiniteSet(Sample) /\ Cardinality(Sample) = NumBuffer
    BY UpTo DEF Sample
  <2>4. IsFiniteSet(Sample \ {x}) /\ Cardinality(Sample \ {x}) = NumBuffer - 1
    BY <1>1, <2>3, FS_RemoveElement
  <2>5. Len(m_SampleOutQueue) <= Cardinality(Sample \ {x})
    BY <1>10, <2>2, <2>4, OnceFits
  <2> QED BY <1>11, <2>4, <2>5
<1>13. m_SampleOutQueue' = SortedIn(x, m_SampleOutQueue)
  BY <1>12 DEF ReleaseToQueue
<1>14. ASSUME NEW s
       PROVE  /\ Len(m_SampleOutQueue') = Len(m_SampleOutQueue) + 1
              /\ Times(s, m_SampleOutQueue') = Times(s, m_SampleOutQueue) + B(s = x)
  <2>1. /\ Len(SortedIn(x, m_SampleOutQueue)) = Len(m_SampleOutQueue) + 1
        /\ Times(s, SortedIn(x, m_SampleOutQueue)) = Times(s, m_SampleOutQueue) + B(s = x)
    BY <1>1, <1>11, TimesSorted
  <2> QED BY <1>13, <2>1
<1>15. AtHome'
  <2>1. ASSUME NEW s \in Sample PROVE Times(s, m_SampleOutQueue') + Homeward(s)' = B(ref[s] = 0)
    <3>1. Times(s, m_SampleOutQueue) + Homeward(s) = B(ref[s] = 0)
      BY DEF Books, AtHome
    <3> QED BY <1>9, <1>10, <1>14, <3>1
  <2> QED BY <1>4, <2>1 DEF AtHome, Times
<1> QED BY <1>6, <1>12, <1>14, <1>15 DEF Books

LEMMA UnlockedPc ==
    ASSUME NEW t \in Thread, NEW x \in Sample, NEW next \in Plain, UnlockedTo(t, x, next)
    PROVE  /\ pc'[t] # "dequeue" /\ \A u \in Thread : u # t => pc'[u] = pc[u] /\ rel'[u] = rel[u]
  BY AtPlain DEF UnlockedTo

(* The thread gives up the sample it has in its hands. *)
LEMMA OwnGivenUp ==
    ASSUME Base, Books, NEW t \in Filter, NEW next \in Plain, Unlock(t, cur[t], next), cur[t] # None,
           cur' = [cur EXCEPT ![t] = None], UNCHANGED <<inQ, prev, m_SampleOutQueue>>,
           pc[t] # "dequeue", ~Releasing(t)
    PROVE  Books'
<1>1. /\ cur \in [Thread -> Sample \cup {None}] /\ cur[t] \in Sample
      /\ t \in Thread /\ next \in Pc \cup {"test", "leave"}
  BY DEF Base, Typed, ThreadTyped, Thread, Plain, Pc
<1>2. UnlockedTo(t, cur[t], next)
  BY <1>1, Unlocked DEF Base, Typed
<1>3. ref[cur[t]] # 0
  BY <1>1, Referred DEF Books, Filter
<1>4. \A u \in Thread : (pc'[u] = "dequeue" <=> pc[u] = "dequeue") /\ (u # t => rel'[u] = rel[u])
  BY <1>1, <1>2, UnlockedPc
<1>5. ASSUME NEW s \in Sample PROVE Held(s)' = Held(s) - B(s = cur[t])
  <2>1. \A u \in Thread : B(cur'[u] = s) = B(cur[u] = s) - (IF u = t THEN B(s = cur[t]) ELSE 0)
    BY <1>1 DEF B, None, Sample
  <2>2. \A u \in Thread : (pc'[u] = "dequeue" /\ rel'[u] = s) <=> (pc[u] = "dequeue" /\ rel[u] = s)
    BY <1>4
  <2>3. Times(s, inQ["md"]) \in Nat /\ Times(s, inQ["enc"]) \in Nat
    BY TimesAll DEF Base
  <2>4. Held(s)' = Times(s, inQ["md"]) + Times(s, inQ["enc"])
                   + B(cur'["vip"] = s) + B(cur'["md"] = s) + B(cur'["enc"] = s)
                   + B(prev["md"] = s) + B(prev["vr"] = s)
                   + B(pc["vip"] = "dequeue" /\ rel["vip"] = s) + B(pc["md"] = "dequeue" /\ rel["md"] = s)
    BY <2>2 DEF Held, Times, B, Thread, Filter
  <2>5. \A b : B(b) \in Nat
    BY DEF B
  <2> QED BY <2>1, <2>3, <2>4, <2>5 DEF Held, Thread, Filter
<1> QED BY <1>1, <1>2, <1>3, <1>5, BooksGivenUp

LEMMA BeginBooks == ASSUME Base, Books, Begin PROVE Books'
<1>1. GoneTo("vip", "test")
  BY Going DEF Begin, Base, Typed, Thread, Filter
<1>2. pc["vip"] = "begin" /\ UNCHANGED <<ref, inQ, prev, cur, rel, m_SampleOutQueue>>
  BY DEF Begin
<1>3. \A t \in Thread : (pc'[t] = "dequeue" <=> pc[t] = "dequeue") /\ (Releasing(t)' <=> Releasing(t))
  BY <1>1, <1>2, AtPlain DEF GoneTo, Plain, Releasing
<1> QED BY <1>2, <1>3, BooksSame

LEMMA GetDeliveryBooks == ASSUME Base, Books, GetDeliverySample PROVE Books'
<1>1. pc["vip"] = "get" /\ UNCHANGED <<inQ, prev, rel>>
  BY DEF GetDeliverySample
<1>2. CASE m_SampleOutQueue = <<>>
  <2>1. GoneTo("vip", "test")
    BY <1>2, Going DEF GetDeliverySample, Base, Typed, Thread, Filter
  <2>2. UNCHANGED <<ref, cur, m_SampleOutQueue>>
    BY <1>2 DEF GetDeliverySample
  <2>3. \A t \in Thread : (pc'[t] = "dequeue" <=> pc[t] = "dequeue") /\ (Releasing(t)' <=> Releasing(t))
    BY <1>1, <2>1, AtPlain DEF GoneTo, Plain, Releasing
  <2> QED BY <1>1, <2>2, <2>3, BooksSame
<1>3. CASE m_SampleOutQueue # <<>>
  <2> DEFINE x == Head(m_SampleOutQueue)
  <2>1. m_SampleOutQueue \in Seq(Sample)
    BY DEF Base, Typed, PoolTyped
  <2>2. /\ m_SampleOutQueue' = Tail(m_SampleOutQueue) /\ cur' = [cur EXCEPT !["vip"] = x]
        /\ ref' = [ref EXCEPT ![x] = @ + 1] /\ Goto("vip", "capture")
    BY <1>3 DEF GetDeliverySample
  <2>3. x \in Sample
    BY <1>3, <2>1
  <2>4. GoneTo("vip", "capture")
    BY <2>2, Going DEF Base, Typed, Thread, Filter, Pc
  <2>5. pc'["vip"] = "capture"
    BY <2>4, AtValues DEF GoneTo, Thread, Filter, Pc
  <2>6. ASSUME NEW s \in Sample
        PROVE  Times(s, m_SampleOutQueue) = Times(s, m_SampleOutQueue') + B(s = x)
    BY <1>3, <2>1, <2>2, TimesPopped
  <2>7. ASSUME NEW s \in Sample
        PROVE  Times(s, m_SampleOutQueue) \in Nat /\ Times(s, m_SampleOutQueue') \in Nat
    <3>1. Tail(m_SampleOutQueue) \in Seq(Sample)
      BY <1>3, <2>1
    <3> QED BY <2>1, <2>2, <3>1, TimesNat
  <2>8. \A u \in Thread : \A s : Gone(u, s)' = Gone(u, s) /\ Gone(u, s) \in Nat
    BY <1>1, <2>4, <2>5 DEF GoneTo, Gone, Releasing, B
  <2>9. \A s : Homeward(s)' = Homeward(s) /\ Homeward(s) \in Nat
    BY <2>8 DEF Homeward, Thread, Filter
  <2>10. ref[x] = 0 /\ ref \in [Sample -> Nat]
    <3>1. Times(x, m_SampleOutQueue) + Homeward(x) = B(ref[x] = 0)
      BY <2>3 DEF Books, AtHome
    <3>2. Times(x, m_SampleOutQueue) # 0
      <4>1. B(x = x) = 1
        BY DEF B
      <4> QED BY <2>3, <2>6, <2>7, <4>1
    <3>3. B(ref[x] = 0) # 0
      BY <2>3, <2>7, <2>9, <3>1, <3>2
    <3> QED BY <3>3 DEF B, Base, Typed, PoolTyped
  <2>11. \A s \in Sample : ref'[s] = ref[s] + B(s = x)
    BY <2>2, <2>3, <2>10 DEF B
  <2>12. AtHome'
    <3>1. ASSUME NEW s \in Sample PROVE Times(s, m_SampleOutQueue') + Homeward(s)' = B(ref'[s] = 0)
      <4>1. Times(s, m_SampleOutQueue) + Homeward(s) = B(ref[s] = 0)
        BY DEF Books, AtHome
      <4>2. B(ref[s] = 0) = B(ref'[s] = 0) + B(s = x)
        BY <2>3, <2>10, <2>11 DEF B
      <4>3. B(ref'[s] = 0) \in Nat /\ B(s = x) \in Nat
        BY DEF B
      <4>4. Homeward(s)' = Homeward(s) /\ Homeward(s) \in Nat
        BY <2>9
      <4>5. /\ Times(s, m_SampleOutQueue) = Times(s, m_SampleOutQueue') + B(s = x)
            /\ Times(s, m_SampleOutQueue') \in Nat
        BY <2>6, <2>7
      <4> QED BY <4>1, <4>2, <4>4, <4>5 DEF B
    <3> QED BY <3>1 DEF AtHome, Times, B
  <2>13. ASSUME NEW s \in Sample PROVE Held(s)' = Held(s) + B(s = x)
    <3>1. cur["vip"] = None /\ cur \in [Thread -> Sample \cup {None}]
      BY <1>1 DEF Base, There, VipThere, Releasing, Typed, ThreadTyped
    <3>2. \A u \in Thread : B(cur'[u] = s) = (IF u = "vip" THEN B(s = x) ELSE B(cur[u] = s))
      BY <2>2, <3>1 DEF B
    <3>3. B(cur["vip"] = s) = 0
      BY <3>1 DEF B, None, Sample
    <3>4. \A u \in Thread : (pc'[u] = "dequeue" /\ rel'[u] = s) <=> (pc[u] = "dequeue" /\ rel[u] = s)
      BY <1>1, <2>4, <2>5 DEF GoneTo
    <3>5. Held(s)' = Times(s, inQ["md"]) + Times(s, inQ["enc"])
                   + B(cur'["vip"] = s) + B(cur'["md"] = s) + B(cur'["enc"] = s)
                   + B(prev["md"] = s) + B(prev["vr"] = s)
                   + B(pc["vip"] = "dequeue" /\ rel["vip"] = s) + B(pc["md"] = "dequeue" /\ rel["md"] = s)
      BY <1>1, <3>4 DEF Held, Times, B, Thread, Filter
    <3>6. Times(s, inQ["md"]) \in Nat /\ Times(s, inQ["enc"]) \in Nat
      BY TimesAll DEF Base
    <3>7. \A b : B(b) \in Nat
      BY DEF B
    <3> QED BY <3>2, <3>3, <3>5, <3>6, <3>7 DEF Held, Thread, Filter
  <2>14. Referenced'
    BY <2>11, <2>13 DEF Books, Referenced
  <2> QED BY <2>12, <2>14 DEF Books
<1> QED BY <1>2, <1>3

LEMMA CaptureBooks == ASSUME Base, Books, Capture PROVE Books'
<1>1. pc["vip"] = "capture" /\ cur["vip"] # None /\ UNCHANGED <<inQ, prev, m_SampleOutQueue>>
  BY DEF Capture, Base, There, VipThere
<1>2. CASE Requeued < 2
  <2>1. Unlock("vip", cur["vip"], "test") /\ cur' = [cur EXCEPT !["vip"] = None]
    BY <1>2 DEF Capture
  <2> QED BY <1>1, <2>1, OwnGivenUp DEF Releasing, Filter, Plain
<1>3. CASE ~(Requeued < 2)
  <2>1. Goto("vip", "deliver") /\ UNCHANGED <<ref, cur, rel>>
    BY <1>3 DEF Capture
  <2>2. GoneTo("vip", "deliver")
    BY <2>1, Going DEF Base, Typed, Thread, Filter, Pc
  <2>3. pc'["vip"] = "deliver"
    BY <2>2, AtValues DEF GoneTo, Thread, Filter, Pc
  <2>4. \A t \in Thread : (pc'[t] = "dequeue" <=> pc[t] = "dequeue") /\ (Releasing(t)' <=> Releasing(t))
    BY <1>1, <2>2, <2>3 DEF GoneTo, Releasing
  <2> QED BY <1>1, <2>1, <2>4, BooksSame
<1> QED BY <1>2, <1>3

LEMMA UnlockOwnBooks == ASSUME Base, Books, UnlockOwn("vip") \/ UnlockOwn("md") PROVE Books'
<1>1. ASSUME NEW f \in {"vip", "md"}, UnlockOwn(f) PROVE Books'
  <2>1. pc[f] = "unlock" /\ cur[f] # None /\ UNCHANGED <<inQ, prev, m_SampleOutQueue>>
    BY <1>1 DEF UnlockOwn, Base, There, VipThere, MdThere
  <2>2. Unlock(f, cur[f], "test") /\ cur' = [cur EXCEPT ![f] = None]
    BY <1>1 DEF UnlockOwn
  <2> QED BY <2>1, <2>2, OwnGivenUp DEF Releasing, Filter, Plain
<1> QED BY <1>1

LEMMA EncodeBooks == ASSUME Base, Books, Encode PROVE Books'
<1>1. pc["enc"] = "encode" /\ cur["enc"] # None /\ UNCHANGED <<inQ, prev, m_SampleOutQueue>>
  BY DEF Encode, Base, There, EncThere
<1>2. Unlock("enc", cur["enc"], "test") /\ cur' = [cur EXCEPT !["enc"] = None]
  BY DEF Encode
<1> QED BY <1>1, <1>2, OwnGivenUp DEF Releasing, Filter, Plain

LEMMA ReleaseBooks == ASSUME Base, Books, NEW t \in Thread, Release(t) PROVE Books'
<1>1. CASE ReleaseMemory(t)
  <2>1. pc[t] = "memory" /\ Goto(t, "home") /\ UNCHANGED <<ref, inQ, prev, cur, rel, m_SampleOutQueue>>
    BY <1>1 DEF ReleaseMemory
  <2>2. GoneTo(t, "home")
    BY <2>1, Going DEF Base, Typed, Pc
  <2>3. pc'[t] = "home"
    BY <2>2, AtValues DEF GoneTo, Pc
  <2>4. \A u \in Thread : (pc'[u] = "dequeue" <=> pc[u] = "dequeue") /\ (Releasing(u)' <=> Releasing(u))
    BY <2>1, <2>2, <2>3 DEF GoneTo, Releasing
  <2> QED BY <2>1, <2>4, BooksSame
<1>2. CASE ReleaseToQueue(t)
  <2>1. pc[t] = "home"
    BY <1>2 DEF ReleaseToQueue
  <2>2. ret[t] \in Plain
    BY <2>1 DEF Base, There, VipThere, MdThere, EncThere, AppThere, Releasing, Plain, Thread, Filter
  <2> QED BY <1>2, <2>2, BooksHome
<1> QED BY <1>1, <1>2 DEF Release

(* The places again, by kind.                                              *)
InQueues(s) == Times(s, inQ["md"]) + Times(s, inQ["enc"])
InHands(s) == B(cur["vip"] = s) + B(cur["md"] = s) + B(cur["enc"] = s)
AsLast(s) == B(prev["md"] = s) + B(prev["vr"] = s)
ToGiveUp(s) == B(pc["vip"] = "dequeue" /\ rel["vip"] = s) + B(pc["md"] = "dequeue" /\ rel["md"] = s)

LEMMA HeldParts ==
    ASSUME Typed, Typed', NEW s
    PROVE  /\ {InQueues(s), InHands(s), AsLast(s), ToGiveUp(s)} \subseteq Nat
           /\ {InQueues(s)', InHands(s)', AsLast(s)', ToGiveUp(s)'} \subseteq Nat
           /\ Held(s) = InQueues(s) + InHands(s) + AsLast(s) + ToGiveUp(s)
           /\ Held(s)' = InQueues(s)' + InHands(s)' + AsLast(s)' + ToGiveUp(s)'
<1>1. \A b : B(b) \in Nat
  BY DEF B
<1>2. {InHands(s), AsLast(s), ToGiveUp(s)} \subseteq Nat
  BY <1>1 DEF InHands, AsLast, ToGiveUp
<1>3. {InHands(s)', AsLast(s)', ToGiveUp(s)'} \subseteq Nat
  BY <1>1 DEF InHands, AsLast, ToGiveUp, B
<1>4. Times(s, inQ["md"]) \in Nat /\ Times(s, inQ["enc"]) \in Nat
  BY TimesAll
<1>5. Times(s, inQ'["md"]) \in Nat /\ Times(s, inQ'["enc"]) \in Nat
  <2>1. inQ'["md"] \in Seq(Sample) /\ inQ'["enc"] \in Seq(Sample)
    BY DEF Typed, QueueTyped
  <2> QED BY <2>1, TimesNat
<1>6. InQueues(s) \in Nat /\ InQueues(s)' \in Nat
  BY <1>4, <1>5 DEF InQueues, Times
<1>7. Held(s) = InQueues(s) + InHands(s) + AsLast(s) + ToGiveUp(s)
  BY <1>1, <1>4 DEF Held, InQueues, InHands, AsLast, ToGiveUp
<1>8. Held(s)' = InQueues(s)' + InHands(s)' + AsLast(s)' + ToGiveUp(s)'
  BY <1>5 DEF Held, InQueues, InHands, AsLast, ToGiveUp, B, Times
<1> QED BY <1>2, <1>3, <1>6, <1>7, <1>8

LEMMA PartsSame ==
    ASSUME NEW s
    PROVE  /\ inQ' = inQ => InQueues(s)' = InQueues(s)
           /\ cur' = cur => InHands(s)' = InHands(s)
           /\ prev' = prev => AsLast(s)' = AsLast(s)
           /\ (\A t \in {"vip", "md"} : (pc[t] = "dequeue" <=> pc'[t] = "dequeue")
                                        /\ (pc[t] = "dequeue" => rel'[t] = rel[t]))
                => ToGiveUp(s)' = ToGiveUp(s)
  BY DEF InQueues, InHands, AsLast, ToGiveUp, Times, B

(* A sample that somebody has goes on to others. *)
LEMMA BooksLent ==
    ASSUME Typed, Books, Typed', NEW x \in Sample, ref[x] # 0, NEW n \in Nat,
           ref' = [ref EXCEPT ![x] = @ + n], m_SampleOutQueue' = m_SampleOutQueue,
           \A s \in Sample : Held(s)' = Held(s) + (IF s = x THEN n ELSE 0),
           \A t \in Thread : (pc'[t] = pc[t] /\ rel'[t] = rel[t]) \/ (~Releasing(t) /\ ~Releasing(t)')
    PROVE  Books'
<1>1. ref \in [Sample -> Nat]
  BY DEF Typed, PoolTyped
<1>2. \A s \in Sample : ref'[s] = ref[s] + (IF s = x THEN n ELSE 0)
  BY <1>1
<1>3. \A s \in Sample : ref'[s] = 0 <=> ref[s] = 0
  BY <1>1, <1>2
<1>4. AtHome'
  BY <1>3, HomeSame DEF Books
<1>5. Referenced'
  BY <1>2 DEF Books, Referenced
<1> QED BY <1>4, <1>5 DEF Books

LEMMA Pushed ==
    ASSUME Typed, Typed', NEW f \in {"md", "enc"}, NEW x \in Sample, Queued(f, x), NEW s
    PROVE  InQueues(s)' = InQueues(s) + B(s = x)
<1>1. inQ' = [inQ EXCEPT ![f] = Append(inQ[f], x)] /\ inQ \in [{"md", "enc"} -> Seq(Sample)]
  BY DEF Queued, Typed, QueueTyped
<1>2. Times(s, Append(inQ[f], x)) = Times(s, inQ[f]) + B(s = x)
  BY <1>1, TimesPushed
<1>3. Times(s, inQ["md"]) \in Nat /\ Times(s, inQ["enc"]) \in Nat /\ B(s = x) \in Nat
  BY TimesAll DEF B
<1>4. InQueues(s)' = Times(s, inQ'["md"]) + Times(s, inQ'["enc"])
  BY DEF InQueues, Times
<1>5. CASE f = "md"
  <2>1. inQ'["md"] = Append(inQ[f], x) /\ inQ'["enc"] = inQ["enc"]
    BY <1>1, <1>5
  <2> QED BY <1>2, <1>3, <1>4, <1>5, <2>1 DEF InQueues
<1>6. CASE f = "enc"
  <2>1. inQ'["enc"] = Append(inQ[f], x) /\ inQ'["md"] = inQ["md"]
    BY <1>1, <1>6
  <2> QED BY <1>2, <1>3, <1>4, <1>6, <2>1 DEF InQueues
<1> QED BY <1>5, <1>6

LEMMA Popped ==
    ASSUME Typed, Typed', NEW f \in {"md", "enc"}, inQ[f] # <<>>,
           inQ' = [inQ EXCEPT ![f] = Tail(@)], NEW s
    PROVE  InQueues(s) = InQueues(s)' + B(s = Head(inQ[f])) /\ Head(inQ[f]) \in Sample
<1>1. inQ \in [{"md", "enc"} -> Seq(Sample)] /\ inQ[f] \in Seq(Sample)
  BY DEF Typed, QueueTyped
<1>2. Times(s, inQ[f]) = Times(s, Tail(inQ[f])) + B(s = Head(inQ[f])) /\ Head(inQ[f]) \in Sample
  BY <1>1, TimesPopped
<1>3. Times(s, inQ["md"]) \in Nat /\ Times(s, inQ["enc"]) \in Nat /\ B(s = Head(inQ[f])) \in Nat
  BY TimesAll DEF B
<1>4. InQueues(s)' = Times(s, inQ'["md"]) + Times(s, inQ'["enc"])
  BY DEF InQueues, Times
<1>5. Times(s, Tail(inQ[f])) \in Nat
  <2>1. Tail(inQ[f]) \in Seq(Sample)
    BY <1>1
  <2> QED BY <2>1, TimesNat
<1>6. CASE f = "md"
  <2>1. inQ'["md"] = Tail(inQ[f]) /\ inQ'["enc"] = inQ["enc"]
    BY <1>1, <1>6
  <2> QED BY <1>2, <1>3, <1>4, <1>5, <1>6, <2>1 DEF InQueues
<1>7. CASE f = "enc"
  <2>1. inQ'["enc"] = Tail(inQ[f]) /\ inQ'["md"] = inQ["md"]
    BY <1>1, <1>7
  <2> QED BY <1>2, <1>3, <1>4, <1>5, <1>7, <2>1 DEF InQueues
<1> QED BY <1>6, <1>7

LEMMA DeliverBooks == ASSUME Base, Books, Typed', DeliverToDetector PROVE Books'
<1> DEFINE x == cur["vip"]
<1>1. pc["vip"] = "deliver" /\ UNCHANGED <<prev, cur, rel, m_SampleOutQueue>>
      /\ ref' = [ref EXCEPT ![x] = @ + 1] /\ Queued("md", x) /\ Goto("vip", "unlock")
  BY DEF DeliverToDetector
<1>2. x \in Sample
  BY <1>1 DEF Base, There, VipThere, Typed, ThreadTyped, Thread, Filter
<1>3. ref[x] # 0
  BY <1>2, Referred DEF Books
<1>4. GoneTo("vip", "unlock")
  BY <1>1, Going DEF Base, Typed, Thread, Filter, Pc
<1>5. pc'["vip"] = "unlock"
  BY <1>4, AtValues DEF GoneTo, Thread, Filter, Pc
<1>6. ASSUME NEW s \in Sample PROVE Held(s)' = Held(s) + (IF s = x THEN 1 ELSE 0)
  <2>1. InQueues(s)' = InQueues(s) + B(s = x)
    BY <1>1, <1>2, Pushed DEF Base
  <2>2. InHands(s)' = InHands(s) /\ AsLast(s)' = AsLast(s)
    BY <1>1, PartsSame
  <2>3. ToGiveUp(s)' = ToGiveUp(s)
    BY <1>1, <1>4, <1>5, PartsSame DEF GoneTo, Thread, Filter
  <2> QED BY <2>1, <2>2, <2>3, HeldParts DEF B, Base
<1>7. \A t \in Thread : (pc'[t] = pc[t] /\ rel'[t] = rel[t]) \/ (~Releasing(t) /\ ~Releasing(t)')
  BY <1>1, <1>4, <1>5 DEF GoneTo, Releasing
<1> QED BY <1>1, <1>2, <1>3, <1>6, <1>7, BooksLent DEF Base

LEMMA VrBooks == ASSUME Base, Books, Typed', VrReceive PROVE Books'
<1> DEFINE b == Before
           x == cur[b]
           o == prev["vr"]
           on == m_bEnable \/ m_bEnableHdmi
<1>1. b \in {"vip", "md"} /\ b \in Thread /\ pc[b] = "deliver" /\ Queued("enc", x)
      /\ UNCHANGED <<cur, m_SampleOutQueue>>
  BY DEF VrReceive, Before, Thread, Filter
<1>2. x \in Sample
  BY <1>1 DEF Base, There, VipThere, MdThere, Typed, ThreadTyped
<1>3. ref[x] # 0
  BY <1>1, <1>2, Referred DEF Books
<1>4. rel \in [Thread -> Sample \cup {None}] /\ prev \in [{"md", "vr"} -> Sample \cup {None}]
  BY DEF Base, Typed, ThreadTyped, FilterTyped
<1> HIDE DEF b, x
<1>5. ASSUME NEW s \in Sample PROVE InQueues(s)' = InQueues(s) + B(s = x) /\ InHands(s)' = InHands(s)
  BY <1>1, <1>2, Pushed, PartsSame DEF Base
<1>6. CASE ~on
  <2>1. ref' = [ref EXCEPT ![x] = @ + 1] /\ Goto(b, "leave") /\ UNCHANGED <<prev, rel>>
    BY <1>6 DEF VrReceive, b, x
  <2>2. GoneTo(b, "leave")
    BY <1>1, <2>1, Going DEF Base, Typed
  <2>3. pc'[b] \notin {"dequeue", "memory", "home"}
    BY <1>1, <2>2, AtPlain DEF GoneTo, Plain
  <2>4. ASSUME NEW s \in Sample PROVE Held(s)' = Held(s) + (IF s = x THEN 1 ELSE 0)
    <3>1. AsLast(s)' = AsLast(s)
      BY <2>1, PartsSame
    <3>2. ToGiveUp(s)' = ToGiveUp(s)
      BY <1>1, <2>1, <2>2, <2>3, PartsSame DEF GoneTo, Thread, Filter
    <3> QED BY <1>5, <3>1, <3>2, HeldParts DEF B, Base
  <2>5. \A t \in Thread : (pc'[t] = pc[t] /\ rel'[t] = rel[t]) \/ (~Releasing(t) /\ ~Releasing(t)')
    BY <1>1, <2>1, <2>2, <2>3 DEF GoneTo, Releasing
  <2> QED BY <1>1, <1>2, <1>3, <2>1, <2>4, <2>5, BooksLent DEF Base
<1>7. CASE on
  <2>1. /\ ref' = [ref EXCEPT ![x] = @ + 2] /\ prev' = [prev EXCEPT !["vr"] = x]
        /\ rel' = [rel EXCEPT ![b] = o]
        /\ Goto(b, IF o = None THEN "leave" ELSE "dequeue")
    BY <1>7 DEF VrReceive, b, x
  <2>2. GoneTo(b, IF o = None THEN "leave" ELSE "dequeue")
    BY <1>1, <2>1, Going DEF Base, Typed, Pc
  <2>3. pc'[b] = "dequeue" <=> o # None
    BY <1>1, <2>2, AtPlain, AtCases DEF GoneTo, Plain
  <2>4. pc'[b] \notin {"memory", "home"}
    <3>1. At(b, "leave") \notin {"memory", "home"}
      BY <1>1, AtPlain DEF Plain
    <3>2. At(b, "dequeue") = "dequeue"
      BY <1>1, AtCases
    <3> QED BY <2>2, <3>1, <3>2 DEF GoneTo
  <2>5. ASSUME NEW s \in Sample PROVE Held(s)' = Held(s) + (IF s = x THEN 2 ELSE 0)
    <3>1. AsLast(s)' + B(o = s) = AsLast(s) + B(s = x)
      <4>1. prev'["md"] = prev["md"] /\ prev'["vr"] = x
        BY <1>4, <2>1
      <4> QED BY <4>1 DEF AsLast, B
    <3>2. ToGiveUp(s)' = ToGiveUp(s) + B(o = s)
      <4>1. rel'[b] = o /\ \A u \in Thread : u # b => pc'[u] = pc[u] /\ rel'[u] = rel[u]
        BY <1>1, <1>4, <2>1, <2>2 DEF GoneTo
      <4>2. B(pc[b] = "dequeue" /\ rel[b] = s) = 0
        BY <1>1 DEF B
      <4>3. B(pc'[b] = "dequeue" /\ rel'[b] = s) = B(o = s)
        BY <2>3, <4>1 DEF B, None, Sample
      <4>4. \A u \in {"vip", "md"} : u # b =>
              B(pc'[u] = "dequeue" /\ rel'[u] = s) = B(pc[u] = "dequeue" /\ rel[u] = s)
        BY <4>1 DEF Thread, Filter
      <4>5. ToGiveUp(s)' = B(pc'["vip"] = "dequeue" /\ rel'["vip"] = s) + B(pc'["md"] = "dequeue" /\ rel'["md"] = s)
        BY DEF ToGiveUp, B
      <4>6. CASE b = "vip"
        BY <4>2, <4>3, <4>4, <4>5, <4>6 DEF ToGiveUp, B
      <4>7. CASE b = "md"
        BY <4>2, <4>3, <4>4, <4>5, <4>7 DEF ToGiveUp, B
      <4> QED BY <1>1, <4>6, <4>7
    <3>3. B(s = x) = (IF s = x THEN 1 ELSE 0) /\ B(o = s) \in Nat
      BY DEF B
    <3>4. /\ {InQueues(s), InHands(s), AsLast(s), ToGiveUp(s)} \subseteq Nat
          /\ {InQueues(s)', InHands(s)', AsLast(s)', ToGiveUp(s)'} \subseteq Nat
          /\ Held(s) = InQueues(s) + InHands(s) + AsLast(s) + ToGiveUp(s)
          /\ Held(s)' = InQueues(s)' + InHands(s)' + AsLast(s)' + ToGiveUp(s)'
      BY HeldParts DEF Base
    <3>5. InQueues(s)' = InQueues(s) + B(s = x) /\ InHands(s)' = InHands(s)
      BY <1>5
    <3> QED BY <3>1, <3>2, <3>3, <3>4, <3>5
  <2>6. \A t \in Thread : (pc'[t] = pc[t] /\ rel'[t] = rel[t]) \/ (~Releasing(t) /\ ~Releasing(t)')
    <3>1. \A t \in Thread : t # b => pc'[t] = pc[t] /\ rel'[t] = rel[t]
      BY <1>1, <1>4, <2>1, <2>2 DEF GoneTo
    <3>2. \A t \in Thread : t = b => pc[t] \notin {"memory", "home"} /\ pc'[t] \notin {"memory", "home"}
      BY <1>1, <2>4
    <3> QED BY <3>1, <3>2 DEF Releasing
  <2> QED BY <1>1, <1>2, <1>3, <2>1, <2>5, <2>6, BooksLent DEF Base
<1> QED BY <1>6, <1>7

LEMMA DequeueBooks == ASSUME Base, Books, Typed', DspDequeue PROVE Books'
<1> DEFINE b == Before
           x == rel[b]
<1>1. b \in {"vip", "md"} /\ b \in Thread /\ pc[b] = "dequeue" /\ Unlock(b, x, "leave")
      /\ UNCHANGED <<inQ, prev, cur, m_SampleOutQueue>>
  BY DEF DspDequeue, Before, Thread, Filter
<1>2. x \in Sample
  BY <1>1 DEF Base, There, VipThere, MdThere, Typed, ThreadTyped
<1>3. ref[x] # 0
  BY <1>1, <1>2, Referred DEF Books
<1> HIDE DEF b
<1>4. UnlockedTo(b, x, "leave")
  BY <1>1, <1>2, Unlocked DEF Base, Typed
<1>5. pc'[b] # "dequeue" /\ \A u \in Thread : u # b => pc'[u] = pc[u] /\ rel'[u] = rel[u]
  BY <1>1, <1>2, <1>4, UnlockedPc DEF Plain
<1>6. ASSUME NEW s \in Sample PROVE Held(s)' = Held(s) - B(s = x)
  <2>1. InQueues(s)' = InQueues(s) /\ InHands(s)' = InHands(s) /\ AsLast(s)' = AsLast(s)
    BY <1>1, PartsSame
  <2>2. ToGiveUp(s) = ToGiveUp(s)' + B(s = x)
    <3>1. B(pc[b] = "dequeue" /\ rel[b] = s) = B(s = x) /\ B(pc'[b] = "dequeue" /\ rel'[b] = s) = 0
      BY <1>1, <1>5 DEF B
    <3>2. \A u \in {"vip", "md"} : u # b =>
            B(pc'[u] = "dequeue" /\ rel'[u] = s) = B(pc[u] = "dequeue" /\ rel[u] = s)
      BY <1>5 DEF Thread, Filter
    <3>3. ToGiveUp(s)' = B(pc'["vip"] = "dequeue" /\ rel'["vip"] = s) + B(pc'["md"] = "dequeue" /\ rel'["md"] = s)
      BY DEF ToGiveUp, B
    <3>4. CASE b = "vip"
      BY <3>1, <3>2, <3>3, <3>4 DEF ToGiveUp, B
    <3>5. CASE b = "md"
      BY <3>1, <3>2, <3>3, <3>5 DEF ToGiveUp, B
    <3> QED BY <1>1, <3>4, <3>5
  <2> QED BY <2>1, <2>2, HeldParts DEF B, Base
<1>7. ~Releasing(b)
  BY <1>1 DEF Releasing
<1> QED BY <1>1, <1>2, <1>3, <1>4, <1>6, <1>7, BooksGivenUp DEF Plain

LEMMA GetBooks == ASSUME Base, Books, Typed', NEW f \in {"md", "enc"}, GetSample(f) PROVE Books'
<1>1. pc[f] = "get" /\ f \in Thread /\ UNCHANGED <<ref, prev, rel, m_SampleOutQueue>>
  BY DEF GetSample, poolVars, Thread, Filter
<1>2. cur \in [Thread -> Sample \cup {None}] /\ cur[f] = None
  BY <1>1 DEF Base, Typed, ThreadTyped, There, MdThere, EncThere, Releasing
<1>3. CASE inQ[f] = <<>>
  <2>1. Goto(f, "test") /\ UNCHANGED <<inQ, cur>>
    BY <1>3 DEF GetSample
  <2>2. GoneTo(f, "test")
    BY <1>1, <2>1, Going DEF Base, Typed
  <2>3. \A u \in Thread : (pc'[u] = "dequeue" <=> pc[u] = "dequeue") /\ (Releasing(u)' <=> Releasing(u))
    BY <1>1, <2>2, AtPlain DEF GoneTo, Plain, Releasing
  <2> QED BY <1>1, <2>1, <2>3, BooksSame
<1>4. CASE inQ[f] # <<>>
  <2> DEFINE x == Head(inQ[f])
             l == IF f = "md" THEN "deliver" ELSE "encode"
  <2>1. cur' = [cur EXCEPT ![f] = x] /\ inQ' = [inQ EXCEPT ![f] = Tail(@)] /\ Goto(f, l)
    BY <1>4 DEF GetSample
  <2>2. GoneTo(f, l)
    BY <1>1, <2>1, Going DEF Base, Typed, Pc
  <2>3. pc'[f] = l
    BY <1>1, <2>2, AtValues DEF GoneTo, Pc
  <2>4. \A u \in Thread : (pc'[u] = "dequeue" <=> pc[u] = "dequeue") /\ (Releasing(u)' <=> Releasing(u))
    BY <1>1, <2>2, <2>3 DEF GoneTo, Releasing
  <2>5. ASSUME NEW s \in Sample PROVE Held(s)' = Held(s)
    <3>1. InQueues(s) = InQueues(s)' + B(s = x)
      BY <1>4, <2>1, Popped DEF Base
    <3>2. AsLast(s)' = AsLast(s)
      BY <1>1, PartsSame
    <3>3. ToGiveUp(s)' = ToGiveUp(s)
      BY <1>1, <2>4, PartsSame DEF Thread, Filter
    <3>4. InHands(s)' = InHands(s) + B(s = x)
      <4>1. \A u \in Thread : B(cur'[u] = s) = (IF u = f THEN B(s = x) ELSE B(cur[u] = s))
        BY <1>2, <2>1 DEF B
      <4>2. B(cur[f] = s) = 0
        BY <1>2 DEF B, None, Sample
      <4>3. InHands(s)' = B(cur'["vip"] = s) + B(cur'["md"] = s) + B(cur'["enc"] = s)
        BY DEF InHands, B
      <4>4. \A p : B(p) \in Nat
        BY DEF B
      <4>5. CASE f = "md"
        BY <4>1, <4>2, <4>3, <4>4, <4>5 DEF InHands, Thread, Filter
      <4>6. CASE f = "enc"
        BY <4>1, <4>2, <4>3, <4>4, <4>6 DEF InHands, Thread, Filter
      <4> QED BY <4>5, <4>6
    <3> QED BY <3>1, <3>2, <3>3, <3>4, HeldParts DEF B, Base
  <2>6. Referenced'
    BY <1>1, <2>5 DEF Referenced, Books
  <2>7. AtHome'
    <3>1. \A t \in Thread : (pc'[t] = pc[t] /\ rel'[t] = rel[t]) \/ (~Releasing(t) /\ ~Releasing(t)')
      BY <1>1, <2>2, <2>3 DEF GoneTo, Releasing
    <3> QED BY <1>1, <3>1, HomeSame DEF Books
  <2> QED BY <2>6, <2>7 DEF Books
<1> QED BY <1>3, <1>4

LEMMA DrainBooks == ASSUME Base, Books, Typed', NEW f \in {"md", "enc"}, DrainInput(f) PROVE Books'
<1>1. pc[f] = "drain" /\ f \in Thread /\ UNCHANGED <<prev, cur, m_SampleOutQueue>>
  BY DEF DrainInput, Thread, Filter
<1>2. CASE inQ[f] = <<>>
  <2>1. Goto(f, "gone") /\ UNCHANGED <<inQ, ref, rel>>
    BY <1>2 DEF DrainInput
  <2>2. GoneTo(f, "gone")
    BY <1>1, <2>1, Going DEF Base, Typed, Pc
  <2>3. pc'[f] = "gone"
    BY <1>1, <2>2, AtValues DEF GoneTo, Pc
  <2>4. \A u \in Thread : (pc'[u] = "dequeue" <=> pc[u] = "dequeue") /\ (Releasing(u)' <=> Releasing(u))
    BY <1>1, <2>2, <2>3 DEF GoneTo, Releasing
  <2> QED BY <1>1, <2>1, <2>4, BooksSame
<1>3. CASE inQ[f] # <<>>
  <2> DEFINE x == Head(inQ[f])
  <2>1. Unlock(f, x, "drain") /\ inQ' = [inQ EXCEPT ![f] = Tail(@)]
    BY <1>3 DEF DrainInput
  <2>2. x \in Sample
    BY <1>3, <2>1, Popped DEF Base
  <2>3. ref[x] # 0
    BY <1>3, <2>2, Referred DEF Books
  <2>4. UnlockedTo(f, x, "drain")
    BY <1>1, <2>1, <2>2, Unlocked DEF Base, Typed, Pc
  <2>5. pc'[f] # "dequeue" /\ \A u \in Thread : u # f => pc'[u] = pc[u] /\ rel'[u] = rel[u]
    BY <1>1, <2>2, <2>4, UnlockedPc DEF Plain
  <2>6. ASSUME NEW s \in Sample PROVE Held(s)' = Held(s) - B(s = x)
    <3>1. InQueues(s) = InQueues(s)' + B(s = x)
      BY <1>3, <2>1, Popped DEF Base
    <3>2. InHands(s)' = InHands(s) /\ AsLast(s)' = AsLast(s)
      BY <1>1, PartsSame
    <3>3. ToGiveUp(s)' = ToGiveUp(s)
      BY <1>1, <2>5, PartsSame DEF Thread, Filter
    <3> QED BY <3>1, <3>2, <3>3, HeldParts DEF B, Base
  <2>7. ~Releasing(f)
    BY <1>1 DEF Releasing
  <2> QED BY <1>1, <2>2, <2>3, <2>4, <2>6, <2>7, BooksGivenUp DEF Plain
<1> QED BY <1>2, <1>3

LEMMA ClosingBooks == ASSUME Base, Books, Typed', pc["app"] = "call", CloseDisplay PROVE Books'
<1>1. /\ prev' = [prev EXCEPT !["vr"] = None] /\ UNCHANGED <<inQ, cur, m_SampleOutQueue>>
      /\ prev \in [{"md", "vr"} -> Sample \cup {None}]
  BY DEF CloseDisplay, Base, Typed, FilterTyped
<1>2. CASE prev["vr"] = None
  <2>1. UNCHANGED <<ref, pc, rel>> /\ prev' = prev
    BY <1>1, <1>2 DEF CloseDisplay
  <2> QED BY <1>1, <2>1, BooksSame DEF Releasing
<1>3. CASE prev["vr"] # None
  <2> DEFINE x == prev["vr"]
  <2>1. Unlock("app", x, "leave") /\ x \in Sample /\ "app" \in Thread
    BY <1>1, <1>3 DEF CloseDisplay, Thread
  <2>2. ref[x] # 0
    BY <2>1, Referred DEF Books
  <2>3. UnlockedTo("app", x, "leave")
    BY <2>1, Unlocked DEF Base, Typed
  <2>4. \A u \in Thread : u # "app" => pc'[u] = pc[u] /\ rel'[u] = rel[u]
    BY <2>1, <2>3, UnlockedPc DEF Plain
  <2>5. ASSUME NEW s \in Sample PROVE Held(s)' = Held(s) - B(s = x)
    <3>1. InQueues(s) = InQueues(s)' /\ InHands(s)' = InHands(s)
      BY <1>1, PartsSame
    <3>2. ToGiveUp(s)' = ToGiveUp(s)
      BY <2>4, PartsSame DEF Thread, Filter
    <3>3. AsLast(s) = AsLast(s)' + B(s = x)
      <4>1. prev'["md"] = prev["md"] /\ prev'["vr"] = None
        BY <1>1
      <4> QED BY <4>1 DEF AsLast, B, None, Sample
    <3> QED BY <3>1, <3>2, <3>3, HeldParts DEF B, Base
  <2>6. ~Releasing("app")
    BY DEF Releasing
  <2> QED BY <1>1, <2>1, <2>2, <2>3, <2>5, <2>6, BooksGivenUp DEF Plain
<1> QED BY <1>2, <1>3

(* The picture kept for comparison is given up, the one in hand perhaps    *)
(* kept in its place.                                                      *)
LEMMA ComparedBooks ==
    ASSUME Base, Books, Typed', pc["md"] = "motion", NEW next \in {"test", "unlock"}, GiveUpPrev(next),
           UNCHANGED <<inQ, m_SampleOutQueue>>,
           \/ /\ prev' = [prev EXCEPT !["md"] = cur["md"]] /\ cur' = [cur EXCEPT !["md"] = None]
           \/ prev' = [prev EXCEPT !["md"] = None] /\ cur' = cur
    PROVE  Books'
<1> DEFINE x == prev["md"]
           c == cur["md"]
<1>1. /\ prev \in [{"md", "vr"} -> Sample \cup {None}] /\ cur \in [Thread -> Sample \cup {None}]
      /\ "md" \in Thread /\ c \in Sample /\ next \in Pc \cup {"test", "leave"} /\ next \in Plain
  BY DEF Base, Typed, FilterTyped, ThreadTyped, There, MdThere, Thread, Filter, Plain, Pc
<1>2. ASSUME NEW s \in Sample
      PROVE  InHands(s)' + AsLast(s)' + B(s = x) = InHands(s) + AsLast(s)
  <2>1. /\ InHands(s)' = B(cur'["vip"] = s) + B(cur'["md"] = s) + B(cur'["enc"] = s)
        /\ AsLast(s)' = B(prev'["md"] = s) + B(prev'["vr"] = s)
    BY DEF InHands, AsLast, B
  <2>2. cur'["vip"] = cur["vip"] /\ cur'["enc"] = cur["enc"] /\ prev'["vr"] = prev["vr"]
    BY <1>1 DEF Thread, Filter
  <2>3. B(s = x) = B(prev["md"] = s) /\ \A b : B(b) \in Nat
    BY DEF B
  <2>4. B(cur'["md"] = s) + B(prev'["md"] = s) = B(cur["md"] = s)
    BY <1>1 DEF B, None, Sample
  <2> QED BY <2>1, <2>2, <2>3, <2>4 DEF InHands, AsLast
<1>3. CASE x = None
  <2>1. Goto("md", next) /\ UNCHANGED <<ref, rel>>
    BY <1>3 DEF GiveUpPrev
  <2>2. GoneTo("md", next)
    BY <1>1, <2>1, Going DEF Base, Typed
  <2>3. pc'["md"] \notin {"dequeue", "memory", "home"} /\ \A u \in Thread : u # "md" => pc'[u] = pc[u]
    BY <1>1, <2>2, AtPlain DEF GoneTo
  <2>4. ASSUME NEW s \in Sample PROVE Held(s)' = Held(s)
    <3>1. InQueues(s)' = InQueues(s)
      BY PartsSame
    <3>2. ToGiveUp(s)' = ToGiveUp(s)
      BY <2>1, <2>3, PartsSame DEF Thread, Filter
    <3>3. B(s = x) = 0
      BY <1>3 DEF B, None, Sample
    <3> QED BY <1>2, <3>1, <3>2, <3>3, HeldParts DEF Base
  <2>5. AtHome'
    <3>1. \A t \in Thread : (pc'[t] = pc[t] /\ rel'[t] = rel[t]) \/ (~Releasing(t) /\ ~Releasing(t)')
      BY <2>1, <2>3 DEF Releasing
    <3> QED BY <2>1, <3>1, HomeSame DEF Books
  <2> QED BY <2>1, <2>4, <2>5 DEF Books, Referenced
<1>4. CASE x # None
  <2>1. Unlock("md", x, next) /\ x \in Sample
    BY <1>1, <1>4 DEF GiveUpPrev
  <2>2. ref[x] # 0
    BY <2>1, Referred DEF Books
  <2>3. UnlockedTo("md", x, next)
    BY <1>1, <2>1, Unlocked DEF Base, Typed
  <2>4. pc'["md"] # "dequeue" /\ \A u \in Thread : u # "md" => pc'[u] = pc[u] /\ rel'[u] = rel[u]
    BY <1>1, <2>1, <2>3, UnlockedPc
  <2>5. ASSUME NEW s \in Sample PROVE Held(s)' = Held(s) - B(s = x)
    <3>1. InQueues(s)' = InQueues(s)
      BY PartsSame
    <3>2. ToGiveUp(s)' = ToGiveUp(s)
      BY <2>4, PartsSame DEF Thread, Filter
    <3>3. B(s = x) \in Nat
      BY DEF B
    <3> QED BY <1>2, <3>1, <3>2, <3>3, HeldParts DEF Base
  <2>6. ~Releasing("md")
    BY DEF Releasing
  <2> QED BY <1>1, <2>1, <2>2, <2>3, <2>5, <2>6, BooksGivenUp
<1> QED BY <1>3, <1>4

LEMMA MotionBooks == ASSUME Base, Books, Typed', DetectMotion PROVE Books'
<1>1. pc["md"] = "motion" /\ UNCHANGED <<inQ, m_SampleOutQueue>>
  BY DEF DetectMotion
<1>2. CASE /\ GiveUpPrev("test")
           /\ prev' = [prev EXCEPT !["md"] = cur["md"]]
           /\ cur' = [cur EXCEPT !["md"] = None]
  BY <1>1, <1>2, ComparedBooks
<1>3. CASE Goto("md", "unlock") /\ UNCHANGED <<prev, cur, ref, rel, ret>>
  <2>1. GoneTo("md", "unlock")
    BY <1>3, Going DEF Base, Typed, Thread, Filter, Pc
  <2>2. pc'["md"] = "unlock"
    BY <2>1, AtValues DEF GoneTo, Thread, Filter, Pc
  <2>3. \A u \in Thread : (pc'[u] = "dequeue" <=> pc[u] = "dequeue") /\ (Releasing(u)' <=> Releasing(u))
    BY <1>1, <2>1, <2>2 DEF GoneTo, Releasing
  <2> QED BY <1>1, <1>3, <2>3, BooksSame
<1>4. CASE GiveUpPrev("unlock") /\ prev' = [prev EXCEPT !["md"] = None] /\ cur' = cur
  BY <1>1, <1>4, ComparedBooks
<1> QED BY <1>2, <1>3, <1>4 DEF DetectMotion

LEMMA BeginLoopBooks == ASSUME Base, Books, NEW f \in {"md", "enc"}, BeginLoop(f) PROVE Books'
<1>1. /\ pc[f] = "begin" /\ f \in Thread
      /\ UNCHANGED <<ref, inQ, prev, cur, rel, m_SampleOutQueue>> /\ Goto(f, "test")
  BY DEF BeginLoop, poolVars, Thread, Filter
<1>2. GoneTo(f, "test")
  BY <1>1, Going DEF Base, Typed
<1>3. \A t \in Thread : (pc'[t] = "dequeue" <=> pc[t] = "dequeue") /\ (Releasing(t)' <=> Releasing(t))
  BY <1>1, <1>2, AtPlain DEF GoneTo, Plain, Releasing
<1> QED BY <1>1, <1>3, BooksSame

LEMMA CallBooks ==
    ASSUME Base, Books, Typed', CallStep \/ Start \/ EnableMotionDetect \/ Stop \/ SetDisplay \/ SetPreview
    PROVE  Books'
<1>1. ASSUME UNCHANGED <<ref, inQ, prev, cur, rel, m_SampleOutQueue, pc>> PROVE Books'
  BY <1>1, BooksSame DEF Releasing
<1>2. CASE TurnOff \/ StopVr
  <2>1. pc["app"] = "call" /\ CloseDisplay
    BY <1>2 DEF TurnOff, StopVr, Due
  <2> QED BY <2>1, ClosingBooks
<1>3. CASE TurnOn \/ StopVip \/ JoinVip \/ Join("md") \/ StopEnc \/ Join("enc")
  BY <1>1, <1>3 DEF TurnOn, StopVip, JoinVip, Join, StopEnc, poolVars, threadVars
<1>4. CASE Release("app")
  BY <1>4, ReleaseBooks DEF Thread
<1>5. CASE EnableMotionDetect \/ Stop \/ SetDisplay \/ SetPreview
  BY <1>1, <1>5 DEF EnableMotionDetect, Stop, SetDisplay, SetPreview, Call, poolVars, threadVars
<1>6. CASE Start
  <2>1. \A f \in Filter : f # "md" \/ m_MdEnable => pc[f] = "gone"
    BY <1>6 DEF Start, Running, Base, Leaves, EncLeaves, StopOrder, Filter
  <2>2. /\ UNCHANGED <<ref, inQ, prev, cur, rel, m_SampleOutQueue>>
        /\ \A t \in Thread : pc'[t] = IF t \in Filter /\ (t = "md" => m_MdEnable) THEN "begin" ELSE pc[t]
    BY <1>6 DEF Start, poolVars
  <2>3. \A t \in Thread : (pc'[t] = "dequeue" <=> pc[t] = "dequeue") /\ (Releasing(t)' <=> Releasing(t))
    BY <2>1, <2>2 DEF Releasing
  <2> QED BY <2>2, <2>3, BooksSame
<1> QED BY <1>2, <1>3, <1>4, <1>5, <1>6 DEF CallStep

LEMMA InitBooks == Init => Books
<1> SUFFICES ASSUME Init PROVE Books
  OBVIOUS
<1>1. ASSUME NEW s \in Sample PROVE Held(s) = 0 /\ Homeward(s) = 0 /\ ref[s] = 0
  <2>1. /\ inQ["md"] = <<>> /\ inQ["enc"] = <<>> /\ cur["vip"] = None /\ cur["md"] = None /\ cur["enc"] = None
        /\ prev["md"] = None /\ prev["vr"] = None /\ ref[s] = 0 /\ s # None
        /\ \A t \in Thread : pc[t] \in {"call", "gone"}
    BY DEF Init, Thread, Filter, None, Sample
  <2>2. Held(s) = 0
    BY <2>1, TimesNone DEF Held, B, Thread, Filter
  <2>3. Homeward(s) = 0
    BY <2>1 DEF Homeward, Gone, Releasing, B, Thread, Filter
  <2> QED BY <2>1, <2>2, <2>3
<1>2. ASSUME NEW s \in Sample PROVE Times(s, m_SampleOutQueue) = 1
  <2>1. m_SampleOutQueue = [i \in 1..NumBuffer |-> i]
    BY DEF Init, Sample
  <2>2. {i \in DOMAIN m_SampleOutQueue : m_SampleOutQueue[i] = s} = {s}
    BY <2>1 DEF Sample
  <2> QED BY <2>2, FS_Singleton DEF Times
<1> QED BY <1>1, <1>2 DEF Books, Referenced, AtHome, B

LEMMA StepBooks == Base /\ Books /\ [Next]_vars => Books'
<1> SUFFICES ASSUME Base, Books, [Next]_vars PROVE Books'
  OBVIOUS
<1>1. Typed'
  BY StepBase DEF Base
<1>2. CASE VipThread
  <2>1. ASSUME Display("vip") PROVE Books'
    BY <1>1, <2>1, VrBooks, DequeueBooks DEF Display
  <2>2. "vip" \in Thread
    BY DEF Thread, Filter
  <2> QED BY <1>1, <1>2, <2>1, <2>2, BeginBooks, GetDeliveryBooks, CaptureBooks, DeliverBooks,
      UnlockOwnBooks,
             ReleaseBooks DEF VipThread
<1>3. CASE MdThread
  <2>1. ASSUME Display("md") PROVE Books'
    BY <1>1, <2>1, VrBooks, DequeueBooks DEF Display
  <2>2. "md" \in Thread
    BY DEF Thread, Filter
  <2> QED BY <1>1, <1>3, <2>1, <2>2, BeginLoopBooks, GetBooks, MotionBooks, UnlockOwnBooks, DrainBooks,
             ReleaseBooks DEF MdThread
<1>4. CASE EncThread
  <2>1. "enc" \in Thread
    BY DEF Thread, Filter
  <2> QED BY <1>1, <1>4, <2>1, BeginLoopBooks, GetBooks, EncodeBooks, DrainBooks, ReleaseBooks
      DEF EncThread
<1>5. CASE CallStep \/ Start \/ EnableMotionDetect \/ Stop \/ SetDisplay \/ SetPreview
  BY <1>1, <1>5, CallBooks
<1>6. CASE UNCHANGED vars
  <2>1. UNCHANGED <<ref, inQ, prev, cur, rel, m_SampleOutQueue, pc>>
    BY <1>6 DEF vars, poolVars, threadVars
  <2> QED BY <2>1, BooksSame DEF Releasing
<1> QED BY <1>2, <1>3, <1>4, <1>5, <1>6 DEF Next

LEMMA AlwaysBooks == Spec => [](Base /\ Books)
<1>1. Base /\ Books /\ [Next]_vars => (Base /\ Books)'
  BY StepBase, StepBooks
<1>2. Init => Base /\ Books
  BY InitBase, InitBooks
<1> QED BY <1>1, <1>2, PTL DEF Spec

(* When the encoder is gone everybody is, and every sample is at home but  *)
(* the one that the motion detector compares with.                         *)
LEMMA Settled ==
    ASSUME Base, Books, ~Running
    PROVE  Len(m_SampleOutQueue) = NumBuffer - (IF prev["md"] = None THEN 0 ELSE 1)
<1> DEFINE q == m_SampleOutQueue
           x == prev["md"]
<1>1. /\ pc["vip"] = "gone" /\ pc["md"] = "gone" /\ pc["enc"] = "gone" /\ pc["app"] = "call"
      /\ prev["vr"] = None /\ inQ["md"] = <<>> /\ inQ["enc"] = <<>>
  BY DEF Running, Base, Leaves, EncLeaves, MdLeaves, StopOrder
<1>2. cur["vip"] = None /\ cur["md"] = None /\ cur["enc"] = None
  BY <1>1 DEF Base, There, VipThere, MdThere, EncThere, Releasing
<1>3. x \in Sample \cup {None} /\ q \in Seq(Sample)
  BY DEF Base, Typed, FilterTyped, PoolTyped
<1>4. ASSUME NEW s \in Sample PROVE Times(s, q) = B(s # x)
  <2>1. s # None
    BY DEF Sample, None
  <2>2. Held(s) = B(x = s)
    BY <1>1, <1>2, <2>1, TimesNone DEF Held, B
  <2>3. Homeward(s) = 0
    BY <1>1 DEF Homeward, Gone, Releasing, B
  <2>4. Times(s, q) + Homeward(s) = B(ref[s] = 0) /\ ref[s] = Held(s)
    BY DEF Books, AtHome, Referenced
  <2>5. Times(s, q) \in Nat
    BY TimesAll DEF Base
  <2> QED BY <2>2, <2>3, <2>4, <2>5 DEF B
<1>5. IsFiniteSet(Sample) /\ Cardinality(Sample) = NumBuffer
  BY UpTo DEF Sample
<1>6. CASE x = None
  <2>1. \A s \in Sample : Times(s, q) = 1
    BY <1>4, <1>6 DEF B, Sample, None
  <2> QED BY <1>3, <1>5, <1>6, <2>1, OnceFills
<1>7. CASE x # None
  <2>1. x \in Sample /\ IsFiniteSet(Sample \ {x}) /\ Cardinality(Sample \ {x}) = NumBuffer - 1
    BY <1>3, <1>5, <1>7, FS_RemoveElement
  <2>2. Times(x, q) = 0 /\ \A s \in Sample \ {x} : Times(s, q) = 1
    BY <1>4, <2>1 DEF B
  <2>3. \A i \in 1..Len(q) : q[i] # x
    BY <1>3, <2>2, TimesNat
  <2>4. q \in Seq(Sample \ {x})
    BY <1>3, <2>3
  <2> QED BY <1>7, <2>1, <2>2, <2>4, OnceFills
<1> QED BY <1>6, <1>7

LEMMA CountedNow == Base /\ Books => Counted
<1> SUFFICES ASSUME Base, Books PROVE Counted
  OBVIOUS
<1>1. TypeOK
  BY TypedOK DEF Base
<1>2. ASSUME NEW s \in Sample
      PROVE  /\ ref[s] = Holders(s)
             /\ Times(s, m_SampleOutQueue)
                + Cardinality({t \in Thread : pc[t] \in {"memory", "home"} /\ rel[t] = s})
                = (IF ref[s] = 0 THEN 1 ELSE 0)
  BY HeldByHolders DEF Books, Referenced, AtHome, B
<1> QED BY <1>1, <1>2, Settled DEF Counted

(* Every variable keeps its type: the semaphores never count below zero,   *)
(* a queue holds samples only, and an Unlock never takes a count below     *)
(* zero.                                                                   *)
THEOREM Typing == Spec => []TypeOK
  BY AlwaysBase, TypedOK, PTL DEF Base

(* CNX_Sample: a count is the number of places that hold the sample, and   *)
(* a sample nobody holds is at home or on its way, once; for any number    *)
(* of samples and calls, whichever thread drops the last reference.        *)
THEOREM References == Spec => []Counted
  BY AlwaysBooks, CountedNow, PTL

-----------------------------------------------------------------------------
(***************************************************************************)
(* The memory.                                                             *)
(***************************************************************************)
(* Between Begin and Stop of the camera's thread.                          *)
Live == pc["vip"] # "begin" /\ ~m_bThreadExit["vip"]
(* Meanwhile the semaphore counts one less than there are samples at       *)
(* home: the last one is never taken.                                      *)
Semaphore == Live => m_pSemOut = Len(m_SampleOutQueue) - 1
(* A picture belongs to a sample that is held, or that is about to give    *)
(* its memory back; a sample that is held has one, or is just being        *)
(* captured by the only one who holds it.                                  *)
Pictures ==
    /\ \A s \in image : ref[s] # 0 \/ \E t \in Thread : pc[t] = "memory" /\ rel[t] = s
    /\ \A s \in Sample : ref[s] # 0 => s \in image \/ (pc["vip"] = "capture" /\ cur["vip"] = s)
    /\ pc["vip"] = "capture" => cur["vip"] \notin image /\ ref[cur["vip"]] = 1
    /\ Live => \A t \in Thread : pc[t] = "memory" => rel[t] \in image
Store == Semaphore /\ Pictures /\ MemoryOnce

LEMMA HandsOf ==
    ASSUME Base
    PROVE  /\ pc["vip"] \in {"capture", "deliver", "unlock", "dequeue"} => cur["vip"] \in Sample
           /\ pc["md"] \in {"deliver", "motion", "unlock", "dequeue"} => cur["md"] \in Sample
           /\ pc["enc"] = "encode" => cur["enc"] \in Sample
           /\ \A t \in Thread : pc[t] \in {"memory", "home", "dequeue"} => rel[t] \in Sample
  BY DEF Base, Typed, ThreadTyped, There, VipThere, MdThere, EncThere, AppThere, Releasing, Thread, Filter

(* What is being captured nobody else has. *)
LEMMA CapturedAlone ==
    ASSUME Base, Books, Pictures, pc["vip"] = "capture"
    PROVE  /\ cur["vip"] # cur["md"] /\ cur["vip"] # cur["enc"]
           /\ cur["vip"] # prev["md"] /\ cur["vip"] # prev["vr"]
           /\ pc["md"] = "dequeue" => rel["md"] # cur["vip"]
           /\ \A f \in {"md", "enc"} : inQ[f] # <<>> => Head(inQ[f]) # cur["vip"]
<1> DEFINE x == cur["vip"]
<1>1. x \in Sample /\ ref[x] = 1 /\ ref[x] = Held(x)
  BY HandsOf DEF Pictures, Books, Referenced
<1>2. Times(x, inQ["md"]) \in Nat /\ Times(x, inQ["enc"]) \in Nat
  BY TimesAll DEF Base
<1>3. \A p : B(p) \in Nat /\ (B(p) = 0 => ~p)
  BY DEF B
<1>4. B(cur["vip"] = x) = 1
  BY DEF B
<1>5. /\ Times(x, inQ["md"]) = 0 /\ Times(x, inQ["enc"]) = 0
      /\ B(cur["md"] = x) = 0 /\ B(cur["enc"] = x) = 0 /\ B(prev["md"] = x) = 0 /\ B(prev["vr"] = x) = 0
      /\ B(pc["md"] = "dequeue" /\ rel["md"] = x) = 0
  BY <1>1, <1>2, <1>3, <1>4 DEF Held
<1>6. ASSUME NEW f \in {"md", "enc"}, inQ[f] # <<>>, Head(inQ[f]) = x PROVE FALSE
  <2>1. inQ[f] \in Seq(Sample) /\ Times(x, inQ[f]) = 0
    BY <1>5 DEF Base, Typed, QueueTyped
  <2>2. 1 \in 1..Len(inQ[f]) /\ inQ[f][1] = x
    BY <1>6, <2>1
  <2> QED BY <2>1, <2>2, TimesNat
<1> QED BY <1>3, <1>5, <1>6

(* A sample is on its way home once, and then nobody has it. *)
LEMMA HomewardOnce ==
    ASSUME Base, Books
    PROVE  /\ \A t \in Thread : Releasing(t) => rel[t] \in Sample /\ ref[rel[t]] = 0
           /\ \A t, u \in Thread : Releasing(t) /\ Releasing(u) /\ rel[t] = rel[u] => t = u
           /\ \A s \in Sample : Times(s, m_SampleOutQueue) # 0 =>
                ref[s] = 0 /\ \A t \in Thread : ~(Releasing(t) /\ rel[t] = s)
<1>1. \A t \in Thread : \A s : /\ Gone(t, s) \in {0, 1}
                               /\ Gone(t, s) = 1 <=> Releasing(t) /\ rel[t] = s
  BY DEF Gone, B
<1>2. ASSUME NEW s \in Sample
      PROVE  /\ Times(s, m_SampleOutQueue) \in Nat
             /\ Times(s, m_SampleOutQueue) + Homeward(s) = IF ref[s] = 0 THEN 1 ELSE 0
  BY TimesAll DEF Base, Books, AtHome, B
<1>3. ASSUME NEW t \in Thread, Releasing(t) PROVE rel[t] \in Sample /\ ref[rel[t]] = 0
  <2>1. rel[t] \in Sample
    BY <1>3, HandsOf DEF Releasing
  <2>2. Homeward(rel[t]) \in Nat /\ Homeward(rel[t]) # 0
    BY <1>1, <1>3 DEF Homeward, Thread, Filter
  <2> QED BY <1>2, <2>1, <2>2
<1>4. ASSUME NEW t \in Thread, NEW u \in Thread, Releasing(t), Releasing(u), rel[t] = rel[u], t # u PROVE FALSE
  <2>1. Homeward(rel[t]) \in Nat /\ Homeward(rel[t]) >= 2
    BY <1>1, <1>4 DEF Homeward, Thread, Filter
  <2> QED BY <1>2, <1>3, <1>4, <2>1
<1>5. ASSUME NEW s \in Sample, Times(s, m_SampleOutQueue) # 0
      PROVE  ref[s] = 0 /\ \A t \in Thread : ~(Releasing(t) /\ rel[t] = s)
  <2>1. Homeward(s) \in Nat
    BY <1>1 DEF Homeward, Thread, Filter
  <2>2. ref[s] = 0 /\ Homeward(s) = 0
    BY <1>2, <1>5, <2>1
  <2> QED BY <1>1, <2>2 DEF Homeward, Thread, Filter
<1> QED BY <1>3, <1>4, <1>5

(* The sample that is left at home and the one to be captured have no      *)
(* picture: their two blocks are with the driver or wait for it.           *)
LEMMA SuppliedNow == Base /\ Books /\ Store => EnoughQueued
<1> SUFFICES ASSUME Base, Books, Store, pc["vip"] = "capture", ~m_bThreadExit["vip"]
             PROVE  Requeued >= 2
  BY DEF EnoughQueued
<1> DEFINE h == Head(m_SampleOutQueue)
           c == cur["vip"]
<1>1. /\ m_pSemOut = Len(m_SampleOutQueue) - 1 /\ driver + m_ReleaseQueue + Cardinality(image) = NumBuffer
      /\ m_pSemOut \in Nat /\ driver \in Nat /\ m_ReleaseQueue \in Nat /\ image \subseteq Sample
      /\ m_SampleOutQueue \in Seq(Sample)
  BY DEF Store, Semaphore, MemoryOnce, Live, Base, Typed, PoolTyped
<1>2. h \in Sample /\ Times(h, m_SampleOutQueue) # 0
  <2>1. h \in Sample /\ 1 \in 1..Len(m_SampleOutQueue) /\ m_SampleOutQueue[1] = h
    BY <1>1
  <2> QED BY <1>1, <2>1, TimesNat
<1>3. ref[h] = 0 /\ h \notin image
  BY <1>2, HomewardOnce DEF Store, Pictures, Releasing
<1>4. c \in Sample /\ c # h /\ c \notin image
  BY <1>3, HandsOf DEF Store, Pictures
<1>5. IsFiniteSet(Sample) /\ Cardinality(Sample) = NumBuffer
  BY UpTo DEF Sample
<1>6. IsFiniteSet(Sample \ {h}) /\ Cardinality(Sample \ {h}) = NumBuffer - 1
  BY <1>2, <1>5, FS_RemoveElement
<1>7. IsFiniteSet((Sample \ {h}) \ {c}) /\ Cardinality((Sample \ {h}) \ {c}) = NumBuffer - 1 - 1
  <2> DEFINE S == Sample \ {h}
  <2>1. c \in S /\ IsFiniteSet(S) /\ Cardinality(S) = NumBuffer - 1
    BY <1>4, <1>6
  <2> HIDE DEF S, c
  <2>2. IsFiniteSet(S \ {c}) /\ Cardinality(S \ {c}) = Cardinality(S) - 1
    BY <2>1, FS_RemoveElement
  <2> QED BY <2>1, <2>2 DEF S
<1>8. image \subseteq (Sample \ {h}) \ {c}
  BY <1>1, <1>3, <1>4
<1>9. Cardinality(image) <= NumBuffer - 1 - 1 /\ Cardinality(image) \in Nat
  BY <1>7, <1>8, FS_Subset, FS_CardinalityType
<1> QED BY <1>1, <1>9 DEF Requeued

(* Until Begin nothing is live that was not. *)
LEMMA StoreSame ==
    ASSUME Pictures, image' = image, Live' => Live,
           \A t \in Thread : (pc'[t] = "memory" <=> pc[t] = "memory") /\ (pc[t] = "memory" => rel'[t] = rel[t]),
           \A s \in Sample : ref'[s] = 0 <=> ref[s] = 0, image \subseteq Sample,
           pc'["vip"] = "capture" <=> pc["vip"] = "capture",
           pc["vip"] = "capture" => cur'["vip"] = cur["vip"] /\ ref'[cur["vip"]] = ref[cur["vip"]]
    PROVE  Pictures'
<1>1. \A s \in image' : ref'[s] # 0 \/ \E t \in Thread : pc'[t] = "memory" /\ rel'[t] = s
  BY DEF Pictures
<1>2. \A s \in Sample : ref'[s] # 0 => s \in image' \/ (pc'["vip"] = "capture" /\ cur'["vip"] = s)
  BY DEF Pictures
<1>3. pc'["vip"] = "capture" => cur'["vip"] \notin image' /\ ref'[cur'["vip"]] = 1
  BY DEF Pictures
<1>4. Live' => \A t \in Thread : pc'[t] = "memory" => rel'[t] \in image'
  BY DEF Pictures
<1> QED BY <1>1, <1>2, <1>3, <1>4 DEF Pictures

LEMMA StoreGivenUp ==
    ASSUME Base, Pictures, NEW t \in Thread, NEW x \in Sample, NEW next \in Plain, UnlockedTo(t, x, next),
           ref[x] # 0, pc[t] \notin {"memory", "capture"}, pc["vip"] = "capture" => x # cur["vip"],
           pc["vip"] = "capture" => cur'["vip"] = cur["vip"],
           image' = image, Live' => Live
    PROVE  Pictures'
<1>1. /\ \A s \in Sample : s # x => ref'[s] = ref[s]
      /\ ref'[x] = ref[x] - 1 /\ ref \in [Sample -> Nat] /\ image \subseteq Sample
  BY DEF UnlockedTo, Base, Typed, PoolTyped
<1>2. x \in image
  BY DEF Pictures
<1>3. pc'["vip"] = "capture" <=> pc["vip"] = "capture"
  BY AtPlain DEF UnlockedTo, Thread, Filter
<1>4. /\ \A u \in Thread : u # t => pc'[u] = pc[u] /\ rel'[u] = rel[u]
      /\ ref[x] = 1 => pc'[t] = "memory" /\ rel'[t] = x
      /\ ref[x] # 1 => pc'[t] # "memory"
  BY AtPlain DEF UnlockedTo
<1>5. \A s \in image' : ref'[s] # 0 \/ \E u \in Thread : pc'[u] = "memory" /\ rel'[u] = s
  <2>1. ASSUME NEW s \in image, s # x, ref'[s] = 0 PROVE \E u \in Thread : pc'[u] = "memory" /\ rel'[u] = s
    <3>1. PICK u \in Thread : pc[u] = "memory" /\ rel[u] = s
      BY <1>1, <2>1 DEF Pictures
    <3> QED BY <1>4, <3>1
  <2>2. ref'[x] = 0 => ref[x] = 1
    BY <1>1
  <2> QED BY <1>4, <2>1, <2>2
<1>6. \A s \in Sample : ref'[s] # 0 => s \in image' \/ (pc'["vip"] = "capture" /\ cur'["vip"] = s)
  BY <1>1, <1>3 DEF Pictures
<1>7. pc'["vip"] = "capture" => cur'["vip"] \notin image' /\ ref'[cur'["vip"]] = 1
  <2>1. pc["vip"] = "capture" => cur["vip"] \in Sample
    BY HandsOf
  <2> QED BY <1>1, <1>3, <2>1 DEF Pictures
<1>8. Live' => \A u \in Thread : pc'[u] = "memory" => rel'[u] \in image'
  BY <1>2, <1>4 DEF Pictures
<1> QED BY <1>5, <1>6, <1>7, <1>8 DEF Pictures

(* No count and no block of memory moves. *)
LEMMA CountsSame ==
    ASSUME Semaphore, MemoryOnce, Live' => Live,
           UNCHANGED <<m_pSemOut, m_SampleOutQueue, driver, m_ReleaseQueue, image>>
    PROVE  Semaphore' /\ MemoryOnce'
<1>1. Semaphore'
  BY DEF Semaphore
<1>2. MemoryOnce'
  BY DEF MemoryOnce, Live
<1> QED BY <1>1, <1>2

LEMMA BeginStore == ASSUME Base, Books, Store, Begin PROVE Store'
<1>1. /\ pc["vip"] = "begin" /\ m_ReleaseQueue' = 0 /\ driver' = NumBuffer /\ m_pSemOut' = NumBuffer - 1
      /\ UNCHANGED <<image, ref, rel, cur, m_SampleOutQueue>> /\ Goto("vip", "test")
  BY DEF Begin
<1>2. GoneTo("vip", "test")
  BY <1>1, Going DEF Base, Typed, Thread, Filter
<1>3. /\ inQ["md"] = <<>> /\ inQ["enc"] = <<>> /\ prev["md"] = None /\ prev["vr"] = None
      /\ \A t \in Thread : pc[t] \in {"begin", "get", "gone", "call"}
  BY <1>1 DEF Base, Fresh, Thread, Filter
<1>4. cur["vip"] = None /\ cur["md"] = None /\ cur["enc"] = None
  BY <1>3 DEF Base, There, VipThere, MdThere, EncThere, Releasing, Thread, Filter
<1>5. ASSUME NEW s \in Sample PROVE ref[s] = 0 /\ Times(s, m_SampleOutQueue) = 1
  <2>1. s # None /\ \A t \in {"vip", "md"} : pc[t] # "dequeue"
    BY <1>3 DEF Sample, None, Thread, Filter
  <2>2. Held(s) = 0
    BY <1>3, <1>4, <2>1, TimesNone DEF Held, B
  <2>3. Homeward(s) = 0
    BY <1>3 DEF Homeward, Gone, Releasing, B, Thread, Filter
  <2>4. Times(s, m_SampleOutQueue) + Homeward(s) = B(ref[s] = 0) /\ ref[s] = Held(s)
    BY DEF Books, AtHome, Referenced
  <2>5. Times(s, m_SampleOutQueue) \in Nat
    BY TimesAll DEF Base
  <2> QED BY <2>2, <2>3, <2>4, <2>5 DEF B
<1>6. m_SampleOutQueue \in Seq(Sample) /\ image \subseteq Sample
  BY DEF Base, Typed, PoolTyped
<1>7. image = {}
  BY <1>3, <1>5, <1>6 DEF Store, Pictures
<1>8. pc'["vip"] \notin {"memory", "capture"} /\ \A t \in Thread : pc'[t] # "memory"
  BY <1>2, <1>3, AtPlain DEF GoneTo, Plain, Thread, Filter
<1>9. Pictures'
  BY <1>1, <1>5, <1>7, <1>8 DEF Pictures
<1>10. Len(m_SampleOutQueue) = NumBuffer
  <2>1. IsFiniteSet(Sample) /\ Cardinality(Sample) = NumBuffer
    BY UpTo DEF Sample
  <2> QED BY <1>5, <1>6, <2>1, OnceFills
<1>11. Semaphore'
  BY <1>1, <1>10 DEF Semaphore
<1>12. MemoryOnce'
  <2>1. Cardinality(image') = 0
    BY <1>1, <1>7, FS_EmptySet
  <2> QED BY <1>1, <2>1 DEF MemoryOnce
<1> QED BY <1>9, <1>11, <1>12 DEF Store

(* What a live thread's actions do not change. *)
LEMMA VipLive == ASSUME Base, VipThread, pc["vip"] # "begin" PROVE Live' => Live
<1>1. Fixed
  BY VipMoves DEF Base, There, Leaves
<1> QED BY <1>1 DEF Live, Fixed

LEMMA GetDeliveryStore == ASSUME Base, Books, Store, GetDeliverySample PROVE Store'
<1>1. /\ pc["vip"] = "get" /\ m_pSemOut > 0 /\ m_pSemOut' = m_pSemOut - 1
      /\ UNCHANGED <<image, driver, m_ReleaseQueue, rel>>
  BY DEF GetDeliverySample
<1>2. Live' => Live
  BY <1>1, VipLive DEF VipThread
<1>3. /\ m_SampleOutQueue \in Seq(Sample) /\ image \subseteq Sample /\ ref \in [Sample -> Nat]
      /\ m_pSemOut \in Nat /\ cur \in [Thread -> Sample \cup {None}]
  BY DEF Base, Typed, PoolTyped, ThreadTyped
<1>4. MemoryOnce'
  BY <1>1, <1>2 DEF Store, MemoryOnce, Live
<1>5. CASE m_SampleOutQueue = <<>>
  <2>1. Goto("vip", "test") /\ UNCHANGED <<ref, cur, m_SampleOutQueue>>
    BY <1>5 DEF GetDeliverySample
  <2>2. GoneTo("vip", "test")
    BY <2>1, Going DEF Base, Typed, Thread, Filter
  <2>3. pc'["vip"] \notin {"memory", "capture"} /\ \A u \in Thread : u # "vip" => pc'[u] = pc[u]
    BY <2>2, AtPlain DEF GoneTo, Plain, Thread, Filter
  <2>4. \A u \in Thread : pc'[u] = "memory" <=> pc[u] = "memory"
    BY <1>1, <2>3
  <2>5. Pictures'
    BY <1>1, <1>2, <1>3, <2>1, <2>3, <2>4, StoreSame DEF Store
  <2>6. ~Live
    BY <1>1, <1>3, <1>5 DEF Store, Semaphore
  <2>7. Semaphore'
    BY <1>2, <2>6 DEF Semaphore
  <2> QED BY <1>4, <2>5, <2>7 DEF Store
<1>6. CASE m_SampleOutQueue # <<>>
  <2> DEFINE x == Head(m_SampleOutQueue)
  <2>1. /\ m_SampleOutQueue' = Tail(m_SampleOutQueue) /\ cur' = [cur EXCEPT !["vip"] = x]
        /\ ref' = [ref EXCEPT ![x] = @ + 1] /\ Goto("vip", "capture")
    BY <1>6 DEF GetDeliverySample
  <2>2. GoneTo("vip", "capture")
    BY <2>1, Going DEF Base, Typed, Thread, Filter, Pc
  <2>3. pc'["vip"] = "capture" /\ \A u \in Thread : u # "vip" => pc'[u] = pc[u]
    BY <2>2, AtValues DEF GoneTo, Thread, Filter, Pc
  <2>4. x \in Sample /\ Times(x, m_SampleOutQueue) # 0 /\ Len(m_SampleOutQueue') = Len(m_SampleOutQueue) - 1
    <3>1. x \in Sample /\ 1 \in 1..Len(m_SampleOutQueue) /\ m_SampleOutQueue[1] = x
      BY <1>3, <1>6
    <3>2. Len(m_SampleOutQueue) \in Nat /\ Len(m_SampleOutQueue') = Len(m_SampleOutQueue) - 1
      BY <1>3, <1>6, <2>1
    <3> QED BY <1>3, <3>1, <3>2, TimesNat
  <2>5. ref[x] = 0 /\ x \notin image
    BY <2>4, HomewardOnce DEF Store, Pictures, Releasing
  <2>6. \A s \in Sample : ref'[s] = IF s = x THEN 1 ELSE ref[s]
    BY <1>3, <2>1, <2>4, <2>5
  <2>7. cur'["vip"] = x
    BY <1>3, <2>1 DEF Thread, Filter
  <2>8. Pictures'
    <3>1. \A s \in image' : ref'[s] # 0 \/ \E t \in Thread : pc'[t] = "memory" /\ rel'[t] = s
      <4>1. ASSUME NEW s \in image, ref'[s] = 0 PROVE \E t \in Thread : pc'[t] = "memory" /\ rel'[t] = s
        <5>1. PICK t \in Thread : pc[t] = "memory" /\ rel[t] = s
          BY <1>3, <2>6, <4>1 DEF Store, Pictures
        <5> QED BY <1>1, <2>3, <5>1
      <4> QED BY <1>1, <4>1
    <3>2. \A s \in Sample : ref'[s] # 0 => s \in image' \/ (pc'["vip"] = "capture" /\ cur'["vip"] = s)
      BY <1>1, <2>3, <2>6, <2>7 DEF Store, Pictures
    <3>3. cur'["vip"] \notin image' /\ ref'[cur'["vip"]] = 1
      BY <1>1, <2>4, <2>5, <2>6, <2>7
    <3>4. Live' => \A t \in Thread : pc'[t] = "memory" => rel'[t] \in image'
      BY <1>1, <1>2, <2>3 DEF Store, Pictures
    <3> QED BY <3>1, <3>2, <3>3, <3>4 DEF Pictures
  <2>9. Semaphore'
    <3>1. Len(m_SampleOutQueue) \in Nat
      BY <1>3
    <3> QED BY <1>1, <1>2, <1>3, <2>4, <3>1 DEF Store, Semaphore
  <2> QED BY <1>4, <2>8, <2>9 DEF Store
<1> QED BY <1>5, <1>6

LEMMA CaptureStore == ASSUME Base, Books, Store, Capture PROVE Store'
<1> DEFINE x == cur["vip"]
<1>1. /\ pc["vip"] = "capture" /\ m_ReleaseQueue' = 0
      /\ UNCHANGED <<m_SampleOutQueue, m_pSemOut, m_bThreadExit>>
  BY DEF Capture
<1>2. Live' => Live
  BY <1>1, VipLive DEF VipThread
<1>3. /\ x \in Sample /\ x \notin image /\ ref[x] = 1 /\ ref \in [Sample -> Nat] /\ image \subseteq Sample
      /\ driver \in Nat /\ m_ReleaseQueue \in Nat
  BY <1>1, HandsOf DEF Store, Pictures, Base, Typed, PoolTyped
<1>4. IsFiniteSet(image) /\ Cardinality(image) \in Nat
  <2>1. IsFiniteSet(Sample)
    BY UpTo DEF Sample
  <2> QED BY <1>3, <2>1, FS_Subset, FS_CardinalityType
<1>5. CASE Requeued < 2
  <2>1. Unlock("vip", x, "test") /\ image' = image
    BY <1>5 DEF Capture
  <2>2. UnlockedTo("vip", x, "test")
    BY <1>3, <2>1, Unlocked DEF Base, Typed, Thread, Filter
  <2>3. pc'["vip"] = "memory" /\ rel'["vip"] = x /\ ref'[x] = 0
    BY <1>3, <2>2 DEF UnlockedTo
  <2>4. /\ \A u \in Thread : u # "vip" => pc'[u] = pc[u] /\ rel'[u] = rel[u]
        /\ \A s \in Sample : s # x => ref'[s] = ref[s]
    BY <2>2 DEF UnlockedTo
  <2>5. ~Live /\ ~Live'
    <3>1. EnoughQueued /\ Requeued \in Nat
      BY <1>3, SuppliedNow DEF Requeued
    <3>2. ~(Requeued >= 2)
      BY <1>5, <3>1
    <3> QED BY <1>1, <1>2, <3>1, <3>2 DEF EnoughQueued, Live
  <2>6. Pictures'
    <3>1. \A s \in image' : ref'[s] # 0 \/ \E t \in Thread : pc'[t] = "memory" /\ rel'[t] = s
      <4>1. ASSUME NEW s \in image, ref'[s] = 0 PROVE \E t \in Thread : pc'[t] = "memory" /\ rel'[t] = s
        <5>1. PICK t \in Thread : pc[t] = "memory" /\ rel[t] = s
          BY <1>3, <2>4, <4>1 DEF Store, Pictures
        <5> QED BY <1>1, <2>4, <5>1
      <4> QED BY <2>1, <4>1
    <3>2. \A s \in Sample : ref'[s] # 0 => s \in image'
      BY <2>1, <2>3, <2>4 DEF Store, Pictures
    <3> QED BY <2>3, <2>5, <3>1, <3>2 DEF Pictures
  <2> QED BY <2>5, <2>6 DEF Store, Semaphore, MemoryOnce, Live
<1>6. CASE ~(Requeued < 2)
  <2>1. /\ driver' = Requeued - 1 /\ image' = image \cup {x}
        /\ Goto("vip", "deliver") /\ UNCHANGED <<ref, cur, rel>>
    BY <1>6 DEF Capture
  <2>2. GoneTo("vip", "deliver")
    BY <2>1, Going DEF Base, Typed, Thread, Filter, Pc
  <2>3. pc'["vip"] = "deliver" /\ \A u \in Thread : u # "vip" => pc'[u] = pc[u]
    BY <2>2, AtValues DEF GoneTo, Thread, Filter, Pc
  <2>4. Pictures'
    <3>1. \A s \in image' : ref'[s] # 0 \/ \E t \in Thread : pc'[t] = "memory" /\ rel'[t] = s
      <4>1. ASSUME NEW s \in image, ref'[s] = 0 PROVE \E t \in Thread : pc'[t] = "memory" /\ rel'[t] = s
        <5>1. PICK t \in Thread : pc[t] = "memory" /\ rel[t] = s
          BY <2>1, <4>1 DEF Store, Pictures
        <5> QED BY <1>1, <2>1, <2>3, <5>1
      <4> QED BY <1>3, <2>1, <4>1
    <3>2. \A s \in Sample : ref'[s] # 0 => s \in image'
      BY <2>1 DEF Store, Pictures
    <3>3. Live' => \A t \in Thread : pc'[t] = "memory" => rel'[t] \in image'
      BY <1>2, <2>1, <2>3 DEF Store, Pictures
    <3> QED BY <2>3, <3>1, <3>2, <3>3 DEF Pictures
  <2>5. Semaphore'
    BY <1>1, <1>2 DEF Store, Semaphore
  <2>6. MemoryOnce'
    <3>1. Cardinality(image') = Cardinality(image) + 1
      BY <1>3, <1>4, <2>1, FS_AddElement
    <3> QED BY <1>1, <1>2, <1>3, <1>4, <2>1, <3>1 DEF Store, MemoryOnce, Live, Requeued
  <2> QED BY <2>4, <2>5, <2>6 DEF Store
<1> QED BY <1>5, <1>6

(* A thread that gives a sample back. *)
LEMMA ReleaseStore ==
    ASSUME Base, Books, Store, NEW t \in Thread, Release(t), Live' => Live
    PROVE  Store'
<1>1. /\ image \subseteq Sample /\ m_ReleaseQueue \in Nat /\ driver \in Nat /\ m_pSemOut \in Nat
      /\ rel \in [Thread -> Sample \cup {None}] /\ m_SampleOutQueue \in Seq(Sample)
  BY DEF Base, Typed, PoolTyped, ThreadTyped
<1>2. CASE ReleaseMemory(t)
  <2> DEFINE x == rel[t]
  <2>1. /\ pc[t] = "memory" /\ Goto(t, "home") /\ m_ReleaseQueue' = m_ReleaseQueue + 1 /\ image' = image \ {x}
        /\ UNCHANGED <<m_SampleOutQueue, m_pSemOut, driver, ref, cur, rel>>
    BY <1>2 DEF ReleaseMemory
  <2>2. GoneTo(t, "home")
    BY <2>1, Going DEF Base, Typed, Pc
  <2>3. pc'[t] = "home" /\ \A u \in Thread : u # t => pc'[u] = pc[u]
    BY <2>2, AtValues DEF GoneTo, Pc
  <2>4. x \in Sample /\ ref[x] = 0 /\ \A u \in Thread : u # t /\ pc[u] = "memory" => rel[u] # x
    BY <2>1, HomewardOnce DEF Releasing
  <2>5. pc'["vip"] = "capture" <=> pc["vip"] = "capture"
    BY <2>1, <2>3 DEF Thread, Filter
  <2>6. Pictures'
    <3>1. \A s \in image' : ref'[s] # 0 \/ \E u \in Thread : pc'[u] = "memory" /\ rel'[u] = s
      <4>1. ASSUME NEW s \in image, s # x, ref[s] = 0 PROVE \E u \in Thread : pc'[u] = "memory" /\ rel'[u] = s
        <5>1. PICK u \in Thread : pc[u] = "memory" /\ rel[u] = s
          BY <4>1 DEF Store, Pictures
        <5> QED BY <2>1, <2>3, <4>1, <5>1
      <4> QED BY <2>1, <4>1
    <3>2. \A s \in Sample : ref'[s] # 0 => s \in image' \/ (pc'["vip"] = "capture" /\ cur'["vip"] = s)
      BY <2>1, <2>4, <2>5 DEF Store, Pictures
    <3>3. pc'["vip"] = "capture" => cur'["vip"] \notin image' /\ ref'[cur'["vip"]] = 1
      BY <2>1, <2>5 DEF Store, Pictures
    <3>4. Live' => \A u \in Thread : pc'[u] = "memory" => rel'[u] \in image'
      BY <2>1, <2>3, <2>4 DEF Store, Pictures
    <3> QED BY <3>1, <3>2, <3>3, <3>4 DEF Pictures
  <2>7. Semaphore'
    BY <2>1 DEF Store, Semaphore
  <2>8. MemoryOnce'
    <3>1. SUFFICES ASSUME Live' PROVE driver' + m_ReleaseQueue' + Cardinality(image') = NumBuffer
      BY DEF MemoryOnce, Live
    <3>2. x \in image /\ driver + m_ReleaseQueue + Cardinality(image) = NumBuffer
      BY <2>1, <3>1 DEF Store, Pictures, MemoryOnce, Live
    <3>3. IsFiniteSet(image) /\ Cardinality(image) \in Nat
      <4>1. IsFiniteSet(Sample)
        BY UpTo DEF Sample
      <4> QED BY <1>1, <4>1, FS_Subset, FS_CardinalityType
    <3>4. Cardinality(image') = Cardinality(image) - 1
      BY <2>1, <3>2, <3>3, FS_RemoveElement
    <3> QED BY <1>1, <2>1, <3>2, <3>3, <3>4
  <2> QED BY <2>6, <2>7, <2>8 DEF Store
<1>3. CASE ReleaseToQueue(t)
  <2>1. /\ pc[t] = "home" /\ Goto(t, ret[t]) /\ m_pSemOut' = m_pSemOut + 1 /\ rel' = [rel EXCEPT ![t] = None]
        /\ UNCHANGED <<image, m_ReleaseQueue, driver, ref, cur>>
    BY <1>3 DEF ReleaseToQueue
  <2>2. ret[t] \in Plain
    BY <2>1 DEF Base, There, VipThere, MdThere, EncThere, AppThere, Releasing, Plain, Thread, Filter
  <2>3. Len(m_SampleOutQueue') = Len(m_SampleOutQueue) + 1 /\ Len(m_SampleOutQueue) \in Nat
    BY <1>1, <1>3, <2>2, BooksHome
  <2>4. GoneTo(t, ret[t])
    BY <2>1, <2>2, Going DEF Base, Typed, Plain, Pc
  <2>5. pc'[t] \notin {"memory", "capture"} /\ \A u \in Thread : u # t => pc'[u] = pc[u] /\ rel'[u] = rel[u]
    BY <1>1, <2>1, <2>2, <2>4, AtPlain DEF GoneTo
  <2>6. \A u \in Thread : (pc'[u] = "memory" <=> pc[u] = "memory") /\ (pc[u] = "memory" => rel'[u] = rel[u])
    BY <2>1, <2>5
  <2>7. pc'["vip"] = "capture" <=> pc["vip"] = "capture"
    BY <2>1, <2>5 DEF Thread, Filter
  <2>8. Pictures'
    BY <1>1, <2>1, <2>6, <2>7, StoreSame DEF Store
  <2>9. Semaphore'
    BY <1>1, <2>1, <2>3 DEF Store, Semaphore
  <2>10. MemoryOnce'
    BY <2>1 DEF Store, MemoryOnce, Live
  <2> QED BY <2>8, <2>9, <2>10 DEF Store
<1> QED BY <1>2, <1>3 DEF Release

(* A step that neither lends a sample nor takes one back. *)
LEMMA QuietStore ==
    ASSUME Base, Store, Live' => Live,
           UNCHANGED <<m_pSemOut, m_SampleOutQueue, driver, m_ReleaseQueue, image>>,
           \A s \in Sample : ref'[s] = 0 <=> ref[s] = 0,
           \A t \in Thread : (pc'[t] = pc[t] /\ rel'[t] = rel[t]) \/ {pc[t], pc'[t]} \cap {"memory", "capture"} = {},
           pc["vip"] = "capture" => cur'["vip"] = cur["vip"] /\ ref'[cur["vip"]] = ref[cur["vip"]]
    PROVE  Store'
<1>1. \A t \in Thread : /\ pc'[t] = "memory" <=> pc[t] = "memory"
                        /\ pc[t] = "memory" => rel'[t] = rel[t]
                        /\ pc'[t] = "capture" <=> pc[t] = "capture"
  OBVIOUS
<1>2. "vip" \in Thread /\ image \subseteq Sample
  BY DEF Base, Typed, PoolTyped, Thread, Filter
<1>3. pc'["vip"] = "capture" <=> pc["vip"] = "capture"
  BY <1>1, <1>2
<1>4. Pictures'
  BY <1>1, <1>2, <1>3, StoreSame DEF Store
<1> QED BY <1>4, CountsSame DEF Store

LEMMA GivenUpStore ==
    ASSUME Base, Store, NEW t \in Thread, NEW x \in Sample, NEW next \in Plain, Unlock(t, x, next),
           ref[x] # 0, pc[t] \notin {"memory", "capture"},
           pc["vip"] = "capture" => x # cur["vip"] /\ cur'["vip"] = cur["vip"],
           UNCHANGED <<m_pSemOut, m_SampleOutQueue, driver, m_ReleaseQueue, image>>, Live' => Live
    PROVE  Store'
<1>1. next \in Pc \cup {"test", "leave"}
  BY DEF Plain, Pc
<1>2. UnlockedTo(t, x, next)
  BY <1>1, Unlocked DEF Base, Typed
<1>3. Pictures'
  BY <1>2, StoreGivenUp DEF Store
<1> QED BY <1>3, CountsSame DEF Store

(* The threads but the camera's. *)
LEMMA OtherLive ==
    ASSUME Base, MdThread \/ EncThread
    PROVE  pc'["vip"] = pc["vip"] /\ cur'["vip"] = cur["vip"] /\ (Live' => Live)
<1>1. Still("vip") /\ Fixed
  BY MdMoves, EncMoves DEF Base, There, Leaves
<1> QED BY <1>1 DEF Still, Fixed, Live

LEMMA UnlockOwnStore ==
    ASSUME Base, Books, Store, NEW f \in Filter, Unlock(f, cur[f], "test"), pc[f] \in {"unlock", "encode"},
           f = "enc" <=> pc[f] = "encode",
           UNCHANGED <<m_pSemOut, m_SampleOutQueue, driver, m_ReleaseQueue, image>>,
           cur' = [cur EXCEPT ![f] = None], Live' => Live
    PROVE  Store'
<1>1. f \in Thread /\ cur[f] \in Sample /\ "test" \in Plain
  BY HandsOf DEF Thread, Filter, Plain, Base, There, VipThere, MdThere
<1>2. ref[cur[f]] # 0
  BY <1>1, Referred DEF Books, Filter
<1>3. pc["vip"] = "capture" => cur[f] # cur["vip"] /\ cur'["vip"] = cur["vip"]
  BY CapturedAlone DEF Store, Filter, Base, Typed, ThreadTyped
<1> QED BY <1>1, <1>2, <1>3, GivenUpStore

LEMMA DeliverStore == ASSUME Base, Books, Store, DeliverToDetector PROVE Store'
<1> DEFINE x == cur["vip"]
<1>1. /\ pc["vip"] = "deliver" /\ ref' = [ref EXCEPT ![x] = @ + 1] /\ Goto("vip", "unlock")
      /\ UNCHANGED <<m_pSemOut, m_SampleOutQueue, driver, m_ReleaseQueue, image, rel>>
  BY DEF DeliverToDetector
<1>2. x \in Sample /\ ref[x] # 0 /\ ref \in [Sample -> Nat]
  BY <1>1, HandsOf, Referred DEF Books, Base, Typed, PoolTyped
<1>3. \A s \in Sample : ref'[s] = 0 <=> ref[s] = 0
  BY <1>1, <1>2
<1>4. GoneTo("vip", "unlock")
  BY <1>1, Going DEF Base, Typed, Thread, Filter, Pc
<1>5. pc'["vip"] = "unlock" /\ \A u \in Thread : u # "vip" => pc'[u] = pc[u]
  BY <1>4, AtValues DEF GoneTo, Thread, Filter, Pc
<1>6. Live' => Live
  BY <1>1, VipLive DEF VipThread
<1> QED BY <1>1, <1>3, <1>5, <1>6, QuietStore

LEMMA DisplayStore ==
    ASSUME Base, Books, Store, VrReceive \/ DspDequeue, Live' => Live, cur'["vip"] = cur["vip"],
           pc["vip"] = "capture" => Before = "md"
    PROVE  Store'
<1> DEFINE b == Before
<1>1. b \in {"vip", "md"} /\ b \in Thread
  BY DEF Before, Thread, Filter
<1>2. /\ pc[b] \in {"deliver", "dequeue"}
      /\ UNCHANGED <<m_pSemOut, m_SampleOutQueue, driver, m_ReleaseQueue, image>>
  BY DEF VrReceive, DspDequeue
<1>3. rel \in [Thread -> Sample \cup {None}] /\ ref \in [Sample -> Nat]
  BY DEF Base, Typed, PoolTyped, ThreadTyped
<1>4. CASE VrReceive
  <2> DEFINE x == cur[b]
  <2>1. pc[b] = "deliver"
    BY <1>4 DEF VrReceive
  <2>2. x \in Sample /\ ref[x] # 0
    BY <1>1, <2>1, HandsOf, Referred DEF Books
  <2>3. pc["vip"] = "capture" => x # cur["vip"]
    BY CapturedAlone DEF Store
  <2>4. ref' = [ref EXCEPT ![x] = @ + 1] \/ ref' = [ref EXCEPT ![x] = @ + 2]
    BY <1>4 DEF VrReceive
  <2> HIDE DEF b
  <2>5. /\ \A s \in Sample : ref'[s] = 0 <=> ref[s] = 0
        /\ \A s \in Sample : s # x => ref'[s] = ref[s]
    BY <1>3, <2>2, <2>4
  <2>6. \E l \in {"leave", "dequeue"} : Goto(b, l)
    BY <1>4 DEF VrReceive, b
  <2>7. \A u \in Thread : u # b => rel'[u] = rel[u]
    BY <1>3, <1>4 DEF VrReceive, b
  <2>8. PICK l \in {"leave", "dequeue"} : GoneTo(b, l)
    BY <1>1, <2>6, Going DEF Base, Typed, Pc
  <2>9. pc'[b] \notin {"memory", "capture"} /\ \A u \in Thread : u # b => pc'[u] = pc[u]
    <3>1. At(b, "leave") \notin {"memory", "capture"}
      BY <1>1, AtPlain DEF Plain
    <3>2. At(b, "dequeue") = "dequeue"
      BY <1>1, AtCases
    <3> QED BY <2>8, <3>1, <3>2 DEF GoneTo
  <2>10. \A u \in Thread : (pc'[u] = pc[u] /\ rel'[u] = rel[u]) \/ {pc[u], pc'[u]} \cap {"memory", "capture"} = {}
    BY <2>1, <2>7, <2>9
  <2>11. pc["vip"] = "capture" => cur["vip"] \in Sample
    BY HandsOf
  <2> QED BY <1>2, <2>3, <2>5, <2>10, <2>11, QuietStore
<1>5. CASE DspDequeue
  <2> DEFINE x == rel[b]
  <2>1. pc[b] = "dequeue" /\ Unlock(b, x, "leave")
    BY <1>5 DEF DspDequeue
  <2>2. x \in Sample /\ ref[x] # 0
    BY <1>1, <2>1, HandsOf, Referred DEF Books
  <2>3. pc["vip"] = "capture" => x # cur["vip"]
    BY <2>1, CapturedAlone DEF Store
  <2> QED BY <1>1, <1>2, <2>1, <2>2, <2>3, GivenUpStore DEF Plain
<1> QED BY <1>4, <1>5

LEMMA GetStore == ASSUME Base, Books, Store, NEW f \in {"md", "enc"}, GetSample(f) PROVE Store'
<1>1. /\ pc[f] = "get" /\ f \in Thread
      /\ UNCHANGED <<ref, rel, m_pSemOut, m_SampleOutQueue, driver, m_ReleaseQueue, image>>
  BY DEF GetSample, poolVars, Thread, Filter
<1>2. \E l \in {"test", "deliver", "encode"} : Goto(f, l)
  BY DEF GetSample
<1>3. PICK l \in {"test", "deliver", "encode"} : GoneTo(f, l)
  BY <1>1, <1>2, Going DEF Base, Typed, Pc
<1>4. pc'[f] \notin {"memory", "capture"} /\ \A u \in Thread : u # f => pc'[u] = pc[u]
  BY <1>1, <1>3, AtCases DEF GoneTo
<1>5. cur'["vip"] = cur["vip"] /\ (Live' => Live)
  BY OtherLive DEF MdThread, EncThread
<1> QED BY <1>1, <1>4, <1>5, QuietStore

LEMMA DrainStore == ASSUME Base, Books, Store, NEW f \in {"md", "enc"}, DrainInput(f) PROVE Store'
<1>1. /\ pc[f] = "drain" /\ f \in Thread
      /\ UNCHANGED <<m_pSemOut, m_SampleOutQueue, driver, m_ReleaseQueue, image>>
  BY DEF DrainInput, Thread, Filter
<1>2. cur'["vip"] = cur["vip"] /\ (Live' => Live)
  BY OtherLive DEF MdThread, EncThread
<1>3. CASE inQ[f] = <<>>
  <2>1. Goto(f, "gone") /\ UNCHANGED <<ref, rel>>
    BY <1>3 DEF DrainInput
  <2>2. GoneTo(f, "gone")
    BY <1>1, <2>1, Going DEF Base, Typed, Pc
  <2>3. pc'[f] = "gone" /\ \A u \in Thread : u # f => pc'[u] = pc[u]
    BY <1>1, <2>2, AtValues DEF GoneTo, Pc
  <2> QED BY <1>1, <1>2, <2>1, <2>3, QuietStore
<1>4. CASE inQ[f] # <<>>
  <2> DEFINE x == Head(inQ[f])
  <2>1. Unlock(f, x, "drain")
    BY <1>4 DEF DrainInput
  <2>2. x \in Sample
    <3>1. inQ[f] \in Seq(Sample)
      BY DEF Base, Typed, QueueTyped
    <3> QED BY <1>4, <3>1
  <2>3. ref[x] # 0
    BY <1>4, <2>2, Referred DEF Books
  <2>4. pc["vip"] = "capture" => x # cur["vip"]
    BY <1>4, CapturedAlone DEF Store
  <2> QED BY <1>1, <1>2, <2>1, <2>2, <2>3, <2>4, GivenUpStore DEF Plain
<1> QED BY <1>3, <1>4

LEMMA MotionStore == ASSUME Base, Books, Store, DetectMotion PROVE Store'
<1>1. /\ pc["md"] = "motion" /\ UNCHANGED <<m_pSemOut, m_SampleOutQueue, driver, m_ReleaseQueue, image>>
  BY DEF DetectMotion
<1>2. cur'["vip"] = cur["vip"] /\ (Live' => Live) /\ "md" \in Thread
  BY OtherLive DEF MdThread, Thread, Filter
<1>3. ASSUME NEW l \in Plain, Goto("md", l), UNCHANGED <<ref, rel>> PROVE Store'
  <2>1. GoneTo("md", l)
    BY <1>2, <1>3, Going DEF Base, Typed, Plain, Pc
  <2>2. pc'["md"] \notin {"memory", "capture"} /\ \A u \in Thread : u # "md" => pc'[u] = pc[u]
    BY <1>2, <2>1, AtPlain DEF GoneTo
  <2> QED BY <1>1, <1>2, <1>3, <2>2, QuietStore
<1>4. ASSUME NEW l \in {"test", "unlock"}, GiveUpPrev(l) PROVE Store'
  <2>1. l \in Plain
    BY DEF Plain
  <2>2. CASE prev["md"] = None
    BY <1>3, <1>4, <2>1, <2>2 DEF GiveUpPrev
  <2>3. CASE prev["md"] # None
    <3>1. prev["md"] \in Sample /\ Unlock("md", prev["md"], l)
      BY <1>4, <2>3 DEF GiveUpPrev, Base, Typed, FilterTyped
    <3>2. ref[prev["md"]] # 0
      BY <3>1, Referred DEF Books
    <3>3. pc["vip"] = "capture" => prev["md"] # cur["vip"]
      BY CapturedAlone DEF Store
    <3> QED BY <1>1, <1>2, <2>1, <3>1, <3>2, <3>3, GivenUpStore
  <2> QED BY <2>2, <2>3
<1>5. GiveUpPrev("test") \/ GiveUpPrev("unlock") \/ (Goto("md", "unlock") /\ UNCHANGED <<ref, rel>>)
  BY DEF DetectMotion
<1> QED BY <1>3, <1>4, <1>5 DEF Plain

LEMMA ClosingStore ==
    ASSUME Base, Books, Store, pc["app"] = "call", CloseDisplay
    PROVE  Store'
<1>1. /\ UNCHANGED <<m_pSemOut, m_SampleOutQueue, driver, m_ReleaseQueue, image, cur, m_bThreadExit>>
      /\ "app" \in Thread
  BY DEF CloseDisplay, Thread
<1>2. pc'["vip"] = pc["vip"]
  BY ClosingMoves DEF StillThreads, Still, Base, There
<1>3. Live' => Live
  BY <1>1, <1>2 DEF Live
<1>4. CASE prev["vr"] = None
  <2>1. UNCHANGED <<ref, pc, rel>>
    BY <1>4 DEF CloseDisplay
  <2> QED BY <1>1, <1>3, <2>1, QuietStore
<1>5. CASE prev["vr"] # None
  <2>1. prev["vr"] \in Sample /\ Unlock("app", prev["vr"], "leave")
    BY <1>5 DEF CloseDisplay, Base, Typed, FilterTyped
  <2>2. ref[prev["vr"]] # 0
    BY <2>1, Referred DEF Books
  <2>3. pc["vip"] = "capture" => prev["vr"] # cur["vip"]
    BY CapturedAlone DEF Store
  <2> QED BY <1>1, <1>3, <2>1, <2>2, <2>3, GivenUpStore DEF Plain
<1> QED BY <1>4, <1>5

LEMMA CallStore ==
    ASSUME Base, Books, Store, CallStep \/ Start \/ EnableMotionDetect \/ Stop \/ SetDisplay \/ SetPreview
    PROVE  Store'
<1>1. ASSUME UNCHANGED <<poolVars, m_bThreadExit, threadVars>> PROVE Store'
  <2>1. UNCHANGED <<m_pSemOut, m_SampleOutQueue, driver, m_ReleaseQueue, image, ref, pc, cur, rel>>
    BY <1>1 DEF poolVars, threadVars
  <2>2. Live' => Live
    BY <1>1, <2>1 DEF Live
  <2> QED BY <2>1, <2>2, QuietStore
<1>2. m_bThreadExit \in [Filter -> BOOLEAN] /\ image \subseteq Sample
  BY DEF Base, Typed, FilterTyped, PoolTyped
<1>3. CASE TurnOff \/ StopVr
  <2>1. pc["app"] = "call" /\ CloseDisplay
    BY <1>3 DEF TurnOff, StopVr, Due
  <2> QED BY <2>1, ClosingStore
<1>4. CASE TurnOn \/ Join("md") \/ Join("enc") \/ EnableMotionDetect \/ Stop \/ SetDisplay \/ SetPreview
  BY <1>1, <1>4 DEF TurnOn, Join, EnableMotionDetect, Stop, SetDisplay, SetPreview, Call
<1>5. ASSUME UNCHANGED <<image, ref, threadVars>>, ~Live' PROVE Store'
  <2>1. Pictures'
    BY <1>2, <1>5, StoreSame DEF Store, threadVars
  <2> QED BY <1>5, <2>1 DEF Store, Semaphore, MemoryOnce, Live
<1>6. CASE StopVip
  <2>1. ~Live'
    BY <1>2, <1>6 DEF StopVip, Live, Filter
  <2> QED BY <1>5, <1>6, <2>1 DEF StopVip
<1>7. CASE JoinVip
  <2>1. ~Live'
    BY <1>2, <1>7 DEF JoinVip, Live, Filter, Base, Leaves, VipLeaves, threadVars
  <2> QED BY <1>5, <1>7, <2>1 DEF JoinVip
<1>8. CASE StopEnc
  <2>1. /\ UNCHANGED <<m_pSemOut, m_SampleOutQueue, driver, m_ReleaseQueue, image, ref, pc, cur, rel>>
    BY <1>8 DEF StopEnc, poolVars, threadVars
  <2>2. Live' => Live
    BY <1>2, <1>8, <2>1 DEF StopEnc, Live, Filter
  <2> QED BY <2>1, <2>2, QuietStore
<1>9. CASE Release("app")
  <2>1. UNCHANGED m_bThreadExit /\ pc'["vip"] = pc["vip"]
    <3>1. CallStep
      BY <1>9 DEF CallStep
    <3>2. StillThreads
      BY <3>1, AppMoves DEF Base, There
    <3> QED BY <1>9, <3>2 DEF Release, ReleaseMemory, ReleaseToQueue, StillThreads, Still
  <2>2. Live' => Live
    BY <2>1 DEF Live
  <2>3. "app" \in Thread
    BY DEF Thread
  <2> QED BY <1>9, <2>2, <2>3, ReleaseStore
<1>10. CASE Start
  <2>1. /\ \A f \in Filter : f # "md" \/ m_MdEnable => pc[f] = "gone"
        /\ pc["vip"] = "gone" /\ pc["app"] = "call"
    BY <1>10 DEF Start, Running, Base, Leaves, EncLeaves, StopOrder, Filter
  <2>2. /\ UNCHANGED <<ref, image, cur, rel>>
        /\ \A t \in Thread : pc'[t] = IF t \in Filter /\ (t = "md" => m_MdEnable) THEN "begin" ELSE pc[t]
    BY <1>10 DEF Start, poolVars
  <2>3. /\ \A t \in Thread : pc'[t] = "memory" <=> pc[t] = "memory"
        /\ pc'["vip"] = "begin"
    BY <2>1, <2>2 DEF Thread, Filter
  <2>4. ~Live'
    BY <2>3 DEF Live
  <2>5. Pictures'
    BY <1>2, <2>1, <2>2, <2>3, <2>4, StoreSame DEF Store
  <2> QED BY <2>4, <2>5 DEF Store, Semaphore, MemoryOnce, Live
<1> QED BY <1>3, <1>4, <1>6, <1>7, <1>8, <1>9, <1>10 DEF CallStep

LEMMA BeginLoopStore == ASSUME Base, Store, NEW f \in {"md", "enc"}, BeginLoop(f) PROVE Store'
<1>1. pc[f] = "begin" /\ f \in Thread /\ Goto(f, "test")
      /\ UNCHANGED <<ref, rel, m_pSemOut, m_SampleOutQueue, driver, m_ReleaseQueue, image>>
  BY DEF BeginLoop, poolVars, Thread, Filter
<1>2. GoneTo(f, "test")
  BY <1>1, Going DEF Base, Typed
<1>3. pc'[f] \notin {"memory", "capture"} /\ \A u \in Thread : u # f => pc'[u] = pc[u]
  BY <1>1, <1>2, AtPlain DEF GoneTo, Plain
<1>4. cur'["vip"] = cur["vip"] /\ (Live' => Live)
  BY OtherLive DEF MdThread, EncThread
<1> QED BY <1>1, <1>3, <1>4, QuietStore

LEMMA VipStore == ASSUME Base, Books, Store, VipThread PROVE Store'
<1>1. "vip" \in Thread /\ "vip" \in Filter
  BY DEF Thread, Filter
<1>2. CASE UnlockOwn("vip")
  <2>1. /\ pc["vip"] = "unlock" /\ Unlock("vip", cur["vip"], "test") /\ cur' = [cur EXCEPT !["vip"] = None]
        /\ UNCHANGED <<m_pSemOut, m_SampleOutQueue, driver, m_ReleaseQueue, image>>
    BY <1>2 DEF UnlockOwn
  <2> QED BY <1>1, <2>1, VipLive, UnlockOwnStore
<1>3. CASE Release("vip")
  <2>1. pc["vip"] # "begin"
    BY <1>3 DEF Release, ReleaseMemory, ReleaseToQueue
  <2> QED BY <1>1, <1>3, <2>1, VipLive, ReleaseStore
<1>4. CASE Display("vip")
  <2>1. Before = "vip" /\ (VrReceive \/ DspDequeue)
    BY <1>4 DEF Display
  <2>2. pc["vip"] \notin {"begin", "capture"} /\ cur' = cur
    BY <2>1 DEF VrReceive, DspDequeue
  <2> QED BY <2>1, <2>2, VipLive, DisplayStore
<1> QED BY <1>2, <1>3, <1>4, BeginStore, GetDeliveryStore, CaptureStore, DeliverStore DEF VipThread

LEMMA MdStore == ASSUME Base, Books, Store, MdThread PROVE Store'
<1>1. "md" \in Thread /\ "md" \in Filter /\ cur'["vip"] = cur["vip"] /\ (Live' => Live)
  BY OtherLive DEF Thread, Filter
<1>2. CASE UnlockOwn("md")
  <2>1. /\ pc["md"] = "unlock" /\ Unlock("md", cur["md"], "test") /\ cur' = [cur EXCEPT !["md"] = None]
        /\ UNCHANGED <<m_pSemOut, m_SampleOutQueue, driver, m_ReleaseQueue, image>>
    BY <1>2 DEF UnlockOwn
  <2> QED BY <1>1, <2>1, UnlockOwnStore
<1>3. CASE Display("md")
  <2>1. Before = "md" /\ (VrReceive \/ DspDequeue)
    BY <1>3 DEF Display
  <2> QED BY <1>1, <2>1, DisplayStore
<1> QED BY <1>1, <1>2, <1>3, BeginLoopStore, GetStore, MotionStore, DrainStore, ReleaseStore
    DEF MdThread

LEMMA EncStore == ASSUME Base, Books, Store, EncThread PROVE Store'
<1>1. "enc" \in Thread /\ "enc" \in Filter /\ (Live' => Live)
  BY OtherLive DEF Thread, Filter
<1>2. CASE Encode
  <2>1. /\ pc["enc"] = "encode" /\ Unlock("enc", cur["enc"], "test") /\ cur' = [cur EXCEPT !["enc"] = None]
        /\ UNCHANGED <<m_pSemOut, m_SampleOutQueue, driver, m_ReleaseQueue, image>>
    BY <1>2 DEF Encode
  <2> QED BY <1>1, <2>1, UnlockOwnStore
<1> QED BY <1>1, <1>2, BeginLoopStore, GetStore, DrainStore, ReleaseStore DEF EncThread

LEMMA InitStore == Init => Store
<1> SUFFICES ASSUME Init PROVE Store
  OBVIOUS
<1>1. m_bThreadExit["vip"] /\ image = {} /\ pc["vip"] = "gone" /\ \A s \in Sample : ref[s] = 0
  BY DEF Init, Thread, Filter
<1> QED BY <1>1 DEF Store, Semaphore, Pictures, MemoryOnce, Live

LEMMA StepStore == Base /\ Books /\ Store /\ [Next]_vars => Store'
<1> SUFFICES ASSUME Base, Books, Store, [Next]_vars PROVE Store'
  OBVIOUS
<1>1. CASE UNCHANGED vars
  <2>1. UNCHANGED <<m_pSemOut, m_SampleOutQueue, driver, m_ReleaseQueue, image, ref, pc, cur, rel, m_bThreadExit>>
    BY <1>1 DEF vars, poolVars, threadVars
  <2>2. Live' => Live
    BY <2>1 DEF Live
  <2> QED BY <2>1, <2>2, QuietStore
<1> QED BY <1>1, VipStore, MdStore, EncStore, CallStore DEF Next

LEMMA AlwaysStore == Spec => [](Base /\ Books /\ Store)
<1>1. (Base /\ Books /\ Store) /\ [Next]_vars => (Base /\ Books /\ Store)'
  BY StepBase, StepBooks, StepStore
<1>2. Init => Base /\ Books /\ Store
  BY InitBase, InitBooks, InitStore
<1> QED BY <1>1, <1>2, PTL DEF Spec

(* ThreadLoop and ReleaseSample: until the camera is stopped each block    *)
(* of memory is queued to the driver, waits to be, or is a picture that    *)
(* is read: none is queued twice or lost, in whatever order they come      *)
(* back.                                                                   *)
THEOREM Memory == Spec => []MemoryOnce
  BY AlwaysStore, PTL DEF Store

(* NX_VipDequeueBuffer is never asked for the driver's last block: when    *)
(* the camera's thread has got a sample, two blocks at least are, or will  *)
(* be before the call, with the driver.                                    *)
THEOREM Supply == Spec => []EnoughQueued
  BY AlwaysStore, SuppliedNow, PTL
==============================================================================
