--------------------------- MODULE DvrFileManager ---------------------------
(***************************************************************************)
(* The storage of the recorder application: a file manager keeps the files *)
(* of one kind within its share of the card.  It lists the directory when  *)
(* it is initialised, is told by the notifier's thread of every file that  *)
(* is done, and its own thread deletes the oldest files while their sizes  *)
(* add up to more than maxSize.                                            *)
(*                                                                         *)
(* A file is its name, and names grow with time.  Sizes are in KBytes.     *)
(***************************************************************************)
EXTENDS Integers, SequencesExt

CONSTANTS
    MaxFile,        \* bound: files recorded
    MaxSize,        \* size of the largest file
    maxSize,        \* the quota
    MaxFail,        \* bound: deletions that fail and files that vanish
    MaxSession      \* bound: times the card is put in

ASSUME QuotaAssumption ==
    MaxFile \in Nat /\ MaxSize \in Nat /\ maxSize \in Nat \ {0} /\ MaxFail \in Nat
ASSUME SessionAssumption == MaxSession \in Nat

File == 1..MaxFile
Node == [name : 0..MaxFile, size : -1..MaxSize]

VARIABLES
    disk,           \* size of every file in the directory
    newest,         \* the last name that was given
    done,           \* files done whose notification is on its way, oldest first
    hQueue,         \* the list of DvrFileQueue
    curSize,
    bThreadRun,
    hLock,          \* "thread" while DvrFileManagerThread holds it, else "free"
    tpc,            \* DvrFileManagerThread
    node,           \* its fileName and fileSize
    spc,            \* the main loop: "out", "running", "join"
    kept,           \* files of this session whose deletion failed
    missing,        \* files of this session that had no size when pushed
    fails, sessions

vars == <<disk, newest, done, hQueue, curSize, bThreadRun, hLock, tpc, node, spc, kept,
          missing, fails, sessions>>

(* fileName and fileSize are not initialised. *)
Init ==
    /\ disk = [f \in {} |-> 0] /\ newest = 0 /\ done = <<>>
    /\ hQueue = <<>> /\ curSize = 0
    /\ bThreadRun = FALSE /\ hLock = "free" /\ tpc = "none" /\ spc = "out"
    /\ node = [name |-> 0, size |-> 0]
    /\ kept = {} /\ missing = 0 /\ fails = 0 /\ sessions = 0

(***************************************************************************)
(* The list.                                                               *)
(***************************************************************************)
Total(q) == FoldLeft(LAMBDA sum, n : sum + n.size, 0, q)
Names(q) == {q[i].name : i \in DOMAIN q}

(* DvrFileQueueInsert: sorted by name, a name that is there is refused. *)
InsertInFront(q, n) == <<n>> \o q
InsertUnlinked(q, n) ==
    IF q # <<>> /\ n.name < q[1].name THEN <<n>> ELSE Append(q, n)
Insert(q, n) ==
    IF n.name \in Names(q) THEN q
    ELSE InsertAt(q, 1 + Len(SelectSeq(q, LAMBDA m : m.name < n.name)), n)

(* CreateFileList takes the entries of the directory in any order. *)
CreateFileList(entries) ==
    FoldLeft(LAMBDA q, f : Insert(q, [name |-> f, size |-> disk[f]]), <<>>, entries)

CheckFileSize(f) == IF f \in DOMAIN disk THEN disk[f] ELSE -1

(***************************************************************************)
(* The main loop: the card is put in and pulled out.                       *)
(***************************************************************************)
InsertCard ==
    /\ spc = "out" /\ sessions < MaxSession
    /\ \E entries \in SetToSeqs(DOMAIN disk) :
        hQueue' = CreateFileList(entries) /\ curSize' = Total(hQueue')
    /\ bThreadRun' = TRUE /\ tpc' = "loop" /\ spc' = "running"
    /\ kept' = {} /\ missing' = 0
    /\ sessions' = sessions + 1
    /\ UNCHANGED <<disk, newest, done, hLock, node, fails>>

(* The recorder is stopped first, which drops what it had not yet notified. *)
Stop ==
    /\ spc = "running"
    /\ bThreadRun' = FALSE
    /\ done' = <<>>
    /\ spc' = "join"
    /\ UNCHANGED <<disk, newest, hQueue, curSize, hLock, tpc, node, kept, missing, fails, sessions>>

Join ==
    /\ spc = "join" /\ tpc = "done"
    /\ tpc' = "none" /\ spc' = "out"
    /\ hQueue' = <<>> /\ curSize' = 0
    /\ UNCHANGED <<disk, newest, done, bThreadRun, hLock, node, kept, missing, fails, sessions>>

(* The power goes: all that is in memory is lost in the middle of any step. *)
PowerOff ==
    /\ spc # "out"
    /\ tpc' = "none" /\ spc' = "out" /\ hLock' = "free" /\ bThreadRun' = FALSE
    /\ hQueue' = <<>> /\ curSize' = 0 /\ done' = <<>>
    /\ UNCHANGED <<disk, newest, node, kept, missing, fails, sessions>>

(***************************************************************************)
(* The recorder and the notifier.                                          *)
(***************************************************************************)
(* A file is written and closed and its notification sent. *)
Record(size) ==
    /\ spc = "running" /\ newest < MaxFile
    /\ newest' = newest + 1
    /\ disk' = [f \in DOMAIN disk \cup {newest'} |-> IF f = newest' THEN size ELSE disk[f]]
    /\ done' = Append(done, newest')
    /\ UNCHANGED <<hQueue, curSize, bThreadRun, hLock, tpc, node, spc, kept, missing, fails, sessions>>

Without(f) == [g \in DOMAIN disk \ {f} |-> disk[g]]

(* Somebody else deletes a file. *)
Vanish(f) ==
    /\ f \in DOMAIN disk /\ fails < MaxFail
    /\ disk' = Without(f)
    /\ fails' = fails + 1
    /\ UNCHANGED <<newest, done, hQueue, curSize, bThreadRun, hLock, tpc, node, spc, kept,
                   missing, sessions>>

Grown(size) == curSize + size

(* DvrFileManagerPush, under hLock. *)
Push ==
    /\ spc = "running" /\ done # <<>> /\ hLock = "free"
    /\ LET size == CheckFileSize(Head(done))
       IN  /\ hQueue' = Append(hQueue, [name |-> Head(done), size |-> size])
           /\ curSize' = Grown(size)
           /\ missing' = IF size < 0 THEN missing + 1 ELSE missing
    /\ done' = Tail(done)
    /\ UNCHANGED <<disk, newest, bThreadRun, hLock, tpc, node, spc, kept, fails, sessions>>

(***************************************************************************)
(* DvrFileManagerThread; it sleeps with the lock.                          *)
(***************************************************************************)
LoopTest ==
    /\ tpc = "loop"
    /\ tpc' = IF bThreadRun THEN "lock" ELSE "done"
    /\ UNCHANGED <<disk, newest, done, hQueue, curSize, bThreadRun, hLock, node, spc, kept,
                   missing, fails, sessions>>

OverQuota == maxSize < curSize

Lock ==
    /\ tpc = "lock" /\ hLock = "free"
    /\ hLock' = "thread"
    /\ tpc' = IF OverQuota THEN "pop" ELSE "unlock"
    /\ UNCHANGED <<disk, newest, done, hQueue, curSize, bThreadRun, node, spc, kept, missing,
                   fails, sessions>>

(* An empty list leaves the name and the size of the last deletion. *)
PopNode == IF hQueue = <<>> THEN node ELSE Head(hQueue)
ShrunkByLast == IF hQueue = <<>> THEN curSize ELSE curSize - hQueue[Len(hQueue)].size
Shrunk == curSize - PopNode.size

Pop ==
    /\ tpc = "pop"
    /\ node' = PopNode
    /\ hQueue' = IF hQueue = <<>> THEN <<>> ELSE Tail(hQueue)
    /\ curSize' = IF Shrunk < 0 THEN 0 ELSE Shrunk
    /\ tpc' = "remove"
    /\ UNCHANGED <<disk, newest, done, bThreadRun, hLock, spc, kept, missing, fails, sessions>>

(* That unlink failed is printed and forgotten. *)
RemoveFile(ok) ==
    /\ tpc = "remove"
    /\ ok \/ (node.name \in DOMAIN disk /\ fails < MaxFail)
    /\ disk' = IF ok THEN Without(node.name) ELSE disk
    /\ kept' = IF ok THEN kept ELSE kept \cup {node.name}
    /\ fails' = IF ok THEN fails ELSE fails + 1
    /\ tpc' = "unlock"
    /\ UNCHANGED <<newest, done, hQueue, curSize, bThreadRun, hLock, node, spc, missing, sessions>>

UnlockForgotten ==
    /\ tpc = "unlock"
    /\ tpc' = "loop"
    /\ UNCHANGED <<disk, newest, done, hQueue, curSize, bThreadRun, hLock, node, spc, kept,
                   missing, fails, sessions>>
Unlock ==
    /\ tpc = "unlock"
    /\ hLock' = "free"
    /\ tpc' = "loop"
    /\ UNCHANGED <<disk, newest, done, hQueue, curSize, bThreadRun, node, spc, kept, missing,
                   fails, sessions>>

-----------------------------------------------------------------------------
MainLoop == InsertCard \/ Stop \/ Join
Thread == LoopTest \/ Lock \/ Pop \/ (\E ok \in BOOLEAN : RemoveFile(ok)) \/ Unlock
Outside == PowerOff \/ (\E size \in 0..MaxSize : Record(size)) \/ (\E f \in File : Vanish(f))

Next == MainLoop \/ Thread \/ Push \/ Outside

(* The thread and the main loop go on; nobody has to record, to stop or to  *)
(* pull the card, and the notifier may be kept from the lock for ever.      *)
Fairness == WF_vars(Thread) /\ WF_vars(Join)

Spec == Init /\ [][Next]_vars
FairSpec == Spec /\ Fairness

-----------------------------------------------------------------------------
(***************************************************************************)
(* Properties.                                                             *)
(***************************************************************************)
TypeOK ==
    /\ DOMAIN disk \subseteq File /\ \A f \in DOMAIN disk : disk[f] \in 0..MaxSize
    /\ newest \in 0..MaxFile /\ done \in Seq(File)
    /\ hQueue \in Seq([name : File, size : -1..MaxSize]) /\ curSize \in Int
    /\ bThreadRun \in BOOLEAN /\ hLock \in {"free", "thread"}
    /\ tpc \in {"none", "loop", "lock", "pop", "remove", "unlock", "done"}
    /\ node \in Node
    /\ spc \in {"out", "running", "join"}
    /\ kept \subseteq File /\ missing \in Nat /\ fails \in Nat /\ sessions \in Nat

(* curSize is what the listed files add up to, through pushes, deletions and  *)
(* restarts; only files that had no size when they were pushed may make it    *)
(* too large, by one each; every variable keeps its type.                     *)
Accounted == TypeOK /\ curSize >= Total(hQueue) /\ curSize <= Total(hQueue) + missing

(* A file that is deleted for the quota is older than every listed one: a     *)
(* restart lists the directory in the order in which the files were made.     *)
OldestFirst ==
    [][(tpc = "remove" /\ disk' # disk /\ tpc' = "unlock")
         => \A f \in Names(hQueue) \cup Range(done) : node.name < f]_vars

(* No file of the directory is out of the manager's sight while it runs: it   *)
(* is listed, about to be, being deleted, or its deletion failed.             *)
InSight ==
    spc = "running" =>
        DOMAIN disk \subseteq Names(hQueue) \cup Range(done) \cup kept
                              \cup (IF tpc = "remove" THEN {node.name} ELSE {})

(* The listed files come within the quota again, whatever is pushed, deleted  *)
(* in vain or gone meanwhile.                                                 *)
QuotaRestored == OverQuota ~> (~OverQuota \/ spc # "running")
=============================================================================
