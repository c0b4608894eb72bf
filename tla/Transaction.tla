---------------------------- MODULE Transaction -----------------------------
(***************************************************************************)
(* project2: N worker threads run transactions over R records until E of   *)
(* them have committed (transaction.cpp).  A transaction picks three       *)
(* distinct records i, j, k, takes a reader lock on i and writer locks on  *)
(* j and k, each through the Monitor's deadlock check, and does            *)
(*     j := j + i + 1        k := k - i                                    *)
(* It then releases its locks and takes the next commit id, all under      *)
(* global_mutex.  A request that would close a cycle aborts and restarts.  *)
(*                                                                         *)
(* The lock protocol of a record is RWLock, the queues and the dependency  *)
(* graph are Monitor; this module is Transaction::work and composes them.  *)
(* Lock n of a transaction is its reader lock (n = 1) or its first or      *)
(* second writer lock (n = 2, 3) on record rec[t][n].                      *)
(***************************************************************************)
EXTENDS Integers, Sequences, FiniteSets

CONSTANTS Threads, Records,
          NoThread,        \* nobody holds global_mutex
          NoRecord,        \* i, j, k before they are drawn
          E,               \* max_global_execution_order
          InitialValue,    \* Record() : value(100)
          IntSpan          \* 2^32 in the code: the number of values of int

ASSUME TransactionAssumption ==
  /\ IsFiniteSet(Threads) /\ NoThread \notin Threads
  /\ NoRecord \notin Records
  /\ E \in Nat /\ IntSpan \in Nat \ {0} /\ InitialValue \in Int

VARIABLES numReader, writing, lk,          \* RWLock
          lock_request, dependThreads,     \* Monitor
          value,           \* value[x]: the value of record x
          global_mutex,    \* its owner, or NoThread
          order,           \* global_execution_order
          outFile,         \* the committed lines, in order of commit id
          pc,              \* where thread t is in work()
          rec,             \* rec[t]: the records <<i, j, k>> t has drawn
          old,             \* old[t]: i_value, j_value, k_value
          having,          \* having[t]: the length of havingLocks
          rel,             \* rel[t]: the lock the release loop is at
          misled           \* history: whose last checkQueue answered wrong

RW  == INSTANCE RWLock
Mon == INSTANCE Monitor

rwVars == <<numReader, writing, lk>>
monitorVars == <<lock_request, dependThreads>>
localVars == <<pc, rec, old, having, rel>>
dbVars == <<value, order, outFile>>
vars == <<rwVars, monitorVars, dbVars, global_mutex, localVars, misled>>

PCs == {"loop", "request", "push", "lock", "relock", "access", "commit",
        "delete", "unlock", "finish", "done"}

TypeOK ==
  /\ RW!RWTypeOK
  /\ Mon!MonitorTypeOK
  /\ value \in [Records -> Int]
  /\ global_mutex \in Threads \cup {NoThread}
  /\ order \in Nat
  /\ outFile \in Seq(Records \X Records \X Records \X Int \X Int \X Int)
  /\ pc \in [Threads -> PCs]
  /\ rec \in [Threads -> [1..3 -> Records \cup {NoRecord}]]
  /\ old \in [Threads -> [1..3 -> Int]]
  /\ having \in [Threads -> 0..3]
  /\ rel \in [Threads -> 1..4]
  /\ misled \subseteq Threads

-----------------------------------------------------------------------------
\* Record::read and the arithmetic of work() are done in int.
Wrap(v) == ((v + IntSpan \div 2) % IntSpan) - IntSpan \div 2

Undrawn == [n \in 1..3 |-> NoRecord]
Unread == [n \in 1..3 |-> 0]

Init ==
  /\ RW!RWInit
  /\ Mon!MonitorInit
  /\ value = [x \in Records |-> InitialValue]
  /\ global_mutex = NoThread
  /\ order = 0
  /\ outFile = <<>>
  /\ pc = [t \in Threads |-> "loop"]
  /\ rec = [t \in Threads |-> Undrawn]
  /\ old = [t \in Threads |-> Unread]
  /\ having = [t \in Threads |-> 0]
  /\ rel = [t \in Threads |-> 1]
  /\ misled = {}

TypeOf(n) == CASE n = 1 -> "R" [] n = 2 -> "W1" [] OTHER -> "W2"

\* The request for lock n of t, and the one t is working on now.
Lock(t, n) == [type |-> TypeOf(n), tid |-> t, getLock |-> FALSE]
current(t) == having[t] + 1
req(t) == Lock(t, current(t))
target(t) == rec[t][current(t)]

Goto(t, label) == pc' = [pc EXCEPT ![t] = label]
GlobalLock(t) == global_mutex = NoThread /\ global_mutex' = t
GlobalUnlock == global_mutex' = NoThread

\* The end of an iteration: its local variables go out of scope.
Forget(t) ==
  /\ rec' = [rec EXCEPT ![t] = Undrawn]
  /\ old' = [old EXCEPT ![t] = Unread]
  /\ having' = [having EXCEPT ![t] = 0]
  /\ rel' = [rel EXCEPT ![t] = 1]

-----------------------------------------------------------------------------
(* The loop head: draw three distinct records, or leave.                   *)

Begin(t) ==
  /\ pc[t] = "loop"
  /\ order < E
  /\ \E i, j, k \in Records :
       /\ i # j /\ j # k /\ i # k
       /\ rec' = [rec EXCEPT ![t] = <<i, j, k>>]
  /\ Goto(t, "request")
  /\ UNCHANGED <<rwVars, monitorVars, dbVars, global_mutex, old, having, rel, misled>>

Leave(t) ==
  /\ pc[t] = "loop"
  /\ order >= E
  /\ Goto(t, "done")
  /\ UNCHANGED <<rwVars, monitorVars, dbVars, global_mutex, rec, old, having, rel, misled>>

-----------------------------------------------------------------------------
(* One lock request: deadlock_check, the RWLock, the flag, the access.     *)

CheckPasses(t) ==
  /\ pc[t] = "request"
  /\ GlobalLock(t)
  /\ Mon!addDependency(target(t), req(t))
  /\ ~Mon!FindsCycle(dependThreads', t)
  /\ Goto(t, "push")
  /\ UNCHANGED <<rwVars, lock_request, dbVars, rec, old, having, rel, misled>>

\* Status::deadlock.  For the reader lock the code goes back to the loop head
\* with global_mutex still locked; for the last writer lock it first puts the
\* old value of j back.
CheckFails(t) ==
  /\ pc[t] = "request"
  /\ GlobalLock(t)
  /\ Mon!addDependency(target(t), req(t))
  /\ Mon!FindsCycle(dependThreads', t)
  /\ Goto(t, IF having[t] = 0 THEN "loop" ELSE "delete")
  /\ value' = IF having[t] = 2 THEN [value EXCEPT ![rec[t][2]] = old[t][2]]
              ELSE value
  /\ UNCHANGED <<rwVars, lock_request, order, outFile, rec, old, having, rel, misled>>

\* The request joins the queue; Status::waiting unlocks global_mutex.
Push(t) ==
  /\ pc[t] = "push"
  /\ Mon!pushRequest(target(t), req(t))
  /\ IF Mon!GetsAtOnce(lock_request'[target(t)], req(t))
     THEN UNCHANGED global_mutex ELSE GlobalUnlock
  /\ IF current(t) = 1 THEN RW!callShared(t, target(t))
     ELSE RW!callExclusive(t, target(t))
  /\ Goto(t, "lock")
  /\ UNCHANGED <<dependThreads, dbVars, rec, old, having, rel, misled>>

\* Another thread, under global_mutex, is changing the queue of record x.
Mutating(t, x) ==
  \E u \in Threads \ {t} :
    \/ pc[u] = "push" /\ target(u) = x
    \/ pc[u] = "delete" /\ rec[u][rel[u]] = x

\* checkQueue runs under the record's mtx only: overlapping a change of the
\* vector it may answer anything.
Turn(t) == Mon!checkQueue(lock_request[target(t)], req(t))
Turns(t) == IF Mutating(t, target(t)) THEN BOOLEAN ELSE {Turn(t)}

TryLock(t) ==
  /\ pc[t] = "lock"
  /\ \E turn \in Turns(t) :
       /\ IF current(t) = 1 THEN RW!lockShared(t, target(t), turn)
          ELSE RW!lockExclusive(t, target(t), turn)
       /\ misled' = IF turn = Turn(t) THEN misled \ {t} ELSE misled \cup {t}
  /\ UNCHANGED <<monitorVars, dbVars, global_mutex, localVars>>

Drain(t) ==
  /\ pc[t] = "lock"
  /\ RW!drainReaders(t, target(t))
  /\ UNCHANGED <<monitorVars, dbVars, global_mutex, localVars, misled>>

SpuriousWakeup(t) ==
  /\ pc[t] = "lock"
  /\ RW!spuriousWakeup(t, target(t))
  /\ UNCHANGED <<monitorVars, dbVars, global_mutex, localVars, misled>>

\* The lock is granted: Monitor::getLock sets the flag of the request.  While
\* another thread moves the elements of the vector, the write may be lost or
\* land on another element.
MarkGranted(t) ==
  /\ pc[t] = "lock"
  /\ lk[t][target(t)] \in {"shared", "exclusive"}
  /\ \/ Mon!markGranted(target(t), req(t))
     \/ /\ Mutating(t, target(t))
        /\ \/ UNCHANGED lock_request
           \/ \E p \in DOMAIN lock_request[target(t)] :
                Mon!markGranted(target(t), lock_request[target(t)][p])
  /\ IF global_mutex = t
     THEN /\ GlobalUnlock
          /\ having' = [having EXCEPT ![t] = @ + 1]
          /\ Goto(t, "access")
     ELSE /\ Goto(t, "relock")
          /\ UNCHANGED <<global_mutex, having>>
  /\ UNCHANGED <<rwVars, dependThreads, dbVars, rec, old, rel, misled>>

\* Mutant: the thread that waited does not queue up for global_mutex.
RelockFree(t) ==
  /\ pc[t] = "relock"
  /\ having' = [having EXCEPT ![t] = @ + 1]
  /\ Goto(t, "access")
  /\ UNCHANGED <<rwVars, monitorVars, dbVars, global_mutex, rec, old, rel, misled>>

\* After waiting: global_mutex is locked and at once unlocked again.
Relock(t) ==
  /\ pc[t] = "relock"
  /\ global_mutex = NoThread
  /\ having' = [having EXCEPT ![t] = @ + 1]
  /\ Goto(t, "access")
  /\ UNCHANGED <<rwVars, monitorVars, dbVars, global_mutex, rec, old, rel, misled>>

\* What is done under lock n: read i; j += i + 1; k -= i.
NewValue(t, n) ==
  CASE n = 1 -> value[rec[t][1]]
    [] n = 2 -> Wrap(value[rec[t][2]] + old[t][1] + 1)
    [] OTHER -> Wrap(value[rec[t][3]] - old[t][1])

Access(t) ==
  /\ pc[t] = "access"
  /\ LET n == having[t]
     IN  /\ old' = [old EXCEPT ![t][n] = value[rec[t][n]]]
         /\ value' = [value EXCEPT ![rec[t][n]] = NewValue(t, n)]
         /\ Goto(t, IF n = 3 THEN "commit" ELSE "request")
  /\ UNCHANGED <<rwVars, monitorVars, order, outFile, global_mutex, rec, having, rel, misled>>

-----------------------------------------------------------------------------
(* Release of the locks, one after the other, for commit and for undo().   *)

CommitLock(t) ==
  /\ pc[t] = "commit"
  /\ GlobalLock(t)
  /\ Goto(t, "delete")
  /\ UNCHANGED <<rwVars, monitorVars, dbVars, rec, old, having, rel, misled>>

Delete(t) ==
  /\ pc[t] = "delete"
  /\ Mon!deleteLock(rec[t][rel[t]], Lock(t, rel[t]))
  /\ Goto(t, "unlock")
  /\ UNCHANGED <<rwVars, dbVars, global_mutex, rec, old, having, rel, misled>>

\* Mutant: every lock is released as a writer lock.
UnlockAsWriter(t) ==
  /\ pc[t] = "unlock"
  /\ RW!unlockExclusive(t, rec[t][rel[t]])
  /\ rel' = [rel EXCEPT ![t] = @ + 1]
  /\ Goto(t, IF rel[t] = having[t] THEN "finish" ELSE "delete")
  /\ UNCHANGED <<monitorVars, dbVars, global_mutex, rec, old, having, misled>>

Unlock(t) ==
  /\ pc[t] = "unlock"
  /\ IF rel[t] = 1 THEN RW!unlockShared(t, rec[t][1])
     ELSE RW!unlockExclusive(t, rec[t][rel[t]])
  /\ rel' = [rel EXCEPT ![t] = @ + 1]
  /\ Goto(t, IF rel[t] = having[t] THEN "finish" ELSE "delete")
  /\ UNCHANGED <<monitorVars, dbVars, global_mutex, rec, old, having, misled>>

\* Mutant: the commit id is compared before it is incremented.
CommitOneMore(t) ==
  /\ pc[t] = "finish" /\ having[t] = 3
  /\ order <= E
  /\ order' = order + 1
  /\ outFile' = Append(outFile, <<rec[t][1], rec[t][2], rec[t][3],
                 value[rec[t][1]], value[rec[t][2]], value[rec[t][3]]>>)
  /\ GlobalUnlock
  /\ Goto(t, "loop")
  /\ Forget(t)
  /\ UNCHANGED <<rwVars, monitorVars, value, misled>>

\* getCommitId gave an id up to E: the line goes to the thread's file.
Commit(t) ==
  /\ pc[t] = "finish" /\ having[t] = 3
  /\ order < E
  /\ order' = order + 1
  /\ outFile' = Append(outFile, <<rec[t][1], rec[t][2], rec[t][3],
                 value[rec[t][1]], value[rec[t][2]], value[rec[t][3]]>>)
  /\ GlobalUnlock
  /\ Goto(t, "loop")
  /\ Forget(t)
  /\ UNCHANGED <<rwVars, monitorVars, value, misled>>

\* The id is past E: all three values are put back, after the locks are gone.
Overrun(t) ==
  /\ pc[t] = "finish" /\ having[t] = 3
  /\ order >= E
  /\ order' = order + 1
  /\ value' = [value EXCEPT ![rec[t][1]] = old[t][1],
                            ![rec[t][2]] = old[t][2],
                            ![rec[t][3]] = old[t][3]]
  /\ GlobalUnlock
  /\ Goto(t, "done")
  /\ Forget(t)
  /\ UNCHANGED <<rwVars, monitorVars, outFile, misled>>

\* undo() is over: back to the loop head with other records.
Restart(t) ==
  /\ pc[t] = "finish" /\ having[t] < 3
  /\ GlobalUnlock
  /\ Goto(t, "loop")
  /\ Forget(t)
  /\ UNCHANGED <<rwVars, monitorVars, dbVars, misled>>

work(t) ==
  \/ Begin(t) \/ Leave(t)
  \/ CheckPasses(t) \/ CheckFails(t) \/ Push(t)
  \/ TryLock(t) \/ Drain(t) \/ MarkGranted(t) \/ Relock(t) \/ Access(t)
  \/ CommitLock(t) \/ Delete(t) \/ Unlock(t)
  \/ Commit(t) \/ Overrun(t) \/ Restart(t)

AllDone == \A t \in Threads : pc[t] = "done"

\* run() has joined every thread.
Joined == AllDone /\ UNCHANGED vars

Next ==
  \/ \E t \in Threads : work(t) \/ SpuriousWakeup(t)
  \/ Joined

Spec == Init /\ [][Next]_vars

\* The scheduler runs every thread that can run; nothing makes a condition
\* variable wake a thread spuriously.
FairSpec == Spec /\ \A t \in Threads : WF_vars(work(t))

-----------------------------------------------------------------------------
(* Properties.                                                             *)

\* t has overwritten j (n = 2) or k (n = 3) and neither committed nor put the
\* old value back.
Dirty(t, n) ==
  \/ n = 2 /\ having[t] = 2 /\ pc[t] \in {"request", "push", "lock", "relock"}
  \/ n = 2 /\ having[t] = 3
  \/ n = 3 /\ having[t] = 3 /\ pc[t] # "access"

\* The records without the writes of transactions that have not committed.
Committed ==
  [x \in Records |->
     IF \E t \in Threads, n \in 2..3 : Dirty(t, n) /\ rec[t][n] = x
     THEN LET w == CHOOSE w \in Threads \X (2..3) :
                     Dirty(w[1], w[2]) /\ rec[w[1]][w[2]] = x
          IN  old[w[1]][w[2]]
     ELSE value[x]]

Serial == INSTANCE SerialTransaction WITH db <- Committed

\* Every line the threads write is the result of running the committed
\* transactions alone, in the order of their commit ids; aborted and late
\* transactions leave no trace (transaction.cpp:164-196, 126-137; test.py).
Serializable == Serial!SerialSpec

\* The threads use the locks of the records as RWLock expects of a client: they
\* call a lock they are not inside and release each lock in the mode they took
\* it in, once (transaction.cpp:167, 205-207; monitor.cpp:56-65).
LockProtocol == RW!RWSpec

\* test.py replays the lines in unbounded integers and finds every commit successful, as
\* long as no value leaves the range of int (test.py:29-39).
TestPyAccepts == Serial!AllSuccessful

\* The locks of havingLocks that the release loop has not reached are held.
Holds(t, n) == n \in rel[t]..having[t]

\* Strict two-phase locking: a lock that is in havingLocks and not yet released
\* is really held at its record, and nobody holds it in a conflicting mode
\* (rwlock.h, transaction.cpp:79-168).
TwoPhaseLocking ==
  \A t \in Threads, n \in 1..3 : Holds(t, n) =>
    /\ lk[t][rec[t][n]] = IF n = 1 THEN "shared" ELSE "exclusive"
    /\ \A u \in Threads \ {t} :
         /\ n = 1 => lk[u][rec[t][n]] # "exclusive"
         /\ n # 1 => lk[u][rec[t][n]] \notin {"shared", "exclusive"}

\* global_mutex is never kept by a thread that goes back to the loop head: the
\* `continue' that forgets to unlock it (transaction.cpp:58-61) is not reached,
\* because nothing can depend on a thread that holds no lock.
MutexNotAbandoned ==
  \A t \in Threads :
    global_mutex = t => pc[t] \in {"push", "lock", "delete", "unlock", "finish"}

\* The threads with a conflicting request ahead of lock n of t, and the locks
\* of t that are queued.
AheadOf(t, n) ==
  LET queue == lock_request[rec[t][n]]
  IN  {queue[p].tid : p \in {l \in Mon!Before(queue, Lock(t, n)) :
                               n # 1 \/ queue[l].type # "R"}}

Requested(t) == 1..(IF pc[t] \in {"lock", "relock"} THEN current(t) ELSE having[t])

\* Whenever deadlock_check can start, dependThreads is the waits-for graph of
\* the queues: a thread depends on exactly the threads with a conflicting
\* request ahead of one of its own.  The races of rwlock.h:23 let a request be
\* granted out of turn, and do not touch the graph (monitor.cpp:46-54, 72-80).
WaitGraphExact ==
  global_mutex = NoThread => \A t \in Threads :
    dependThreads[t] = UNION {AheadOf(t, n) : n \in Requested(t)}

\* No set of threads waits for itself: apart from a victim that is undoing its
\* transaction, no cycle of dependThreads survives deadlock_check.
Victim(t) == pc[t] = "delete" /\ having[t] < 3

NoWaitCycle ==
  \A S \in SUBSET {t \in Threads : ~Victim(t)} :
    S # {} => \E t \in S : dependThreads[t] \cap S = {}

\* t sleeps at its record although its turn has come and the record is free:
\* nobody is left to notify it.
Overlooked(t) ==
  /\ pc[t] = "lock" /\ lk[t][target(t)] \in {"sleepS", "sleepX"}
  /\ Turn(t)
  /\ ~writing[target(t)] /\ numReader[target(t)] = 0

\* A sleeper is overlooked only if its own last look at the queue overlapped a
\* change and answered wrong; no misreading and no misplaced flag of another
\* thread does it (rwlock.h:23, 31-40, 53-68).
NoLostWakeup == \A t \in Threads : Overlooked(t) => t \in misled

\* When run() has joined the threads exactly E transactions are in the files,
\* and the queues and locks carry nothing of the overrun ones
\* (transaction.cpp:164-196).
CleanFinish ==
  AllDone =>
    /\ Len(outFile) = E
    /\ global_mutex = NoThread
    /\ \A x \in Records : lock_request[x] = <<>> /\ numReader[x] = 0 /\ ~writing[x]

SpinFree == \A t \in Threads, x \in Records : lk[t][x] \notin RW!Spinning


\* transaction.cpp:20 "make threads and wait for return": even if nobody
\* misreads a queue, and unless transactions abort each other for ever, all
\* threads come to their end.
Returns ==
  [](misled = {}) /\ <>[][~\E t \in Threads : CheckFails(t)]_vars => <>AllDone
=============================================================================
