------------------------------ MODULE Monitor -------------------------------
(***************************************************************************)
(* The Monitor of project2 (monitor.cpp, lockinfo.h): for every record a   *)
(* queue of lock requests, and the graph dependThreads of who waits for    *)
(* whom.  A request enters a queue through deadlock_check and leaves it    *)
(* through deleteLock, both under Transaction::global_mutex; checkQueue    *)
(* (rwlock.h) reads the queue to decide whose turn it is.                  *)
(*                                                                         *)
(* threads_info is written and never read by the code; it is left out.     *)
(***************************************************************************)
EXTENDS Naturals, Sequences

CONSTANTS Threads, Records

VARIABLES lock_request,    \* lock_request[x]: the request queue of record x
          dependThreads    \* dependThreads[t]: the threads t waits for

monitorVars == <<lock_request, dependThreads>>

\* A request for record x sits in lock_request[x], so its index is implied.
LockType == {"R", "W1", "W2"}
LockInfo == [type : LockType, tid : Threads, getLock : BOOLEAN]

MonitorTypeOK ==
  /\ lock_request \in [Records -> Seq(LockInfo)]
  /\ dependThreads \in [Threads -> SUBSET Threads]

MonitorInit ==
  /\ lock_request = [x \in Records |-> <<>>]
  /\ dependThreads = [t \in Threads |-> {}]

-----------------------------------------------------------------------------
\* LockInfo::operator== ignores getLock.
Same(a, b) == a.type = b.type /\ a.tid = b.tid

\* The positions the loops of checkQueue and deadlock_check visit before they
\* reach req.
Before(queue, req) ==
  {p \in DOMAIN queue : \A m \in 1..p : ~Same(queue[m], req)}

\* A reader's turn comes when only readers are ahead of it; a writer's when
\* only readers that already hold the lock are.
checkQueue(queue, req) ==
  \A p \in Before(queue, req) :
    queue[p].type = "R" /\ (req.type # "R" => queue[p].getLock)

\* The threads whose requests a new request has to wait for.
Blockers(queue, req) ==
  {queue[p].tid : p \in {n \in DOMAIN queue :
                           req.type # "R" \/ queue[n].type # "R"}}

addDependency(x, req) ==
  dependThreads' = [dependThreads EXCEPT ![req.tid] =
                      @ \cup Blockers(lock_request[x], req)]

\* Mutant: the search looks no further than the direct blockers.
FindsCycleDirect(depend, t) ==
  t \in depend[t]

\* The breadth-first search of deadlock_check: does following the edges of
\* depend from t lead back to t?  Stated by the sets closed under depend.
FindsCycle(depend, t) ==
  \A C \in SUBSET Threads :
    depend[t] \subseteq C /\ (\A u \in C : depend[u] \subseteq C) => t \in C

pushRequest(x, req) ==
  lock_request' = [lock_request EXCEPT ![x] = Append(@, req)]

\* Status::get: first in the queue, or a reader with only readers ahead.
GetsAtOnce(queue, req) ==
  \A p \in Before(queue, req) : req.type = "R" /\ queue[p].type = "R"

\* getLock marks the request as granted.
markGranted(x, req) ==
  lock_request' = [lock_request EXCEPT ![x] =
    [p \in DOMAIN @ |-> IF Same(@[p], req)
                        THEN [@[p] EXCEPT !.getLock = TRUE] ELSE @[p]]]

\* std::find and erase: the first request equal to req, if there is one.
Erase(queue, req) ==
  IF \A p \in DOMAIN queue : ~Same(queue[p], req) THEN queue
  ELSE [p \in 1..(Len(queue) - 1) |->
          IF p \in Before(queue, req) THEN queue[p] ELSE queue[p + 1]]

\* Mutant: the threads that waited for req.tid go on depending on it.
deleteLockKeepsEdges(x, req) ==
  /\ lock_request' = [lock_request EXCEPT ![x] = Erase(@, req)]
  /\ dependThreads' = [dependThreads EXCEPT ![req.tid] = {}]

deleteLock(x, req) ==
  /\ lock_request' = [lock_request EXCEPT ![x] = Erase(@, req)]
  /\ dependThreads' = [u \in Threads |->
                         IF u = req.tid THEN {} ELSE dependThreads[u] \ {req.tid}]
=============================================================================
