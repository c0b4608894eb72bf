---------------------------- MODULE RecLockList -----------------------------
(***************************************************************************)
(* project4: record locks of a read-only workload without the global lock  *)
(* mutex (lock0lock.cc, the functions named project4_...).                 *)
(*                                                                         *)
(* A transaction appends its locks to the list of a hash cell by swapping  *)
(* the tail and then linking the old tail to the new lock.  At commit it   *)
(* walks from the head to each of its locks and marks it deleted; on the   *)
(* way it cuts the locks others have marked out of the list with           *)
(* compare-and-swap and puts them on gclist.  After that one thread at a   *)
(* time frees the locks on gclist that were cut before the oldest running  *)
(* transaction committed.                                                  *)
(*                                                                         *)
(* One cell is modelled; locks are numbered in the order of their tail     *)
(* swaps.  In a read-only workload nobody waits for a lock and cell->node  *)
(* is empty, so the granting of waiting locks at the end of the dequeue    *)
(* has nothing to do.  The model stops where the program does: at a failed *)
(* ut_a, at a null pointer, and before an access to freed memory.          *)
(***************************************************************************)
EXTENDS Naturals, FiniteSets, Sequences, Functions

CONSTANTS Trxs,          \* the transaction objects, one per connection
          FirstTrx,      \* the first of trx_sys->mysql_trx_list
          MaxLocks,      \* bound on the locks ever created
          Budget         \* bound: of each connection, the locks its transactions may take

ASSUME RecLockAssumption ==
  /\ IsFiniteSet(Trxs) /\ FirstTrx \in Trxs
  /\ MaxLocks \in Nat /\ Budget \in [Trxs -> Seq(Nat)]

NULL == 0
Locks == 1..MaxLocks
Pointers == Locks \cup {NULL}
MaxCommits == FoldFunction(LAMBDA b, n : Len(b) + n, 0, Budget)
MaxUlint == MaxCommits + 2     \* numeric_limits<ulint>::max()

VARIABLES head, tail,            \* of the cell
          hash, state,           \* lock->hash; lock->state: FALSE is deleted
          timestamp, gc_hash,    \* lock->timestamp; lock->gc_hash
          gchead, gctail,        \* lock_sys->gclist
          gclist_state,          \* a thread is freeing locks
          sys_timestamp,         \* trx_sys->timestamp
          trx_timestamp,         \* trx->timestamp
          trx_locks,             \* trx->lock.trx_locks
          created, freed,        \* the heap
          started,               \* transactions begun by each connection
          crash,                 \* what stopped the server, "no" before
          pc, loc                \* the threads; their local pointers

listVars == <<head, tail, hash, state>>
gcVars == <<timestamp, gc_hash, gchead, gctail>>
collectVars == <<gclist_state, freed>>
trxVars == <<sys_timestamp, trx_timestamp, trx_locks, started>>
vars == <<listVars, gcVars, collectVars, trxVars, created, crash, pc, loc>>

\* cur_lock, next_lock, the value a swap or a CAS works with, the lock that has
\* been cut, min_timestamp.
Locals == [cur : Pointers, next : Pointers, arg : Pointers, victim : Pointers,
           min : 0..MaxUlint]
NoLocals == [cur |-> NULL, next |-> NULL, arg |-> NULL, victim |-> NULL, min |-> 0]

InDequeue == {"head", "rehead", "testHead", "casHead", "search", "testCur",
              "testNext", "await", "casNext", "swapGc", "stamp", "linkGc"}

RecLockTypeOK ==
  /\ {head, tail, gchead, gctail} \subseteq Pointers
  /\ hash \in [Locks -> Pointers] /\ gc_hash \in [Locks -> Pointers]
  /\ state \in [Locks -> BOOLEAN] /\ timestamp \in [Locks -> 0..MaxUlint]
  /\ gclist_state \in BOOLEAN /\ freed \subseteq Locks /\ created \in 0..MaxLocks
  /\ sys_timestamp \in 1..(MaxCommits + 1)
  /\ trx_timestamp \in [Trxs -> 0..MaxCommits]
  /\ trx_locks \in [Trxs -> Seq(Locks)]
  /\ started \in [Trxs -> 0..MaxCommits]
  /\ crash \in {"no", "cur_lock", "next_lock", "null"}
  /\ pc \in [Trxs -> InDequeue \cup {"idle", "active", "link", "gc", "scan",
                                     "gcTail", "gcHead", "collect"}]
  /\ loc \in [Trxs -> Locals]
  /\ \A t \in Trxs : trx_timestamp[t] = 0 <=> pc[t] \in {"idle", "active", "link"}

Init ==
  /\ head = NULL /\ tail = NULL /\ gchead = NULL /\ gctail = NULL
  /\ hash = [l \in Locks |-> NULL] /\ gc_hash = [l \in Locks |-> NULL]
  /\ state = [l \in Locks |-> FALSE] /\ timestamp = [l \in Locks |-> 0]
  /\ gclist_state = FALSE /\ freed = {} /\ created = 0
  /\ sys_timestamp = 1
  /\ trx_timestamp = [t \in Trxs |-> 0]
  /\ trx_locks = [t \in Trxs |-> <<>>]
  /\ started = [t \in Trxs |-> 0]
  /\ crash = "no"
  /\ pc = [t \in Trxs |-> "idle"]
  /\ loc = [t \in Trxs |-> NoLocals]

\* The loop over gclist ends at the tail read before it, or at NULL.
AtEnd(t) == loc[t].cur \in {NULL, loc[t].arg}

\* The lock the next step of t looks into or writes to.
Touches(t) ==
  CASE pc[t] \in {"link", "linkGc"} -> loc[t].arg
    [] pc[t] \in {"testHead", "search", "testCur", "casNext"} -> loc[t].cur
    [] pc[t] \in {"testNext", "await"} -> loc[t].next
    [] pc[t] = "stamp" -> loc[t].victim
    [] pc[t] = "collect" /\ ~AtEnd(t) -> loc[t].cur
    [] OTHER -> NULL

Defined == crash = "no" /\ \A t \in Trxs : Touches(t) \notin freed

\* A thread at a label takes steps until the server has stopped.
At(t, label) == pc[t] = label /\ Defined

Goto(t, label) == pc' = [pc EXCEPT ![t] = label]

-----------------------------------------------------------------------------
(* A transaction and its locks.                                            *)

Running == {t \in Trxs : pc[t] # "idle"}

\* TRX_STATE_ACTIVE.
Start(t) ==
  /\ At(t, "idle")
  /\ started[t] < Len(Budget[t])
  /\ started' = [started EXCEPT ![t] = @ + 1]
  /\ Goto(t, "active")
  /\ UNCHANGED <<listVars, gcVars, collectVars, sys_timestamp, trx_timestamp,
                 trx_locks, created, crash, loc>>

project4_lock_alloc(t, lock) ==
  /\ created' = lock
  /\ state' = [state EXCEPT ![lock] = TRUE]
  /\ timestamp' = [timestamp EXCEPT ![lock] = trx_timestamp[t]]

\* project4_create: the new lock, then the swap of the tail.
Swap(t) ==
  /\ At(t, "active") /\ created < MaxLocks
  /\ Len(trx_locks[t]) < Budget[t][started[t]]
  /\ LET lock == created + 1
     IN  /\ project4_lock_alloc(t, lock)
         /\ tail' = lock
         /\ loc' = [loc EXCEPT ![t].cur = lock, ![t].arg = tail]
  /\ Goto(t, "link")
  /\ UNCHANGED <<head, hash, gc_hash, gchead, gctail, collectVars, trxVars, crash>>

\* The old tail, or the head of an empty list, is linked to the new lock, and
\* project4_lock_add puts it last in the transaction's own list.
Link(t) ==
  /\ At(t, "link")
  /\ LET lock == loc[t].cur
         old_tail == loc[t].arg
     IN  /\ IF old_tail = NULL THEN head' = lock /\ UNCHANGED hash
            ELSE hash' = [hash EXCEPT ![old_tail] = lock] /\ UNCHANGED head
         /\ trx_locks' = [trx_locks EXCEPT ![t] = Append(@, lock)]
  /\ loc' = [loc EXCEPT ![t] = NoLocals]
  /\ Goto(t, "active")
  /\ UNCHANGED <<tail, state, gcVars, collectVars, sys_timestamp, trx_timestamp,
                 started, created, crash>>

\* trx_commit takes a timestamp; without locks there is nothing to release.
Commit(t) ==
  /\ At(t, "active")
  /\ sys_timestamp' = sys_timestamp + 1
  /\ IF trx_locks[t] = <<>> THEN UNCHANGED trx_timestamp /\ Goto(t, "idle")
     ELSE /\ trx_timestamp' = [trx_timestamp EXCEPT ![t] = sys_timestamp]
          /\ Goto(t, "head")
  /\ UNCHANGED <<listVars, gcVars, collectVars, trx_locks, started, created, crash, loc>>

-----------------------------------------------------------------------------
(* project4_lock_rec_dequeue_from_page.                                    *)

in_lock(t) == trx_locks[t][Len(trx_locks[t])]

\* cur_lock = cell->head: ut_a(cur_lock) the first time, unchecked afterwards.
ReadHead(t) ==
  /\ At(t, "head") \/ At(t, "rehead")
  /\ IF head = NULL
     THEN /\ crash' = IF pc[t] = "head" THEN "cur_lock" ELSE "null"
          /\ UNCHANGED <<pc, loc>>
     ELSE /\ loc' = [loc EXCEPT ![t] = [NoLocals EXCEPT !.cur = head]]
          /\ Goto(t, "testHead")
          /\ UNCHANGED crash
  /\ UNCHANGED <<listVars, gcVars, collectVars, trxVars, created>>

TestHead(t) ==
  /\ At(t, "testHead")
  /\ LET cur_lock == loc[t].cur
     IN  IF state[cur_lock] THEN Goto(t, "search") /\ UNCHANGED loc
         ELSE Goto(t, "casHead") /\ loc' = [loc EXCEPT ![t].arg = hash[cur_lock]]
  /\ UNCHANGED <<listVars, gcVars, collectVars, trxVars, created, crash>>

CasHead(t) ==
  /\ At(t, "casHead")
  /\ IF head = loc[t].cur
     THEN /\ head' = loc[t].arg
          /\ loc' = [loc EXCEPT ![t].victim = loc[t].cur]
          /\ Goto(t, "swapGc")
     ELSE Goto(t, "rehead") /\ UNCHANGED <<head, loc>>
  /\ UNCHANGED <<tail, hash, state, gcVars, collectVars, trxVars, created, crash>>

\* The walk to in_lock: next_lock = cur_lock->hash; ut_a(next_lock).
ReadNext(t) ==
  /\ At(t, "search") /\ loc[t].cur # in_lock(t)
  /\ IF hash[loc[t].cur] = NULL
     THEN crash' = "next_lock" /\ UNCHANGED <<pc, loc>>
     ELSE /\ loc' = [loc EXCEPT ![t].next = hash[loc[t].cur]]
          /\ Goto(t, "testCur")
          /\ UNCHANGED crash
  /\ UNCHANGED <<listVars, gcVars, collectVars, trxVars, created>>

\* Mutant: a deleted cur_lock is looked at again instead of left.
TestCurStays(t) ==
  /\ At(t, "testCur")
  /\ Goto(t, IF state[loc[t].cur] THEN "testNext" ELSE "search")
  /\ UNCHANGED <<loc, listVars, gcVars, collectVars, trxVars, created, crash>>

\* A cur_lock that has been deleted meanwhile is left; so is a pair of live ones.
TestCur(t) ==
  /\ At(t, "testCur")
  /\ IF state[loc[t].cur] THEN Goto(t, "testNext") /\ UNCHANGED loc
     ELSE Goto(t, "search") /\ loc' = [loc EXCEPT ![t].cur = loc[t].next]
  /\ UNCHANGED <<listVars, gcVars, collectVars, trxVars, created, crash>>

\* Mutant: the walk cuts its next lock without looking whether it is deleted.
TestNextBlind(t) ==
  /\ At(t, "testNext")
  /\ IF loc[t].next = in_lock(t)
     THEN Goto(t, "search") /\ loc' = [loc EXCEPT ![t].cur = loc[t].next]
     ELSE Goto(t, "await") /\ UNCHANGED loc
  /\ UNCHANGED <<listVars, gcVars, collectVars, trxVars, created, crash>>

TestNext(t) ==
  /\ At(t, "testNext")
  /\ IF state[loc[t].next]
     THEN Goto(t, "search") /\ loc' = [loc EXCEPT ![t].cur = loc[t].next]
     ELSE Goto(t, "await") /\ UNCHANGED loc
  /\ UNCHANGED <<listVars, gcVars, collectVars, trxVars, created, crash>>

\* Mutant: the walk does not wait for next_lock to be linked.
AwaitNothing(t) ==
  /\ At(t, "await")
  /\ loc' = [loc EXCEPT ![t].arg = hash[loc[t].next]]
  /\ Goto(t, "casNext")
  /\ UNCHANGED <<listVars, gcVars, collectVars, trxVars, created, crash>>

\* while (next_lock->hash == NULL && cell->tail != next_lock);
Await(t) ==
  /\ At(t, "await")
  /\ hash[loc[t].next] # NULL \/ tail = loc[t].next
  /\ loc' = [loc EXCEPT ![t].arg = hash[loc[t].next]]
  /\ Goto(t, "casNext")
  /\ UNCHANGED <<listVars, gcVars, collectVars, trxVars, created, crash>>

CasNext(t) ==
  /\ At(t, "casNext")
  /\ IF hash[loc[t].cur] = loc[t].next
     THEN /\ hash' = [hash EXCEPT ![loc[t].cur] = loc[t].arg]
          /\ loc' = [loc EXCEPT ![t].victim = loc[t].next]
          /\ Goto(t, "swapGc")
     ELSE Goto(t, "search") /\ UNCHANGED <<hash, loc>>
  /\ UNCHANGED <<head, tail, state, gcVars, collectVars, trxVars, created, crash>>

\* The lock that was cut goes on gclist: swap of the tail, timestamp, link.
SwapGc(t) ==
  /\ At(t, "swapGc")
  /\ gctail' = loc[t].victim
  /\ loc' = [loc EXCEPT ![t].arg = gctail]
  /\ Goto(t, "stamp")
  /\ UNCHANGED <<listVars, timestamp, gc_hash, gchead, collectVars, trxVars, created, crash>>

Stamp(t) ==
  /\ At(t, "stamp")
  /\ timestamp' = [timestamp EXCEPT ![loc[t].victim] = sys_timestamp]
  /\ Goto(t, "linkGc")
  /\ UNCHANGED <<listVars, gc_hash, gchead, gctail, collectVars, trxVars, created, crash, loc>>

LinkGc(t) ==
  /\ At(t, "linkGc")
  /\ IF loc[t].arg = NULL THEN gchead' = loc[t].victim /\ UNCHANGED gc_hash
     ELSE gc_hash' = [gc_hash EXCEPT ![loc[t].arg] = loc[t].victim] /\ UNCHANGED gchead
  /\ Goto(t, IF loc[t].victim = loc[t].cur THEN "rehead" ELSE "search")
  /\ loc' = [loc EXCEPT ![t].next = NULL, ![t].arg = NULL, ![t].victim = NULL]
  /\ UNCHANGED <<listVars, timestamp, gctail, collectVars, trxVars, created, crash>>

\* cur_lock is in_lock: it is marked; lock_release goes on with the lock before.
Mark(t) ==
  /\ At(t, "search") /\ loc[t].cur = in_lock(t)
  /\ state' = [state EXCEPT ![in_lock(t)] = FALSE]
  /\ trx_locks' = [trx_locks EXCEPT ![t] = SubSeq(@, 1, Len(@) - 1)]
  /\ loc' = [loc EXCEPT ![t] = NoLocals]
  /\ Goto(t, IF Len(trx_locks[t]) > 1 THEN "head" ELSE "gc")
  /\ UNCHANGED <<head, tail, hash, gcVars, collectVars, sys_timestamp, trx_timestamp,
                 started, created, crash>>

-----------------------------------------------------------------------------
(* The physical deletion at the end of lock_trx_release_locks.             *)

\* Mutant: the timestamp of the last transaction stays in the object.
FinishStamped(t) ==
  /\ loc' = [loc EXCEPT ![t] = NoLocals]
  /\ Goto(t, "idle")
  /\ UNCHANGED trx_timestamp

\* trx_init: the transaction object is ready for the next transaction.
Finish(t) ==
  /\ trx_timestamp' = [trx_timestamp EXCEPT ![t] = 0]
  /\ loc' = [loc EXCEPT ![t] = NoLocals]
  /\ Goto(t, "idle")

TryCollect(t) ==
  /\ At(t, "gc")
  /\ IF gclist_state THEN Finish(t)
     ELSE Goto(t, "scan") /\ UNCHANGED <<trx_timestamp, loc>>
  /\ gclist_state' = TRUE
  /\ UNCHANGED <<listVars, gcVars, freed, sys_timestamp, trx_locks, started, created, crash>>

\* The loop over mysql_trx_list goes on with trx_list, the links of the
\* read-write transactions, and so ends after the first object of the list.
Scan(t) ==
  /\ At(t, "scan")
  /\ loc' = [loc EXCEPT ![t].min =
               IF FirstTrx \in Running THEN trx_timestamp[FirstTrx] ELSE MaxUlint]
  /\ Goto(t, "gcTail")
  /\ UNCHANGED <<listVars, gcVars, collectVars, trxVars, created, crash>>

ReadGcTail(t) ==
  /\ At(t, "gcTail")
  /\ loc' = [loc EXCEPT ![t].arg = gctail]
  /\ Goto(t, "gcHead")
  /\ UNCHANGED <<listVars, gcVars, collectVars, trxVars, created, crash>>

ReadGcHead(t) ==
  /\ At(t, "gcHead")
  /\ loc' = [loc EXCEPT ![t].cur = gchead]
  /\ Goto(t, "collect")
  /\ UNCHANGED <<listVars, gcVars, collectVars, trxVars, created, crash>>

\* One round of the loop over gclist.  next holds prev_gclist_lock.
Old(t) == timestamp[loc[t].cur] < loc[t].min

FreeHead(t) ==
  /\ At(t, "collect") /\ ~AtEnd(t) /\ Old(t) /\ loc[t].cur = gchead
  /\ gchead' = gc_hash[gchead]
  /\ freed' = freed \cup {gchead}
  /\ loc' = [loc EXCEPT ![t].cur = gchead']
  /\ UNCHANGED <<listVars, timestamp, gc_hash, gctail, gclist_state, trxVars,
                 created, crash, pc>>

FreeMiddle(t) ==
  /\ At(t, "collect") /\ ~AtEnd(t) /\ Old(t) /\ loc[t].cur # gchead
  /\ gc_hash' = [gc_hash EXCEPT ![loc[t].next] = gc_hash[loc[t].cur]]
  /\ freed' = freed \cup {loc[t].cur}
  /\ loc' = [loc EXCEPT ![t].cur = gc_hash[loc[t].cur]]
  /\ UNCHANGED <<listVars, timestamp, gchead, gctail, gclist_state, trxVars,
                 created, crash, pc>>

Keep(t) ==
  /\ At(t, "collect") /\ ~AtEnd(t) /\ ~Old(t)
  /\ loc' = [loc EXCEPT ![t].next = loc[t].cur, ![t].cur = gc_hash[loc[t].cur]]
  /\ UNCHANGED <<listVars, gcVars, collectVars, trxVars, created, crash, pc>>

EndCollect(t) ==
  /\ At(t, "collect") /\ AtEnd(t)
  /\ gclist_state' = FALSE
  /\ Finish(t)
  /\ UNCHANGED <<listVars, gcVars, freed, sys_timestamp, trx_locks, started, created, crash>>

-----------------------------------------------------------------------------
thread(t) ==
  \/ Start(t) \/ Swap(t) \/ Link(t) \/ Commit(t)
  \/ ReadHead(t) \/ TestHead(t) \/ CasHead(t)
  \/ ReadNext(t) \/ TestCur(t) \/ TestNext(t) \/ Await(t) \/ CasNext(t)
  \/ SwapGc(t) \/ Stamp(t) \/ LinkGc(t) \/ Mark(t)
  \/ TryCollect(t) \/ Scan(t) \/ ReadGcTail(t) \/ ReadGcHead(t)
  \/ FreeHead(t) \/ FreeMiddle(t) \/ Keep(t) \/ EndCollect(t)

Over == Running = {} /\ \A t \in Trxs : started[t] = Len(Budget[t])

Stopped == (~Defined \/ Over) /\ UNCHANGED vars

Next == (\E t \in Trxs : thread(t)) \/ Stopped

Spec == Init /\ [][Next]_vars

\* The scheduler runs every thread that is inside a call.
FairSpec == Spec /\ \A t \in Trxs : WF_vars(thread(t))

-----------------------------------------------------------------------------
(* Properties.                                                             *)

\* What following the hash links leads to from a set of locks.
Reach(from) ==
  LET reached[n \in 0..MaxLocks] ==
        IF n = 0 THEN from \ {NULL}
        ELSE reached[n - 1] \cup ({hash[l] : l \in reached[n - 1]} \ {NULL})
  IN  reached[MaxLocks]

\* Concurrent appends and cuts never lose a lock: as long as the list has a
\* head, every lock that is not marked is reached from it or hangs on a lock
\* whose insertion has still to be linked (lock0lock.cc:1978-1985, 3412, 3446-3449).
LiveReachable ==
  head # NULL =>
    \A l \in Locks : state[l] =>
      l \in Reach({head} \cup {loc[t].cur : t \in {u \in Trxs : pc[u] = "link"}})

\* Only locks whose owner has released them are freed or even cut out
\* (lock0lock.cc:3409, 3435-3449, 8056-8067).
OnlyReleasedGo ==
  \A l \in Locks : state[l] =>
    /\ l \notin freed
    /\ l \notin {gchead, gctail} \cup {gc_hash[k] : k \in Locks}
    /\ \A t \in Trxs : loc[t].victim # l

\* A release ends: its walk meets in_lock, and what it waits for comes, unless the
\* server stops before (lock0lock.cc:3409-3466).
ReleaseEnds ==
  \A t \in Trxs : pc[t] \in InDequeue ~> (pc[t] \in {"gc", "idle"} \/ ~Defined)

\* The first lock of all has swapped the tail and has not yet filled cell->head.
FirstAppend == \E t \in Trxs : pc[t] = "link" /\ loc[t].arg = NULL

\* lock0lock.cc:3406 ut_a(cur_lock): the list is not empty when a lock of it is
\* released, once the first append is over (1978-1982).
HeadAsserted == crash = "cur_lock" => FirstAppend
=============================================================================
