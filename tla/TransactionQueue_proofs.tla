----------------------- MODULE TransactionQueue_proofs -----------------------
(***************************************************************************)
(* Proofs about the request queues and the graph of dependencies of        *)
(* Transaction, for any number of threads, records and commits:            *)
(*                                                                         *)
(*   - global_mutex is never left locked by a thread that begins anew, and *)
(*     no cycle of waiting threads survives deadlock_check, also when the  *)
(*     queues are read while they change;                                  *)
(*   - nothing is left in the queues and locks when the program ends;      *)
(*   - the program implements SerialTransaction: the lines in the files    *)
(*     are those of the committed transactions run one after the other;    *)
(*   - test.py accepts those lines as long as no sum overflows;            *)
(*   - dependThreads is the waits-for graph of the queues whenever         *)
(*     deadlock_check can start, and a sleeper whose turn has come is      *)
(*     still to be notified, unless it has itself misread its queue.       *)
(*                                                                         *)
(* The invariant says whose requests are in the queues (Queues), that an   *)
(* edge of the graph leads to a thread with a request in a queue (Edges),  *)
(* and where the owner of global_mutex is (Owner).  A thread that has no   *)
(* lock then closes no cycle, and its deadlock_check never fails.          *)
(***************************************************************************)
EXTENDS Transaction_proofs, WellFoundedInduction

\* Lock n of t has a request in the queue of its record: t is getting or has got it,
\* and its release has not taken it out.
Queued(t, n) ==
  /\ rel[t] =< n /\ (pc[t] = "unlock" => rel[t] # n)
  /\ n =< having[t] \/ (pc[t] \in {"lock", "relock"} /\ n = current(t))

Queues(x) ==
  LET queue == lock_request[x]
  IN  /\ \A p \in DOMAIN queue : \E u \in Threads, n \in 1..3 :
           Queued(u, n) /\ rec[u][n] = x /\ Mon!Same(queue[p], Lock(u, n))
      /\ \A p, m \in DOMAIN queue : Mon!Same(queue[p], queue[m]) => p = m

\* Every such lock is there.
Entered(t) ==
  \A n \in 1..3 : Queued(t, n) =>
    \E p \in DOMAIN lock_request[rec[t][n]] :
      Mon!Same(lock_request[rec[t][n]][p], Lock(t, n))

Edges ==
  \A u, v \in Threads : u \in dependThreads[v] => \E n \in 1..3 : Queued(u, n)

Owner(t) ==
  /\ global_mutex = t => pc[t] \in {"push", "lock", "delete", "unlock", "finish"}
  /\ pc[t] \in {"push", "delete", "unlock", "finish"} => global_mutex = t

QueueInv ==
  /\ \A x \in Records : Queues(x)
  /\ \A t \in Threads : Entered(t) /\ Owner(t)
  /\ Edges

-----------------------------------------------------------------------------
(* Queues.                                                                 *)

\* The locks of a transaction differ in their types.
LEMMA TypesDiffer == \A m, n \in 1..3 : TypeOf(m) = TypeOf(n) => m = n
BY DEF TypeOf

\* Two requests are the same when their threads and numbers are.
LEMMA SameLock ==
  ASSUME NEW t \in Threads, NEW u \in Threads, NEW m \in 1..3, NEW n \in 1..3
  PROVE  Mon!Same(Lock(t, m), Lock(u, n)) <=> t = u /\ m = n
BY TypesDiffer DEF Mon!Same, Lock

\* A request joins at the end.
LEMMA AppendQueue ==
  ASSUME NEW q \in Seq(Mon!LockInfo), NEW r \in Mon!LockInfo
  PROVE  /\ DOMAIN Append(q, r) = 1..(Len(q) + 1) /\ DOMAIN q = 1..Len(q)
         /\ Len(q) \in Nat
         /\ \A p \in DOMAIN q : Append(q, r)[p] = q[p]
         /\ Append(q, r)[Len(q) + 1] = r
OBVIOUS

\* Erasing the only request equal to r moves the ones behind it up by one.
LEMMA EraseAt ==
  ASSUME NEW q \in Seq(Mon!LockInfo), NEW r, NEW k \in DOMAIN q, Mon!Same(q[k], r),
         \A m \in DOMAIN q : Mon!Same(q[m], r) => m = k
  PROVE  /\ DOMAIN Mon!Erase(q, r) = 1..(Len(q) - 1) /\ DOMAIN q = 1..Len(q)
         /\ Len(q) \in Nat
         /\ \A p \in 1..(Len(q) - 1) :
              Mon!Erase(q, r)[p] = IF p < k THEN q[p] ELSE q[p + 1]
<1>1. DOMAIN q = 1..Len(q) /\ Len(q) \in Nat
  OBVIOUS
<1>2. ASSUME NEW p \in DOMAIN q PROVE p \in Mon!Before(q, r) <=> p < k
  <2>1. CASE p < k
    <3>1. \A m \in 1..p : m \in DOMAIN q /\ m # k
      BY <1>1, <2>1
    <3> QED
      BY <2>1, <3>1 DEF Mon!Before
  <2>2. CASE ~(p < k)
    <3>1. k \in 1..p
      BY <1>1, <2>2
    <3> QED
      BY <2>2, <3>1 DEF Mon!Before
  <2> QED
    BY <2>1, <2>2
<1>3. Mon!Erase(q, r) = [p \in 1..(Len(q) - 1) |->
                           IF p \in Mon!Before(q, r) THEN q[p] ELSE q[p + 1]]
  BY DEF Mon!Erase
<1>4. \A p \in 1..(Len(q) - 1) : p \in DOMAIN q
  BY <1>1
<1> QED
  BY <1>1, <1>2, <1>3, <1>4

\* Setting flags changes neither who is in a queue nor where.
LEMMA FlagsOnly ==
  ASSUME Mon!MonitorTypeOK, NEW x \in Records, NEW r, Mon!markGranted(x, r),
         NEW y \in Records
  PROVE  /\ DOMAIN lock_request'[y] = DOMAIN lock_request[y]
         /\ \A p \in DOMAIN lock_request[y] :
              /\ lock_request'[y][p].tid = lock_request[y][p].tid
              /\ lock_request'[y][p].type = lock_request[y][p].type
<1> DEFINE q == lock_request[x]
           f == [p \in DOMAIN q |-> IF Mon!Same(q[p], r)
                                    THEN [q[p] EXCEPT !.getLock = TRUE] ELSE q[p]]
<1>1. lock_request' = [lock_request EXCEPT ![x] = f]
  BY DEF Mon!markGranted
<1>2. lock_request \in [Records -> Seq(Mon!LockInfo)] /\ q \in Seq(Mon!LockInfo)
  BY DEF Mon!MonitorTypeOK
<1>3. \A p \in DOMAIN q : q[p] \in Mon!LockInfo
  BY <1>2
<1>4. ASSUME NEW p \in DOMAIN q PROVE f[p].tid = q[p].tid /\ f[p].type = q[p].type
  BY <1>3 DEF Mon!LockInfo
<1>5. DOMAIN f = DOMAIN q
  OBVIOUS
<1> HIDE DEF f
<1> QED
  BY <1>1, <1>2, <1>4, <1>5

-----------------------------------------------------------------------------
(* Which requests are queued.                                              *)

\* A step of another thread does not change what t has queued.
LEMMA QueuedOthers ==
  ASSUME Inv, NEW t \in Threads, work(t) \/ SpuriousWakeup(t), NEW u \in Threads, u # t
  PROVE  /\ \A n \in 1..3 : Queued(u, n)' <=> Queued(u, n)
         /\ rec'[u] = rec[u] /\ pc'[u] = pc[u] /\ having'[u] = having[u]
         /\ rel'[u] = rel[u]
<1>1. /\ pc'[u] = pc[u] /\ rec'[u] = rec[u]
      /\ having'[u] = having[u] /\ rel'[u] = rel[u]
  BY OthersCtl DEF Inv
<1> QED
  BY <1>1 DEF Queued, current

\* Only Push and Delete change what t itself has queued.
LEMMA QueuedOwn ==
  ASSUME Inv, NEW t \in Threads, work(t) \/ SpuriousWakeup(t), NEW n \in 1..3
  PROVE  /\ ~Push(t) /\ ~Delete(t) => (Queued(t, n)' <=> Queued(t, n))
         /\ Push(t) => (Queued(t, n)' <=> Queued(t, n) \/ n = current(t))
         /\ Delete(t) => (Queued(t, n)' <=> Queued(t, n) /\ n # rel[t])
         /\ Queued(t, n) => rec'[t] = rec[t]
<1> USE DEF Inv, CtlInv, CtlType, Goto
<1>a. Ctl(t) /\ having[t] \in 0..3 /\ rel[t] \in 1..4 /\ pc[t] \in PCs
  OBVIOUS
<1>1. CASE Begin(t)
  <2>1. pc[t] = "loop" /\ pc'[t] = "request" /\ UNCHANGED <<having, rel>>
    BY <1>1 DEF Begin
  <2> QED
    BY <1>a, <2>1, <1>1 DEF Queued, current, Ctl, Push, Delete
<1>2. CASE Leave(t) \/ CheckPasses(t) \/ CheckFails(t) \/ Access(t) \/ CommitLock(t)
  <2>1. /\ pc[t] \in {"loop", "request", "access", "commit"}
        /\ pc'[t] \in {"done", "push", "loop", "delete", "commit", "request"}
        /\ UNCHANGED <<rec, having, rel>>
    BY <1>2 DEF Leave, CheckPasses, CheckFails, Access, CommitLock
  <2> QED
    BY <2>1 DEF Queued, current, Push, Delete
<1>3. CASE TryLock(t) \/ Drain(t) \/ SpuriousWakeup(t)
  BY <1>3 DEF TryLock, Drain, SpuriousWakeup, localVars, Queued, current, Push, Delete
<1>4. CASE Push(t)
  <2>1. pc[t] = "push" /\ pc'[t] = "lock" /\ UNCHANGED <<rec, having, rel>>
    BY <1>4 DEF Push
  <2>2. having[t] \in 0..2 /\ rel[t] = 1
    BY <1>a, <2>1 DEF Ctl
  <2> QED
    BY <2>1, <2>2, <1>4 DEF Queued, current, Push, Delete
<1>5. CASE MarkGranted(t) \/ Relock(t)
  <2>1. /\ pc[t] \in {"lock", "relock"} /\ UNCHANGED <<rec, rel>>
        /\ \/ pc'[t] = "relock" /\ having'[t] = having[t]
           \/ pc'[t] = "access" /\ having'[t] = having[t] + 1
    BY <1>5 DEF MarkGranted, Relock
  <2> QED
    BY <1>a, <2>1 DEF Queued, current, Push, Delete
<1>6. CASE Delete(t)
  <2>1. pc[t] = "delete" /\ pc'[t] = "unlock" /\ UNCHANGED <<rec, having, rel>>
    BY <1>6 DEF Delete
  <2> QED
    BY <1>6, <2>1 DEF Queued, current, Push
<1>7. CASE Unlock(t)
  <2>1. /\ pc[t] = "unlock" /\ rel'[t] = rel[t] + 1 /\ UNCHANGED <<rec, having>>
        /\ pc'[t] \in {"delete", "finish"}
    BY <1>7 DEF Unlock
  <2> QED
    BY <1>a, <2>1 DEF Queued, current, Push, Delete
<1>8. CASE Commit(t) \/ Overrun(t) \/ Restart(t)
  <2>1. /\ pc[t] = "finish" /\ pc'[t] \in {"loop", "done"}
        /\ having'[t] = 0 /\ rel'[t] = 1
    BY <1>8 DEF Commit, Overrun, Restart, Forget
  <2>2. rel[t] = having[t] + 1
    BY <1>a, <2>1 DEF Ctl
  <2> QED
    BY <1>a, <2>1, <2>2 DEF Queued, current, Push, Delete
<1> QED
  BY <1>1, <1>2, <1>3, <1>4, <1>5, <1>6, <1>7, <1>8 DEF work

\* A thread at one of these places has nothing in the queues.
LEMMA NothingQueued ==
  ASSUME CtlInv, NEW t \in Threads, NEW n \in 1..3,
         \/ pc[t] \in {"loop", "done", "finish"}
         \/ pc[t] = "request" /\ having[t] = 0
  PROVE  ~Queued(t, n)
BY DEF CtlInv, CtlType, Ctl, Queued, current

\* What has been queued has been drawn.
LEMMA QueuedDrawn ==
  ASSUME CtlInv, NEW t \in Threads, NEW n \in 1..3, Queued(t, n)
  PROVE  Drawn(t) /\ rec[t][n] \in Records
BY NothingQueued DEF CtlInv, Ctl, Drawn

\* The other steps leave the requests where they are.
LEMMA SameShape ==
  ASSUME Inv, DataType, NEW t \in Threads, work(t) \/ SpuriousWakeup(t),
         ~Push(t), ~Delete(t), NEW x \in Records
  PROVE  /\ DOMAIN lock_request'[x] = DOMAIN lock_request[x]
         /\ \A p \in DOMAIN lock_request[x] :
              /\ lock_request'[x][p].tid = lock_request[x][p].tid
              /\ lock_request'[x][p].type = lock_request[x][p].type
<1>1. CASE MarkGranted(t)
  <2>1. target(t) \in Records
    BY <1>1, TargetDrawn DEF Inv, MarkGranted
  <2>2. UNCHANGED lock_request \/ \E r : Mon!markGranted(target(t), r)
    BY <1>1 DEF MarkGranted
  <2> QED
    BY <2>1, <2>2, FlagsOnly DEF DataType
<1>2. CASE ~MarkGranted(t)
  BY <1>2 DEF work, Begin, Leave, CheckPasses, CheckFails, TryLock, Drain, SpuriousWakeup,
     Relock, Access, CommitLock, Unlock, Commit, Overrun, Restart, monitorVars
<1> QED
  BY <1>1, <1>2

\* They keep the queues in order.
LEMMA QueuesStay ==
  ASSUME Inv, DataType, QueueInv, NEW t \in Threads, work(t) \/ SpuriousWakeup(t),
         ~Push(t), ~Delete(t)
  PROVE  /\ \A x \in Records : Queues(x)'
         /\ \A u \in Threads : Entered(u)'
<1>1. \A u \in Threads, n \in 1..3 : /\ Queued(u, n)' <=> Queued(u, n)
                                     /\ Queued(u, n) => rec'[u] = rec[u]
  BY QueuedOthers, QueuedOwn
<1>2. ASSUME NEW x \in Records PROVE Queues(x)'
  <2> DEFINE q == lock_request[x]
  <2>0. Queues(x) /\ q \in Seq(Mon!LockInfo)
    BY DEF QueueInv, DataType, Mon!MonitorTypeOK
  <2>1. /\ DOMAIN q' = DOMAIN q
        /\ \A p \in DOMAIN q : q'[p].tid = q[p].tid /\ q'[p].type = q[p].type
    BY SameShape
  <2>3. ASSUME NEW p \in DOMAIN q'
        PROVE  \E u \in Threads, n \in 1..3 :
                 Queued(u, n)' /\ rec'[u][n] = x /\ Mon!Same(q'[p], Lock(u, n))
    <3>1. PICK u \in Threads, n \in 1..3 :
            Queued(u, n) /\ rec[u][n] = x /\ Mon!Same(q[p], Lock(u, n))
      BY <2>0, <2>1 DEF Queues
    <3> QED
      BY <1>1, <2>1, <3>1 DEF Mon!Same
  <2>4. \A p, m \in DOMAIN q' : Mon!Same(q'[p], q'[m]) => p = m
    BY <2>0, <2>1 DEF Queues, Mon!Same
  <2> QED
    BY <2>3, <2>4 DEF Queues
<1>3. ASSUME NEW u \in Threads PROVE Entered(u)'
  <2> SUFFICES ASSUME NEW n \in 1..3, Queued(u, n)'
               PROVE  \E p \in DOMAIN lock_request'[rec'[u][n]] :
                        Mon!Same(lock_request'[rec'[u][n]][p], Lock(u, n))
    BY DEF Entered
  <2>1. Queued(u, n) /\ rec'[u] = rec[u]
    BY <1>1
  <2>2. rec[u][n] \in Records
    BY <2>1, QueuedDrawn DEF Inv
  <2>3. PICK p \in DOMAIN lock_request[rec[u][n]] :
          Mon!Same(lock_request[rec[u][n]][p], Lock(u, n))
    BY <2>1 DEF QueueInv, Entered
  <2> QED
    BY <2>1, <2>2, <2>3, SameShape DEF Mon!Same
<1> QED
  BY <1>2, <1>3

\* A request joins the queue of its record.
LEMMA QueuesPush ==
  ASSUME Inv, DataType, QueueInv, NEW t \in Threads, Push(t)
  PROVE  /\ \A x \in Records : Queues(x)'
         /\ \A u \in Threads : Entered(u)'
<1> DEFINE q(x) == lock_request[x]
<1>a. PICK y, c : y = target(t) /\ c = current(t)
  OBVIOUS
<1>0. work(t) /\ pc[t] = "push"
  BY DEF work, Push
<1>1. y \in Records /\ c \in 1..3 /\ y = rec[t][c] /\ ~Queued(t, c) /\ rec' = rec
  BY <1>a, <1>0 DEF Push, Inv, CtlInv, CtlType, Ctl, Drawn, target, current, Queued
<1>2. lock_request \in [Records -> Seq(Mon!LockInfo)] /\ req(t) \in Mon!LockInfo
  BY <1>a, <1>1, LockInfoType DEF DataType, Mon!MonitorTypeOK, req
<1>3. lock_request' = [lock_request EXCEPT ![y] = Append(@, req(t))]
  BY <1>a DEF Push, Mon!pushRequest
<1>4. /\ \A x \in Records : x # y => lock_request'[x] = q(x)
      /\ DOMAIN q(y) = 1..Len(q(y)) /\ Len(q(y)) \in Nat
      /\ DOMAIN lock_request'[y] = 1..(Len(q(y)) + 1)
      /\ \A p \in DOMAIN q(y) : lock_request'[y][p] = q(y)[p]
      /\ lock_request'[y][Len(q(y)) + 1] = req(t)
  BY <1>1, <1>2, <1>3, AppendQueue
<1>5. \A u \in Threads, n \in 1..3 :
        Queued(u, n)' <=> Queued(u, n) \/ (u = t /\ n = c)
  BY <1>a, <1>0, QueuedOthers, QueuedOwn
<1>6. ASSUME NEW x \in Records PROVE Queues(x)'
  <2>0. Queues(x)
    BY DEF QueueInv
  <2>1. CASE x # y
    <3>1. lock_request'[x] = q(x)
      BY <1>4, <2>1
    <3> QED
      BY <1>1, <1>5, <2>0, <3>1 DEF Queues
  <2>2. CASE x = y
    <3>1. ASSUME NEW p \in DOMAIN lock_request'[x]
          PROVE  \E u \in Threads, n \in 1..3 :
                   /\ Queued(u, n)' /\ rec'[u][n] = x
                   /\ Mon!Same(lock_request'[x][p], Lock(u, n))
      <4>1. CASE p \in DOMAIN q(x)
        <5>1. PICK u \in Threads, n \in 1..3 :
                Queued(u, n) /\ rec[u][n] = x /\ Mon!Same(q(x)[p], Lock(u, n))
          BY <2>0, <4>1 DEF Queues
        <5> QED
          BY <1>1, <1>4, <1>5, <2>2, <4>1, <5>1
      <4>2. CASE p = Len(q(x)) + 1
        <5>1. lock_request'[x][p] = Lock(t, c)
          BY <1>a, <1>4, <2>2, <4>2 DEF req
        <5>2. Queued(t, c)' /\ rec'[t][c] = x
          BY <1>1, <1>5, <2>2
        <5>3. Mon!Same(lock_request'[x][p], Lock(t, c))
          BY <5>1 DEF Mon!Same
        <5> QED
          BY <1>1, <5>2, <5>3
      <4> QED
        BY <1>4, <2>2, <4>1, <4>2
    <3>2. ASSUME NEW p \in DOMAIN q(x) PROVE ~Mon!Same(q(x)[p], req(t))
      <4>1. PICK u \in Threads, n \in 1..3 : Queued(u, n) /\ Mon!Same(q(x)[p], Lock(u, n))
        BY <2>0 DEF Queues
      <4>2. Mon!Same(q(x)[p], req(t)) => Mon!Same(Lock(u, n), Lock(t, c))
        BY <1>a, <4>1 DEF Mon!Same, req
      <4> QED
        BY <1>1, <4>1, <4>2, SameLock
    <3>3. ASSUME NEW p \in DOMAIN lock_request'[x], NEW m \in DOMAIN lock_request'[x],
                 Mon!Same(lock_request'[x][p], lock_request'[x][m])
          PROVE  p = m
      <4>1. /\ p \in DOMAIN q(x) \/ p = Len(q(x)) + 1
            /\ m \in DOMAIN q(x) \/ m = Len(q(x)) + 1
        BY <1>4, <2>2
      <4>2. CASE p \in DOMAIN q(x) /\ m \in DOMAIN q(x)
        BY <1>4, <2>0, <2>2, <3>3, <4>2 DEF Queues
      <4>3. CASE p \in DOMAIN q(x) /\ m = Len(q(x)) + 1
        BY <1>4, <2>2, <3>2, <3>3, <4>3
      <4>4. CASE p = Len(q(x)) + 1 /\ m \in DOMAIN q(x)
        BY <1>4, <2>2, <3>2, <3>3, <4>4 DEF Mon!Same
      <4> QED
        BY <4>1, <4>2, <4>3, <4>4
    <3> QED
      BY <3>1, <3>3 DEF Queues
  <2> QED
    BY <2>1, <2>2
<1>7. ASSUME NEW u \in Threads PROVE Entered(u)'
  <2> SUFFICES ASSUME NEW n \in 1..3, Queued(u, n)'
               PROVE  \E p \in DOMAIN lock_request'[rec'[u][n]] :
                        Mon!Same(lock_request'[rec'[u][n]][p], Lock(u, n))
    BY DEF Entered
  <2>1. CASE u = t /\ n = c
    <3>1. Len(q(y)) + 1 \in DOMAIN lock_request'[y]
      BY <1>4
    <3> QED
      BY <1>a, <1>1, <1>4, <2>1, <3>1 DEF Mon!Same, req
  <2>2. CASE Queued(u, n)
    <3>1. PICK p \in DOMAIN q(rec[u][n]) : Mon!Same(q(rec[u][n])[p], Lock(u, n))
      BY <2>2 DEF QueueInv, Entered
    <3>2. rec[u][n] \in Records
      BY <2>2, QueuedDrawn DEF Inv
    <3>3. /\ p \in DOMAIN lock_request'[rec[u][n]]
          /\ lock_request'[rec[u][n]][p] = q(rec[u][n])[p]
      <4>1. CASE rec[u][n] # y
        BY <1>4, <3>1, <3>2, <4>1
      <4>2. CASE rec[u][n] = y
        BY <1>4, <3>1, <4>2
      <4> QED
        BY <4>1, <4>2
    <3> QED
      BY <1>1, <3>1, <3>3
  <2> QED
    BY <1>5, <2>1, <2>2
<1> QED
  BY <1>6, <1>7

\* What a release takes out of a queue: the request at place k, the only one of its kind.
LEMMA DeleteShape ==
  ASSUME Inv, DataType, QueueInv, NEW t \in Threads, Delete(t)
  PROVE  /\ rec[t][rel[t]] \in Records /\ rel[t] \in 1..3 /\ rec' = rec
         /\ \A x \in Records : x # rec[t][rel[t]] => lock_request'[x] = lock_request[x]
         /\ \E k \in DOMAIN lock_request[rec[t][rel[t]]] :
              LET queue == lock_request[rec[t][rel[t]]]
                  rest == lock_request'[rec[t][rel[t]]]
              IN  /\ Mon!Same(queue[k], Lock(t, rel[t]))
                  /\ DOMAIN rest = 1..(Len(queue) - 1) /\ DOMAIN queue = 1..Len(queue)
                  /\ Len(queue) \in Nat
                  /\ \A p \in 1..(Len(queue) - 1) :
                       rest[p] = IF p < k THEN queue[p] ELSE queue[p + 1]
<1> DEFINE n == rel[t]
           y == rec[t][n]
           q == lock_request[y]
<1>1. n \in 1..3 /\ Queued(t, n)
  BY DEF Delete, Inv, CtlInv, CtlType, Ctl, Queued
<1>2. y \in Records /\ rec' = rec
  BY <1>1, QueuedDrawn DEF Delete, Inv
<1>3. lock_request \in [Records -> Seq(Mon!LockInfo)]
  BY DEF DataType, Mon!MonitorTypeOK
<1>4. lock_request' = [lock_request EXCEPT ![y] = Mon!Erase(@, Lock(t, n))]
  BY DEF Delete, Mon!deleteLock
<1>5. PICK k \in DOMAIN q : Mon!Same(q[k], Lock(t, n))
  BY <1>1 DEF QueueInv, Entered
<1>6. ASSUME NEW m \in DOMAIN q, Mon!Same(q[m], Lock(t, n)) PROVE m = k
  <2>1. Mon!Same(q[m], q[k])
    BY <1>5, <1>6 DEF Mon!Same
  <2> QED
    BY <1>2, <2>1 DEF QueueInv, Queues
<1>7. q \in Seq(Mon!LockInfo)
  BY <1>2, <1>3
<1>8. /\ DOMAIN Mon!Erase(q, Lock(t, n)) = 1..(Len(q) - 1) /\ DOMAIN q = 1..Len(q)
      /\ Len(q) \in Nat
      /\ \A p \in 1..(Len(q) - 1) :
           Mon!Erase(q, Lock(t, n))[p] = IF p < k THEN q[p] ELSE q[p + 1]
  BY <1>5, <1>6, <1>7, EraseAt
<1>9. lock_request'[y] = Mon!Erase(q, Lock(t, n))
  BY <1>2, <1>3, <1>4
<1> QED
  BY <1>1, <1>2, <1>3, <1>4, <1>5, <1>8, <1>9

\* A release takes a request out.
LEMMA QueuesDelete ==
  ASSUME Inv, DataType, QueueInv, NEW t \in Threads, Delete(t)
  PROVE  /\ \A x \in Records : Queues(x)'
         /\ \A u \in Threads : Entered(u)'
<1>a. PICK d, y : d = rel[t] /\ y = rec[t][d]
  OBVIOUS
<1> DEFINE q(x) == lock_request[x]
           r(x) == lock_request'[x]
<1>0. work(t)
  BY DEF work
<1>1. y \in Records /\ d \in 1..3 /\ rec' = rec /\ \A x \in Records : x # y => r(x) = q(x)
  BY <1>a, DeleteShape
<1>2. PICK k \in DOMAIN q(y) :
        /\ Mon!Same(q(y)[k], Lock(t, d))
        /\ DOMAIN r(y) = 1..(Len(q(y)) - 1) /\ DOMAIN q(y) = 1..Len(q(y))
        /\ Len(q(y)) \in Nat
        /\ \A p \in 1..(Len(q(y)) - 1) : r(y)[p] = IF p < k THEN q(y)[p] ELSE q(y)[p + 1]
  BY <1>a, DeleteShape
<1>3. \A u \in Threads, n \in 1..3 :
        Queued(u, n)' <=> Queued(u, n) /\ ~(u = t /\ n = d)
  BY <1>a, <1>0, QueuedOthers, QueuedOwn
<1>4. ASSUME NEW p \in DOMAIN r(y)
      PROVE  \E m \in DOMAIN q(y) : /\ m # k /\ r(y)[p] = q(y)[m]
                                    /\ m = IF p < k THEN p ELSE p + 1
  BY <1>2
<1>5. ASSUME NEW m \in DOMAIN q(y), m # k
      PROVE  \E p \in DOMAIN r(y) : r(y)[p] = q(y)[m]
  <2>1. CASE m < k
    <3>1. m \in DOMAIN r(y)
      BY <1>2, <2>1
    <3> QED
      BY <1>2, <2>1, <3>1
  <2>2. CASE m > k
    <3>1. m - 1 \in DOMAIN r(y) /\ ~(m - 1 < k) /\ m - 1 + 1 = m
      BY <1>2, <2>2
    <3> QED
      BY <1>2, <3>1
  <2> QED
    BY <1>2, <1>5, <2>1, <2>2
<1>6. ASSUME NEW x \in Records PROVE Queues(x)'
  <2>0. Queues(x)
    BY DEF QueueInv
  <2>1. CASE x # y
    <3>1. r(x) = q(x)
      BY <1>1, <2>1
    <3>2. ASSUME NEW p \in DOMAIN r(x)
          PROVE  \E u \in Threads, n \in 1..3 :
                   Queued(u, n)' /\ rec'[u][n] = x /\ Mon!Same(r(x)[p], Lock(u, n))
      <4>1. PICK u \in Threads, n \in 1..3 :
              Queued(u, n) /\ rec[u][n] = x /\ Mon!Same(q(x)[p], Lock(u, n))
        BY <2>0, <3>1 DEF Queues
      <4> QED
        BY <1>a, <1>1, <1>3, <2>1, <3>1, <4>1
    <3> QED
      BY <2>0, <3>1, <3>2 DEF Queues
  <2>2. CASE x = y
    <3>1. ASSUME NEW p \in DOMAIN r(y)
          PROVE  \E u \in Threads, n \in 1..3 :
                   Queued(u, n)' /\ rec'[u][n] = y /\ Mon!Same(r(y)[p], Lock(u, n))
      <4>1. PICK m \in DOMAIN q(y) : m # k /\ r(y)[p] = q(y)[m]
        BY <1>4
      <4>2. PICK u \in Threads, n \in 1..3 :
              Queued(u, n) /\ rec[u][n] = y /\ Mon!Same(q(y)[m], Lock(u, n))
        BY <2>0, <2>2 DEF Queues
      <4>3. ~(u = t /\ n = d)
        <5>1. u = t /\ n = d => Mon!Same(q(y)[m], q(y)[k])
          BY <1>2, <4>2 DEF Mon!Same
        <5> QED
          BY <2>0, <2>2, <4>1, <5>1 DEF Queues
      <4> QED
        BY <1>1, <1>3, <4>1, <4>2, <4>3
    <3>2. ASSUME NEW p \in DOMAIN r(y), NEW s \in DOMAIN r(y), Mon!Same(r(y)[p], r(y)[s])
          PROVE  p = s
      <4>1. PICK m \in DOMAIN q(y) : r(y)[p] = q(y)[m] /\ m = IF p < k THEN p ELSE p + 1
        BY <1>4
      <4>2. PICK l \in DOMAIN q(y) : r(y)[s] = q(y)[l] /\ l = IF s < k THEN s ELSE s + 1
        BY <1>4
      <4>3. m = l
        BY <2>0, <2>2, <3>2, <4>1, <4>2 DEF Queues
      <4> QED
        BY <1>2, <4>1, <4>2, <4>3
    <3> QED
      BY <2>2, <3>1, <3>2 DEF Queues
  <2> QED
    BY <2>1, <2>2
<1>7. ASSUME NEW u \in Threads PROVE Entered(u)'
  <2> SUFFICES ASSUME NEW n \in 1..3, Queued(u, n)'
               PROVE  \E p \in DOMAIN r(rec'[u][n]) : Mon!Same(r(rec'[u][n])[p], Lock(u, n))
    BY DEF Entered
  <2>1. Queued(u, n) /\ ~(u = t /\ n = d)
    BY <1>3
  <2>2. PICK x \in Records : x = rec[u][n]
    BY <2>1, QueuedDrawn DEF Inv
  <2>3. PICK m \in DOMAIN q(x) : Mon!Same(q(x)[m], Lock(u, n))
    BY <2>1, <2>2 DEF QueueInv, Entered
  <2>4. CASE x # y
    BY <1>1, <2>2, <2>3, <2>4
  <2>5. CASE x = y
    <3>1. m # k
      <4>1. m = k => Mon!Same(Lock(u, n), Lock(t, d))
        BY <1>2, <2>3, <2>5 DEF Mon!Same
      <4> QED
        BY <1>1, <2>1, <4>1, SameLock
    <3> QED
      BY <1>1, <1>5, <2>2, <2>3, <2>5, <3>1
  <2> QED
    BY <2>4, <2>5
<1> QED
  BY <1>6, <1>7

-----------------------------------------------------------------------------
(* The graph of dependencies and global_mutex.                             *)

\* deadlock_check adds edges from t to threads that have a request in the queue.
LEMMA NewEdges ==
  ASSUME Inv, DataType, QueueInv, NEW t \in Threads, pc[t] = "request",
         Mon!addDependency(target(t), req(t))
  PROVE  /\ \A v \in Threads : v # t => dependThreads'[v] = dependThreads[v]
         /\ dependThreads'[t] =
              dependThreads[t] \cup Mon!Blockers(lock_request[target(t)], req(t))
         /\ \A u \in dependThreads'[t] : \E n \in 1..3 : Queued(u, n)
<1> DEFINE x == target(t)
           B == Mon!Blockers(lock_request[x], req(t))
<1>1. req(t).tid = t
  BY DEF req, Lock
<1>2. dependThreads \in [Threads -> SUBSET Threads]
  BY DEF DataType, Mon!MonitorTypeOK
<1>3. dependThreads' = [dependThreads EXCEPT ![t] = @ \cup B]
  BY <1>1 DEF Mon!addDependency
<1>4. x \in Records
  BY DEF Inv, CtlInv, CtlType, Ctl, Drawn, target, current
<1>5. ASSUME NEW u \in B PROVE \E n \in 1..3 : Queued(u, n)
  <2>1. PICK p \in DOMAIN lock_request[x] : u = lock_request[x][p].tid
    BY DEF Mon!Blockers
  <2>2. PICK v \in Threads, n \in 1..3 :
          Queued(v, n) /\ Mon!Same(lock_request[x][p], Lock(v, n))
    BY <1>4 DEF QueueInv, Queues
  <2>3. u = v
    BY <2>1, <2>2 DEF Mon!Same, Lock
  <2> QED
    BY <2>2, <2>3
<1>6. \A u \in dependThreads[t] : \E n \in 1..3 : Queued(u, n)
  BY <1>2 DEF QueueInv, Edges
<1>7. dependThreads'[t] = dependThreads[t] \cup B
  BY <1>2, <1>3
<1>8. \A v \in Threads : v # t => dependThreads'[v] = dependThreads[v]
  BY <1>2, <1>3
<1>9. ASSUME NEW u \in dependThreads'[t] PROVE \E n \in 1..3 : Queued(u, n)
  <2>1. u \in dependThreads[t] \/ u \in B
    BY <1>7
  <2> QED
    BY <2>1, <1>5, <1>6
<1> QED
  BY <1>7, <1>8, <1>9

\* Nothing depends on a thread that has no lock, so it closes no cycle: the check of a
\* reader lock, the first lock of a transaction, always passes.
LEMMA FirstCheckPasses ==
  ASSUME Inv, DataType, QueueInv, NEW t \in Threads, CheckFails(t)
  PROVE  having[t] # 0
<1> SUFFICES ASSUME having[t] = 0 PROVE FALSE
  OBVIOUS
<1>1. /\ pc[t] = "request" /\ Mon!addDependency(target(t), req(t))
      /\ Mon!FindsCycle(dependThreads', t)
  BY DEF CheckFails
<1>2. \A n \in 1..3 : ~Queued(t, n)
  BY <1>1, NothingQueued DEF Inv
<1>3. \A v \in Threads : dependThreads[v] \subseteq Threads /\ t \notin dependThreads[v]
  BY <1>2 DEF QueueInv, Edges, DataType, Mon!MonitorTypeOK
<1>4. dependThreads' \in [Threads -> SUBSET Threads]
  BY DataNext DEF DataType, Mon!MonitorTypeOK, Next, work
<1>5. \A v \in Threads : dependThreads'[v] \subseteq Threads \ {t}
  BY <1>1, <1>2, <1>3, <1>4, NewEdges
<1> DEFINE C == Threads \ {t}
<1>6. C \in SUBSET Threads /\ dependThreads'[t] \subseteq C
      /\ (\A u \in C : dependThreads'[u] \subseteq C) /\ t \notin C
  BY <1>5
<1> QED
  BY <1>1, <1>6 DEF Mon!FindsCycle

\* Edges lead to threads with requests, after every step.
LEMMA EdgesNext ==
  ASSUME Inv, DataType, QueueInv, NEW t \in Threads, work(t) \/ SpuriousWakeup(t)
  PROVE  Edges'
<1>0. dependThreads \in [Threads -> SUBSET Threads]
  BY DEF DataType, Mon!MonitorTypeOK
<1>1. CASE CheckPasses(t) \/ CheckFails(t)
  <2>1. pc[t] = "request" /\ Mon!addDependency(target(t), req(t)) /\ ~Push(t) /\ ~Delete(t)
    BY <1>1 DEF CheckPasses, CheckFails, Push, Delete
  <2>2. \A u \in Threads, n \in 1..3 : Queued(u, n)' <=> Queued(u, n)
    BY <2>1, QueuedOthers, QueuedOwn
  <2> QED
    BY <2>1, <2>2, NewEdges DEF QueueInv, Edges
<1>2. CASE Delete(t)
  <2>1. dependThreads' = [v \in Threads |-> IF v = t THEN {} ELSE dependThreads[v] \ {t}]
    BY <1>2 DEF Delete, Mon!deleteLock, Lock
  <2>2. \A u \in Threads, n \in 1..3 : u # t => (Queued(u, n)' <=> Queued(u, n))
    BY QueuedOthers
  <2>3. \A v \in Threads : t \notin dependThreads'[v] /\ dependThreads'[v] \subseteq dependThreads[v]
    BY <1>0, <2>1
  <2> QED
    BY <2>2, <2>3 DEF QueueInv, Edges
<1>3. CASE ~CheckPasses(t) /\ ~CheckFails(t) /\ ~Delete(t)
  <2>1. dependThreads' = dependThreads
    BY <1>3 DEF work, Begin, Leave, Push, TryLock, Drain, SpuriousWakeup, MarkGranted,
       Relock, Access, CommitLock, Unlock, Commit, Overrun, Restart, monitorVars
  <2>2. \A u \in Threads, n \in 1..3 : Queued(u, n) => Queued(u, n)'
    BY <1>3, QueuedOthers, QueuedOwn
  <2> QED
    BY <2>1, <2>2 DEF QueueInv, Edges
<1> QED
  BY <1>1, <1>2, <1>3

\* What a step of t does to global_mutex and to pc.
LEMMA MutexStep ==
  ASSUME Inv, DataType, QueueInv, NEW t \in Threads, work(t) \/ SpuriousWakeup(t)
  PROVE  /\ \A u \in Threads : u # t =>
              (global_mutex' = u <=> global_mutex = u) /\ pc'[u] = pc[u]
         /\ Owner(t)'
<1>0. /\ Owner(t) /\ pc \in [Threads -> PCs] /\ NoThread \notin Threads
  BY TransactionAssumption DEF QueueInv, Inv, CtlInv, CtlType
<1>1. \A u \in Threads : u # t => pc'[u] = pc[u]
  BY QueuedOthers
<1> USE DEF Goto, GlobalLock, GlobalUnlock, Owner
<1>2. CASE Begin(t) \/ Leave(t) \/ Relock(t) \/ Access(t)
  <2>1. /\ pc[t] \in {"loop", "relock", "access"} /\ global_mutex' = global_mutex
        /\ pc'[t] \in {"request", "done", "access", "commit"}
    BY <1>0, <1>2 DEF Begin, Leave, Relock, Access
  <2> QED
    BY <1>0, <1>1, <2>1
<1>3. CASE CheckPasses(t) \/ CheckFails(t) \/ CommitLock(t)
  <2>1. global_mutex = NoThread /\ global_mutex' = t
    BY <1>3 DEF CheckPasses, CheckFails, CommitLock
  <2>2. pc'[t] \in {"push", "delete"}
    BY <1>0, <1>3, FirstCheckPasses DEF CheckPasses, CheckFails, CommitLock
  <2> QED
    BY <1>0, <1>1, <2>1, <2>2
<1>4. CASE Push(t)
  <2>1. global_mutex = t /\ global_mutex' \in {t, NoThread} /\ pc'[t] = "lock"
    BY <1>0, <1>4 DEF Push
  <2> QED
    BY <1>0, <1>1, <2>1
<1>5. CASE TryLock(t) \/ Drain(t) \/ SpuriousWakeup(t)
  BY <1>0, <1>1, <1>5 DEF TryLock, Drain, SpuriousWakeup, localVars
<1>6. CASE MarkGranted(t)
  <2>1. \/ global_mutex = t /\ global_mutex' = NoThread /\ pc'[t] = "access"
        \/ global_mutex # t /\ global_mutex' = global_mutex /\ pc'[t] = "relock"
    BY <1>0, <1>6 DEF MarkGranted
  <2> QED
    BY <1>0, <1>1, <2>1
<1>7. CASE Delete(t) \/ Unlock(t)
  <2>1. /\ pc[t] \in {"delete", "unlock"} /\ global_mutex' = global_mutex
        /\ pc'[t] \in {"delete", "unlock", "finish"}
    BY <1>0, <1>7 DEF Delete, Unlock
  <2> QED
    BY <1>0, <1>1, <2>1
<1>8. CASE Commit(t) \/ Overrun(t) \/ Restart(t)
  <2>1. pc[t] = "finish" /\ global_mutex' = NoThread /\ pc'[t] \in {"loop", "done"}
    BY <1>0, <1>8 DEF Commit, Overrun, Restart
  <2> QED
    BY <1>0, <1>1, <2>1
<1> QED
  BY <1>2, <1>3, <1>4, <1>5, <1>6, <1>7, <1>8 DEF work

-----------------------------------------------------------------------------
\* At the start the queues and the graph are empty and global_mutex is free.
LEMMA QueueInit == Init => QueueInv
<1> SUFFICES ASSUME Init PROVE QueueInv
  OBVIOUS
<1>1. \A t \in Threads, n \in 1..3 : ~Queued(t, n)
  BY DEF Init, Queued
<1>2. \A x \in Records : Queues(x)
  BY DEF Init, Mon!MonitorInit, Queues
<1>3. \A t \in Threads : Entered(t) /\ Owner(t)
  BY <1>1, TransactionAssumption DEF Init, Entered, Owner
<1>4. Edges
  BY DEF Init, Mon!MonitorInit, Edges
<1> QED
  BY <1>2, <1>3, <1>4 DEF QueueInv

\* Every step keeps the queues, the graph and the mutex in order.
LEMMA QueueNext == Inv /\ DataType /\ QueueInv /\ [Next]_vars => QueueInv'
<1> SUFFICES ASSUME Inv, DataType, QueueInv, [Next]_vars PROVE QueueInv'
  OBVIOUS
<1>1. CASE UNCHANGED vars
  BY <1>1 DEF vars, monitorVars, localVars, QueueInv, Queues, Entered, Owner, Edges,
              Queued, current
<1>2. ASSUME NEW t \in Threads, work(t) \/ SpuriousWakeup(t) PROVE QueueInv'
  <2>1. (\A x \in Records : Queues(x)') /\ (\A u \in Threads : Entered(u)')
    BY <1>2, QueuesStay, QueuesPush, QueuesDelete
  <2>2. Edges'
    BY <1>2, EdgesNext
  <2>3. ASSUME NEW u \in Threads PROVE Owner(u)'
    <3>1. Owner(u)
      BY DEF QueueInv
    <3> QED
      BY <1>2, <3>1, MutexStep DEF Owner
  <2> QED
    BY <2>1, <2>2, <2>3 DEF QueueInv
<1> QED
  BY <1>1, <1>2 DEF Next, Joined

\* The queues stay in order.
THEOREM QueueInvariant == Spec => [](Inv /\ DataType /\ QueueInv)
<1>1. Inv /\ [Next]_vars => Inv'
  BY InvNext
<1>2. Inv /\ DataType /\ [Next]_vars => DataType'
  BY DataNext
<1> QED
  BY InvInit, DataInit, QueueInit, <1>1, <1>2, QueueNext, PTL DEF Spec

\* global_mutex is never kept by a thread that goes back to the loop head: the
\* `continue' that forgets to unlock it (transaction.cpp:58-61) is not reached.
THEOREM MutexTheorem == Spec => []MutexNotAbandoned
<1>1. QueueInv => MutexNotAbandoned
  BY DEF QueueInv, Owner, MutexNotAbandoned
<1> QED
  BY QueueInvariant, <1>1, PTL

-----------------------------------------------------------------------------
(* Cycles.                                                                 *)

\* Threads that all wait for one another.
Knot(S) == S # {} /\ \A u \in S : dependThreads[u] \cap S # {}

\* The check of t passes: a knot of the new graph is one without t, or becomes one when
\* what t reaches is all that is kept of it.
LEMMA PassedKnot ==
  ASSUME Inv, DataType, QueueInv, NEW t \in Threads, CheckPasses(t),
         NEW S \in SUBSET Threads, Knot(S)'
  PROVE  \E D \in SUBSET S : Knot(D)
<1>1. /\ pc[t] = "request" /\ Mon!addDependency(target(t), req(t))
      /\ ~Mon!FindsCycle(dependThreads', t)
  BY DEF CheckPasses
<1>2. \A v \in Threads : v # t => dependThreads'[v] = dependThreads[v]
  BY <1>1, NewEdges
<1>3. PICK C \in SUBSET Threads :
        /\ dependThreads'[t] \subseteq C
        /\ \A u \in C : dependThreads'[u] \subseteq C
        /\ t \notin C
  BY <1>1 DEF Mon!FindsCycle
<1>4. S # {} /\ \A u \in S : dependThreads'[u] \cap S # {}
  BY DEF Knot
<1>5. CASE t \notin S
  <2>1. \A u \in S : dependThreads[u] \cap S # {}
    BY <1>2, <1>4, <1>5
  <2> QED
    BY <1>4, <2>1 DEF Knot
<1>6. CASE t \in S
  <2> DEFINE D == S \cap C
  <2>1. D # {}
    BY <1>3, <1>4, <1>6
  <2>2. ASSUME NEW u \in D PROVE dependThreads[u] \cap D # {}
    <3>1. u # t /\ u \in Threads /\ dependThreads'[u] \subseteq C /\ dependThreads'[u] \cap S # {}
      BY <1>3, <1>4
    <3>2. dependThreads[u] \subseteq C /\ dependThreads[u] \cap S # {}
      BY <1>2, <3>1
    <3> QED
      BY <3>2
  <2>3. Knot(D)
    BY <2>1, <2>2 DEF Knot
  <2> QED
    BY <2>3
<1> QED
  BY <1>5, <1>6

\* No cycle appears among threads that are not victims.
LEMMA NoCycleNext ==
  ASSUME Inv, DataType, QueueInv, NoWaitCycle, NEW t \in Threads, work(t) \/ SpuriousWakeup(t)
  PROVE  NoWaitCycle'
<1>0. /\ dependThreads \in [Threads -> SUBSET Threads] /\ Ctl(t) /\ pc \in [Threads -> PCs]
      /\ having \in [Threads -> 0..3]
  BY DEF DataType, Mon!MonitorTypeOK, Inv, CtlInv, CtlType
<1>1. \A S \in SUBSET Threads : Knot(S) => \E v \in S : Victim(v)
  BY DEF NoWaitCycle, Knot
<1>2. SUFFICES ASSUME NEW S \in SUBSET Threads, Knot(S)', \A v \in S : ~Victim(v)'
               PROVE  FALSE
  BY DEF NoWaitCycle, Knot
<1>3. \A u \in Threads : u # t => (Victim(u)' <=> Victim(u))
  BY QueuedOthers DEF Victim
<1>4. CASE CheckPasses(t)
  <2>1. PICK D \in SUBSET S : Knot(D)
    BY <1>2, <1>4, PassedKnot
  <2>2. ~Victim(t)
    BY <1>4 DEF CheckPasses, Victim
  <2> QED
    BY <1>1, <1>2, <1>3, <2>1, <2>2
<1>5. CASE CheckFails(t)
  <2>1. having[t] # 0 /\ having'[t] = having[t] /\ pc[t] = "request"
    BY <1>5, FirstCheckPasses DEF CheckFails
  <2>2. pc'[t] = "delete" /\ having[t] < 3
    BY <1>0, <1>5, <2>1 DEF CheckFails, Goto, Ctl
  <2>3. Victim(t)' /\ ~Victim(t)
    BY <2>1, <2>2 DEF Victim
  <2>4. \A u \in S : dependThreads'[u] = dependThreads[u]
    BY <1>2, <1>5, <2>1, <2>3, NewEdges DEF CheckFails
  <2>5. Knot(S)
    BY <1>2, <2>4 DEF Knot
  <2> QED
    BY <1>1, <1>2, <1>3, <2>3, <2>5
<1>6. CASE Delete(t)
  <2>1. dependThreads' = [v \in Threads |-> IF v = t THEN {} ELSE dependThreads[v] \ {t}]
    BY <1>6 DEF Delete, Mon!deleteLock, Lock
  <2>2. t \notin S
    BY <1>2, <2>1 DEF Knot
  <2>3. \A u \in S : dependThreads'[u] \cap S \subseteq dependThreads[u] \cap S
    BY <2>1, <2>2
  <2>4. Knot(S)
    BY <1>2, <2>3 DEF Knot
  <2> QED
    BY <1>1, <1>2, <1>3, <2>2, <2>4
<1>7. CASE ~CheckPasses(t) /\ ~CheckFails(t) /\ ~Delete(t)
  <2>1. dependThreads' = dependThreads
    BY <1>7 DEF work, Begin, Leave, Push, TryLock, Drain, SpuriousWakeup, MarkGranted,
       Relock, Access, CommitLock, Unlock, Commit, Overrun, Restart, monitorVars
  <2>2. Victim(t) => Victim(t)'
    <3>1. CASE pc[t] # "delete"
      BY <3>1 DEF Victim
    <3>2. CASE pc[t] = "delete"
      BY <1>7, <3>2 DEF work, Begin, Leave, Push, TryLock, Drain, SpuriousWakeup, MarkGranted,
         Relock, Access, CommitLock, Unlock, Commit, Overrun, Restart
    <3> QED
      BY <3>1, <3>2
  <2>3. Knot(S)
    BY <1>2, <2>1 DEF Knot
  <2> QED
    BY <1>1, <1>2, <1>3, <2>2, <2>3
<1> QED
  BY <1>4, <1>5, <1>6, <1>7

\* No set of threads waits for itself: apart from a victim that is undoing its transaction,
\* no cycle of dependThreads survives deadlock_check (monitor.cpp:17-45), whatever the
\* unprotected reads of the queues return.
THEOREM NoCycleTheorem == Spec => []NoWaitCycle
<1>1. Init => NoWaitCycle
  BY DEF Init, Mon!MonitorInit, NoWaitCycle
<1>2. Inv /\ DataType /\ QueueInv /\ NoWaitCycle /\ [Next]_vars => NoWaitCycle'
  <2> SUFFICES ASSUME Inv, DataType, QueueInv, NoWaitCycle, [Next]_vars
               PROVE  NoWaitCycle'
    OBVIOUS
  <2>1. CASE UNCHANGED vars
    BY <2>1 DEF vars, monitorVars, localVars, NoWaitCycle, Victim
  <2> QED
    BY <2>1, NoCycleNext DEF Next, Joined
<1> QED
  BY <1>1, <1>2, QueueInvariant, PTL DEF Spec

-----------------------------------------------------------------------------
(* The end of the program.                                                 *)

\* The files hold the transactions that got an id up to E, and a thread ends only when the
\* ids are used up.
CountInv ==
  /\ Len(outFile) = IF order < E THEN order ELSE E
  /\ \A t \in Threads : pc[t] = "done" => order >= E

\* Every step keeps the count.
LEMMA CountNext ==
  ASSUME Inv, DataType, CountInv, NEW t \in Threads, work(t) \/ SpuriousWakeup(t)
  PROVE  CountInv'
<1>0. E \in Nat /\ order \in Nat
  BY TransactionAssumption DEF DataType
<1>1. \A u \in Threads : u # t => pc'[u] = pc[u]
  BY QueuedOthers
<1>2. pc \in [Threads -> PCs]
  BY DEF Inv, CtlInv, CtlType
<1> USE DEF Goto, CountInv
<1>3. CASE Commit(t)
  <2>1. order < E /\ order' = order + 1 /\ pc'[t] = "loop"
    BY <1>2, <1>3 DEF Commit
  <2>2. Len(outFile') = Len(outFile) + 1
    <3>1. PICK l : outFile' = Append(outFile, l)
      BY <1>3 DEF Commit
    <3> QED
      BY <3>1 DEF DataType
  <2>3. Len(outFile') = order'
    BY <1>0, <2>1, <2>2
  <2>4. order' =< E
    BY <1>0, <2>1
  <2>5. \A u \in Threads : pc'[u] = "done" => order' >= E
    BY <1>0, <1>1, <2>1
  <2> QED
    BY <1>0, <2>1, <2>3, <2>4, <2>5
<1>4. CASE Overrun(t)
  <2>1. order >= E /\ order' = order + 1 /\ outFile' = outFile
    BY <1>4 DEF Overrun
  <2> QED
    BY <1>0, <2>1
<1>5. CASE Leave(t)
  <2>1. order >= E /\ order' = order /\ outFile' = outFile
    BY <1>5 DEF Leave, dbVars
  <2> QED
    BY <1>0, <2>1
<1>6. CASE ~Commit(t) /\ ~Overrun(t) /\ ~Leave(t)
  <2>1. order' = order /\ outFile' = outFile
    BY <1>6 DEF work, Begin, CheckPasses, CheckFails, Push, TryLock, Drain, SpuriousWakeup,
       MarkGranted, Relock, Access, CommitLock, Delete, Unlock, Restart, dbVars
  <2>2. CASE TryLock(t) \/ Drain(t) \/ SpuriousWakeup(t)
    BY <1>1, <2>1, <2>2 DEF TryLock, Drain, SpuriousWakeup, localVars
  <2>3. CASE ~(TryLock(t) \/ Drain(t) \/ SpuriousWakeup(t))
    <3>1. pc'[t] # "done"
      BY <1>2, <1>6, <2>3 DEF work, Begin, CheckPasses, CheckFails, Push,
         MarkGranted, Relock, Access, CommitLock, Delete, Unlock, Restart
    <3> QED
      BY <1>1, <2>1, <3>1
  <2> QED
    BY <2>2, <2>3
<1> QED
  BY <1>3, <1>4, <1>5, <1>6

\* When every thread is done nothing is queued and nobody is inside a lock.
LEMMA DoneClean ==
  ASSUME Inv, DataType, QueueInv, CountInv, AllDone, Threads # {}
  PROVE  CleanFinish
<1>1. \A t \in Threads, n \in 1..3 : ~Queued(t, n)
  BY NothingQueued DEF AllDone, Inv
<1>2. Len(outFile) = E
  BY TransactionAssumption DEF CountInv, AllDone, DataType
<1>3. global_mutex = NoThread
  BY DEF QueueInv, Owner, AllDone, DataType
<1>4. ASSUME NEW x \in Records
      PROVE  lock_request[x] = <<>> /\ numReader[x] = 0 /\ ~writing[x]
  <2>1. \A p : p \notin DOMAIN lock_request[x]
    BY <1>1 DEF QueueInv, Queues
  <2>2. lock_request[x] = <<>>
    <3>1. lock_request[x] \in Seq(Mon!LockInfo)
      BY DEF DataType, Mon!MonitorTypeOK
    <3>2. DOMAIN lock_request[x] = 1..Len(lock_request[x]) /\ Len(lock_request[x]) \in Nat
      BY <3>1
    <3>3. Len(lock_request[x]) = 0
      <4>1. Len(lock_request[x]) # 0 => 1 \in DOMAIN lock_request[x]
        BY <3>2
      <4> QED
        BY <2>1, <4>1
    <3> QED
      BY <3>1, <3>3
  <2>3. ASSUME NEW t \in Threads PROVE lk[t][x] = "none"
    <3>1. pc[t] = "done" /\ Placed(t) /\ having[t] = 0 /\ rel[t] = 1
      BY DEF AllDone, Inv, CtlInv, Ctl
    <3> QED
      BY <3>1 DEF Placed, Holds
  <2>4. RWP!LockInv(x)
    BY DEF Inv, RWP!RWInv
  <2>5. RWP!Sharers(x) = {}
    BY <2>3 DEF RWP!Sharers
  <2>6. RWP!Cardinality({}) = 0
    BY FS_EmptySet DEF Cardinality, RWP!Cardinality
  <2>7. numReader[x] = 0
    BY <2>4, <2>5, <2>6 DEF RWP!LockInv
  <2>8. writing[x] <=> \E t \in Threads : lk[t][x] \in RWP!Claimed
    BY <2>4 DEF RWP!LockInv
  <2>9. ~writing[x]
    BY <2>3, <2>8 DEF RWP!Claimed
  <2> QED
    BY <2>2, <2>7, <2>9
<1> QED
  BY <1>2, <1>3, <1>4 DEF CleanFinish

\* When run() has joined the threads exactly E transactions are in the files, and the
\* queues and locks carry nothing of the overrun ones (transaction.cpp:164-196).
THEOREM CleanFinishTheorem == Threads # {} => (Spec => []CleanFinish)
<1>1. Init => CountInv
  BY TransactionAssumption DEF Init, CountInv
<1>2. Inv /\ DataType /\ CountInv /\ [Next]_vars => CountInv'
  <2>1. ASSUME CountInv, UNCHANGED vars PROVE CountInv'
    BY <2>1 DEF vars, dbVars, localVars, CountInv
  <2> QED
    BY <2>1, CountNext DEF Next, Joined
<1>3. Threads # {} /\ Inv /\ DataType /\ QueueInv /\ CountInv => CleanFinish
  BY DoneClean DEF CleanFinish
<1>4. Spec => []CountInv
  BY <1>1, <1>2, QueueInvariant, PTL DEF Spec
<1>5. ASSUME Threads # {} PROVE Inv /\ DataType /\ QueueInv /\ CountInv => CleanFinish
  BY <1>3, <1>5
<1> QED
  <2> SUFFICES ASSUME Threads # {} PROVE Spec => []CleanFinish
    OBVIOUS
  <2> QED
    BY <1>4, <1>5, QueueInvariant, PTL

-----------------------------------------------------------------------------
(* Serializability.  The lines in the files are those of SerialTransaction *)
(* for the committed values, Committed.  Behind it: a writer's record      *)
(* belongs to one transaction until its locks are gone and global_mutex is *)
(* unlocked (NoClash), and what a transaction has read and written is      *)
(* still what the records hold (Values).                                   *)

\* The locks two threads have got are on different records, or are reader locks.
NoClash ==
  \A t, u \in Threads : t # u => \A n, m \in 1..3 :
    n =< having[t] /\ m =< having[u] /\ rec[t][n] = rec[u][m] => n = 1 /\ m = 1

HasRead(t) == having[t] >= 1 /\ (having[t] = 1 => pc[t] # "access")

Values(t) ==
  /\ HasRead(t) => old[t][1] = value[rec[t][1]]
  /\ Dirty(t, 2) => value[rec[t][2]] = Wrap(old[t][2] + old[t][1] + 1)
  /\ Dirty(t, 3) => value[rec[t][3]] = Wrap(old[t][3] - old[t][1])

SerialInv == NoClash /\ \A t \in Threads : Values(t)

\* A thread that has got a lock has drawn its records, and they keep their numbers.
LEMMA GotDrawn ==
  ASSUME CtlInv, NEW t \in Threads, having[t] >= 1
  PROVE  Drawn(t) /\ pc[t] \notin {"loop", "done"}
BY DEF CtlInv, CtlType, Ctl, PCs

\* A lock that is being added to havingLocks clashes with no lock another thread has got.
LEMMA NewLockClashes ==
  ASSUME Inv, QueueInv, NEW t \in Threads, MarkGranted(t) \/ Relock(t), having'[t] # having[t],
         NEW u \in Threads, u # t, NEW m \in 1..3, m =< having[u], rec[u][m] = target(t)
  PROVE  current(t) = 1 /\ m = 1
<1>0. CtlType /\ Ctl(t) /\ Ctl(u) /\ Placed(t) /\ CtlInv
  BY DEF Inv, CtlInv
<1>1. pc[t] \in {"lock", "relock"} /\ global_mutex \in {t, NoThread}
  BY DEF MarkGranted, Relock
<1>2. target(t) \in Records /\ current(t) \in 1..3
  BY <1>0, <1>1, TargetDrawn
<1>3. lk[t][target(t)] = Mode(current(t))
  <2>1. CASE MarkGranted(t)
    <3>1. pc[t] = "lock" /\ lk[t][target(t)] \in {"shared", "exclusive"}
      BY <2>1 DEF MarkGranted
    <3>2. lk[t][target(t)] \in Inside(current(t))
      BY <1>0, <3>1 DEF Placed
    <3> QED
      BY <3>1, <3>2 DEF Inside, Mode
  <2>2. CASE Relock(t)
    BY <1>0, <2>2 DEF Relock, Placed
  <2> QED
    BY <2>1, <2>2
<1>4. CASE Holds(u, m)
  <2>1. /\ m = 1 => lk[t][target(t)] # "exclusive"
        /\ m # 1 => lk[t][target(t)] \notin {"shared", "exclusive"}
    BY <1>4, InvTwoPhase DEF TwoPhaseLocking
  <2> QED
    BY <1>3, <2>1 DEF Mode
<1>5. CASE ~Holds(u, m)
  <2>1. rel[u] \in 1..4 /\ having[u] \in 0..3 /\ pc[u] \in PCs
    BY <1>0 DEF CtlType
  <2>2. rel[u] > 1
    BY <1>5, <2>1 DEF Holds
  <2>3. pc[u] \in {"delete", "unlock", "finish"}
    BY <1>0, <2>1, <2>2 DEF Ctl, PCs
  <2>4. global_mutex = u
    BY <2>3 DEF QueueInv, Owner
  <2> QED
    BY <1>1, <2>4, TransactionAssumption
<1> QED
  BY <1>4, <1>5

\* What a step of t does to its own records and to the number of its locks.
LEMMA LocksGot ==
  ASSUME Inv, NEW t \in Threads, work(t) \/ SpuriousWakeup(t)
  PROVE  \/ having'[t] = having[t] /\ (rec'[t] = rec[t] \/ having[t] = 0)
         \/ having'[t] = 0
         \/ /\ having'[t] = current(t) /\ having'[t] # having[t] /\ rec'[t] = rec[t]
            /\ MarkGranted(t) \/ Relock(t)
<1> USE DEF Inv, CtlInv, CtlType, Goto
<1>a. Ctl(t) /\ having[t] \in 0..3
  OBVIOUS
<1>1. CASE Begin(t)
  BY <1>a, <1>1 DEF Begin, Ctl
<1>2. CASE MarkGranted(t) \/ Relock(t)
  <2>1. /\ rec' = rec
        /\ having' = having \/ having' = [having EXCEPT ![t] = @ + 1]
    BY <1>2 DEF MarkGranted, Relock
  <2> QED
    BY <1>a, <1>2, <2>1 DEF current
<1>3. CASE Commit(t) \/ Overrun(t) \/ Restart(t)
  BY <1>3 DEF Commit, Overrun, Restart, Forget
<1>4. CASE \/ Leave(t) \/ CheckPasses(t) \/ CheckFails(t) \/ Push(t) \/ TryLock(t) \/ Drain(t)
           \/ SpuriousWakeup(t) \/ Access(t) \/ CommitLock(t) \/ Delete(t) \/ Unlock(t)
  BY <1>4 DEF Leave, CheckPasses, CheckFails, Push, TryLock, Drain, SpuriousWakeup, Access,
              CommitLock, Delete, Unlock, localVars
<1> QED
  BY <1>1, <1>2, <1>3, <1>4 DEF work

\* Every step keeps writers' records apart from those of the other threads.
LEMMA NoClashNext ==
  ASSUME Inv, QueueInv, NoClash, NEW t \in Threads, work(t) \/ SpuriousWakeup(t)
  PROVE  NoClash'
<1>1. \A u \in Threads : u # t => having'[u] = having[u] /\ rec'[u] = rec[u]
  BY QueuedOthers
<1>2. having \in [Threads -> 0..3]
  BY DEF Inv, CtlInv, CtlType
<1>3. ASSUME NEW u \in Threads, u # t, NEW n \in 1..3, NEW m \in 1..3,
             n =< having'[t], m =< having[u], rec'[t][n] = rec[u][m]
      PROVE  n = 1 /\ m = 1
  <2>1. CASE having'[t] = having[t] /\ (rec'[t] = rec[t] \/ having[t] = 0)
    BY <1>2, <1>3, <2>1 DEF NoClash
  <2>2. CASE having'[t] = 0
    BY <1>3, <2>2
  <2>3. CASE /\ having'[t] = current(t) /\ having'[t] # having[t] /\ rec'[t] = rec[t]
             /\ MarkGranted(t) \/ Relock(t)
    <3>1. CASE n = current(t)
      BY <1>3, <2>3, <3>1, NewLockClashes DEF target
    <3>2. CASE n # current(t)
      <4>1. n =< having[t]
        BY <1>2, <1>3, <2>3, <3>2 DEF current
      <4> QED
        BY <1>3, <2>3, <4>1 DEF NoClash
    <3> QED
      BY <3>1, <3>2
  <2> QED
    BY <2>1, <2>2, <2>3, LocksGot
<1> SUFFICES ASSUME NEW a \in Threads, NEW b \in Threads, a # b, NEW n \in 1..3, NEW m \in 1..3,
                    n =< having'[a], m =< having'[b], rec'[a][n] = rec'[b][m]
             PROVE  n = 1 /\ m = 1
  BY DEF NoClash
<1>4. CASE a = t
  BY <1>1, <1>3, <1>4
<1>5. CASE b = t
  BY <1>1, <1>3, <1>5
<1>6. CASE a # t /\ b # t
  BY <1>1, <1>6 DEF NoClash
<1> QED
  BY <1>4, <1>5, <1>6

\* A written record is one of a lock that has been got.
LEMMA DirtyGot ==
  ASSUME CtlInv, NEW t \in Threads, NEW n \in 2..3, Dirty(t, n)
  PROVE  n =< having[t] /\ having[t] >= 2 /\ Drawn(t) /\ rec[t][n] \in Records
<1>1. having[t] \in 0..3 /\ n =< having[t] /\ having[t] >= 2
  BY DEF Dirty, CtlInv, CtlType
<1> QED
  BY <1>1, GotDrawn DEF Drawn

\* The old values of the other threads stay.
LEMMA OthersOld ==
  ASSUME DataType, NEW t \in Threads, work(t) \/ SpuriousWakeup(t), NEW u \in Threads, u # t
  PROVE  old'[u] = old[u]
BY DEF DataType, work, Begin, Leave, CheckPasses, CheckFails, Push, TryLock, Drain, SpuriousWakeup,
       MarkGranted, Relock, Access, CommitLock, Delete, Unlock, Commit, Overrun, Restart, Forget,
       localVars

\* Records change only where the thread that takes the step has a writer lock.
LEMMA WritesOwn ==
  ASSUME Inv, DataType, NEW t \in Threads, Values(t), work(t) \/ SpuriousWakeup(t),
         NEW x \in Records, \A n \in 2..3 : n =< having[t] => rec[t][n] # x
  PROVE  value'[x] = value[x]
<1>0. Ctl(t) /\ CtlInv /\ having[t] \in 0..3 /\ value \in [Records -> Int]
  BY DEF Inv, CtlInv, CtlType, DataType
<1>1. CASE CheckFails(t)
  BY <1>0, <1>1 DEF CheckFails
<1>2. CASE Access(t)
  <2>1. pc[t] = "access" /\ value' = [value EXCEPT ![rec[t][having[t]]] = NewValue(t, having[t])]
    BY <1>2 DEF Access
  <2>2. having[t] \in 1..3
    BY <1>0, <2>1 DEF Ctl
  <2>3. CASE having[t] = 1
    BY <1>0, <2>1, <2>3 DEF NewValue
  <2>4. CASE having[t] # 1
    BY <1>0, <2>1, <2>2, <2>4
  <2> QED
    BY <2>3, <2>4
<1>3. CASE Overrun(t)
  <2>1. having[t] = 3 /\ pc[t] = "finish"
    BY <1>3 DEF Overrun
  <2>2. rec[t][2] # x /\ rec[t][3] # x
    BY <2>1
  <2>3. old[t][1] = value[rec[t][1]]
    BY <2>1 DEF Values, HasRead
  <2>4. value' = [[[value EXCEPT ![rec[t][1]] = old[t][1]]
                     EXCEPT ![rec[t][2]] = old[t][2]]
                     EXCEPT ![rec[t][3]] = old[t][3]]
    BY <1>3 DEF Overrun
  <2> QED
    BY <1>0, <2>2, <2>3, <2>4
<1>4. CASE ~CheckFails(t) /\ ~Access(t) /\ ~Overrun(t)
  BY <1>4 DEF work, Begin, Leave, CheckPasses, Push, TryLock, Drain, SpuriousWakeup,
     MarkGranted, Relock, CommitLock, Delete, Unlock, Commit, Restart, dbVars
<1> QED
  BY <1>1, <1>2, <1>3, <1>4

\* So what the other threads have read and written stays.
LEMMA OthersValues ==
  ASSUME Inv, DataType, SerialInv, NEW t \in Threads, work(t) \/ SpuriousWakeup(t),
         NEW u \in Threads, u # t
  PROVE  Values(u)'
<1>0. CtlInv /\ Values(t) /\ Values(u)
  BY DEF Inv, SerialInv
<1>1. /\ pc'[u] = pc[u] /\ rec'[u] = rec[u] /\ having'[u] = having[u]
      /\ old'[u] = old[u]
  BY QueuedOthers, OthersOld
<1>2. ASSUME NEW m \in 1..3, m =< having[u] PROVE value'[rec[u][m]] = value[rec[u][m]]
  <2>1. rec[u][m] \in Records
    BY <1>0, <1>2, GotDrawn DEF Drawn, CtlInv, CtlType
  <2>2. \A n \in 2..3 : n =< having[t] => rec[t][n] # rec[u][m]
    BY <1>2 DEF SerialInv, NoClash
  <2> QED
    BY <1>0, <2>1, <2>2, WritesOwn
<1>3. /\ HasRead(u)' <=> HasRead(u)
      /\ \A n \in 2..3 : Dirty(u, n)' <=> Dirty(u, n)
  BY <1>1 DEF HasRead, Dirty
<1>4. HasRead(u) => 1 =< having[u]
  BY DEF HasRead
<1>5. \A n \in 2..3 : Dirty(u, n) => n =< having[u]
  BY <1>0, DirtyGot
<1> QED
  BY <1>0, <1>1, <1>2, <1>3, <1>4, <1>5 DEF Values

\* Steps that leave the values and the number of locks alone.
Idle(t) ==
  \/ Begin(t) \/ Leave(t) \/ CheckPasses(t) \/ Push(t) \/ TryLock(t) \/ Drain(t)
  \/ SpuriousWakeup(t) \/ MarkGranted(t) \/ Relock(t) \/ CommitLock(t) \/ Delete(t) \/ Unlock(t)

\* They change neither what has been read nor what has been written.
LEMMA IdleStep ==
  ASSUME Inv, NEW t \in Threads, Idle(t)
  PROVE  /\ UNCHANGED <<value, old, order, outFile>>
         /\ HasRead(t)' <=> HasRead(t)
         /\ \A n \in 2..3 : Dirty(t, n)' <=> Dirty(t, n)
         /\ having[t] >= 1 => rec'[t] = rec[t]
<1> USE DEF Inv, CtlInv, CtlType, Goto
<1>a. Ctl(t) /\ having[t] \in 0..3
  OBVIOUS
<1>0. UNCHANGED <<value, old, order, outFile>>
  BY DEF Idle, Begin, Leave, CheckPasses, Push, TryLock, Drain, SpuriousWakeup,
     MarkGranted, Relock, CommitLock, Delete, Unlock, dbVars, localVars
<1>1. CASE Begin(t)
  <2>1. having' = having /\ having[t] = 0
    BY <1>a, <1>1 DEF Begin, Ctl
  <2> QED
    BY <1>0, <2>1 DEF HasRead, Dirty
<1>2. CASE Leave(t) \/ CheckPasses(t) \/ Push(t) \/ CommitLock(t) \/ Delete(t) \/ Unlock(t)
  <2>1. /\ having' = having /\ rec' = rec
        /\ \/ pc[t] = "loop" /\ pc'[t] = "done"
           \/ pc[t] = "request" /\ pc'[t] = "push"
           \/ pc[t] = "push" /\ pc'[t] = "lock"
           \/ pc[t] = "commit" /\ pc'[t] = "delete"
           \/ pc[t] \in {"delete", "unlock"} /\ pc'[t] \in {"delete", "unlock", "finish"}
    BY <1>2 DEF Leave, CheckPasses, Push, CommitLock, Delete, Unlock
  <2> QED
    BY <1>a, <1>0, <2>1 DEF HasRead, Dirty, Ctl
<1>3. CASE TryLock(t) \/ Drain(t) \/ SpuriousWakeup(t)
  BY <1>0, <1>3 DEF TryLock, Drain, SpuriousWakeup, localVars, HasRead, Dirty
<1>4. CASE MarkGranted(t) \/ Relock(t)
  <2>1. /\ rec' = rec /\ pc[t] \in {"lock", "relock"}
        /\ \/ having'[t] = having[t] /\ pc'[t] = "relock"
           \/ having'[t] = having[t] + 1 /\ pc'[t] = "access"
    BY <1>4 DEF MarkGranted, Relock
  <2>2. having[t] \in 0..2
    BY <1>a, <2>1 DEF Ctl
  <2> QED
    BY <1>0, <2>1, <2>2 DEF HasRead, Dirty
<1> QED
  BY <1>1, <1>2, <1>3, <1>4 DEF Idle

\* What Access does under each lock.
LEMMA AccessStep ==
  ASSUME Inv, DataType, NEW t \in Threads, Access(t)
  PROVE  /\ pc[t] = "access" /\ having[t] \in 1..3 /\ Drawn(t)
         /\ having' = having /\ rec' = rec /\ order' = order /\ outFile' = outFile
         /\ pc'[t] = IF having[t] = 3 THEN "commit" ELSE "request"
         /\ old'[t][having[t]] = value[rec[t][having[t]]]
         /\ \A n \in 1..3 : n # having[t] => old'[t][n] = old[t][n]
         /\ value'[rec[t][having[t]]] = NewValue(t, having[t])
         /\ \A x \in Records : x # rec[t][having[t]] => value'[x] = value[x]
<1>0. CtlType /\ Ctl(t)
  BY DEF Inv, CtlInv
<1>1. /\ pc[t] = "access" /\ having' = having /\ rec' = rec /\ order' = order
      /\ outFile' = outFile
      /\ pc'[t] = IF having[t] = 3 THEN "commit" ELSE "request"
      /\ old' = [old EXCEPT ![t][having[t]] = value[rec[t][having[t]]]]
      /\ value' = [value EXCEPT ![rec[t][having[t]]] = NewValue(t, having[t])]
  BY <1>0 DEF Access, Goto, CtlType
<1>2. having[t] \in 1..3 /\ Drawn(t)
  BY <1>0, <1>1 DEF Ctl
<1> QED
  BY <1>1, <1>2 DEF DataType, Drawn

\* A step of t keeps what t has read and written.
LEMMA OwnValues ==
  ASSUME Inv, DataType, NEW t \in Threads, Values(t), work(t) \/ SpuriousWakeup(t)
  PROVE  Values(t)'
<1>0. CtlInv /\ CtlType /\ Ctl(t) /\ having[t] \in 0..3 /\ pc[t] \in PCs
  BY DEF Inv, CtlInv, CtlType
<1>1. CASE Idle(t)
  <2>1. /\ UNCHANGED <<value, old>>
        /\ HasRead(t)' <=> HasRead(t)
        /\ \A n \in 2..3 : Dirty(t, n)' <=> Dirty(t, n)
        /\ having[t] >= 1 => rec'[t] = rec[t]
    BY <1>1, IdleStep
  <2>2. HasRead(t) \/ Dirty(t, 2) \/ Dirty(t, 3) => having[t] >= 1
    BY <1>0, DirtyGot DEF HasRead
  <2> QED
    BY <2>1, <2>2 DEF Values
<1>2. CASE CheckFails(t)
  <2>1. /\ pc[t] = "request" /\ pc'[t] \in {"loop", "delete"}
        /\ UNCHANGED <<having, rec, old>>
        /\ value' = IF having[t] = 2 THEN [value EXCEPT ![rec[t][2]] = old[t][2]] ELSE value
    BY <1>0, <1>2 DEF CheckFails, Goto, CtlType
  <2>2. having[t] \in 0..2 /\ Drawn(t)
    BY <1>0, <2>1 DEF Ctl
  <2>3. ~Dirty(t, 2)' /\ ~Dirty(t, 3)'
    BY <2>1, <2>2 DEF Dirty
  <2>4. HasRead(t)' => HasRead(t)
    BY <2>1 DEF HasRead
  <2>5. value'[rec[t][1]] = value[rec[t][1]]
    BY <2>1, <2>2 DEF Drawn, DataType
  <2> QED
    BY <2>1, <2>3, <2>4, <2>5 DEF Values
<1>3. CASE Access(t)
  <2> DEFINE i == rec[t][1]
             j == rec[t][2]
             k == rec[t][3]
  <2>1. /\ pc[t] = "access" /\ having[t] \in 1..3 /\ Drawn(t)
        /\ having' = having /\ rec' = rec
        /\ pc'[t] = IF having[t] = 3 THEN "commit" ELSE "request"
        /\ old'[t][having[t]] = value[rec[t][having[t]]]
        /\ \A n \in 1..3 : n # having[t] => old'[t][n] = old[t][n]
        /\ value'[rec[t][having[t]]] = NewValue(t, having[t])
        /\ \A x \in Records : x # rec[t][having[t]] => value'[x] = value[x]
    BY <1>3, AccessStep
  <2>2. i \in Records /\ j \in Records /\ k \in Records /\ i # j /\ j # k /\ i # k
    BY <2>1 DEF Drawn
  <2>3. CASE having[t] = 1
    <3>1. old'[t][1] = value'[i]
      BY <2>1, <2>3 DEF NewValue
    <3>2. ~Dirty(t, 2)' /\ ~Dirty(t, 3)'
      BY <2>1, <2>3 DEF Dirty
    <3> QED
      BY <2>1, <3>1, <3>2 DEF Values
  <2>4. CASE having[t] = 2
    <3>1. HasRead(t) /\ ~Dirty(t, 3)'
      BY <2>1, <2>4 DEF HasRead, Dirty
    <3>2. old'[t][1] = old[t][1] /\ value'[i] = value[i] /\ old[t][1] = value[i]
      BY <2>1, <2>2, <2>4, <3>1 DEF Values
    <3>3. old'[t][2] = value[j] /\ value'[j] = Wrap(value[j] + old[t][1] + 1)
      BY <2>1, <2>4 DEF NewValue
    <3> QED
      BY <2>1, <3>1, <3>2, <3>3 DEF Values
  <2>5. CASE having[t] = 3
    <3>1. HasRead(t) /\ Dirty(t, 2)
      BY <2>5 DEF HasRead, Dirty
    <3>2. old'[t][1] = old[t][1] /\ value'[i] = value[i] /\ old[t][1] = value[i]
      BY <2>1, <2>2, <2>5, <3>1 DEF Values
    <3>3. /\ old'[t][2] = old[t][2] /\ value'[j] = value[j]
          /\ value[j] = Wrap(old[t][2] + old[t][1] + 1)
      BY <2>1, <2>2, <2>5, <3>1 DEF Values
    <3>4. old'[t][3] = value[k] /\ value'[k] = Wrap(value[k] - old[t][1])
      BY <2>1, <2>5 DEF NewValue
    <3> QED
      BY <2>1, <3>2, <3>3, <3>4 DEF Values
  <2> QED
    BY <2>1, <2>3, <2>4, <2>5
<1>4. CASE Commit(t) \/ Overrun(t) \/ Restart(t)
  <2>1. having'[t] = 0
    BY <1>0, <1>4 DEF Commit, Overrun, Restart, Forget, CtlType
  <2>2. ~HasRead(t)' /\ ~Dirty(t, 2)' /\ ~Dirty(t, 3)'
    BY <2>1 DEF HasRead, Dirty
  <2> QED
    BY <2>2 DEF Values
<1> QED
  BY <1>1, <1>2, <1>3, <1>4 DEF work, Idle

\* The invariant of the values holds at the start, and every step keeps it.
LEMMA SerialInvInit == Init => SerialInv
BY DEF Init, SerialInv, NoClash, Values, HasRead, Dirty

\* The records stay apart and the values stay.
LEMMA SerialInvNext ==
  Inv /\ DataType /\ QueueInv /\ SerialInv /\ [Next]_vars => SerialInv'
<1> SUFFICES ASSUME Inv, DataType, QueueInv, SerialInv, [Next]_vars PROVE SerialInv'
  OBVIOUS
<1>1. CASE UNCHANGED vars
  BY <1>1 DEF vars, dbVars, localVars, SerialInv, NoClash, Values, HasRead, Dirty
<1>2. ASSUME NEW t \in Threads, work(t) \/ SpuriousWakeup(t) PROVE SerialInv'
  <2>1. NoClash'
    BY <1>2, NoClashNext DEF SerialInv
  <2>2. \A u \in Threads : Values(u)'
    BY <1>2, OwnValues, OthersValues DEF SerialInv
  <2> QED
    BY <2>1, <2>2 DEF SerialInv
<1> QED
  BY <1>1, <1>2 DEF Next, Joined

-----------------------------------------------------------------------------
(* The committed values.                                                   *)

Written(x) == \E t \in Threads, n \in 2..3 : Dirty(t, n) /\ rec[t][n] = x

\* The committed value of a record is the old value its one writer has kept, or its value.
CommittedValues ==
  \A x \in Records :
    /\ ~Written(x) => Committed[x] = value[x]
    /\ \A t \in Threads, n \in 2..3 : Dirty(t, n) /\ rec[t][n] = x =>
         Committed[x] = old[t][n]

\* A record has one writer at a time.
LEMMA CommittedFound == CtlInv /\ NoClash => CommittedValues
<1> SUFFICES ASSUME CtlInv, NoClash, NEW x \in Records
             PROVE  /\ ~Written(x) => Committed[x] = value[x]
                    /\ \A t \in Threads, n \in 2..3 : Dirty(t, n) /\ rec[t][n] = x =>
                         Committed[x] = old[t][n]
  BY DEF CommittedValues
<1>1. ~Written(x) => Committed[x] = value[x]
  BY DEF Committed, Written
<1>2. ASSUME NEW t \in Threads, NEW n \in 2..3, Dirty(t, n), rec[t][n] = x
      PROVE  Committed[x] = old[t][n]
  <2> DEFINE P(w) == Dirty(w[1], w[2]) /\ rec[w[1]][w[2]] = x
             c == CHOOSE w \in Threads \X (2..3) : P(w)
  <2>1. Committed[x] = old[c[1]][c[2]]
    BY <1>2 DEF Committed
  <2>2. <<t, n>> \in Threads \X (2..3) /\ P(<<t, n>>)
    BY <1>2
  <2>3. c \in Threads \X (2..3) /\ P(c)
    BY <2>2
  <2> HIDE DEF c
  <2>4. PICK u \in Threads, m \in 2..3 : c = <<u, m>>
    BY <2>3
  <2>5. Dirty(u, m) /\ rec[u][m] = x
    BY <2>3, <2>4
  <2>6. n =< having[t] /\ Drawn(t) /\ m =< having[u]
    BY <1>2, <2>5, DirtyGot
  <2>7. u = t
    BY <1>2, <2>5, <2>6 DEF NoClash
  <2>8. m = n
    BY <1>2, <2>5, <2>6, <2>7 DEF Drawn
  <2> QED
    BY <2>1, <2>4, <2>7, <2>8
<1> QED
  BY <1>1, <1>2

\* The committed values are a function of the records.
LEMMA CommittedFunctions ==
  /\ Committed = [x \in Records |-> Committed[x]]
  /\ Committed' = [x \in Records |-> Committed'[x]]
<1> DEFINE b(x) == IF \E t \in Threads, n \in 2..3 : Dirty(t, n) /\ rec[t][n] = x
                   THEN LET w == CHOOSE w \in Threads \X (2..3) :
                                   Dirty(w[1], w[2]) /\ rec[w[1]][w[2]] = x
                        IN  old[w[1]][w[2]]
                   ELSE value[x]
<1>a. Committed = [x \in Records |-> b(x)]
  BY DEF Committed
<1>b. Committed' = [x \in Records |-> b(x)']
  BY DEF Committed
<1> HIDE DEF b
<1>1. Committed = [x \in Records |-> Committed[x]]
  BY <1>a
<1>2. Committed' = [x \in Records |-> Committed'[x]]
  BY <1>b
<1> QED
  BY <1>1, <1>2

-----------------------------------------------------------------------------
(* Step by step: a commit replays its transaction, and the other steps     *)
(* change no committed value.                                              *)

\* What a step of t can rely on.
Ready(t) ==
  /\ Inv /\ DataType /\ SerialInv /\ CommittedValues
  /\ work(t) \/ SpuriousWakeup(t)

\* Where t has a lock nobody else has written, before and after the step.
LEMMA AtOwnRecord ==
  ASSUME NEW t \in Threads, Ready(t), CommittedValues', NEW m \in 1..3, m =< having[t]
  PROVE  /\ (\A n \in 2..3 : Dirty(t, n) => rec[t][n] # rec[t][m]) =>
              Committed[rec[t][m]] = value[rec[t][m]]
         /\ (\A n \in 2..3 : Dirty(t, n)' => rec'[t][n] # rec[t][m]) =>
              Committed'[rec[t][m]] = value'[rec[t][m]]
<1>0. Inv /\ NoClash /\ CtlInv /\ having[t] \in 0..3
  BY DEF Ready, SerialInv, Inv, CtlInv, CtlType
<1>1. PICK x : x = rec[t][m]
  OBVIOUS
<1>2. x \in Records
  BY <1>0, <1>1, GotDrawn DEF Drawn
<1>3. ASSUME NEW u \in Threads, u # t, NEW n \in 2..3, Dirty(u, n) PROVE rec[u][n] # x
  BY <1>0, <1>1, <1>3, DirtyGot DEF NoClash
<1>4. ASSUME NEW u \in Threads, u # t, NEW n \in 2..3, Dirty(u, n)' PROVE rec'[u][n] # x
  <2>1. pc'[u] = pc[u] /\ rec'[u] = rec[u] /\ having'[u] = having[u]
    BY <1>0, <1>4, QueuedOthers DEF Ready
  <2> QED
    BY <1>3, <1>4, <2>1 DEF Dirty
<1>5. (\A n \in 2..3 : Dirty(t, n) => rec[t][n] # x) => ~Written(x)
  BY <1>3 DEF Written
<1>6. (\A n \in 2..3 : Dirty(t, n)' => rec'[t][n] # x) => ~Written(x)'
  BY <1>4 DEF Written
<1> QED
  BY <1>1, <1>2, <1>5, <1>6 DEF Ready, CommittedValues

\* Elsewhere the committed values stay.
LEMMA AtOtherRecord ==
  ASSUME NEW t \in Threads, Ready(t), CommittedValues', NEW x \in Records,
         \A n \in 2..3 : n =< having[t] => rec[t][n] # x,
         \A n \in 2..3 : Dirty(t, n)' => rec'[t][n] # x
  PROVE  Committed'[x] = Committed[x]
<1>0. Inv /\ DataType /\ CtlInv /\ (work(t) \/ SpuriousWakeup(t)) /\ Values(t)
  BY DEF Ready, SerialInv, Inv
<1>1. value'[x] = value[x]
  BY <1>0, WritesOwn
<1>2. \A n \in 2..3 : Dirty(t, n) => rec[t][n] # x
  BY <1>0, DirtyGot
<1>3. \A u \in Threads : u # t =>
        /\ rec'[u] = rec[u] /\ old'[u] = old[u]
        /\ \A n \in 2..3 : Dirty(u, n)' <=> Dirty(u, n)
  BY <1>0, QueuedOthers, OthersOld DEF Dirty
<1>4. CASE Written(x)
  <2>1. PICK u \in Threads, n \in 2..3 : Dirty(u, n) /\ rec[u][n] = x
    BY <1>4 DEF Written
  <2>2. u # t /\ Dirty(u, n)' /\ rec'[u][n] = x /\ old'[u] = old[u]
    BY <1>2, <1>3, <2>1
  <2>3. Committed[x] = old[u][n]
    BY <2>1 DEF Ready, CommittedValues
  <2>4. Committed'[x] = old'[u][n]
    BY <2>2 DEF CommittedValues
  <2> QED
    BY <2>2, <2>3, <2>4
<1>5. CASE ~Written(x)
  <2>1. ~Written(x)'
    BY <1>3, <1>5 DEF Written
  <2> QED
    BY <1>1, <1>5, <2>1 DEF Ready, CommittedValues
<1> QED
  BY <1>4, <1>5

\* A step that changes neither values nor what is dirty.
LEMMA IdleCommitted ==
  ASSUME NEW t \in Threads, Ready(t), CommittedValues', Idle(t), NEW x \in Records
  PROVE  Committed'[x] = Committed[x]
<1>0. Inv /\ DataType /\ CtlInv /\ (work(t) \/ SpuriousWakeup(t))
  BY DEF Ready, Inv
<1>1. /\ UNCHANGED <<value, old>>
      /\ \A n \in 2..3 : Dirty(t, n)' <=> Dirty(t, n)
      /\ having[t] >= 1 => rec'[t] = rec[t]
  BY <1>0, IdleStep
<1>2. \A u \in Threads, n \in 2..3 :
        /\ Dirty(u, n)' <=> Dirty(u, n)
        /\ Dirty(u, n) => rec'[u] = rec[u]
  <2>1. \A n \in 2..3 : Dirty(t, n) => having[t] >= 1
    BY <1>0, DirtyGot DEF CtlInv, CtlType
  <2> QED
    BY <1>0, <1>1, <2>1, QueuedOthers DEF Dirty
<1>3. CASE Written(x)
  <2>1. PICK u \in Threads, n \in 2..3 : Dirty(u, n) /\ rec[u][n] = x
    BY <1>3 DEF Written
  <2>2. Committed[x] = old[u][n]
    BY <2>1 DEF Ready, CommittedValues
  <2>3. Committed'[x] = old'[u][n]
    BY <1>2, <2>1 DEF CommittedValues
  <2> QED
    BY <1>1, <2>2, <2>3
<1>4. CASE ~Written(x)
  <2>1. ~Written(x)'
    BY <1>2, <1>4 DEF Written
  <2> QED
    BY <1>1, <1>4, <2>1 DEF Ready, CommittedValues
<1> QED
  BY <1>3, <1>4

\* Under a lock the old value is kept before the new one is written.
LEMMA AccessCommitted ==
  ASSUME NEW t \in Threads, Ready(t), CommittedValues', Access(t), NEW x \in Records
  PROVE  Committed'[x] = Committed[x]
<1>0. Inv /\ DataType
  BY DEF Ready
<1>1. /\ pc[t] = "access" /\ having[t] \in 1..3 /\ Drawn(t)
      /\ having' = having /\ rec' = rec
      /\ pc'[t] = IF having[t] = 3 THEN "commit" ELSE "request"
      /\ old'[t][having[t]] = value[rec[t][having[t]]]
      /\ \A n \in 1..3 : n # having[t] => old'[t][n] = old[t][n]
  BY <1>0, AccessStep
<1>2. \A n \in 2..3 : /\ Dirty(t, n)' <=> n =< having[t]
                      /\ Dirty(t, n) <=> n < having[t]
  BY <1>1 DEF Dirty
<1>3. CASE \A n \in 2..3 : n =< having[t] => rec[t][n] # x
  BY <1>1, <1>2, <1>3, AtOtherRecord
<1>4. ASSUME NEW n \in 2..3, n =< having[t], rec[t][n] = x
      PROVE  Committed'[x] = Committed[x]
  <2>1. Committed'[x] = old'[t][n]
    BY <1>1, <1>2, <1>4 DEF CommittedValues
  <2>2. CASE n < having[t]
    <3>1. Committed[x] = old[t][n]
      BY <1>2, <1>4, <2>2 DEF Ready, CommittedValues
    <3> QED
      BY <1>1, <2>1, <2>2, <3>1
  <2>3. CASE n = having[t]
    <3>1. \A m \in 2..3 : Dirty(t, m) => rec[t][m] # rec[t][n]
      BY <1>1, <1>2, <2>3 DEF Drawn
    <3>2. Committed[x] = value[x]
      BY <1>4, <3>1, AtOwnRecord
    <3> QED
      BY <1>1, <1>4, <2>1, <2>3, <3>2
  <2> QED
    BY <1>1, <1>4, <2>2, <2>3
<1> QED
  BY <1>3, <1>4

\* A victim puts the old value of j back, an overrun transaction those of all three records.
LEMMA UndoCommitted ==
  ASSUME NEW t \in Threads, Ready(t), CommittedValues',
         CheckFails(t) \/ Overrun(t) \/ Restart(t), NEW x \in Records
  PROVE  Committed'[x] = Committed[x]
<1>0. Inv /\ DataType /\ CtlType /\ Ctl(t) /\ having[t] \in 0..3 /\ Values(t)
  BY DEF Ready, Inv, CtlInv, CtlType, SerialInv
<1>1. \A n \in 2..3 : ~Dirty(t, n)'
  <2>1. CASE CheckFails(t)
    <3>1. pc[t] = "request" /\ pc'[t] \in {"loop", "delete"} /\ having' = having
      BY <1>0, <2>1 DEF CheckFails, Goto, CtlType
    <3>2. having[t] \in 0..2
      BY <1>0, <3>1 DEF Ctl
    <3> QED
      BY <3>1, <3>2 DEF Dirty
  <2>2. CASE Overrun(t) \/ Restart(t)
    <3>1. having'[t] = 0
      BY <1>0, <2>2 DEF Overrun, Restart, Forget, CtlType
    <3> QED
      BY <3>1 DEF Dirty
  <2> QED
    BY <2>1, <2>2
<1>2. CASE \A n \in 2..3 : n =< having[t] => rec[t][n] # x
  BY <1>1, <1>2, AtOtherRecord
<1>3. ASSUME NEW n \in 2..3, n =< having[t], rec[t][n] = x
      PROVE  Committed'[x] = Committed[x]
  <2>1. Drawn(t)
    BY <1>0, <1>3, GotDrawn DEF Inv
  <2>2. Committed'[x] = value'[x]
    BY <1>1, <1>3, AtOwnRecord
  <2>3. CASE Dirty(t, n)
    <3>1. Committed[x] = old[t][n]
      BY <1>3, <2>3 DEF Ready, CommittedValues
    <3>2. value'[x] = old[t][n]
      <4>1. CASE CheckFails(t)
        <5>1. pc[t] = "request"
          BY <4>1 DEF CheckFails
        <5>2. having[t] \in 0..2
          BY <1>0, <5>1 DEF Ctl
        <5>3. n = 2 /\ having[t] = 2
          BY <1>3, <5>2
        <5> QED
          BY <1>0, <1>3, <4>1, <5>3 DEF CheckFails, DataType
      <4>2. CASE Overrun(t)
        <5>1. value' = [[[value EXCEPT ![rec[t][1]] = old[t][1]]
                           EXCEPT ![rec[t][2]] = old[t][2]]
                           EXCEPT ![rec[t][3]] = old[t][3]]
          BY <4>2 DEF Overrun
        <5>2. rec[t][2] # rec[t][3] /\ rec[t][2] \in Records /\ rec[t][3] \in Records
          BY <2>1 DEF Drawn
        <5> QED
          BY <1>0, <1>3, <5>1, <5>2 DEF DataType
      <4>3. CASE Restart(t)
        BY <2>3, <4>3 DEF Restart, Dirty
      <4> QED
        BY <4>1, <4>2, <4>3
    <3> QED
      BY <2>2, <3>1, <3>2
  <2>4. CASE ~Dirty(t, n)
    <3>1. \A m \in 2..3 : Dirty(t, m) => rec[t][m] # rec[t][n]
      BY <2>1, <2>4 DEF Drawn
    <3>2. Committed[x] = value[x]
      BY <1>3, <3>1, AtOwnRecord
    <3>3. value'[x] = value[x]
      <4>1. CASE CheckFails(t)
        <5>1. pc[t] = "request"
          BY <4>1 DEF CheckFails
        <5>2. having[t] \in 0..2
          BY <1>0, <5>1 DEF Ctl
        <5> QED
          BY <1>3, <2>4, <5>1, <5>2 DEF Dirty
      <4>2. CASE Overrun(t)
        BY <1>3, <2>4, <4>2 DEF Overrun, Dirty
      <4>3. CASE Restart(t)
        BY <4>3 DEF Restart, dbVars
      <4> QED
        BY <4>1, <4>2, <4>3
    <3> QED
      BY <2>2, <3>2, <3>3
  <2> QED
    BY <2>3, <2>4
<1> QED
  BY <1>2, <1>3

\* A commit is the replay of its transaction on the committed values.
LEMMA CommitReplays ==
  ASSUME NEW t \in Threads, Ready(t), CommittedValues', Commit(t)
  PROVE  \E i, j, k \in Records : Serial!Replay(i, j, k)
<1>0. Inv /\ DataType /\ CtlType /\ Ctl(t) /\ Values(t)
  BY DEF Ready, Inv, CtlInv, SerialInv
<1>1. /\ pc[t] = "finish" /\ having[t] = 3 /\ order < E /\ order' = order + 1
      /\ outFile' = Append(outFile, <<rec[t][1], rec[t][2], rec[t][3],
                     value[rec[t][1]], value[rec[t][2]], value[rec[t][3]]>>)
      /\ value' = value
  BY DEF Commit
<1>2. PICK i, j, k : i = rec[t][1] /\ j = rec[t][2] /\ k = rec[t][3]
  OBVIOUS
<1>3. i \in Records /\ j \in Records /\ k \in Records /\ i # j /\ j # k /\ i # k
  BY <1>0, <1>1, <1>2 DEF Ctl, Drawn
<1>4. Dirty(t, 2) /\ Dirty(t, 3) /\ HasRead(t)
  BY <1>1 DEF Dirty, HasRead
<1>5. having'[t] = 0
  BY <1>0 DEF Commit, Forget, CtlType
<1>6. \A n \in 2..3 : ~Dirty(t, n)'
  BY <1>5 DEF Dirty
\* Before: the committed values are what the transaction started from.
<1>7. Committed[j] = old[t][2] /\ Committed[k] = old[t][3]
  BY <1>2, <1>3, <1>4 DEF Ready, CommittedValues
<1>8. Committed[i] = value[i] /\ value[i] = old[t][1]
  <2>1. \A n \in 2..3 : Dirty(t, n) => rec[t][n] # rec[t][1]
    BY <1>2, <1>3
  <2>2. Committed[rec[t][1]] = value[rec[t][1]]
    BY <1>1, <2>1, AtOwnRecord
  <2> QED
    BY <1>0, <1>2, <1>4, <2>2 DEF Values
<1>9. /\ value[j] = Wrap(old[t][2] + old[t][1] + 1)
      /\ value[k] = Wrap(old[t][3] - old[t][1])
  BY <1>0, <1>2, <1>4 DEF Values
\* After: they are the values of the records.
<1>10. Committed'[i] = value[i] /\ Committed'[j] = value[j] /\ Committed'[k] = value[k]
  <2>1. \A m \in 1..3 : Committed'[rec[t][m]] = value'[rec[t][m]]
    BY <1>1, <1>6, AtOwnRecord
  <2> QED
    BY <1>1, <1>2, <2>1
<1>11. ASSUME NEW x \in Records, x # j, x # k PROVE Committed'[x] = Committed[x]
  <2>1. \A n \in 2..3 : rec[t][n] # x
    BY <1>2, <1>11
  <2> QED
    BY <1>6, <2>1, AtOtherRecord
<1>12. /\ Committed = [x \in Records |-> Committed[x]]
       /\ Committed' = [x \in Records |-> Committed'[x]]
  BY CommittedFunctions
<1>13. \A v \in Int : Serial!Wrap(v) = Wrap(v)
  BY DEF Serial!Wrap, Wrap
<1>14. /\ Committed'[j] = Serial!Wrap(Committed[j] + Committed[i] + 1)
       /\ Committed'[k] = Serial!Wrap(Committed[k] - Committed[i])
  <2>1. old[t][1] \in Int /\ old[t][2] \in Int /\ old[t][3] \in Int
    BY <1>0 DEF DataType
  <2> QED
    BY <1>7, <1>8, <1>9, <1>10, <1>13, <2>1
<1>15. Committed' = [Committed EXCEPT ![j] = Serial!Wrap(@ + Committed[i] + 1),
                                      ![k] = Serial!Wrap(@ - Committed[i])]
  <2> DEFINE f == [Committed EXCEPT ![j] = Serial!Wrap(@ + Committed[i] + 1),
                                    ![k] = Serial!Wrap(@ - Committed[i])]
             g == [x \in Records |->
                     IF x = k THEN Serial!Wrap(Committed[k] - Committed[i])
                     ELSE IF x = j THEN Serial!Wrap(Committed[j] + Committed[i] + 1)
                     ELSE Committed[x]]
  <2>1. f = g
    BY <1>3, <1>12
  <2>2. \A x \in Records : Committed'[x] = g[x]
    BY <1>3, <1>11, <1>14
  <2>3. Committed' = g
    BY <1>12, <2>2
  <2> QED
    BY <2>1, <2>3
<1>16. outFile' = Append(outFile, <<i, j, k, Committed'[i], Committed'[j], Committed'[k]>>)
  BY <1>1, <1>2, <1>10
<1>17. Serial!Replay(i, j, k)
  BY <1>1, <1>3, <1>15, <1>16 DEF Serial!Replay
<1> QED
  BY <1>3, <1>17

\* Every step is one of SerialTransaction, or leaves its variables alone.
LEMMA SerialStep ==
  ASSUME Inv, DataType, SerialInv, CommittedValues, CommittedValues', [Next]_vars
  PROVE  [Serial!SerialNext]_(Serial!serialVars)
<1>1. CASE UNCHANGED vars
  <2>1. UNCHANGED <<value, order, outFile, pc, rec, old, having>>
    BY <1>1 DEF vars, dbVars, localVars
  <2>2. Committed' = Committed
    BY <2>1 DEF Committed, Dirty
  <2> QED
    BY <2>1, <2>2 DEF Serial!serialVars
<1>2. ASSUME NEW t \in Threads, work(t) \/ SpuriousWakeup(t)
      PROVE  [Serial!SerialNext]_(Serial!serialVars)
  <2>0. Ready(t)
    BY <1>2 DEF Ready
  <2>1. /\ Committed = [x \in Records |-> Committed[x]]
        /\ Committed' = [x \in Records |-> Committed'[x]]
    BY CommittedFunctions
  <2>2. CASE Commit(t)
    BY <2>0, <2>2, CommitReplays DEF Serial!SerialNext
  <2>3. CASE ~Commit(t)
    <3>1. \A x \in Records : Committed'[x] = Committed[x]
      BY <1>2, <2>0, <2>3, IdleCommitted, AccessCommitted, UndoCommitted DEF work, Idle
    <3>2. Committed' = Committed
      BY <2>1, <3>1
    <3>3. CASE Overrun(t)
      <4>1. order >= E /\ order' = order + 1 /\ outFile' = outFile
        BY <3>3 DEF Overrun
      <4> QED
        BY <3>2, <4>1 DEF Serial!SerialNext, Serial!SkipId
    <3>4. CASE ~Overrun(t)
      <4>1. order' = order /\ outFile' = outFile
        BY <1>2, <2>3, <3>4 DEF work, Begin, Leave, CheckPasses, CheckFails, Push, TryLock,
           Drain, SpuriousWakeup, MarkGranted, Relock, Access, CommitLock, Delete, Unlock,
           Restart, dbVars
      <4> QED
        BY <3>2, <4>1 DEF Serial!serialVars
    <3> QED
      BY <3>3, <3>4
  <2> QED
    BY <2>2, <2>3
<1> QED
  BY <1>1, <1>2 DEF Next, Joined

\* The values stay in order.
THEOREM SerialInvariant == Spec => [](SerialInv /\ CommittedValues)
<1>1. Spec => []SerialInv
  BY SerialInvInit, SerialInvNext, QueueInvariant, PTL DEF Spec
<1>2. Inv /\ SerialInv => CommittedValues
  BY CommittedFound DEF Inv, SerialInv
<1> QED
  BY <1>1, <1>2, QueueInvariant, PTL

\* Every line the threads write is the result of running the committed transactions alone,
\* in the order of their commit ids, whatever the unprotected reads of the queues return:
\* Transaction implements SerialTransaction (transaction.cpp:164-196, 126-137; test.py).
THEOREM SerializableTheorem == Spec => Serializable
<1>1. Init => Serial!SerialInit
  <2> SUFFICES ASSUME Init PROVE Serial!SerialInit
    OBVIOUS
  <2>1. \A t \in Threads, n \in 2..3 : ~Dirty(t, n)
    BY DEF Init, Dirty
  <2>2. Committed = [x \in Records |-> InitialValue]
    BY <2>1 DEF Init, Committed
  <2> QED
    BY <2>2 DEF Init, Serial!SerialInit
<1>2. /\ Inv /\ DataType /\ SerialInv /\ CommittedValues /\ CommittedValues'
      /\ [Next]_vars
      => [Serial!SerialNext]_(Serial!serialVars)
  BY SerialStep
<1> QED
  BY <1>1, <1>2, SerialInvariant, QueueInvariant, PTL
     DEF Spec, Serializable, Serial!SerialSpec

-----------------------------------------------------------------------------
(* test.py.  It replays the lines in unbounded integers, so it agrees with *)
(* SerialTransaction as long as no value it comes to leaves the range of   *)
(* int.  What its recursion computes is found by induction on the number   *)
(* of lines.                                                               *)

\* The records at the start, and after one more line.
Fresh == [x \in Records |-> InitialValue]
Replayed(r, line) ==
  [r EXCEPT ![line[2]] = @ + r[line[1]] + 1, ![line[3]] = @ - r[line[1]]]

\* f gives the records after each of the first m lines of s.
Replays(s, m, f) ==
  f = [n \in 0..m |-> IF n = 0 THEN Fresh ELSE Replayed(f[n - 1], s[n])]

\* Every set of natural numbers that is not empty has a least element.
LEMMA LeastNatural ==
  ASSUME NEW S \in SUBSET Nat, S # {}
  PROVE  \E m \in S : \A k \in S : m =< k
<1> DEFINE R == {ss \in Nat \X Nat : ss[1] < ss[2]}
<1>1. IsWellFoundedOn(R, Nat)
  BY NatLessThanWellFounded DEF OpToRel
<1>2. \A x, y \in Nat : <<y, x>> \in R <=> y < x
  OBVIOUS
<1> HIDE DEF R
<1>3. PICK x \in S : \A y \in S : ~(<<y, x>> \in R)
  BY <1>1, WFMin
<1>4. \A y \in S : ~(y < x)
  BY <1>2, <1>3
<1> QED
  BY <1>4

\* There is a replay of any number of lines.
LEMMA ReplayDefined ==
  ASSUME NEW s, NEW m \in Nat
  PROVE  \E f : Replays(s, m, f)
<1> DEFINE Ex(k) == \E f : Replays(s, k, f)
           Bad == {k \in Nat : ~Ex(k)}
<1> SUFFICES ASSUME Bad # {} PROVE FALSE
  OBVIOUS
<1>1. PICK k \in Bad : \A j \in Bad : k =< j
  <2>1. Bad \in SUBSET Nat
    OBVIOUS
  <2> HIDE DEF Bad
  <2> QED
    BY <2>1, LeastNatural
<1>2. Ex(0)
  <2> DEFINE f == [n \in 0..0 |-> Fresh]
  <2>1. f = [n \in 0..0 |-> IF n = 0 THEN Fresh ELSE Replayed(f[n - 1], s[n])]
    OBVIOUS
  <2> QED
    BY <2>1 DEF Replays
<1>3. k \in Nat \ {0} /\ k - 1 \in Nat /\ Ex(k - 1)
  <2>1. k # 0 /\ k \in Nat
    BY <1>2
  <2>2. k - 1 \in Nat /\ ~(k =< k - 1)
    BY <2>1
  <2>3. k - 1 \notin Bad
    BY <1>1, <2>2
  <2> QED
    BY <2>1, <2>2, <2>3
<1>4. PICK f : f = [n \in 0..(k - 1) |-> IF n = 0 THEN Fresh ELSE Replayed(f[n - 1], s[n])]
  BY <1>3 DEF Replays
<1> DEFINE h == [n \in 0..k |-> IF n = k THEN Replayed(f[k - 1], s[k]) ELSE f[n]]
<1>5. h = [n \in 0..k |-> IF n = 0 THEN Fresh ELSE Replayed(h[n - 1], s[n])]
  <2>1. ASSUME NEW n \in 0..k
        PROVE  h[n] = IF n = 0 THEN Fresh ELSE Replayed(h[n - 1], s[n])
    <3>1. CASE n = k
      <4>1. h[n] = Replayed(f[k - 1], s[n]) /\ h[n - 1] = f[k - 1] /\ n # 0
        BY <1>3, <3>1
      <4> QED
        BY <4>1
    <3>2. CASE n # k
      <4>1. n \in 0..(k - 1)
        BY <1>3, <3>2
      <4>2. h[n] = f[n]
        BY <1>3, <3>2
      <4>3. n # 0 => h[n - 1] = f[n - 1]
        BY <1>3, <3>2
      <4>4. f[n] = IF n = 0 THEN Fresh ELSE Replayed(f[n - 1], s[n])
        BY <1>4, <4>1
      <4> QED
        BY <4>2, <4>3, <4>4
    <3> QED
      BY <3>1, <3>2
  <2> HIDE DEF h
  <2>2. h = [n \in 0..k |-> h[n]]
    BY DEF h
  <2> QED
    BY <2>1, <2>2
<1>6. Ex(k)
  BY <1>5 DEF Replays
<1> QED
  BY <1>6

\* The records of test.py are the replay of all lines.
LEMMA RecordsReplay == DataType => Replays(outFile, Len(outFile), Serial!records)
<1> SUFFICES ASSUME DataType PROVE Replays(outFile, Len(outFile), Serial!records)
  OBVIOUS
<1>1. Len(outFile) \in Nat
  BY DEF DataType
<1> DEFINE Rec(g) == [n \in 0..Len(outFile) |-> IF n = 0 THEN Fresh ELSE Replayed(g[n - 1], outFile[n])]
<1>2. Serial!records = CHOOSE g : g = Rec(g)
  BY DEF Serial!records, Fresh, Replayed
<1>3. \E g : g = Rec(g)
  BY <1>1, ReplayDefined DEF Replays
<1> QED
  BY <1>2, <1>3 DEF Replays

\* What a replay is, line by line.
LEMMA ReplayLines ==
  ASSUME NEW s, NEW m \in Nat, NEW f, Replays(s, m, f)
  PROVE  f[0] = Fresh /\ \A n \in 1..m : f[n] = Replayed(f[n - 1], s[n])
<1>1. \A n \in 0..m : f[n] = IF n = 0 THEN Fresh ELSE Replayed(f[n - 1], s[n])
  BY DEF Replays
<1> QED
  BY <1>1

\* The replay of more lines begins like that of the first ones.
LEMMA ReplayPrefix ==
  ASSUME NEW s, NEW u, NEW m \in Nat, NEW k \in Nat, m =< k, NEW f, NEW g,
         Replays(s, m, f), Replays(u, k, g), \A n \in 1..m : u[n] = s[n]
  PROVE  \A n \in 0..m : g[n] = f[n]
<1>1. f[0] = Fresh /\ \A n \in 1..m : f[n] = Replayed(f[n - 1], s[n])
  BY ReplayLines
<1>2. g[0] = Fresh /\ \A n \in 1..k : g[n] = Replayed(g[n - 1], u[n])
  BY ReplayLines
<1> DEFINE Bad == {n \in 0..m : g[n] # f[n]}
<1> SUFFICES ASSUME Bad # {} PROVE FALSE
  OBVIOUS
<1>3. PICK n \in Bad : \A j \in Bad : n =< j
  <2>1. Bad \in SUBSET Nat
    OBVIOUS
  <2> HIDE DEF Bad
  <2> QED
    BY <2>1, LeastNatural
<1>4. n \in 1..m /\ n - 1 \in 0..m /\ ~(n =< n - 1) /\ n \in 1..k
  BY <1>1, <1>2
<1>5. g[n - 1] = f[n - 1]
  BY <1>3, <1>4
<1> QED
  BY <1>1, <1>2, <1>4, <1>5

\* The values of int.
IntRange == (-(IntSpan \div 2))..(IntSpan - (IntSpan \div 2) - 1)

\* A value that fits into int is its own int.
LEMMA WrapInRange == \A v \in IntRange : Serial!Wrap(v) = v
<1> SUFFICES ASSUME NEW v \in IntRange PROVE Serial!Wrap(v) = v
  OBVIOUS
<1>1. PICK h : h = IntSpan \div 2
  OBVIOUS
<1>2. h \in Int /\ v \in Int /\ IntSpan \in Nat \ {0}
  BY <1>1, TransactionAssumption DEF IntRange
<1>3. 0 =< v + h /\ v + h < IntSpan
  BY <1>1, <1>2 DEF IntRange
<1>4. (v + h) % IntSpan = v + h
  BY <1>2, <1>3
<1> QED
  BY <1>1, <1>2, <1>4 DEF Serial!Wrap

\* The records never leave the range of int while test.py replays them.
NoOverflow ==
  \A n \in 0..Len(outFile), x \in Records : Serial!records[n][x] \in IntRange

\* The replay has come to the committed values, and met them on every line.
Checked ==
  NoOverflow => Committed = Serial!records[Len(outFile)] /\ Serial!AllSuccessful

\* One more line on equal records, in int and in unbounded integers.
LEMMA SameReplay ==
  ASSUME NEW db, db = [x \in Records |-> db[x]], \A x \in Records : db[x] \in Int,
         NEW i \in Records, NEW j \in Records, NEW k \in Records, i # j, j # k, i # k,
         NEW line, line[1] = i, line[2] = j, line[3] = k,
         \A x \in Records : Replayed(db, line)[x] \in IntRange,
         NEW f, f = [x \in Records |-> f[x]],
         f[j] = Serial!Wrap(db[j] + db[i] + 1), f[k] = Serial!Wrap(db[k] - db[i]),
         \A x \in Records : x # j /\ x # k => f[x] = db[x]
  PROVE  f = Replayed(db, line)
<1> DEFINE g == Replayed(db, line)
<1>1. /\ g = [x \in Records |-> g[x]] /\ g[j] = db[j] + db[i] + 1 /\ g[k] = db[k] - db[i]
      /\ \A x \in Records : x # j /\ x # k => g[x] = db[x]
  BY DEF Replayed
<1>2. g[j] \in IntRange /\ g[k] \in IntRange
  OBVIOUS
<1> HIDE DEF g
<1>3. f[j] = g[j] /\ f[k] = g[k]
  BY <1>1, <1>2, WrapInRange
<1>4. \A x \in Records : f[x] = g[x]
  BY <1>1, <1>3
<1>5. f = g
  BY <1>1, <1>4
<1> QED
  BY <1>5, Zenon DEF g

\* A commit gives a line that test.py finds successful.
LEMMA CheckedReplay ==
  ASSUME DataType, DataType', Checked, NEW i \in Records, NEW j \in Records,
         NEW k \in Records, Serial!Replay(i, j, k)
  PROVE  Checked'
<1> SUFFICES ASSUME NoOverflow'
             PROVE  (Committed = Serial!records[Len(outFile)] /\ Serial!AllSuccessful)'
  BY DEF Checked
<1>1. PICK s, u, m : s = outFile /\ u = outFile' /\ m = Len(outFile)
  OBVIOUS
<1>2. PICK f, g : f = Serial!records /\ g = Serial!records'
  OBVIOUS
<1>3. PICK db, dc : db = Committed /\ dc = Committed'
  OBVIOUS
<1>4. PICK line : line = <<i, j, k, dc[i], dc[j], dc[k]>>
  OBVIOUS
<1>5. /\ i # j /\ j # k /\ i # k /\ u = Append(s, line)
      /\ dc = [db EXCEPT ![j] = Serial!Wrap(@ + db[i] + 1), ![k] = Serial!Wrap(@ - db[i])]
  BY <1>1, <1>3, <1>4 DEF Serial!Replay
<1>6. m \in Nat /\ Len(u) = m + 1 /\ u[m + 1] = line /\ \A n \in 1..m : u[n] = s[n]
  BY <1>1, <1>5 DEF DataType
<1>7. Replays(s, m, f)
  BY <1>1, <1>2, RecordsReplay
<1>8. Replays(u, m + 1, g)
  <2>1. (DataType => Replays(outFile, Len(outFile), Serial!records))'
    BY RecordsReplay, PTL
  <2> QED
    BY <1>1, <1>2, <1>6, <2>1 DEF Replays
<1>9. \A n \in 0..m : g[n] = f[n]
  BY <1>6, <1>7, <1>8, ReplayPrefix
<1>10. g[m + 1] = Replayed(g[m], line)
  BY <1>6, <1>8, ReplayLines
<1>11. \A n \in 0..(m + 1) : \A x \in Records : g[n][x] \in IntRange
  BY <1>1, <1>2, <1>6 DEF NoOverflow
<1>12. NoOverflow
  <2>1. \A n \in 0..m : \A x \in Records : f[n][x] \in IntRange
    BY <1>6, <1>9, <1>11
  <2> QED
    BY <1>1, <1>2, <2>1 DEF NoOverflow
<1>13. db = g[m] /\ Serial!AllSuccessful
  BY <1>1, <1>2, <1>3, <1>6, <1>9, <1>12 DEF Checked
<1>14. dc = g[m + 1]
  <2>1. db = [x \in Records |-> db[x]]
    BY <1>3, CommittedFunctions
  <2>2. \A x \in Records : db[x] \in Int
    BY <1>6, <1>11, <1>13 DEF IntRange
  <2>3. line[1] = i /\ line[2] = j /\ line[3] = k
    BY <1>4
  <2>4. \A x \in Records : Replayed(db, line)[x] \in IntRange
    BY <1>6, <1>10, <1>11, <1>13
  <2>5. /\ dc = [x \in Records |-> dc[x]] /\ dc[j] = Serial!Wrap(db[j] + db[i] + 1)
        /\ dc[k] = Serial!Wrap(db[k] - db[i])
        /\ \A x \in Records : x # j /\ x # k => dc[x] = db[x]
    BY <1>5, <2>1
  <2>6. dc = Replayed(db, line)
    <3>1. i # j /\ j # k /\ i # k
      BY <1>5
    <3> QED
      BY <2>1, <2>2, <2>3, <2>4, <2>5, <3>1, SameReplay
  <2> QED
    BY <1>10, <1>13, <2>6
<1>15. \A n \in 1..(m + 1), q \in 1..3 : u[n][q + 3] = g[n][u[n][q]]
  <2> SUFFICES ASSUME NEW n \in 1..(m + 1), NEW q \in 1..3
               PROVE  u[n][q + 3] = g[n][u[n][q]]
    OBVIOUS
  <2>1. CASE n = m + 1
    <3>1. line[q + 3] = dc[line[q]]
      BY <1>4
    <3> QED
      BY <1>6, <1>14, <2>1, <3>1
  <2>2. CASE n # m + 1
    <3>1. n \in 1..m /\ n \in 0..m
      BY <1>6, <2>2
    <3>2. s[n][q + 3] = f[n][s[n][q]]
      BY <1>1, <1>2, <1>13, <3>1 DEF Serial!AllSuccessful
    <3> QED
      BY <1>6, <1>9, <3>1, <3>2
  <2> QED
    BY <2>1, <2>2
<1> QED
  BY <1>1, <1>2, <1>3, <1>6, <1>14, <1>15 DEF Serial!AllSuccessful

\* Every step keeps it so.
LEMMA CheckedNext ==
  ASSUME DataType, DataType', Checked, [Serial!SerialNext]_(Serial!serialVars)
  PROVE  Checked'
<1>1. CASE UNCHANGED <<Committed, outFile>>
  <2>1. Serial!records' = Serial!records
    BY <1>1 DEF Serial!records
  <2> QED
    BY <1>1, <2>1 DEF Checked, NoOverflow, Serial!AllSuccessful
<1>2. ASSUME NEW i \in Records, NEW j \in Records, NEW k \in Records, Serial!Replay(i, j, k)
      PROVE  Checked'
  BY <1>2, CheckedReplay
<1>3. \/ UNCHANGED <<Committed, outFile>>
      \/ \E i, j, k \in Records : Serial!Replay(i, j, k)
  BY DEF Serial!SerialNext, Serial!SkipId, Serial!serialVars
<1> QED
  BY <1>1, <1>2, <1>3

\* Nothing has been committed at first.
LEMMA CheckedInit == Init => Checked
<1> SUFFICES ASSUME Init PROVE Checked
  OBVIOUS
<1>1. outFile = <<>> /\ Len(outFile) = 0
  BY DEF Init
<1>2. Committed = [x \in Records |-> InitialValue]
  <2>1. \A t \in Threads, n \in 2..3 : ~Dirty(t, n)
    BY DEF Init, Dirty
  <2> QED
    BY <2>1 DEF Init, Committed
<1>3. DataType
  BY DataInit
<1>4. Serial!records[0] = Fresh
  BY <1>1, <1>3, RecordsReplay, ReplayLines
<1> QED
  BY <1>1, <1>2, <1>4 DEF Checked, Serial!AllSuccessful, Fresh

\* As long as its own values stay in the range of int, test.py finds every commit
\* successful, however the threads run and whatever their unprotected reads of the queues
\* return (test.py:29-39).
THEOREM CheckerTheorem == Spec => [](NoOverflow => TestPyAccepts)
<1>1. /\ Inv /\ DataType /\ DataType' /\ SerialInv /\ CommittedValues /\ CommittedValues'
      /\ Checked /\ [Next]_vars
      => Checked'
  BY SerialStep, CheckedNext
<1>2. Checked => (NoOverflow => TestPyAccepts)
  BY DEF Checked, TestPyAccepts
<1> QED
  BY <1>1, <1>2, CheckedInit, SerialInvariant, QueueInvariant, PTL DEF Spec

-----------------------------------------------------------------------------
(* The graph and the queues.                                               *)
(*                                                                         *)
(* The graph is not exact while a transaction releases: its first          *)
(* deleteLock takes it out of every set of the graph, although its other   *)
(* requests are still in their queues.  The invariant says what the graph  *)
(* is then, and what it is between deadlock_check and the push.  It speaks *)
(* of the order of the requests only, which no misplaced flag changes.     *)

\* Lock m of a is in the queue of x; it is in front of lock n of b.
On(x, a, m) ==
  \E p \in DOMAIN lock_request[x] : Mon!Same(lock_request[x][p], Lock(a, m))

InFront(x, a, m, b, n) ==
  \E p, k \in DOMAIN lock_request[x] :
    /\ p < k
    /\ Mon!Same(lock_request[x][p], Lock(a, m))
    /\ Mon!Same(lock_request[x][k], Lock(b, n))

\* Requests of which one has to wait for the other: not both for reading.
Clash(m, n) == m # 1 \/ n # 1

\* A request of a is in front of one of u that clashes with it; or will be, once u has
\* pushed the request it is working on.
Waits(u, a) ==
  \E x \in Records, m \in 1..3, n \in 1..3 : InFront(x, a, m, u, n) /\ Clash(m, n)
WillWait(u, a) == \E m \in 1..3 : On(target(u), a, m) /\ Clash(m, current(u))

\* a has taken its first request out of the queues.
Releasing(a) == pc[a] \in {"unlock", "finish"} \/ (pc[a] = "delete" /\ rel[a] > 1)

Graph(u) ==
  /\ pc[u] \notin {"push", "delete", "unlock", "finish"} => \A a \in Threads :
       a \in dependThreads[u] <=> ~Releasing(a) /\ Waits(u, a)
  /\ pc[u] = "push" => \A a \in Threads :
       a \in dependThreads[u] <=> Waits(u, a) \/ WillWait(u, a)
  /\ Releasing(u) => dependThreads[u] = {}

GraphInv == \A u \in Threads : Graph(u)

-----------------------------------------------------------------------------
(* What the loops over a queue compute.                                    *)

\* The places before the only request equal to r.
LEMMA BeforeAt ==
  ASSUME NEW q \in Seq(Mon!LockInfo), NEW r, NEW k \in DOMAIN q, Mon!Same(q[k], r),
         \A m \in DOMAIN q : Mon!Same(q[m], r) => m = k
  PROVE  \A p \in DOMAIN q : p \in Mon!Before(q, r) <=> p < k
<1>1. DOMAIN q = 1..Len(q) /\ Len(q) \in Nat
  OBVIOUS
<1> SUFFICES ASSUME NEW p \in DOMAIN q PROVE p \in Mon!Before(q, r) <=> p < k
  OBVIOUS
<1>2. CASE p < k
  <2>1. \A m \in 1..p : m \in DOMAIN q /\ m # k
    BY <1>1, <1>2
  <2> QED
    BY <1>2, <2>1 DEF Mon!Before
<1>3. CASE ~(p < k)
  <2>1. k \in 1..p
    BY <1>1, <1>3
  <2> QED
    BY <1>3, <2>1 DEF Mon!Before
<1> QED
  BY <1>2, <1>3

\* A request in a queue is a lock of a thread that has it queued.
LEMMA Entry ==
  ASSUME QueueInv, NEW x \in Records, NEW p \in DOMAIN lock_request[x]
  PROVE  \E a \in Threads, m \in 1..3 :
           /\ Queued(a, m) /\ rec[a][m] = x
           /\ lock_request[x][p].tid = a /\ lock_request[x][p].type = TypeOf(m)
           /\ Mon!Same(lock_request[x][p], Lock(a, m))
<1>1. PICK a \in Threads, m \in 1..3 :
        Queued(a, m) /\ rec[a][m] = x /\ Mon!Same(lock_request[x][p], Lock(a, m))
  BY DEF QueueInv, Queues
<1> QED
  BY <1>1 DEF Mon!Same, Lock

\* So what is in a queue is queued there.
LEMMA OnQueued ==
  ASSUME QueueInv, NEW x \in Records, NEW a \in Threads, NEW m \in 1..3, On(x, a, m)
  PROVE  Queued(a, m) /\ rec[a][m] = x
<1>1. PICK p \in DOMAIN lock_request[x] : Mon!Same(lock_request[x][p], Lock(a, m))
  BY DEF On
<1>2. PICK b \in Threads, n \in 1..3 :
        Queued(b, n) /\ rec[b][n] = x /\ Mon!Same(lock_request[x][p], Lock(b, n))
  BY Entry
<1>3. Mon!Same(Lock(a, m), Lock(b, n))
  BY <1>1, <1>2 DEF Mon!Same
<1> QED
  BY <1>2, <1>3, SameLock

\* Being in front is being there.
LEMMA FrontOn ==
  ASSUME NEW x, NEW a, NEW m, NEW b, NEW n, InFront(x, a, m, b, n)
  PROVE  On(x, a, m) /\ On(x, b, n)
BY DEF On, InFront

\* The only reader lock is the first.
LEMMA ReaderType == \A m \in 1..3 : TypeOf(m) = "R" <=> m = 1
BY DEF TypeOf

\* Whom the loops find in front of a request that is in the queue.
LEMMA AheadIs ==
  ASSUME DataType, QueueInv, NEW b \in Threads, NEW n \in 1..3, NEW x \in Records,
         x = rec[b][n], On(x, b, n), NEW a \in Threads
  PROVE  a \in AheadOf(b, n) <=> \E m \in 1..3 : InFront(x, a, m, b, n) /\ Clash(m, n)
<1> DEFINE q == lock_request[x]
           r == Lock(b, n)
<1>1. PICK k \in DOMAIN q : Mon!Same(q[k], r)
  BY DEF On
<1>2. \A m \in DOMAIN q : Mon!Same(q[m], r) => m = k
  BY <1>1 DEF QueueInv, Queues, Mon!Same
<1>3. q \in Seq(Mon!LockInfo)
  BY DEF DataType, Mon!MonitorTypeOK
<1>4. \A p \in DOMAIN q : p \in Mon!Before(q, r) <=> p < k
  BY <1>1, <1>2, <1>3, BeforeAt
<1>5. Mon!Before(q, r) \subseteq DOMAIN q
  BY DEF Mon!Before
<1>6. \A m \in 1..3 : InFront(x, a, m, b, n) <=>
                        \E p \in DOMAIN q : p < k /\ Mon!Same(q[p], Lock(a, m))
  BY <1>1, <1>2 DEF InFront
<1>7. \A p \in DOMAIN q : \E c \in Threads, m \in 1..3 :
        q[p].tid = c /\ (q[p].type = "R" <=> m = 1) /\ Mon!Same(q[p], Lock(c, m))
  BY Entry, ReaderType
<1>8. \A p \in DOMAIN q, m \in 1..3 : Mon!Same(q[p], Lock(a, m)) =>
        q[p].tid = a /\ (q[p].type = "R" <=> m = 1)
  BY ReaderType DEF Mon!Same, Lock
<1>9. AheadOf(b, n) = {q[p].tid : p \in {l \in Mon!Before(q, r) : n # 1 \/ q[l].type # "R"}}
  BY DEF AheadOf
<1> HIDE DEF q, r
<1>10. ASSUME a \in AheadOf(b, n)
       PROVE  \E m \in 1..3 : InFront(x, a, m, b, n) /\ Clash(m, n)
  <2>1. PICK p \in Mon!Before(q, r) : a = q[p].tid /\ (n # 1 \/ q[p].type # "R")
    BY <1>9, <1>10
  <2>2. p \in DOMAIN q /\ p < k
    BY <1>4, <1>5, <2>1
  <2>3. PICK m \in 1..3 : Mon!Same(q[p], Lock(a, m)) /\ (q[p].type = "R" <=> m = 1)
    BY <1>7, <2>1, <2>2
  <2> QED
    BY <1>6, <2>1, <2>2, <2>3 DEF Clash
<1>11. ASSUME NEW m \in 1..3, InFront(x, a, m, b, n), Clash(m, n) PROVE a \in AheadOf(b, n)
  <2>1. PICK p \in DOMAIN q : p < k /\ Mon!Same(q[p], Lock(a, m))
    BY <1>6, <1>11
  <2>2. p \in Mon!Before(q, r) /\ q[p].tid = a /\ (q[p].type = "R" <=> m = 1)
    BY <1>4, <1>8, <2>1
  <2>3. n # 1 \/ q[p].type # "R"
    BY <1>11, <2>2 DEF Clash
  <2> QED
    BY <1>9, <2>2, <2>3
<1> QED
  BY <1>10, <1>11

\* deadlock_check adds edges to the threads with a clashing request in the queue.
LEMMA BlockersAre ==
  ASSUME QueueInv, NEW x \in Records, NEW b \in Threads, NEW n \in 1..3, NEW a \in Threads
  PROVE  a \in Mon!Blockers(lock_request[x], Lock(b, n)) <=>
           \E m \in 1..3 : On(x, a, m) /\ Clash(m, n)
<1> DEFINE q == lock_request[x]
<1>1. Lock(b, n).type = "R" <=> n = 1
  BY ReaderType DEF Lock
<1>2. ASSUME NEW p \in DOMAIN q, a = q[p].tid, n # 1 \/ q[p].type # "R"
      PROVE  \E m \in 1..3 : On(x, a, m) /\ Clash(m, n)
  <2>1. PICK m \in 1..3 : Mon!Same(q[p], Lock(a, m)) /\ q[p].type = TypeOf(m)
    BY <1>2, Entry
  <2> QED
    BY <1>2, <2>1, ReaderType DEF On, Clash
<1>3. ASSUME NEW m \in 1..3, On(x, a, m), Clash(m, n)
      PROVE  \E p \in DOMAIN q : a = q[p].tid /\ (n # 1 \/ q[p].type # "R")
  <2>1. PICK p \in DOMAIN q : Mon!Same(q[p], Lock(a, m))
    BY <1>3 DEF On
  <2>2. q[p].tid = a /\ q[p].type = TypeOf(m)
    BY <2>1 DEF Mon!Same, Lock
  <2> QED
    BY <1>3, <2>2, ReaderType DEF Clash
<1>4. a \in Mon!Blockers(q, Lock(b, n)) <=>
        \E p \in DOMAIN q : a = q[p].tid /\ (n # 1 \/ q[p].type # "R")
  BY <1>1 DEF Mon!Blockers
<1> HIDE DEF q
<1> QED
  BY <1>2, <1>3, <1>4 DEF q

-----------------------------------------------------------------------------
(* What the steps do to the queues.                                        *)

\* A new request comes to stand behind all the others.
LEMMA PushOrder ==
  ASSUME Inv, DataType, NEW t \in Threads, Push(t), NEW x \in Records,
         NEW a \in Threads, NEW m \in 1..3, NEW c, c = current(t), NEW y, y = target(t)
  PROVE  /\ On(x, a, m)' <=> On(x, a, m) \/ (x = y /\ a = t /\ m = c)
         /\ \A b \in Threads, n \in 1..3 :
              InFront(x, a, m, b, n)' <=>
                InFront(x, a, m, b, n) \/ (x = y /\ b = t /\ n = c /\ On(x, a, m))
<1> DEFINE q == lock_request[x]
           s == lock_request'[x]
<1>0. lock_request \in [Records -> Seq(Mon!LockInfo)] /\ y \in Records /\ c \in 1..3
  BY TargetDrawn DEF DataType, Mon!MonitorTypeOK, Push, Inv
<1>1. lock_request' = [lock_request EXCEPT ![y] = Append(@, Lock(t, c))]
  BY DEF Push, Mon!pushRequest, req
<1>2. CASE x # y
  <2>1. s = q
    BY <1>0, <1>1, <1>2
  <2> QED
    BY <1>2, <2>1 DEF On, InFront
<1>3. CASE x = y
  <2>1. /\ DOMAIN s = 1..(Len(q) + 1) /\ DOMAIN q = 1..Len(q) /\ Len(q) \in Nat
        /\ \A p \in DOMAIN q : s[p] = q[p]
        /\ s[Len(q) + 1] = Lock(t, c)
    BY <1>0, <1>1, <1>3, AppendQueue, LockInfoType
  <2>2. /\ Len(q) + 1 \in DOMAIN s /\ \A p \in DOMAIN q : p < Len(q) + 1
        /\ \A p \in DOMAIN s : p \in DOMAIN q \/ p = Len(q) + 1
        /\ \A p \in DOMAIN q : p \in DOMAIN s
    BY <2>1
  <2>3. \A b \in Threads, n \in 1..3 :
          Mon!Same(s[Len(q) + 1], Lock(b, n)) <=> b = t /\ n = c
    BY <1>0, <2>1, SameLock
  <2>5. On(x, a, m)' <=> On(x, a, m) \/ (a = t /\ m = c)
    BY <2>1, <2>2, <2>3 DEF On
  <2>7. ASSUME NEW b \in Threads, NEW n \in 1..3
        PROVE  InFront(x, a, m, b, n)' <=>
                 InFront(x, a, m, b, n) \/ (b = t /\ n = c /\ On(x, a, m))
    <3>1. ASSUME InFront(x, a, m, b, n)'
          PROVE  InFront(x, a, m, b, n) \/ (b = t /\ n = c /\ On(x, a, m))
      <4>1. PICK p \in DOMAIN s, k \in DOMAIN s :
              p < k /\ Mon!Same(s[p], Lock(a, m)) /\ Mon!Same(s[k], Lock(b, n))
        BY <3>1 DEF InFront
      <4>2. p \in DOMAIN q
        BY <2>1, <4>1
      <4>3. CASE k \in DOMAIN q
        BY <2>1, <4>1, <4>2, <4>3 DEF InFront
      <4>4. CASE k = Len(q) + 1
        BY <2>1, <2>3, <4>1, <4>2, <4>4 DEF On
      <4> QED
        BY <2>2, <4>3, <4>4
    <3>2. ASSUME InFront(x, a, m, b, n) PROVE InFront(x, a, m, b, n)'
      BY <2>1, <2>2, <3>2 DEF InFront
    <3>3. ASSUME b = t, n = c, On(x, a, m) PROVE InFront(x, a, m, b, n)'
      BY <2>1, <2>2, <2>3, <3>3 DEF On, InFront
    <3> QED
      BY <3>1, <3>2, <3>3
  <2> QED
    BY <1>3, <2>5, <2>7
<1> QED
  BY <1>2, <1>3

\* A release takes one request out and keeps the others in order.
LEMMA DeleteOrder ==
  ASSUME Inv, DataType, QueueInv, NEW t \in Threads, Delete(t), NEW x \in Records,
         NEW a \in Threads, NEW m \in 1..3, NEW d, d = rel[t], NEW y, y = rec[t][d],
         ~(a = t /\ m = d)
  PROVE  /\ On(x, a, m)' <=> On(x, a, m)
         /\ \A b \in Threads, n \in 1..3 : ~(b = t /\ n = d) =>
              (InFront(x, a, m, b, n)' <=> InFront(x, a, m, b, n))
<1> DEFINE q == lock_request[x]
           s == lock_request'[x]
<1>0. y \in Records /\ d \in 1..3 /\ (x # y => s = q)
  BY DeleteShape
<1>1. CASE x # y
  BY <1>0, <1>1 DEF On, InFront
<1>2. CASE x = y
  <2>1. PICK k \in DOMAIN q :
          /\ Mon!Same(q[k], Lock(t, d))
          /\ DOMAIN s = 1..(Len(q) - 1) /\ DOMAIN q = 1..Len(q) /\ Len(q) \in Nat
          /\ \A p \in 1..(Len(q) - 1) : s[p] = IF p < k THEN q[p] ELSE q[p + 1]
    BY <1>2, DeleteShape
  <2> DEFINE was(p) == IF p < k THEN p ELSE p + 1
             new(p) == IF p < k THEN p ELSE p - 1
  <2>2. \A p \in DOMAIN s : was(p) \in DOMAIN q /\ s[p] = q[was(p)]
    BY <2>1
  <2>3. \A p \in DOMAIN q : p # k => new(p) \in DOMAIN s /\ s[new(p)] = q[p]
    BY <2>1
  <2>4. \A p, l \in DOMAIN s : p < l => was(p) < was(l)
    BY <2>1
  <2>5. \A p, l \in DOMAIN q : p # k /\ l # k /\ p < l => new(p) < new(l)
    BY <2>1
  <2>6. ASSUME NEW b \in Threads, NEW n \in 1..3, ~(b = t /\ n = d),
               NEW p \in DOMAIN q, Mon!Same(q[p], Lock(b, n))
        PROVE  p # k
    <3>1. p = k => Mon!Same(Lock(t, d), Lock(b, n))
      BY <2>1, <2>6 DEF Mon!Same
    <3> QED
      BY <1>0, <2>6, <3>1, SameLock
  <2> HIDE DEF was, new
  <2>7. On(x, a, m)' <=> On(x, a, m)
    BY <2>2, <2>3, <2>6 DEF On
  <2>9. ASSUME NEW b \in Threads, NEW n \in 1..3, ~(b = t /\ n = d)
        PROVE  InFront(x, a, m, b, n)' <=> InFront(x, a, m, b, n)
    <3>1. ASSUME InFront(x, a, m, b, n)' PROVE InFront(x, a, m, b, n)
      BY <2>2, <2>4, <3>1 DEF InFront
    <3>2. ASSUME InFront(x, a, m, b, n) PROVE InFront(x, a, m, b, n)'
      <4>1. PICK p \in DOMAIN q, l \in DOMAIN q :
              p < l /\ Mon!Same(q[p], Lock(a, m)) /\ Mon!Same(q[l], Lock(b, n))
        BY <3>2 DEF InFront
      <4>2. p # k /\ l # k
        BY <2>6, <2>9, <4>1
      <4>3. /\ new(p) \in DOMAIN s /\ new(l) \in DOMAIN s /\ new(p) < new(l)
            /\ s[new(p)] = q[p] /\ s[new(l)] = q[l]
        BY <2>3, <2>5, <4>1, <4>2
      <4> QED
        BY <4>1, <4>3 DEF InFront
    <3> QED
      BY <3>1, <3>2
  <2> QED
    BY <2>7, <2>9
<1> QED
  BY <1>1, <1>2

\* The other steps, getLock with its flags among them, move nothing.
LEMMA OrderStays ==
  ASSUME Inv, DataType, NEW t \in Threads, work(t) \/ SpuriousWakeup(t),
         ~Push(t), ~Delete(t), NEW x \in Records, NEW a, NEW m
  PROVE  /\ On(x, a, m)' <=> On(x, a, m)
         /\ \A b, n : InFront(x, a, m, b, n)' <=> InFront(x, a, m, b, n)
<1>1. DOMAIN lock_request'[x] = DOMAIN lock_request[x]
  BY SameShape
<1>2. \A b, n : \A p \in DOMAIN lock_request[x] :
        Mon!Same(lock_request'[x][p], Lock(b, n)) <=> Mon!Same(lock_request[x][p], Lock(b, n))
  BY SameShape DEF Mon!Same
<1> QED
  BY <1>1, <1>2 DEF On, InFront

\* What a step of t does to the order in front of the request of another thread b.
LEMMA OrderStep ==
  ASSUME Inv, DataType, QueueInv, QueueInv', NEW t \in Threads,
         work(t) \/ SpuriousWakeup(t), NEW x \in Records,
         NEW a \in Threads, NEW m \in 1..3, NEW b \in Threads, b # t, NEW n \in 1..3
  PROVE  InFront(x, a, m, b, n)' <=>
           InFront(x, a, m, b, n) /\ ~(Delete(t) /\ a = t /\ m = rel[t])
<1>1. CASE Push(t)
  BY <1>1, PushOrder DEF Push, Delete
<1>2. CASE Delete(t)
  <2>1. CASE a = t /\ m = rel[t]
    <3>1. ~Queued(a, m)'
      BY <1>2, <2>1, QueuedOwn DEF work
    <3>2. ~InFront(x, a, m, b, n)'
      <4>1. InFront(x, a, m, b, n)' => On(x, a, m)'
        BY DEF InFront, On
      <4>2. On(x, a, m)' => Queued(a, m)'
        BY OnQueued, PTL
      <4> QED
        BY <3>1, <4>1, <4>2
    <3> QED
      BY <1>2, <2>1, <3>2
  <2>2. CASE ~(a = t /\ m = rel[t])
    BY <1>2, <2>2, DeleteOrder
  <2> QED
    BY <2>1, <2>2
<1>3. CASE ~Push(t) /\ ~Delete(t)
  BY <1>3, OrderStays
<1> QED
  BY <1>1, <1>2, <1>3

-----------------------------------------------------------------------------
(* The invariant.                                                          *)

\* While t works on a request it stays the same request.
LEMMA SameTarget ==
  ASSUME NEW u, having'[u] = having[u], rec'[u] = rec[u]
  PROVE  target(u)' = target(u) /\ current(u)' = current(u)
BY DEF target, current

\* A step of t leaves alone, or wakes, the others.
LEMMA OthersWoken ==
  ASSUME Inv, NEW t \in Threads, work(t) \/ SpuriousWakeup(t), NEW u \in Threads, u # t,
         NEW x \in Records
  PROVE  lk'[u][x] = lk[u][x] \/ RWP!Woken(lk[u][x], lk'[u][x])
<1>1. CASE Quiet(t)
  BY <1>1, QuietPlaced DEF rwVars
<1>2. CASE AtLock(t)
  BY <1>2, LockStep
<1> QED
  BY <1>1, <1>2, StepKinds

\* The edges of another thread.
LEMMA EdgesOthers ==
  ASSUME DataType, NEW t \in Threads, work(t) \/ SpuriousWakeup(t), NEW u \in Threads, u # t
  PROVE  dependThreads'[u] = IF Delete(t) THEN dependThreads[u] \ {t} ELSE dependThreads[u]
<1>0. dependThreads \in [Threads -> SUBSET Threads]
  BY DEF DataType, Mon!MonitorTypeOK
<1>1. CASE CheckPasses(t) \/ CheckFails(t)
  BY <1>0, <1>1 DEF CheckPasses, CheckFails, Delete, Mon!addDependency, req, Lock
<1>2. CASE Delete(t)
  BY <1>0, <1>2 DEF Delete, Mon!deleteLock, Lock
<1>3. CASE ~CheckPasses(t) /\ ~CheckFails(t) /\ ~Delete(t)
  BY <1>3 DEF work, Begin, Leave, Push, TryLock, Drain, SpuriousWakeup, MarkGranted,
     Relock, Access, CommitLock, Unlock, Commit, Overrun, Restart, monitorVars
<1> QED
  BY <1>1, <1>2, <1>3

\* Who is releasing changes only at the two ends of a release.
LEMMA ReleasingStep ==
  ASSUME Inv, DataType, QueueInv, NEW t \in Threads, work(t) \/ SpuriousWakeup(t)
  PROVE  /\ \A a \in Threads : a # t => (Releasing(a)' <=> Releasing(a))
         /\ Delete(t) => Releasing(t)'
         /\ ~Delete(t) /\ pc[t] # "finish" => (Releasing(t)' <=> Releasing(t))
         /\ pc[t] = "finish" => Releasing(t) /\ ~Releasing(t)' /\ pc'[t] \in {"loop", "done"}
<1>0. /\ Ctl(t) /\ pc \in [Threads -> PCs] /\ rel \in [Threads -> 1..4]
      /\ having \in [Threads -> 0..3]
  BY DEF Inv, CtlInv, CtlType
<1>1. \A a \in Threads : a # t => (Releasing(a)' <=> Releasing(a))
  BY QueuedOthers DEF Releasing
<1> USE DEF Goto
<1>2. CASE Delete(t)
  <2>1. pc[t] = "delete" /\ pc'[t] = "unlock"
    BY <1>0, <1>2 DEF Delete
  <2> QED
    BY <1>1, <1>2, <2>1 DEF Releasing
<1>3. CASE Unlock(t)
  <2>1. pc[t] = "unlock" /\ pc'[t] \in {"delete", "finish"} /\ rel'[t] > 1
    BY <1>0, <1>3 DEF Unlock
  <2> QED
    BY <1>1, <2>1, <1>3 DEF Releasing, Delete
<1>4. CASE Commit(t) \/ Overrun(t) \/ Restart(t)
  <2>1. pc[t] = "finish" /\ pc'[t] \in {"loop", "done"}
    BY <1>0, <1>4 DEF Commit, Overrun, Restart
  <2> QED
    BY <1>1, <2>1, <1>4 DEF Releasing, Delete
<1>5. CASE CheckFails(t) \/ CommitLock(t)
  <2>1. /\ pc[t] \in {"request", "commit"} /\ pc'[t] \in {"loop", "delete"}
        /\ rel' = rel /\ rel[t] = 1
    BY <1>0, <1>5 DEF CheckFails, CommitLock, Ctl
  <2> QED
    BY <1>1, <2>1, <1>5 DEF Releasing, Delete
<1>6. CASE \/ Begin(t) \/ Leave(t) \/ CheckPasses(t) \/ Push(t) \/ TryLock(t) \/ Drain(t)
           \/ SpuriousWakeup(t) \/ MarkGranted(t) \/ Relock(t) \/ Access(t)
  <2>1. /\ pc[t] \in {"loop", "request", "push", "lock", "relock", "access"}
        /\ pc'[t] \in PCs \ {"delete", "unlock", "finish"}
    BY <1>0, <1>6 DEF Begin, Leave, CheckPasses, Push, TryLock, Drain,
       SpuriousWakeup, MarkGranted, Relock, Access, PCs, localVars
  <2> QED
    BY <1>1, <2>1, <1>6 DEF Releasing, Delete
<1> QED
  BY <1>2, <1>3, <1>4, <1>5, <1>6 DEF work

\* The edges of the others follow the queues.
LEMMA GraphOthers ==
  ASSUME Inv, DataType, QueueInv, QueueInv', GraphInv, NEW t \in Threads,
         work(t) \/ SpuriousWakeup(t), NEW u \in Threads, u # t
  PROVE  Graph(u)'
<1>0. Graph(u)
  BY DEF GraphInv
<1>1. /\ pc'[u] = pc[u] /\ target(u)' = target(u) /\ current(u)' = current(u)
      /\ Releasing(u)' <=> Releasing(u)
  BY QueuedOthers, SameTarget, ReleasingStep
<1>2. dependThreads'[u] = IF Delete(t) THEN dependThreads[u] \ {t} ELSE dependThreads[u]
  BY EdgesOthers
<1>3. ASSUME NEW a \in Threads, a # t \/ ~Delete(t) PROVE Waits(u, a)' <=> Waits(u, a)
  <2>1. \A x \in Records, m \in 1..3, n \in 1..3 :
          InFront(x, a, m, u, n)' <=> InFront(x, a, m, u, n)
    BY <1>3, OrderStep
  <2> QED
    BY <2>1 DEF Waits
<1>4. ASSUME pc[u] \notin {"push", "delete", "unlock", "finish"}, NEW a \in Threads
      PROVE  a \in dependThreads'[u] <=> ~Releasing(a)' /\ Waits(u, a)'
  <2>1. a \in dependThreads[u] <=> ~Releasing(a) /\ Waits(u, a)
    BY <1>0, <1>4 DEF Graph
  <2>2. CASE a # t
    BY <1>2, <1>3, <2>1, <2>2, ReleasingStep
  <2>3. CASE a = t /\ Delete(t)
    BY <1>2, <2>3, ReleasingStep
  <2>4. CASE a = t /\ pc[t] = "finish"
    <3>1. ~Delete(t) /\ t \notin dependThreads'[u]
      BY <1>2, <2>1, <2>4, ReleasingStep DEF Delete
    <3>2. \A m \in 1..3 : ~Queued(t, m)
      BY <2>4, NothingQueued DEF Inv
    <3>3. ~Waits(u, t)
      BY <3>2, OnQueued, FrontOn DEF Waits
    <3> QED
      BY <1>3, <2>4, <3>1, <3>3
  <2>5. CASE a = t /\ ~Delete(t) /\ pc[t] # "finish"
    BY <1>2, <1>3, <2>1, <2>5, ReleasingStep
  <2> QED
    BY <2>2, <2>3, <2>4, <2>5
<1>5. ASSUME pc[u] = "push", NEW a \in Threads
      PROVE  a \in dependThreads'[u] <=> Waits(u, a)' \/ WillWait(u, a)'
  <2>1. PICK y \in Records : y = target(u) /\ y = target(u)'
    BY <1>1, <1>5, TargetDrawn DEF Inv
  <2>2. ~Push(t) /\ ~Delete(t)
    <3>1. global_mutex = u /\ Owner(t)
      BY <1>5 DEF QueueInv, Owner
    <3> QED
      BY <3>1 DEF Owner, Push, Delete
  <2>3. \A m \in 1..3 : On(y, a, m)' <=> On(y, a, m)
    BY <2>2, OrderStays
  <2>4. WillWait(u, a)' <=> WillWait(u, a)
    BY <1>1, <2>1, <2>3 DEF WillWait
  <2>5. a \in dependThreads[u] <=> Waits(u, a) \/ WillWait(u, a)
    BY <1>0, <1>5 DEF Graph
  <2> QED
    BY <1>2, <1>3, <2>2, <2>4, <2>5
<1>6. Releasing(u) => dependThreads'[u] = {}
  BY <1>0, <1>2 DEF Graph
<1> QED
  BY <1>1, <1>4, <1>5, <1>6 DEF Graph

\* The edges of the thread that takes the step.
LEMMA GraphOwn ==
  ASSUME Inv, DataType, QueueInv, GraphInv, NEW t \in Threads,
         work(t) \/ SpuriousWakeup(t)
  PROVE  Graph(t)'
<1>0. /\ Graph(t) /\ dependThreads \in [Threads -> SUBSET Threads]
      /\ Ctl(t) /\ pc \in [Threads -> PCs] /\ rel \in [Threads -> 1..4]
  BY DEF GraphInv, DataType, Mon!MonitorTypeOK, Inv, CtlInv, CtlType
<1> USE DEF Goto
<1>1. ASSUME ~Push(t), ~Delete(t), NEW a \in Threads PROVE Waits(t, a)' <=> Waits(t, a)
  <2>1. \A x \in Records, m \in 1..3, n \in 1..3 :
          InFront(x, a, m, t, n)' <=> InFront(x, a, m, t, n)
    BY <1>1, OrderStays
  <2> QED
    BY <2>1 DEF Waits
<1>2. CASE \/ Begin(t) \/ Leave(t) \/ TryLock(t) \/ Drain(t) \/ SpuriousWakeup(t)
           \/ MarkGranted(t) \/ Relock(t) \/ Access(t)
  <2>1. /\ pc[t] \in {"loop", "lock", "relock", "access"} /\ dependThreads' = dependThreads
        /\ pc'[t] \in PCs \ {"push", "delete", "unlock", "finish"}
    BY <1>0, <1>2 DEF Begin, Leave, TryLock, Drain, SpuriousWakeup, MarkGranted, Relock,
       Access, monitorVars, localVars, PCs
  <2>2. ~Push(t) /\ ~Delete(t) /\ pc[t] # "finish"
    BY <2>1 DEF Push, Delete
  <2>3. \A a \in Threads : (Releasing(a)' <=> Releasing(a)) /\ (Waits(t, a)' <=> Waits(t, a))
    BY <1>1, <2>2, ReleasingStep
  <2> QED
    BY <1>0, <2>1, <2>3 DEF Graph, Releasing
<1>3. CASE CheckPasses(t)
  <2>1. /\ pc[t] = "request" /\ pc'[t] = "push" /\ rec' = rec /\ having' = having
        /\ lock_request' = lock_request /\ Mon!addDependency(target(t), req(t))
        /\ global_mutex = NoThread
    BY <1>0, <1>3 DEF CheckPasses, GlobalLock
  <2>2. PICK y \in Records, c \in 1..3 :
          y = target(t) /\ y = target(t)' /\ c = current(t) /\ c = current(t)'
    BY <2>1, TargetDrawn, SameTarget DEF Inv
  <2>3. dependThreads'[t] = dependThreads[t] \cup Mon!Blockers(lock_request[y], Lock(t, c))
    BY <2>1, <2>2, NewEdges DEF req
  <2>4. \A a \in Threads : a \in Mon!Blockers(lock_request[y], Lock(t, c)) <=> WillWait(t, a)
    BY <2>2, BlockersAre DEF WillWait
  <2>5. \A a \in Threads : WillWait(t, a)' <=> WillWait(t, a)
    BY <2>1, <2>2 DEF WillWait, On
  <2>6. \A a \in Threads : ~Releasing(a)
    BY <2>1, TransactionAssumption DEF QueueInv, Owner, Releasing
  <2>7. \A a \in Threads : a \in dependThreads[t] <=> Waits(t, a)
    BY <1>0, <2>1, <2>6 DEF Graph
  <2>8. \A a \in Threads : Waits(t, a)' <=> Waits(t, a)
    BY <1>1, <2>1 DEF Push, Delete
  <2> QED
    BY <2>1, <2>3, <2>4, <2>5, <2>7, <2>8 DEF Graph, Releasing
<1>4. CASE CheckFails(t) \/ CommitLock(t)
  <2>1. /\ pc[t] \in {"request", "commit"} /\ rel' = rel /\ rel[t] = 1
    BY <1>0, <1>4 DEF CheckFails, CommitLock, Ctl
  <2>2. pc'[t] = "delete"
    BY <1>0, <1>4, FirstCheckPasses DEF CheckFails, CommitLock
  <2> QED
    BY <2>1, <2>2 DEF Graph, Releasing
<1>5. CASE Push(t)
  <2>1. /\ pc[t] = "push" /\ pc'[t] = "lock" /\ dependThreads' = dependThreads
    BY <1>0, <1>5 DEF Push
  <2>2. PICK y \in Records, c \in 1..3 : y = target(t) /\ c = current(t)
    BY <2>1, TargetDrawn DEF Inv
  <2>3. ASSUME NEW a \in Threads PROVE ~Releasing(a)'
    <3>1. CASE a = t
      BY <2>1, <3>1 DEF Releasing
    <3>2. CASE a # t
      <4>1. global_mutex = t /\ Owner(a) /\ (Releasing(a)' <=> Releasing(a))
        BY <2>1, <3>2, ReleasingStep DEF QueueInv, Owner
      <4> QED
        BY <3>2, <4>1 DEF Owner, Releasing
    <3> QED
      BY <3>1, <3>2
  <2>4. ASSUME NEW a \in Threads PROVE Waits(t, a)' <=> Waits(t, a) \/ WillWait(t, a)
    <3>1. \A x \in Records, m \in 1..3, n \in 1..3 :
            InFront(x, a, m, t, n)' <=>
              InFront(x, a, m, t, n) \/ (x = y /\ n = c /\ On(x, a, m))
      BY <1>5, <2>2, PushOrder
    <3>2. WillWait(t, a) <=> \E m \in 1..3 : On(y, a, m) /\ Clash(m, c)
      BY <2>2 DEF WillWait
    <3> QED
      BY <3>1, <3>2 DEF Waits
  <2>5. \A a \in Threads : a \in dependThreads[t] <=> Waits(t, a) \/ WillWait(t, a)
    BY <1>0, <2>1 DEF Graph
  <2> QED
    BY <2>1, <2>3, <2>4, <2>5 DEF Graph, Releasing
<1>6. CASE Delete(t)
  <2>1. pc'[t] = "unlock" /\ dependThreads'[t] = {}
    BY <1>0, <1>6 DEF Delete, Mon!deleteLock, Lock
  <2> QED
    BY <2>1 DEF Graph
<1>7. CASE Unlock(t)
  <2>1. /\ pc[t] = "unlock" /\ dependThreads' = dependThreads
        /\ pc'[t] \in {"delete", "finish"}
    BY <1>0, <1>7 DEF Unlock, monitorVars
  <2> QED
    BY <1>0, <2>1 DEF Graph, Releasing
<1>8. CASE Commit(t) \/ Overrun(t) \/ Restart(t)
  <2>1. /\ pc[t] = "finish" /\ dependThreads' = dependThreads /\ pc'[t] \in {"loop", "done"}
    BY <1>0, <1>8 DEF Commit, Overrun, Restart, monitorVars
  <2>2. dependThreads'[t] = {}
    BY <1>0, <2>1 DEF Graph, Releasing
  <2>3. \A m \in 1..3 : ~Queued(t, m)
    BY <2>1, NothingQueued DEF Inv
  <2>4. \A a \in Threads : ~Waits(t, a)
    BY <2>3, OnQueued, FrontOn DEF Waits
  <2>5. \A a \in Threads : ~Waits(t, a)'
    BY <1>1, <2>1, <2>4 DEF Push, Delete
  <2> QED
    BY <2>1, <2>2, <2>5 DEF Graph, Releasing
<1> QED
  BY <1>2, <1>3, <1>4, <1>5, <1>6, <1>7, <1>8 DEF work

-----------------------------------------------------------------------------
\* The invariant holds at the start.
LEMMA GraphInit == Init => GraphInv
<1> SUFFICES ASSUME Init, NEW u \in Threads PROVE Graph(u)
  BY DEF GraphInv
<1>1. \A a \in Threads : ~Waits(u, a)
  BY DEF Init, Mon!MonitorInit, Waits, InFront
<1> QED
  BY <1>1 DEF Init, Mon!MonitorInit, Graph, Releasing

\* And is kept by every step.
LEMMA GraphNext ==
  ASSUME Inv, DataType, QueueInv, QueueInv', GraphInv, [Next]_vars
  PROVE  GraphInv'
<1>1. CASE UNCHANGED vars
  <2>1. UNCHANGED <<lock_request, dependThreads, pc, rec, having, rel>>
    BY <1>1 DEF vars, monitorVars, localVars
  <2>2. ASSUME NEW u \in Threads PROVE Graph(u)'
    <3>1. \A a \in Threads : /\ Releasing(a)' <=> Releasing(a)
                             /\ Waits(u, a)' <=> Waits(u, a)
                             /\ WillWait(u, a)' <=> WillWait(u, a)
      BY <2>1 DEF Releasing, Waits, WillWait, InFront, On, target, current
    <3>2. Graph(u)
      BY DEF GraphInv
    <3> QED
      BY <2>1, <3>1, <3>2 DEF Graph
  <2> QED
    BY <2>2 DEF GraphInv
<1>2. ASSUME NEW t \in Threads, work(t) \/ SpuriousWakeup(t) PROVE GraphInv'
  BY <1>2, GraphOthers, GraphOwn DEF GraphInv
<1> QED
  BY <1>1, <1>2 DEF Next, Joined

\* Whenever global_mutex is free nobody is releasing, and the graph is exact.
LEMMA GraphExact == Inv /\ DataType /\ QueueInv /\ GraphInv => WaitGraphExact
<1> SUFFICES ASSUME Inv, DataType, QueueInv, GraphInv, global_mutex = NoThread,
                    NEW u \in Threads
             PROVE  dependThreads[u] = UNION {AheadOf(u, n) : n \in Requested(u)}
  BY DEF WaitGraphExact
<1>1. \A a \in Threads : ~Releasing(a) /\ pc[a] \notin {"push", "delete", "unlock", "finish"}
  BY TransactionAssumption DEF QueueInv, Owner, Releasing
<1>2. dependThreads[u] \subseteq Threads
  BY DEF DataType, Mon!MonitorTypeOK
<1>3. \A a \in Threads : a \in dependThreads[u] <=> Waits(u, a)
  BY <1>1 DEF GraphInv, Graph
<1>4. \A n \in 1..3 : Queued(u, n) <=> n \in Requested(u)
  <2>1. /\ Ctl(u) /\ having[u] \in 0..3 /\ rel[u] \in 1..4 /\ pc[u] \in PCs
    BY DEF Inv, CtlInv, CtlType
  <2>2. rel[u] = 1
    BY <1>1, <2>1 DEF Ctl, PCs
  <2> QED
    BY <1>1, <2>1, <2>2 DEF Queued, Requested, current
<1>5. Requested(u) \subseteq 1..3
  <2>1. /\ Ctl(u) /\ having[u] \in 0..3
    BY DEF Inv, CtlInv, CtlType
  <2>2. pc[u] \in {"lock", "relock"} => having[u] \in 0..2
    BY <2>1 DEF Ctl
  <2> QED
    BY <2>1, <2>2 DEF Requested, current
<1>6. ASSUME NEW n \in Requested(u)
      PROVE  rec[u][n] \in Records /\ On(rec[u][n], u, n)
  BY <1>4, <1>5, QueuedDrawn DEF Inv, QueueInv, Entered, On
<1>7. ASSUME NEW n \in Requested(u) PROVE AheadOf(u, n) \subseteq Threads
  <2>1. PICK y \in Records : y = rec[u][n]
    BY <1>6
  <2>2. \A p \in DOMAIN lock_request[y] : lock_request[y][p].tid \in Threads
    BY Entry
  <2>3. Mon!Before(lock_request[y], Lock(u, n)) \subseteq DOMAIN lock_request[y]
    BY DEF Mon!Before
  <2> QED
    BY <2>1, <2>2, <2>3 DEF AheadOf
<1>8. ASSUME NEW a \in Threads
      PROVE  Waits(u, a) <=> \E n \in Requested(u) : a \in AheadOf(u, n)
  <2>1. ASSUME NEW x \in Records, NEW m \in 1..3, NEW n \in 1..3,
               InFront(x, a, m, u, n), Clash(m, n)
        PROVE  n \in Requested(u) /\ a \in AheadOf(u, n)
    <3>1. On(x, u, n)
      BY <2>1, FrontOn
    <3>2. Queued(u, n) /\ rec[u][n] = x
      BY <3>1, OnQueued
    <3> QED
      BY <1>4, <2>1, <3>1, <3>2, AheadIs
  <2>2. ASSUME NEW n \in Requested(u), a \in AheadOf(u, n) PROVE Waits(u, a)
    <3>1. PICK y \in Records, l \in 1..3 : y = rec[u][l] /\ l = n /\ On(y, u, l)
      BY <1>5, <1>6
    <3> QED
      BY <2>2, <3>1, AheadIs DEF Waits
  <2> QED
    BY <2>1, <2>2 DEF Waits
<1>9. \A a : a \in UNION {AheadOf(u, n) : n \in Requested(u)} <=>
               \E n \in Requested(u) : a \in AheadOf(u, n)
  OBVIOUS
<1> QED
  BY <1>2, <1>3, <1>7, <1>8, <1>9

\* Whenever deadlock_check can start, dependThreads is the waits-for graph of the queues,
\* whatever the races with checkQueue and getLock do (monitor.cpp:46-54, 72-80).
THEOREM WaitGraphTheorem == Spec => []WaitGraphExact
<1>1. Inv /\ DataType /\ QueueInv /\ QueueInv' /\ GraphInv /\ [Next]_vars => GraphInv'
  BY GraphNext
<1>2. Spec => []GraphInv
  BY GraphInit, <1>1, QueueInvariant, PTL DEF Spec
<1> QED
  BY <1>2, QueueInvariant, GraphExact, PTL

-----------------------------------------------------------------------------
(* Wake-ups.                                                               *)

Asleep == {"sleepS", "sleepX"}
Busy(x) == writing[x] \/ numReader[x] > 0

\* A record somebody holds is busy.
LEMMA HeldBusy ==
  ASSUME Inv, NEW t \in Threads, NEW x \in Records, lk[t][x] \in {"shared", "exclusive"}
  PROVE  Busy(x)
<1>1. RWP!LockInv(x) /\ numReader[x] \in Nat
  BY DEF Inv, RWP!RWInv, RWP!RWTypeOK
<1>2. CASE lk[t][x] = "exclusive"
  BY <1>1, <1>2 DEF RWP!LockInv, RWP!Claimed, Busy
<1>3. CASE lk[t][x] = "shared"
  <2>1. t \in RWP!Sharers(x) /\ IsFiniteSet(RWP!Sharers(x))
    BY <1>3, TransactionAssumption, FS_Subset DEF RWP!Sharers
  <2>2. Cardinality(RWP!Sharers(x)) # 0
    BY <2>1, FS_EmptySet
  <2>3. numReader[x] # 0
    BY <1>1, <2>2 DEF RWP!LockInv, RWP!Cardinality, Cardinality
  <2> QED
    BY <1>1, <2>3 DEF Busy
<1> QED
  BY <1>2, <1>3

\* A step at a lock leaves a busy record busy, or leaves nobody asleep there.
LEMMA BusyStep ==
  ASSUME Inv, NEW t \in Threads, AtLock(t), NEW u \in Threads, u # t, NEW x \in Records,
         Busy(x), lk'[u][x] \in Asleep
  PROVE  Busy(x)'
<1>0. /\ numReader \in [Records -> Nat] /\ writing \in [Records -> BOOLEAN]
      /\ lk \in [Threads -> [Records -> RWP!Phases]]
  BY DEF Inv, RWP!RWInv, RWP!RWTypeOK
<1>1. CASE Push(t) \/ Drain(t) \/ SpuriousWakeup(t)
  <2>1. UNCHANGED <<numReader, writing>>
    BY <1>1 DEF Push, Drain, SpuriousWakeup, RW!callShared, RW!callExclusive,
       RW!drainReaders, RW!spuriousWakeup
  <2> QED
    BY <2>1 DEF Busy
<1>2. CASE TryLock(t)
  <2>1. PICK y \in Records, turn \in BOOLEAN :
          RW!lockShared(t, y, turn) \/ RW!lockExclusive(t, y, turn)
    BY <1>2, TurnsBoolean, TargetDrawn DEF TryLock, Inv
  <2>2. /\ numReader' = numReader \/ numReader' = [numReader EXCEPT ![y] = @ + 1]
        /\ writing' = writing \/ writing' = [writing EXCEPT ![y] = TRUE]
    BY <2>1 DEF RW!lockShared, RW!lockExclusive
  <2>3. numReader'[x] >= numReader[x] /\ (writing[x] => writing'[x])
    BY <1>0, <2>2
  <2> QED
    BY <1>0, <2>2, <2>3 DEF Busy
<1>3. CASE Unlock(t)
  <2>1. PICK y \in Records : RW!unlockShared(t, y) \/ RW!unlockExclusive(t, y)
    <3>1. rel[t] \in 1..3 /\ Drawn(t)
      BY <1>3 DEF Unlock, Inv, CtlInv, CtlType, Ctl
    <3> QED
      BY <1>3, <3>1 DEF Unlock, Drawn
  <2>2. RW!notifyWriter(t, x) => lk'[u][x] \notin Asleep
    BY <1>0 DEF RW!notifyWriter, Asleep
  <2>3. CASE y = x
    <3>1. writing[x] /\ writing' = writing
      BY <2>1, <2>2, <2>3 DEF RW!unlockShared, RW!unlockExclusive
    <3> QED
      BY <3>1 DEF Busy
  <2>4. CASE y # x
    <3>1. numReader'[x] = numReader[x] /\ writing'[x] = writing[x]
      BY <1>0, <2>1, <2>4 DEF RW!unlockShared, RW!unlockExclusive
    <3> QED
      BY <3>1 DEF Busy
  <2> QED
    BY <2>3, <2>4
<1> QED
  BY <1>1, <1>2, <1>3 DEF AtLock

\* A request that joins behind does not bring on a turn.
LEMMA TurnBehind ==
  ASSUME NEW q \in Seq(Mon!LockInfo), NEW r \in Mon!LockInfo, NEW l,
         Mon!checkQueue(Append(q, r), l)
  PROVE  Mon!checkQueue(q, l)
<1> SUFFICES ASSUME NEW p \in Mon!Before(q, l)
             PROVE  q[p].type = "R" /\ (l.type # "R" => q[p].getLock)
  BY DEF Mon!checkQueue
<1>1. p \in DOMAIN q /\ \A m \in 1..p : ~Mon!Same(q[m], l)
  BY DEF Mon!Before
<1>2. /\ p \in DOMAIN Append(q, r) /\ Append(q, r)[p] = q[p]
      /\ \A m \in 1..p : Append(q, r)[m] = q[m]
  BY <1>1, AppendQueue
<1>3. p \in Mon!Before(Append(q, r), l)
  BY <1>1, <1>2 DEF Mon!Before
<1> QED
  BY <1>2, <1>3 DEF Mon!checkQueue

\* A step of t brings on the turn of another thread only at a record t holds.
LEMMA TurnComes ==
  ASSUME Inv, DataType, NEW t \in Threads, work(t) \/ SpuriousWakeup(t),
         NEW x \in Records, NEW l, Mon!checkQueue(lock_request'[x], l)
  PROVE  \/ Mon!checkQueue(lock_request[x], l)
         \/ lk[t][x] \in {"shared", "exclusive"} /\ Quiet(t)
<1>0. lock_request \in [Records -> Seq(Mon!LockInfo)]
  BY DEF DataType, Mon!MonitorTypeOK
<1>1. CASE Push(t)
  <2>1. PICK y \in Records, r \in Mon!LockInfo :
          lock_request' = [lock_request EXCEPT ![y] = Append(@, r)]
    BY <1>1, TargetDrawn, LockInfoType DEF Push, Mon!pushRequest, Inv, req
  <2>2. lock_request'[x] = lock_request[x] \/ lock_request'[x] = Append(lock_request[x], r)
    BY <1>0, <2>1
  <2> QED
    BY <1>0, <2>2, TurnBehind
<1>2. CASE Delete(t)
  <2>1. rel[t] \in 1..3 /\ Holds(t, rel[t]) /\ Placed(t)
    BY <1>2 DEF Delete, Inv, CtlInv, CtlType, Ctl, Holds
  <2>2. CASE x = rec[t][rel[t]]
    BY <1>2, <2>1, <2>2 DEF Placed, Mode, Quiet
  <2>3. CASE x # rec[t][rel[t]]
    BY <1>0, <1>2, <2>3 DEF Delete, Mon!deleteLock
  <2> QED
    BY <2>2, <2>3
<1>3. CASE MarkGranted(t)
  <2>1. CASE x = target(t)
    BY <1>3, <2>1 DEF MarkGranted, Quiet
  <2>2. CASE x # target(t)
    BY <1>0, <1>3, <2>2 DEF MarkGranted, Mon!markGranted
  <2> QED
    BY <2>1, <2>2
<1>4. CASE ~Push(t) /\ ~Delete(t) /\ ~MarkGranted(t)
  BY <1>4 DEF work, Begin, Leave, CheckPasses, CheckFails, TryLock, Drain, SpuriousWakeup,
     Relock, Access, CommitLock, Unlock, Commit, Overrun, Restart, monitorVars
<1> QED
  BY <1>1, <1>2, <1>3, <1>4

\* Nobody that reads its queue right falls asleep on its turn.
LEMMA AsleepNoTurn ==
  ASSUME Inv, NEW t \in Threads, work(t) \/ SpuriousWakeup(t), t \notin misled',
         pc'[t] = "lock",
         lk'[t][target(t)'] \in Asleep
  PROVE  ~Mon!checkQueue(lock_request'[target(t)'], req(t)')
<1>0. pc \in [Threads -> PCs] /\ lk \in [Threads -> [Records -> RWP!Phases]]
  BY DEF Inv, CtlInv, CtlType, RWP!RWInv, RWP!RWTypeOK
<1>1. Push(t) \/ TryLock(t) \/ Drain(t) \/ SpuriousWakeup(t)
  BY <1>0 DEF work, Begin, Leave, CheckPasses, CheckFails, MarkGranted, Relock,
     Access, CommitLock, Delete, Unlock, Commit, Overrun, Restart, Goto
<1>2. rec' = rec /\ having' = having /\ pc[t] \in {"push", "lock"}
  BY <1>1 DEF Push, TryLock, Drain, SpuriousWakeup, localVars
<1>3. PICK y, r : /\ y \in Records /\ y = target(t) /\ y = target(t)'
                  /\ r = req(t) /\ r = req(t)'
  BY <1>2, TargetDrawn, SameTarget DEF Inv, req
<1>4. lk'[t][y] \in Asleep
  BY <1>3
<1>5. CASE TryLock(t)
  <2>1. lock_request' = lock_request
    BY <1>5 DEF TryLock, monitorVars
  <2>2. PICK turn : /\ turn = Mon!checkQueue(lock_request[y], r)
                    /\ RW!lockShared(t, y, turn) \/ RW!lockExclusive(t, y, turn)
    BY <1>3, <1>5 DEF TryLock, Turn
  <2>3. ~turn
    BY <1>0, <1>3, <1>4, <2>2 DEF RW!lockShared, RW!lockExclusive, RW!At, Asleep
  <2> QED
    BY <1>3, <2>1, <2>2, <2>3
<1>6. CASE Push(t) \/ Drain(t) \/ SpuriousWakeup(t)
  <2>1. \/ RW!callShared(t, y) \/ RW!callExclusive(t, y)
        \/ RW!drainReaders(t, y) \/ RW!spuriousWakeup(t, y)
    BY <1>3, <1>6 DEF Push, Drain, SpuriousWakeup
  <2>2. lk'[t][y] \notin Asleep
    BY <1>0, <1>3, <2>1 DEF RW!callShared, RW!callExclusive, RW!drainReaders, RW!spuriousWakeup,
       RW!At, Asleep
  <2> QED
    BY <1>4, <2>2
<1> QED
  BY <1>1, <1>5, <1>6

\* Nobody is misled by a step of another thread.
LEMMA MisledOthers ==
  ASSUME NEW t \in Threads, work(t) \/ SpuriousWakeup(t), NEW u \in Threads, u # t
  PROVE  u \in misled' <=> u \in misled
<1>1. CASE TryLock(t)
  <2>1. misled' = misled \cup {t} \/ misled' = misled \ {t}
    BY <1>1 DEF TryLock
  <2> QED
    BY <2>1
<1>2. CASE ~TryLock(t)
  BY <1>2 DEF work, Begin, Leave, CheckPasses, CheckFails, Push, Drain, SpuriousWakeup,
     MarkGranted, Relock, Access, CommitLock, Delete, Unlock, Commit, Overrun, Restart
<1> QED
  BY <1>1, <1>2

\* A sleeper whose turn has come at a free record has itself misread its queue: in all other
\* cases somebody still holds the record and will notify it (rwlock.h:23, 31-40, 53-68).
THEOREM WakeupTheorem == Spec => []NoLostWakeup
<1>1. Init => NoLostWakeup
  BY DEF Init, NoLostWakeup, Overlooked
<1>2. Inv /\ DataType /\ NoLostWakeup /\ [Next]_vars => NoLostWakeup'
  <2> SUFFICES ASSUME Inv, DataType, NoLostWakeup, [Next]_vars PROVE NoLostWakeup'
    OBVIOUS
  <2>0. numReader \in [Records -> Nat]
    BY DEF Inv, RWP!RWInv, RWP!RWTypeOK
  <2>1. CASE UNCHANGED vars
    BY <2>1 DEF vars, rwVars, monitorVars, localVars, NoLostWakeup, Overlooked, Turn, target,
       req, current
  <2>2. ASSUME NEW t \in Threads, work(t) \/ SpuriousWakeup(t) PROVE NoLostWakeup'
    <3> SUFFICES ASSUME NEW u \in Threads, u \notin misled', Overlooked(u)' PROVE FALSE
      BY DEF NoLostWakeup
    <3>0. /\ pc'[u] = "lock" /\ lk'[u][target(u)'] \in Asleep
          /\ Mon!checkQueue(lock_request'[target(u)'], req(u)')
          /\ ~Busy(target(u))'
      BY DEF Overlooked, Turn, Busy, Asleep
    <3>1. u # t
      BY <2>2, <3>0, AsleepNoTurn
    <3>2. /\ pc[u] = "lock" /\ target(u)' = target(u) /\ req(u)' = req(u)
          /\ u \notin misled
      BY <2>2, <3>0, <3>1, QueuedOthers, SameTarget, MisledOthers DEF req
    <3>3. PICK y, r : y \in Records /\ y = target(u) /\ r = req(u)
      BY <3>2, TargetDrawn DEF Inv
    <3>4. lk[u][y] \in Asleep
      BY <2>2, <3>0, <3>1, <3>2, <3>3, OthersWoken DEF RWP!Woken, Asleep
    <3>5. \/ Mon!checkQueue(lock_request[y], r)
          \/ lk[t][y] \in {"shared", "exclusive"} /\ Quiet(t)
      BY <2>2, <3>0, <3>2, <3>3, TurnComes
    <3>6. Busy(y)
      <4>1. CASE Mon!checkQueue(lock_request[y], r)
        <5>1. ~(~writing[y] /\ numReader[y] = 0)
          BY <3>2, <3>3, <3>4, <4>1 DEF NoLostWakeup, Overlooked, Turn, Asleep
        <5> QED
          BY <2>0, <3>3, <5>1 DEF Busy
      <4>2. CASE lk[t][y] \in {"shared", "exclusive"}
        BY <2>2, <3>3, <4>2, HeldBusy
      <4> QED
        BY <3>5, <4>1, <4>2
    <3>7. Busy(y)'
      <4>1. CASE Quiet(t)
        BY <3>6, <4>1, QuietPlaced DEF rwVars, Busy
      <4>2. CASE AtLock(t)
        BY <3>0, <3>1, <3>2, <3>3, <3>6, <4>2, BusyStep
      <4> QED
        BY <2>2, <4>1, <4>2, StepKinds
    <3> QED
      BY <3>0, <3>2, <3>3, <3>7
  <2> QED
    BY <2>1, <2>2 DEF Next, Joined
<1> QED
  BY <1>1, <1>2, QueueInvariant, PTL DEF Spec
=============================================================================
