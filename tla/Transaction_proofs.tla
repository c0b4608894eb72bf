-------------------------- MODULE Transaction_proofs --------------------------
(***************************************************************************)
(* Proofs about Transaction, for any number of threads, records and        *)
(* commits, with and without racy reads of the request queues:             *)
(*                                                                         *)
(*   - the threads are proper clients of the records' locks, so what is    *)
(*     proved of RWLock holds in the program (LockProtocol);               *)
(*   - locking is strict and two-phase (TwoPhaseLocking).                  *)
(*                                                                         *)
(* Neither is inductive.  The inductive invariant adds, for every thread,  *)
(* how pc, having and rel move together (Ctl), and that its places at the  *)
(* locks are exactly those of its havingLocks and of the one request it is *)
(* working on (Placed).                                                    *)
(***************************************************************************)
EXTENDS Transaction, FiniteSetTheorems, TLAPS

RWP == INSTANCE RWLock_proofs

-----------------------------------------------------------------------------
(* RWLock and RWLock_proofs speak of the same operations.                  *)

\* The two instances start alike.
LEMMA SameInit == RW!RWInit => RWP!RWInit
BY DEF RW!RWInit, RWP!RWInit

\* Operation by operation.
LEMMA SameOps ==
  ASSUME NEW t \in Threads, NEW x \in Records
  PROVE  /\ RW!callShared(t, x) = RWP!callShared(t, x)
         /\ RW!callExclusive(t, x) = RWP!callExclusive(t, x)
         /\ \A turn \in BOOLEAN :
              RW!lockShared(t, x, turn) = RWP!lockShared(t, x, turn)
         /\ \A turn \in BOOLEAN :
              RW!lockExclusive(t, x, turn) = RWP!lockExclusive(t, x, turn)
         /\ RW!drainReaders(t, x) = RWP!drainReaders(t, x)
         /\ RW!spuriousWakeup(t, x) = RWP!spuriousWakeup(t, x)
         /\ RW!unlockExclusive(t, x) = RWP!unlockExclusive(t, x)
         /\ RW!unlockShared(t, x) = RWP!unlockShared(t, x)
<1> USE DEF RW!At, RWP!At
<1>0. RW!MtxFree(x) = RWP!MtxFree(x)
  BY DEF RW!MtxFree, RWP!MtxFree, RW!Spinning, RWP!Spinning
<1>1. RW!callShared(t, x) = RWP!callShared(t, x)
  BY DEF RW!callShared, RWP!callShared
<1>2. RW!callExclusive(t, x) = RWP!callExclusive(t, x)
  BY DEF RW!callExclusive, RWP!callExclusive
<1>3. \A turn \in BOOLEAN : RW!lockShared(t, x, turn) = RWP!lockShared(t, x, turn)
  BY <1>0 DEF RW!lockShared, RWP!lockShared
<1>4. \A turn \in BOOLEAN :
        RW!lockExclusive(t, x, turn) = RWP!lockExclusive(t, x, turn)
  BY <1>0 DEF RW!lockExclusive, RWP!lockExclusive
<1>5. RW!drainReaders(t, x) = RWP!drainReaders(t, x)
  BY <1>0 DEF RW!drainReaders, RWP!drainReaders
<1>6. RW!spuriousWakeup(t, x) = RWP!spuriousWakeup(t, x)
  BY DEF RW!spuriousWakeup, RWP!spuriousWakeup
<1>7. RW!unlockExclusive(t, x) = RWP!unlockExclusive(t, x)
  BY <1>0 DEF RW!unlockExclusive, RWP!unlockExclusive,
              RW!notifyWriter, RWP!notifyWriter
<1>8. RW!unlockShared(t, x) = RWP!unlockShared(t, x)
  BY <1>0 DEF RW!unlockShared, RWP!unlockShared, RW!notifyWriter,
              RWP!notifyWriter, RW!notifyReader, RWP!notifyReader
<1> QED
  BY <1>1, <1>2, <1>3, <1>4, <1>5, <1>6, <1>7, <1>8

\* A step of a lock is the same step in both instances.
LEMMA SameStep == RW!RWNext => RWP!RWNext
BY SameOps DEF RW!RWNext, RWP!RWNext

\* So RWLock's invariant is preserved by the steps Transaction takes there.
LEMMA LocksInv == RWP!RWInv /\ [RW!RWNext]_rwVars => RWP!RWInv'
<1>1. [RW!RWNext]_rwVars => [RWP!RWNext]_(RWP!rwVars)
  BY SameStep DEF rwVars, RWP!rwVars
<1> QED
  BY <1>1, RWP!NextInv, TransactionAssumption DEF IsFiniteSet, RWP!IsFiniteSet

\* What the operations do to the places of the threads.
LEMMA LockFrames ==
  ASSUME NEW t \in Threads, NEW x \in Records, RWP!RWTypeOK
  PROVE  /\ RW!callShared(t, x) => RWP!Frame(t, x) /\ lk'[t][x] = "enterS"
         /\ RW!callExclusive(t, x) => RWP!Frame(t, x) /\ lk'[t][x] = "enterX"
         /\ \A turn \in BOOLEAN : RW!lockShared(t, x, turn) =>
              RWP!Frame(t, x) /\ lk'[t][x] \in {"sleepS", "spinS", "shared"}
         /\ \A turn \in BOOLEAN : RW!lockExclusive(t, x, turn) =>
              RWP!Frame(t, x) /\ lk'[t][x] \in {"sleepX", "spinX", "sleepR", "exclusive"}
         /\ RW!drainReaders(t, x) =>
              RWP!Frame(t, x) /\ lk'[t][x] \in {"sleepR", "exclusive"}
         /\ RW!spuriousWakeup(t, x) =>
              RWP!Frame(t, x) /\ RWP!Woken(lk[t][x], lk'[t][x])
         /\ RW!unlockExclusive(t, x) \/ RW!unlockShared(t, x) =>
              RWP!Frame(t, x) /\ lk'[t][x] = "none"
<1>1. RWP!IsFiniteSet(Threads)
  BY TransactionAssumption DEF IsFiniteSet, RWP!IsFiniteSet
<1>2. /\ RWP!callShared(t, x) => RWP!Frame(t, x) /\ lk'[t][x] = "enterS"
      /\ RWP!callExclusive(t, x) => RWP!Frame(t, x) /\ lk'[t][x] = "enterX"
      /\ \A turn \in BOOLEAN : RWP!lockShared(t, x, turn) =>
           RWP!Frame(t, x) /\ lk'[t][x] \in {"sleepS", "spinS", "shared"}
      /\ \A turn \in BOOLEAN : RWP!lockExclusive(t, x, turn) =>
           RWP!Frame(t, x) /\ lk'[t][x] \in {"sleepX", "spinX", "sleepR", "exclusive"}
      /\ RWP!drainReaders(t, x) =>
           RWP!Frame(t, x) /\ lk'[t][x] \in {"sleepR", "exclusive"}
      /\ RWP!spuriousWakeup(t, x) =>
           RWP!Frame(t, x) /\ RWP!Woken(lk[t][x], lk'[t][x])
  BY <1>1, RWP!LockFrame
<1>3. RWP!unlockExclusive(t, x) \/ RWP!unlockShared(t, x) =>
        RWP!Frame(t, x) /\ lk'[t][x] = "none"
  BY <1>1, RWP!UnlockFrame
<1> QED
  BY <1>2, <1>3, SameOps

-----------------------------------------------------------------------------
(* The invariant.                                                          *)

CtlType ==
  /\ pc \in [Threads -> PCs]
  /\ rec \in [Threads -> [1..3 -> Records \cup {NoRecord}]]
  /\ having \in [Threads -> 0..3]
  /\ rel \in [Threads -> 1..4]

\* The three records of a transaction are there and are different.
Drawn(t) ==
  /\ \A n \in 1..3 : rec[t][n] \in Records
  /\ \A m, n \in 1..3 : rec[t][m] = rec[t][n] => m = n

Ctl(t) ==
  /\ pc[t] \notin {"loop", "done"} => Drawn(t)
  /\ pc[t] \in {"loop", "done"} => having[t] = 0 /\ rel[t] = 1
  /\ pc[t] \in {"request", "push", "lock", "relock"} =>
       having[t] \in 0..2 /\ rel[t] = 1
  /\ pc[t] = "access" => having[t] \in 1..3 /\ rel[t] = 1
  /\ pc[t] = "commit" => having[t] = 3 /\ rel[t] = 1
  /\ pc[t] \in {"delete", "unlock"} => having[t] \in 1..3 /\ rel[t] \in 1..having[t]
  /\ pc[t] = "finish" => having[t] \in 1..3 /\ rel[t] = having[t] + 1

CtlInv == CtlType /\ \A t \in Threads : Ctl(t)

Mode(n) == IF n = 1 THEN "shared" ELSE "exclusive"

\* The places of a thread that has called the lock for its request n.
Inside(n) ==
  IF n = 1 THEN {"enterS", "sleepS", "spinS", "shared"}
  ELSE {"enterX", "sleepX", "spinX", "sleepR", "drain", "exclusive"}

Placed(t) ==
  /\ \A n \in 1..3 : Holds(t, n) => lk[t][rec[t][n]] = Mode(n)
  /\ pc[t] = "lock" => lk[t][target(t)] \in Inside(current(t))
  /\ pc[t] = "relock" => lk[t][target(t)] = Mode(current(t))
  /\ \A x \in Records : lk[t][x] # "none" =>
       \/ \E n \in 1..3 : Holds(t, n) /\ rec[t][n] = x
       \/ pc[t] \in {"lock", "relock"} /\ target(t) = x

Inv == RWP!RWInv /\ CtlInv /\ \A t \in Threads : Placed(t)

-----------------------------------------------------------------------------
(* The control of a thread.                                                *)

\* The steps that do not touch the locks, and the steps that do.
Quiet(t) ==
  \/ Begin(t) \/ Leave(t) \/ CheckPasses(t) \/ CheckFails(t)
  \/ MarkGranted(t) \/ Relock(t) \/ Access(t) \/ CommitLock(t) \/ Delete(t)
  \/ Commit(t) \/ Overrun(t) \/ Restart(t)
AtLock(t) == Push(t) \/ TryLock(t) \/ Drain(t) \/ SpuriousWakeup(t) \/ Unlock(t)

\* Every step of a thread is of one of the two kinds.
LEMMA StepKinds ==
  \A t \in Threads : work(t) \/ SpuriousWakeup(t) <=> Quiet(t) \/ AtLock(t)
BY DEF work, Quiet, AtLock

\* At the loop head nothing is drawn, held or released.
LEMMA CtlInit == Init => CtlInv
BY DEF Init, CtlInv, CtlType, Ctl, PCs, Undrawn

\* A step leaves the control of the other threads alone.
LEMMA OthersCtl ==
  ASSUME NEW t \in Threads, CtlInv, work(t) \/ SpuriousWakeup(t),
         NEW u \in Threads, u # t
  PROVE  /\ pc'[u] = pc[u] /\ rec'[u] = rec[u]
         /\ having'[u] = having[u] /\ rel'[u] = rel[u]
<1> USE DEF CtlInv, CtlType, Goto, Forget
<1>1. CASE Begin(t) \/ Leave(t) \/ CheckPasses(t) \/ CheckFails(t) \/ Push(t)
  BY <1>1 DEF Begin, Leave, CheckPasses, CheckFails, Push
<1>2. CASE TryLock(t) \/ Drain(t) \/ SpuriousWakeup(t)
  BY <1>2 DEF TryLock, Drain, SpuriousWakeup, localVars
<1>3. CASE MarkGranted(t) \/ Relock(t) \/ Access(t) \/ CommitLock(t)
  BY <1>3 DEF MarkGranted, Relock, Access, CommitLock
<1>4. CASE Delete(t) \/ Unlock(t)
  BY <1>4 DEF Delete, Unlock
<1>5. CASE Commit(t) \/ Overrun(t) \/ Restart(t)
  BY <1>5 DEF Commit, Overrun, Restart
<1> QED
  BY <1>1, <1>2, <1>3, <1>4, <1>5 DEF work

\* A step of t keeps t's own pc, having and rel in step.
LEMMA OwnCtl ==
  ASSUME NEW t \in Threads, CtlInv, work(t) \/ SpuriousWakeup(t)
  PROVE  CtlType' /\ Ctl(t)'
<1> USE DEF CtlInv, CtlType, Goto, PCs
<1>a. Ctl(t) /\ having[t] \in 0..3 /\ rel[t] \in 1..4
  OBVIOUS
<1>1. CASE Begin(t)
  <2> PICK i \in Records, j \in Records, k \in Records :
        /\ i # j /\ j # k /\ i # k
        /\ rec' = [rec EXCEPT ![t] = <<i, j, k>>]
    BY <1>1 DEF Begin
  <2>1. <<i, j, k>> \in [1..3 -> Records \cup {NoRecord}]
    OBVIOUS
  <2>2. CtlType'
    BY <1>1, <2>1 DEF Begin
  <2>3. rec'[t] = <<i, j, k>>
    OBVIOUS
  <2>4. Drawn(t)'
    BY <2>3 DEF Drawn
  <2>5. pc'[t] = "request" /\ having'[t] = 0 /\ rel'[t] = 1
    BY <1>1, <1>a DEF Begin, Ctl
  <2> QED
    BY <2>2, <2>4, <2>5 DEF Ctl
<1>2. CASE Leave(t) \/ CheckPasses(t) \/ Push(t) \/ CommitLock(t) \/ Delete(t)
  <2>1. CtlType' /\ UNCHANGED <<rec, having, rel>>
    BY <1>2 DEF Leave, CheckPasses, Push, CommitLock, Delete
  <2>2. \/ pc[t] = "loop" /\ pc'[t] = "done"
        \/ pc[t] = "request" /\ pc'[t] = "push"
        \/ pc[t] = "push" /\ pc'[t] = "lock"
        \/ pc[t] = "commit" /\ pc'[t] = "delete"
        \/ pc[t] = "delete" /\ pc'[t] = "unlock"
    BY <1>2 DEF Leave, CheckPasses, Push, CommitLock, Delete
  <2> QED
    BY <1>a, <2>1, <2>2 DEF Ctl, Drawn
<1>3. CASE CheckFails(t)
  <2>1. CtlType' /\ UNCHANGED <<rec, having, rel>>
    BY <1>3 DEF CheckFails
  <2>2. pc[t] = "request" /\ pc'[t] = IF having[t] = 0 THEN "loop" ELSE "delete"
    BY <1>3 DEF CheckFails
  <2> QED
    BY <1>a, <2>1, <2>2 DEF Ctl, Drawn
<1>4. CASE TryLock(t) \/ Drain(t) \/ SpuriousWakeup(t)
  BY <1>4, <1>a DEF TryLock, Drain, SpuriousWakeup, localVars, Ctl, Drawn
<1>5. CASE MarkGranted(t) \/ Relock(t)
  <2>1. CASE /\ having' = [having EXCEPT ![t] = @ + 1]
             /\ pc' = [pc EXCEPT ![t] = "access"]
    <3>0. UNCHANGED <<rec, rel>> /\ pc[t] \in {"lock", "relock"}
      BY <1>5 DEF MarkGranted, Relock
    <3>1. having'[t] = having[t] + 1 /\ having'[t] \in 1..3 /\ pc'[t] = "access"
      BY <1>a, <2>1, <3>0 DEF Ctl
    <3>2. CtlType'
      BY <2>1, <3>0, <3>1
    <3> QED
      BY <1>a, <3>0, <3>1, <3>2 DEF Ctl, Drawn
  <2>2. CASE pc' = [pc EXCEPT ![t] = "relock"] /\ UNCHANGED having
    <3>0. UNCHANGED <<rec, rel>> /\ pc[t] = "lock"
      BY <1>5, <2>2 DEF MarkGranted, Relock
    <3> QED
      BY <1>a, <2>2, <3>0 DEF Ctl, Drawn
  <2> QED
    BY <1>5, <2>1, <2>2 DEF MarkGranted, Relock
<1>6. CASE Access(t)
  <2>1. UNCHANGED <<rec, having, rel>>
    BY <1>6 DEF Access
  <2>2. /\ pc[t] = "access"
        /\ pc' = [pc EXCEPT ![t] = IF having[t] = 3 THEN "commit" ELSE "request"]
    BY <1>6 DEF Access
  <2> QED
    BY <1>a, <2>1, <2>2 DEF Ctl, Drawn
<1>7. CASE Unlock(t)
  <2>1. /\ UNCHANGED <<rec, having>> /\ pc[t] = "unlock"
        /\ rel' = [rel EXCEPT ![t] = @ + 1]
        /\ pc' = [pc EXCEPT ![t] = IF rel[t] = having[t] THEN "finish" ELSE "delete"]
    BY <1>7 DEF Unlock
  <2>2. rel[t] \in 1..having[t] /\ having[t] \in 1..3 /\ Drawn(t)
    BY <1>a, <2>1 DEF Ctl
  <2>3. rel'[t] = rel[t] + 1 /\ rel[t] + 1 \in 1..4
    BY <2>1, <2>2
  <2>4. CtlType'
    BY <2>1, <2>3
  <2> QED
    BY <2>1, <2>2, <2>3, <2>4 DEF Ctl, Drawn
<1>8. CASE Commit(t) \/ Overrun(t) \/ Restart(t)
  <2>0. Undrawn \in [1..3 -> Records \cup {NoRecord}]
    BY DEF Undrawn
  <2>1. /\ rec' = [rec EXCEPT ![t] = Undrawn]
        /\ having' = [having EXCEPT ![t] = 0]
        /\ rel' = [rel EXCEPT ![t] = 1]
        /\ pc' = [pc EXCEPT ![t] = "loop"] \/ pc' = [pc EXCEPT ![t] = "done"]
    BY <1>8 DEF Commit, Overrun, Restart, Forget
  <2>2. CtlType'
    BY <2>0, <2>1
  <2> QED
    BY <2>1, <2>2 DEF Ctl
<1> QED
  BY <1>1, <1>2, <1>3, <1>4, <1>5, <1>6, <1>7, <1>8 DEF work

\* Every step keeps the control of every thread in order.
LEMMA CtlNext == CtlInv /\ [Next]_vars => CtlInv'
<1> SUFFICES ASSUME CtlInv, [Next]_vars PROVE CtlInv'
  OBVIOUS
<1>1. CASE UNCHANGED vars
  BY <1>1 DEF vars, localVars, CtlInv, CtlType, Ctl, Drawn
<1>2. ASSUME NEW t \in Threads, work(t) \/ SpuriousWakeup(t) PROVE CtlInv'
  <2>1. CtlType' /\ Ctl(t)'
    BY <1>2, OwnCtl
  <2>2. ASSUME NEW u \in Threads, u # t PROVE Ctl(u)'
    BY <1>2, <2>2, OthersCtl DEF CtlInv, Ctl, Drawn
  <2> QED
    BY <2>1, <2>2 DEF CtlInv
<1> QED
  BY <1>1, <1>2 DEF Next, Joined

-----------------------------------------------------------------------------
(* The places of a thread at the locks.                                    *)

\* The verdict of checkQueue, racy or not, is a Boolean.
LEMMA TurnsBoolean == \A t \in Threads : Turns(t) \subseteq BOOLEAN
BY DEF Turns, Turn, Mon!checkQueue

\* The record a thread works on is one of its three.
LEMMA TargetDrawn ==
  ASSUME NEW t \in Threads, CtlInv, pc[t] \in {"request", "push", "lock", "relock"}
  PROVE  /\ target(t) \in Records /\ current(t) \in 1..3
         /\ current(t) = having[t] + 1
         /\ \A n \in 1..3 : Holds(t, n) => rec[t][n] # target(t)
<1>1. having[t] \in 0..2 /\ rel[t] = 1 /\ Drawn(t)
  BY DEF CtlInv, Ctl
<1>2. current(t) \in 1..3
  BY <1>1 DEF current
<1> QED
  BY <1>1, <1>2 DEF Drawn, target, current, Holds

\* What a step of t may do to the places of the other threads keeps them placed:
\* only sleepers are moved, and they stay inside the same request.
LEMMA OthersPlaced ==
  ASSUME NEW t \in Threads, NEW u \in Threads, u # t, CtlInv, Placed(u),
         work(t) \/ SpuriousWakeup(t),
         \A y \in Records :
           lk'[u][y] = lk[u][y] \/ RWP!Woken(lk[u][y], lk'[u][y])
  PROVE  Placed(u)'
<1>1. /\ pc'[u] = pc[u] /\ rec'[u] = rec[u]
      /\ having'[u] = having[u] /\ rel'[u] = rel[u]
  BY OthersCtl
<1>2. /\ \A n \in 1..3 : Holds(u, n)' <=> Holds(u, n)
      /\ current(u)' = current(u) /\ target(u)' = target(u)
  BY <1>1 DEF Holds, current, target
<1>3. \A n \in 1..3 : Holds(u, n) => rec[u][n] \in Records
  BY DEF CtlInv, CtlType, Ctl, Drawn, Holds, PCs
<1>4. \A n \in 1..3 : Holds(u, n)' => lk'[u][rec'[u][n]] = Mode(n)
  BY <1>1, <1>2, <1>3 DEF Placed, Mode, RWP!Woken
<1>5. pc'[u] = "lock" => lk'[u][target(u)'] \in Inside(current(u)')
  BY <1>1, <1>2, TargetDrawn DEF Placed, Inside, RWP!Woken
<1>6. pc'[u] = "relock" => lk'[u][target(u)'] = Mode(current(u)')
  BY <1>1, <1>2, TargetDrawn DEF Placed, Mode, RWP!Woken
<1>7. \A x \in Records : lk'[u][x] # "none" => lk[u][x] # "none"
  BY DEF RWP!Woken
<1> QED
  BY <1>1, <1>2, <1>4, <1>5, <1>6, <1>7 DEF Placed

\* The steps that do not touch the locks.
LEMMA QuietPlaced ==
  ASSUME NEW t \in Threads, Inv, Quiet(t)
  PROVE  Placed(t)' /\ UNCHANGED rwVars
<1> USE DEF Inv, CtlInv, CtlType, Goto, rwVars
<1>a. Ctl(t) /\ Placed(t) /\ having[t] \in 0..3 /\ rel[t] \in 1..4
  OBVIOUS
<1>b. UNCHANGED rwVars
  BY DEF Quiet, Begin, Leave, CheckPasses, CheckFails, MarkGranted, Relock,
         Access, CommitLock, Delete, Commit, Overrun, Restart
<1>1. CASE Begin(t) \/ Leave(t) \/ CheckPasses(t) \/ CheckFails(t)
           \/ Access(t) \/ CommitLock(t) \/ Delete(t)
  <2>1. /\ UNCHANGED <<having, rel>> /\ (rec'[t] = rec[t] \/ having[t] = 0)
        /\ pc'[t] \notin {"lock", "relock"} /\ pc[t] \notin {"lock", "relock"}
    BY <1>1, <1>a DEF Begin, Leave, CheckPasses, CheckFails, Access, CommitLock,
                      Delete, Ctl
  <2> QED
    BY <1>a, <1>b, <2>1 DEF Placed, Ctl, Holds
<1>2. CASE MarkGranted(t) \/ Relock(t)
  <2>0. /\ UNCHANGED <<rec, rel, lk>> /\ pc[t] \in {"lock", "relock"}
        /\ \/ having' = [having EXCEPT ![t] = @ + 1] /\ pc'[t] = "access"
           \/ having' = having /\ pc'[t] = "relock" /\ pc[t] = "lock"
    BY <1>2, <1>b DEF MarkGranted, Relock
  <2>1. /\ target(t) \in Records /\ current(t) \in 1..3
        /\ current(t) = having[t] + 1 /\ rel[t] = 1
    BY <1>a, <2>0, TargetDrawn DEF Ctl
  <2>2. lk[t][target(t)] = Mode(current(t))
    BY <1>2, <1>a, <2>1 DEF MarkGranted, Relock, Placed, Mode, Inside
  <2>3. CASE having' = [having EXCEPT ![t] = @ + 1] /\ pc'[t] = "access"
    <3>1. having'[t] = having[t] + 1
      BY <2>3
    <3>2. \A n \in 1..3 : Holds(t, n)' <=> Holds(t, n) \/ n = current(t)
      BY <1>a, <2>0, <2>1, <3>1 DEF Holds
    <3> QED
      BY <1>a, <1>b, <2>0, <2>1, <2>2, <2>3, <3>2 DEF Placed, target
  <2>4. CASE having' = having /\ pc'[t] = "relock" /\ pc[t] = "lock"
    BY <1>a, <1>b, <2>0, <2>2, <2>4 DEF Placed, Holds, target, current
  <2> QED
    BY <2>0, <2>3, <2>4
<1>3. CASE Commit(t) \/ Overrun(t) \/ Restart(t)
  <2>1. /\ having'[t] = 0 /\ rel'[t] = 1 /\ pc'[t] \in {"loop", "done"}
        /\ pc[t] = "finish"
    BY <1>3 DEF Commit, Overrun, Restart, Forget
  <2>2. \A n \in 1..3 : ~Holds(t, n)
    BY <1>a, <2>1 DEF Ctl, Holds
  <2>3. \A n \in 1..3 : ~Holds(t, n)'
    BY <2>1 DEF Holds
  <2> QED
    BY <1>a, <1>b, <2>1, <2>2, <2>3 DEF Placed
<1> QED
  BY <1>b, <1>1, <1>2, <1>3 DEF Quiet

\* A thread that is inside the lock of its request, and holds the others as
\* before, is where its control says.
LEMMA LockPlaced ==
  ASSUME NEW t \in Threads, CtlInv, Placed(t),
         pc[t] \in {"push", "lock"}, pc'[t] = "lock",
         rec'[t] = rec[t], having'[t] = having[t], rel'[t] = rel[t],
         RWP!Frame(t, target(t)), lk'[t][target(t)] \in Inside(current(t))
  PROVE  Placed(t)'
<1> DEFINE x == target(t)
<1>1. /\ x \in Records
      /\ \A n \in 1..3 : Holds(t, n) => rec[t][n] # x /\ rec[t][n] \in Records
  BY TargetDrawn DEF CtlInv, Ctl, Drawn
<1>2. /\ \A n \in 1..3 : Holds(t, n)' <=> Holds(t, n)
      /\ current(t)' = current(t) /\ target(t)' = x
  BY DEF Holds, current, target
<1>3. \A y \in Records : y # x => lk'[t][y] = lk[t][y]
  BY DEF RWP!Frame
<1>4. \A n \in 1..3 : Holds(t, n)' => lk'[t][rec'[t][n]] = Mode(n)
  BY <1>1, <1>2, <1>3 DEF Placed
<1>5. ASSUME NEW y \in Records, lk'[t][y] # "none"
      PROVE  \/ \E n \in 1..3 : Holds(t, n)' /\ rec'[t][n] = y
             \/ target(t)' = y
  <2>1. CASE y = x
    BY <1>2, <2>1
  <2>2. CASE y # x
    BY <1>2, <1>3, <1>5, <2>2 DEF Placed
  <2> QED
    BY <2>1, <2>2
<1> QED
  BY <1>2, <1>4, <1>5 DEF Placed

\* The steps at a lock: each is an operation the thread may call there, and it
\* leaves every thread where its control says.
LEMMA LockStep ==
  ASSUME NEW t \in Threads, Inv, AtLock(t)
  PROVE  /\ RW!RWNext
         /\ Placed(t)'
         /\ \A u \in Threads, y \in Records : u # t =>
              lk'[u][y] = lk[u][y] \/ RWP!Woken(lk[u][y], lk'[u][y])
<1> USE DEF Inv, CtlInv, CtlType, Goto
<1>a. Ctl(t) /\ Placed(t) /\ having[t] \in 0..3 /\ rel[t] \in 1..4
  OBVIOUS
<1>b. RWP!RWTypeOK
  BY DEF RWP!RWInv
<1> DEFINE x == target(t)
<1>1. CASE Push(t)
  <2>0. /\ x \in Records /\ current(t) \in 1..3 /\ current(t) = having[t] + 1
        /\ \A n \in 1..3 : Holds(t, n) => rec[t][n] # x
    BY <1>1, TargetDrawn DEF Push
  <2>1. lk[t][x] = "none"
    BY <1>1, <1>a, <2>0 DEF Push, Placed
  <2>2. \/ current(t) = 1 /\ RW!callShared(t, x)
        \/ current(t) # 1 /\ RW!callExclusive(t, x)
    BY <1>1 DEF Push
  <2>3. RWP!Frame(t, x) /\ lk'[t][x] \in Inside(current(t))
    BY <1>b, <2>0, <2>2, LockFrames DEF Inside
  <2>4. /\ UNCHANGED <<rec, having, rel>> /\ pc'[t] = "lock" /\ pc[t] = "push"
    BY <1>1 DEF Push
  <2>5. Placed(t)'
    BY <1>a, <2>3, <2>4, LockPlaced
  <2>6. RW!RWNext
    BY <2>0, <2>1, <2>2 DEF RW!RWNext
  <2> QED
    BY <2>3, <2>5, <2>6 DEF RWP!Frame
<1>2. CASE TryLock(t) \/ Drain(t) \/ SpuriousWakeup(t)
  <2>0. /\ x \in Records /\ current(t) \in 1..3 /\ current(t) = having[t] + 1
        /\ \A n \in 1..3 : Holds(t, n) => rec[t][n] # x
    BY <1>2, TargetDrawn DEF TryLock, Drain, SpuriousWakeup
  <2>1. UNCHANGED localVars /\ pc[t] = "lock"
    BY <1>2 DEF TryLock, Drain, SpuriousWakeup
  <2>2. \/ \E turn \in BOOLEAN : current(t) = 1 /\ RW!lockShared(t, x, turn)
        \/ \E turn \in BOOLEAN : current(t) # 1 /\ RW!lockExclusive(t, x, turn)
        \/ RW!drainReaders(t, x)
        \/ RW!spuriousWakeup(t, x)
    BY <1>2, TurnsBoolean DEF TryLock, Drain, SpuriousWakeup
  <2>3. RWP!Frame(t, x) /\ lk'[t][x] \in Inside(current(t))
    <3>1. lk[t][x] \in Inside(current(t))
      BY <1>a, <2>1 DEF Placed
    <3>2. CASE \E turn \in BOOLEAN : current(t) = 1 /\ RW!lockShared(t, x, turn)
      BY <1>b, <2>0, <3>2, LockFrames DEF Inside
    <3>3. CASE \E turn \in BOOLEAN : current(t) # 1 /\ RW!lockExclusive(t, x, turn)
      BY <1>b, <2>0, <3>3, LockFrames DEF Inside
    <3>4. CASE RW!drainReaders(t, x)
      <4>1. current(t) # 1
        BY <3>1, <3>4 DEF Inside, RW!drainReaders
      <4> QED
        BY <1>b, <2>0, <3>4, <4>1, LockFrames DEF Inside
    <3>5. CASE RW!spuriousWakeup(t, x)
      BY <1>b, <2>0, <3>1, <3>5, LockFrames DEF Inside, RWP!Woken
    <3> QED
      BY <2>2, <3>2, <3>3, <3>4, <3>5
  <2>4. Placed(t)'
    BY <1>a, <2>1, <2>3, LockPlaced DEF localVars
  <2>5. RW!RWNext
    BY <2>0, <2>2 DEF RW!RWNext
  <2> QED
    BY <2>3, <2>4, <2>5 DEF RWP!Frame
<1>3. CASE Unlock(t)
  <2> DEFINE m == rel[t]
             z == rec[t][m]
  <2>0. /\ pc[t] = "unlock" /\ UNCHANGED <<rec, having>>
        /\ rel' = [rel EXCEPT ![t] = @ + 1]
        /\ pc'[t] \in {"finish", "delete"}
    BY <1>3 DEF Unlock
  <2>1. m \in 1..3 /\ z \in Records /\ Holds(t, m) /\ Drawn(t)
    BY <1>a, <2>0 DEF Ctl, Drawn, Holds
  <2>2. lk[t][z] = Mode(m)
    BY <1>a, <2>1 DEF Placed
  <2>3. \/ lk[t][z] = "shared" /\ RW!unlockShared(t, z)
        \/ lk[t][z] = "exclusive" /\ RW!unlockExclusive(t, z)
    BY <1>3, <2>2 DEF Unlock, Mode
  <2>4. RWP!Frame(t, z) /\ lk'[t][z] = "none"
    BY <1>b, <2>1, <2>3, LockFrames
  <2>5. \A n \in 1..3 : Holds(t, n)' <=> Holds(t, n) /\ n # m
    BY <1>a, <2>0 DEF Holds
  <2>6. Placed(t)'
    <3>1. \A y \in Records : y # z => lk'[t][y] = lk[t][y]
      BY <2>4 DEF RWP!Frame
    <3>2. \A n \in 1..3 : Holds(t, n)' => lk'[t][rec'[t][n]] = Mode(n)
      BY <1>a, <2>0, <2>1, <2>5, <3>1 DEF Placed, Drawn
    <3>3. \A y \in Records : lk'[t][y] # "none" =>
            \E n \in 1..3 : Holds(t, n)' /\ rec'[t][n] = y
      BY <1>a, <2>0, <2>4, <2>5, <3>1 DEF Placed
    <3> QED
      BY <2>0, <3>2, <3>3 DEF Placed
  <2>7. RW!RWNext
    BY <2>1, <2>3 DEF RW!RWNext
  <2> QED
    BY <2>4, <2>6, <2>7 DEF RWP!Frame
<1> QED
  BY <1>1, <1>2, <1>3 DEF AtLock

-----------------------------------------------------------------------------
(* The invariant is inductive.                                             *)

\* The program starts with free locks and no thread inside one.
LEMMA InvInit == Init => Inv
<1> SUFFICES ASSUME Init PROVE Inv
  OBVIOUS
<1>1. RWP!RWInv
  BY SameInit, RWP!InitInv, TransactionAssumption
     DEF Init, IsFiniteSet, RWP!IsFiniteSet
<1>2. ASSUME NEW t \in Threads PROVE Placed(t)
  BY DEF Init, RW!RWInit, Placed, Holds
<1> QED
  BY <1>1, <1>2, CtlInit DEF Inv

\* Every step preserves the invariant, and is a step of a proper client of the
\* locks or does not touch them.
LEMMA InvNext ==
  ASSUME Inv, [Next]_vars
  PROVE  Inv' /\ [RW!RWNext]_rwVars
<1>1. CtlInv'
  BY CtlNext DEF Inv
<1>2. CASE UNCHANGED vars
  <2>1. UNCHANGED <<rwVars, localVars>>
    BY <1>2 DEF vars
  <2>2. \A t \in Threads : Placed(t)'
    BY <2>1 DEF Inv, Placed, Holds, target, current, localVars, rwVars
  <2> QED
    BY <1>1, <2>1, <2>2, LocksInv DEF Inv
<1>3. ASSUME NEW t \in Threads, work(t) \/ SpuriousWakeup(t)
      PROVE  Inv' /\ [RW!RWNext]_rwVars
  <2>1. CASE Quiet(t)
    <3>1. Placed(t)' /\ UNCHANGED rwVars
      BY <2>1, QuietPlaced
    <3>2. \A u \in Threads : u # t => Placed(u)'
      BY <1>3, <3>1, OthersPlaced DEF Inv, rwVars
    <3> QED
      BY <1>1, <3>1, <3>2, LocksInv DEF Inv
  <2>2. CASE AtLock(t)
    <3>1. /\ RW!RWNext /\ Placed(t)'
          /\ \A u \in Threads, y \in Records : u # t =>
               lk'[u][y] = lk[u][y] \/ RWP!Woken(lk[u][y], lk'[u][y])
      BY <2>2, LockStep
    <3>2. \A u \in Threads : u # t => Placed(u)'
      BY <1>3, <3>1, OthersPlaced DEF Inv
    <3> QED
      BY <1>1, <3>1, <3>2, LocksInv DEF Inv
  <2> QED
    BY <1>3, <2>1, <2>2, StepKinds
<1> QED
  BY <1>2, <1>3 DEF Next, Joined

\* Locks that are recorded as held are held, and nobody holds against them.
LEMMA InvTwoPhase == Inv => TwoPhaseLocking
<1> SUFFICES ASSUME Inv, NEW t \in Threads, NEW n \in 1..3, Holds(t, n)
             PROVE  /\ lk[t][rec[t][n]] = Mode(n)
                    /\ \A u \in Threads \ {t} :
                         /\ n = 1 => lk[u][rec[t][n]] # "exclusive"
                         /\ n # 1 => lk[u][rec[t][n]] \notin {"shared", "exclusive"}
  BY DEF TwoPhaseLocking, Mode
<1>1. lk[t][rec[t][n]] = Mode(n)
  BY DEF Inv, Placed
<1>2. rec[t][n] \in Records
  BY DEF Inv, CtlInv, CtlType, Ctl, Drawn, Holds, PCs
<1>3. RWP!Exclusion
  BY RWP!InvImplies, TransactionAssumption DEF Inv, IsFiniteSet, RWP!IsFiniteSet
<1> QED
  BY <1>1, <1>2, <1>3 DEF RWP!Exclusion, Mode

-----------------------------------------------------------------------------
(* The types of the data: queues, graph, values and output.                *)

Line == Records \X Records \X Records \X Int \X Int \X Int

DataType ==
  /\ Mon!MonitorTypeOK
  /\ value \in [Records -> Int]
  /\ global_mutex \in Threads \cup {NoThread}
  /\ order \in Nat
  /\ outFile \in Seq(Line)
  /\ old \in [Threads -> [1..3 -> Int]]

\* A function on 1..n is a sequence.
LEMMA SeqOfFunction ==
  ASSUME NEW S, NEW n \in Nat, NEW f \in [1..n -> S]
  PROVE  f \in Seq(S)
OBVIOUS

\* Writing a line leaves lines.
LEMMA AppendLine == \A s \in Seq(Line), l \in Line : Append(s, l) \in Seq(Line)
<1> HIDE DEF Line
<1> QED
  OBVIOUS

\* Wrapping to the width of int gives an integer.
LEMMA WrapType == \A v \in Int : Wrap(v) \in Int
BY TransactionAssumption DEF Wrap

\* A request is a LockInfo.
LEMMA LockInfoType ==
  \A t \in Threads, n \in 1..3 : Lock(t, n) \in Mon!LockInfo
BY DEF Lock, TypeOf, Mon!LockInfo, Mon!LockType

\* Setting the flag of some requests of a queue gives a queue.
LEMMA MarkGrantedType ==
  ASSUME NEW x \in Records, NEW r, Mon!MonitorTypeOK, Mon!markGranted(x, r)
  PROVE  lock_request' \in [Records -> Seq(Mon!LockInfo)]
<1> DEFINE q == lock_request[x]
           f == [p \in DOMAIN q |-> IF Mon!Same(q[p], r)
                                    THEN [q[p] EXCEPT !.getLock = TRUE] ELSE q[p]]
<1>1. q \in Seq(Mon!LockInfo)
  BY DEF Mon!MonitorTypeOK
<1>2. Len(q) \in Nat /\ DOMAIN q = 1..Len(q)
  BY <1>1
<1>3. \A p \in DOMAIN q : q[p] \in Mon!LockInfo
  BY <1>1
<1>4. \A i \in Mon!LockInfo : [i EXCEPT !.getLock = TRUE] \in Mon!LockInfo
  BY DEF Mon!LockInfo
<1>5. f \in [1..Len(q) -> Mon!LockInfo]
  BY <1>2, <1>3, <1>4
<1>6. f \in Seq(Mon!LockInfo)
  BY <1>2, <1>5, SeqOfFunction
<1>7. lock_request' = [lock_request EXCEPT ![x] = f]
  BY DEF Mon!markGranted
<1> QED
  BY <1>6, <1>7 DEF Mon!MonitorTypeOK

\* Erasing a request from a queue gives a queue.
LEMMA EraseType ==
  ASSUME NEW q \in Seq(Mon!LockInfo), NEW r
  PROVE  Mon!Erase(q, r) \in Seq(Mon!LockInfo)
<1>1. CASE \A p \in DOMAIN q : ~Mon!Same(q[p], r)
  BY <1>1 DEF Mon!Erase
<1>2. CASE ~\A p \in DOMAIN q : ~Mon!Same(q[p], r)
  <2> DEFINE n == Len(q) - 1
             f == [p \in 1..n |-> IF p \in Mon!Before(q, r) THEN q[p] ELSE q[p + 1]]
  <2>1. n \in Nat /\ DOMAIN q = 1..Len(q) /\ Len(q) \in Nat
    BY <1>2
  <2>2. \A p \in 1..n : q[p] \in Mon!LockInfo /\ q[p + 1] \in Mon!LockInfo
    BY <2>1
  <2>3. f \in [1..n -> Mon!LockInfo]
    BY <2>2
  <2>4. f \in Seq(Mon!LockInfo)
    BY <2>1, <2>3, SeqOfFunction
  <2>5. Mon!Erase(q, r) = f
    BY <1>2 DEF Mon!Erase
  <2> QED
    BY <2>4, <2>5
<1> QED
  BY <1>1, <1>2

\* The data have their types when Transaction is made.
LEMMA DataInit == Init => DataType
<1> SUFFICES ASSUME Init PROVE DataType
  OBVIOUS
<1>1. Mon!MonitorTypeOK
  BY DEF Init, Mon!MonitorInit, Mon!MonitorTypeOK
<1> QED
  BY <1>1, TransactionAssumption DEF Init, DataType, Unread

\* Every step preserves the types of the data.
LEMMA DataNext ==
  ASSUME Inv, DataType, [Next]_vars
  PROVE  DataType'
<1>1. CASE UNCHANGED vars
  BY <1>1 DEF vars, dbVars, monitorVars, localVars, DataType, Mon!MonitorTypeOK
<1> SUFFICES ASSUME NEW t \in Threads, work(t) \/ SpuriousWakeup(t)
             PROVE  DataType'
  BY <1>1 DEF Next, Joined
<1> USE DEF DataType
<1>c. CtlInv /\ Ctl(t) /\ having[t] \in 0..3 /\ rel[t] \in 1..4
  BY DEF Inv, CtlInv, CtlType
\* The steps that touch none of the data.
<1>2. CASE Begin(t) \/ Leave(t) \/ TryLock(t) \/ Drain(t) \/ SpuriousWakeup(t)
           \/ Relock(t) \/ CommitLock(t)
  <2>1. UNCHANGED <<monitorVars, dbVars, old>>
    BY <1>2 DEF Begin, Leave, TryLock, Drain, SpuriousWakeup, Relock, CommitLock, localVars
  <2>2. global_mutex' \in {global_mutex, t}
    BY <1>2 DEF Begin, Leave, TryLock, Drain, SpuriousWakeup, Relock, CommitLock, GlobalLock
  <2> QED
    BY <2>1, <2>2 DEF monitorVars, dbVars, Mon!MonitorTypeOK
<1>3. CASE CheckPasses(t) \/ CheckFails(t)
  <2>0. target(t) \in Records
    BY <1>3, <1>c, TargetDrawn DEF CheckPasses, CheckFails
  <2>1. Mon!addDependency(target(t), req(t)) /\ UNCHANGED <<lock_request, old, order, outFile>>
    BY <1>3 DEF CheckPasses, CheckFails, dbVars
  <2>2. Mon!Blockers(lock_request[target(t)], req(t)) \subseteq Threads
    <3>1. lock_request[target(t)] \in Seq(Mon!LockInfo)
      BY <2>0 DEF Mon!MonitorTypeOK
    <3>2. \A p \in DOMAIN lock_request[target(t)] :
            lock_request[target(t)][p].tid \in Threads
      <4>1. \A p \in DOMAIN lock_request[target(t)] :
              lock_request[target(t)][p] \in Mon!LockInfo
        BY <3>1
      <4>2. \A r \in Mon!LockInfo : r.tid \in Threads
        BY DEF Mon!LockInfo
      <4> QED
        BY <4>1, <4>2
    <3> QED
      BY <3>2 DEF Mon!Blockers
  <2>3. dependThreads' \in [Threads -> SUBSET Threads]
    <3>1. req(t).tid = t
      BY DEF req, Lock
    <3> QED
      BY <2>1, <2>2, <3>1 DEF Mon!addDependency, Mon!MonitorTypeOK
  <2>4. global_mutex' = t
    BY <1>3 DEF CheckPasses, CheckFails, GlobalLock
  <2>5. value' \in [Records -> Int]
    BY <1>3 DEF CheckPasses, CheckFails, dbVars
  <2> QED
    BY <2>1, <2>3, <2>4, <2>5 DEF Mon!MonitorTypeOK
<1>4. CASE Push(t)
  <2>0. target(t) \in Records /\ current(t) \in 1..3
    BY <1>4, <1>c, TargetDrawn DEF Push
  <2>1. req(t) \in Mon!LockInfo
    BY <2>0, LockInfoType DEF req
  <2>2. lock_request' \in [Records -> Seq(Mon!LockInfo)]
    BY <1>4, <2>0, <2>1 DEF Push, Mon!pushRequest, Mon!MonitorTypeOK
  <2>3. UNCHANGED <<dependThreads, value, order, outFile, old>>
    BY <1>4 DEF Push, dbVars
  <2>4. global_mutex' \in {global_mutex, NoThread}
    BY <1>4 DEF Push, GlobalUnlock
  <2> QED
    BY <2>2, <2>3, <2>4 DEF Mon!MonitorTypeOK
<1>5. CASE MarkGranted(t)
  <2>0. target(t) \in Records
    BY <1>5, <1>c, TargetDrawn DEF MarkGranted
  <2>1. lock_request' \in [Records -> Seq(Mon!LockInfo)]
    <3>1. \/ Mon!markGranted(target(t), req(t))
          \/ UNCHANGED lock_request
          \/ \E p \in DOMAIN lock_request[target(t)] :
               Mon!markGranted(target(t), lock_request[target(t)][p])
      BY <1>5 DEF MarkGranted
    <3> QED
      BY <2>0, <3>1, MarkGrantedType DEF Mon!MonitorTypeOK
  <2>2. UNCHANGED <<dependThreads, value, order, outFile, old>>
    BY <1>5 DEF MarkGranted, dbVars
  <2>3. global_mutex' \in {global_mutex, NoThread}
    BY <1>5 DEF MarkGranted, GlobalUnlock
  <2> QED
    BY <2>1, <2>2, <2>3 DEF Mon!MonitorTypeOK
<1>6. CASE Access(t)
  <2> DEFINE n == having[t]
  <2>0. n \in 1..3 /\ Drawn(t)
    BY <1>6, <1>c DEF Access, Ctl
  <2>1. rec[t][n] \in Records /\ value[rec[t][n]] \in Int /\ old[t][1] \in Int
    BY <2>0 DEF Drawn
  <2>2. NewValue(t, n) \in Int
    <3>1. CASE n = 1
      BY <2>1, <3>1 DEF NewValue
    <3>2. CASE n = 2
      BY <2>1, <3>2, WrapType DEF NewValue
    <3>3. CASE n = 3
      BY <2>1, <3>3, WrapType DEF NewValue
    <3> QED
      BY <2>0, <3>1, <3>2, <3>3
  <2>3. value' \in [Records -> Int]
    BY <1>6, <2>2 DEF Access
  <2>4. old' \in [Threads -> [1..3 -> Int]]
    BY <1>6, <2>0, <2>1 DEF Access
  <2>5. UNCHANGED <<monitorVars, order, outFile, global_mutex>>
    BY <1>6 DEF Access
  <2> QED
    BY <2>3, <2>4, <2>5 DEF monitorVars, Mon!MonitorTypeOK
<1>7. CASE Delete(t)
  <2>0. rec[t][rel[t]] \in Records
    BY <1>7, <1>c DEF Delete, Ctl, Drawn
  <2>1. Mon!deleteLock(rec[t][rel[t]], Lock(t, rel[t]))
    BY <1>7 DEF Delete
  <2>2. lock_request' \in [Records -> Seq(Mon!LockInfo)]
    BY <2>0, <2>1, EraseType DEF Mon!deleteLock, Mon!MonitorTypeOK
  <2>3. dependThreads' \in [Threads -> SUBSET Threads]
    BY <2>1 DEF Mon!deleteLock, Mon!MonitorTypeOK
  <2>4. UNCHANGED <<value, order, outFile, global_mutex, old>>
    BY <1>7 DEF Delete, dbVars
  <2> QED
    BY <2>2, <2>3, <2>4 DEF Mon!MonitorTypeOK
<1>8. CASE Unlock(t)
  <2>1. UNCHANGED <<monitorVars, dbVars, global_mutex, old>>
    BY <1>8 DEF Unlock
  <2> QED
    BY <2>1 DEF monitorVars, dbVars, Mon!MonitorTypeOK
<1>9. CASE Commit(t) \/ Overrun(t) \/ Restart(t)
  <2>0. Drawn(t)
    BY <1>9, <1>c DEF Commit, Overrun, Restart, Ctl
  <2>1. UNCHANGED monitorVars /\ global_mutex' = NoThread
    BY <1>9 DEF Commit, Overrun, Restart, GlobalUnlock
  <2>2. old' \in [Threads -> [1..3 -> Int]]
    <3>1. Unread \in [1..3 -> Int]
      BY DEF Unread
    <3>2. old' = [old EXCEPT ![t] = Unread]
      BY <1>9 DEF Commit, Overrun, Restart, Forget
    <3> QED
      BY <3>1, <3>2
  <2>3. order' \in Nat
    BY <1>9 DEF Commit, Overrun, Restart, dbVars
  <2>4. value' \in [Records -> Int]
    <3>1. CASE Commit(t) \/ Restart(t)
      BY <3>1 DEF Commit, Restart, dbVars
    <3>2. CASE Overrun(t)
      <4>1. old[t][1] \in Int /\ old[t][2] \in Int /\ old[t][3] \in Int
        OBVIOUS
      <4>2. value' = [[[value EXCEPT ![rec[t][1]] = old[t][1]]
                         EXCEPT ![rec[t][2]] = old[t][2]]
                         EXCEPT ![rec[t][3]] = old[t][3]]
        BY <3>2 DEF Overrun
      <4> QED
        BY <4>1, <4>2
    <3> QED
      BY <1>9, <3>1, <3>2
  <2>5. outFile' \in Seq(Line)
    <3>1. CASE Commit(t)
      <4> DEFINE l == <<rec[t][1], rec[t][2], rec[t][3],
                        value[rec[t][1]], value[rec[t][2]], value[rec[t][3]]>>
      <4>0. \A n \in 1..3 : rec[t][n] \in Records /\ value[rec[t][n]] \in Int
        BY <2>0 DEF Drawn
      <4>1. l \in Line
        BY <4>0 DEF Line
      <4>2. outFile' = Append(outFile, l)
        BY <3>1 DEF Commit
      <4>3. outFile \in Seq(Line)
        OBVIOUS
      <4> HIDE DEF l, DataType
      <4> QED
        BY <4>1, <4>2, <4>3, AppendLine
    <3>2. CASE Overrun(t) \/ Restart(t)
      BY <3>2 DEF Overrun, Restart, dbVars
    <3> QED
      BY <1>9, <3>1, <3>2
  <2> QED
    BY <2>1, <2>2, <2>3, <2>4, <2>5 DEF monitorVars, Mon!MonitorTypeOK
<1> QED
  BY <1>2, <1>3, <1>4, <1>5, <1>6, <1>7, <1>8, <1>9 DEF work

-----------------------------------------------------------------------------
\* The invariant of every behaviour of the program.
THEOREM TransactionInvariant == Spec => []Inv
<1>1. Inv /\ [Next]_vars => Inv'
  BY InvNext
<1> QED
  BY InvInit, <1>1, PTL DEF Spec

MisledOK == misled \subseteq Threads

\* Only threads are misled.
LEMMA MisledType ==
  ASSUME MisledOK, [Next]_vars
  PROVE  MisledOK'
<1> USE DEF MisledOK
<1>1. CASE UNCHANGED vars
  BY <1>1 DEF vars
<1>2. ASSUME NEW t \in Threads, TryLock(t) PROVE misled' \subseteq Threads
  <2>1. misled' = misled \cup {t} \/ misled' = misled \ {t}
    BY <1>2 DEF TryLock
  <2> QED
    BY <2>1
<1>3. ASSUME NEW t \in Threads, work(t) \/ SpuriousWakeup(t), ~TryLock(t)
      PROVE  misled' \subseteq Threads
  BY <1>3 DEF work, Begin, Leave, CheckPasses, CheckFails, Push, Drain, SpuriousWakeup,
     MarkGranted, Relock, Access, CommitLock, Delete, Unlock, Commit, Overrun, Restart
<1> QED
  BY <1>1, <1>2, <1>3 DEF Next, Joined

\* Every variable of the program stays within its type.
THEOREM TypeCorrect == Spec => []TypeOK
<1>1. Inv /\ DataType /\ [Next]_vars => DataType'
  BY DataNext
<1>2. Spec => []DataType
  BY DataInit, <1>1, TransactionInvariant, PTL DEF Spec
<1>3. Spec => []MisledOK
  <2>1. Init => MisledOK
    BY DEF Init, MisledOK
  <2>2. MisledOK /\ [Next]_vars => MisledOK'
    BY MisledType
  <2> QED
    BY <2>1, <2>2, PTL DEF Spec
<1>4. Inv /\ DataType /\ MisledOK => TypeOK
  <2> SUFFICES ASSUME Inv, DataType, MisledOK PROVE TypeOK
    OBVIOUS
  <2>1. RW!RWTypeOK
    BY DEF Inv, RWP!RWInv, RWP!RWTypeOK, RW!RWTypeOK, RWP!Phases, RW!Phases
  <2> QED
    BY <2>1 DEF Inv, CtlInv, CtlType, DataType, MisledOK, TypeOK, Line
<1> QED
  BY <1>2, <1>3, <1>4, TransactionInvariant, PTL

\* Strict two-phase locking, with any number of threads and records and however
\* the unprotected reads of the request queues turn out.
THEOREM TwoPhaseLockingTheorem == Spec => []TwoPhaseLocking
BY TransactionInvariant, InvTwoPhase, PTL

\* The program implements RWLock's specification: its threads are clients the
\* lock's theorems are about.
THEOREM LockProtocolTheorem == Spec => LockProtocol
<1>1. Init => RW!RWInit
  BY DEF Init
<1>2. Inv /\ [Next]_vars => [RW!RWNext]_(RW!rwVars)
  BY InvNext DEF rwVars, RW!rwVars
<1> QED
  BY <1>1, <1>2, TransactionInvariant, PTL DEF Spec, LockProtocol, RW!RWSpec
=============================================================================
