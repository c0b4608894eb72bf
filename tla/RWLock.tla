------------------------------- MODULE RWLock -------------------------------
(***************************************************************************)
(* The reader-writer lock every record of project2 carries (rwlock.h).     *)
(*                                                                         *)
(* An RWLock has a counter numReader, a flag writing, a mutex mtx and two  *)
(* condition variables: `writer', on which requests wait for their turn,   *)
(* and `reader', on which the writer that has already set the flag waits   *)
(* for the readers to drain.  This module keeps one lock per record and,   *)
(* for every thread and record, the place the thread has reached inside    *)
(* lockShared or lockExclusive:                                            *)
(*                                                                         *)
(*   none        not inside, and not holding the lock                      *)
(*   enterS/X    called (or notified); about to take mtx and test the turn *)
(*   sleepS/X    asleep on `writer': it was not its turn                   *)
(*   spinS/X     its turn, but writing is set: the do-while goes round     *)
(*               without ever giving mtx back                              *)
(*   shared      lockShared returned                                       *)
(*   sleepR      writing set by this thread, asleep on `reader'            *)
(*   drain       notified on `reader'; about to take mtx again             *)
(*   exclusive   lockExclusive returned                                    *)
(*                                                                         *)
(* Every critical section on mtx is one step, except that a spinning       *)
(* thread keeps mtx.  The unlock operations notify after they have left    *)
(* the critical section; the notification is part of the step, as a thread *)
(* that is notified later is one that has not been scheduled yet, and one  *)
(* that falls asleep in between is woken as by spuriousWakeup.             *)
(*                                                                         *)
(* Whether it is a thread's turn (checkQueue) depends on the request       *)
(* queue, which belongs to the Monitor and is read without the lock that   *)
(* protects it; here the verdict is an arbitrary Boolean, so that what     *)
(* this module shows holds whatever that racy read returns.                *)
(***************************************************************************)
EXTENDS Naturals, FiniteSets

CONSTANTS Threads,   \* the worker threads
          Records    \* the records, each with a lock of its own

ASSUME ThreadsFinite == IsFiniteSet(Threads)

VARIABLES numReader,   \* numReader[x]: readers inside the lock of x
          writing,     \* writing[x]: a writer owns, or is draining, x
          lk           \* lk[t][x]: where thread t stands at the lock of x

rwVars == <<numReader, writing, lk>>

Phases == {"none", "enterS", "sleepS", "spinS", "shared",
           "enterX", "sleepX", "spinX", "sleepR", "drain", "exclusive"}

Spinning == {"spinS", "spinX"}
Claimed  == {"sleepR", "drain", "exclusive"}

RWTypeOK ==
  /\ numReader \in [Records -> Nat]
  /\ writing \in [Records -> BOOLEAN]
  /\ lk \in [Threads -> [Records -> Phases]]

-----------------------------------------------------------------------------
RWInit ==
  /\ numReader = [x \in Records |-> 0]
  /\ writing = [x \in Records |-> FALSE]
  /\ lk = [t \in Threads |-> [x \in Records |-> "none"]]

\* mtx of x is held between two steps only by a thread going round the loop.
MtxFree(x) == \A t \in Threads : lk[t][x] \notin Spinning

At(t, x, phase) == lk' = [lk EXCEPT ![t][x] = phase]

\* A thread enters lockShared or lockExclusive.
callShared(t, x) ==
  /\ At(t, x, "enterS")
  /\ UNCHANGED <<numReader, writing>>

callExclusive(t, x) ==
  /\ At(t, x, "enterX")
  /\ UNCHANGED <<numReader, writing>>

\* Mutant: the reader forgets to count itself.
lockSharedUncounted(t, x, turn) ==
  /\ lk[t][x] \in {"enterS", "spinS"} /\ MtxFree(x)
  /\ IF turn /\ ~writing[x] THEN At(t, x, "shared") ELSE At(t, x, "sleepS")
  /\ UNCHANGED <<numReader, writing>>

\* Mutant: the writer does not wait for the readers to drain.
lockExclusiveNoDrain(t, x, turn) ==
  /\ lk[t][x] \in {"enterX", "spinX"} /\ MtxFree(x)
  /\ IF turn /\ ~writing[x]
     THEN At(t, x, "exclusive") /\ writing' = [writing EXCEPT ![x] = TRUE]
     ELSE At(t, x, "sleepX") /\ UNCHANGED writing
  /\ UNCHANGED numReader

\* lockShared: turn is the verdict of checkQueue.  Waiting for the turn gives
\* mtx back; finding the flag set while it is one's turn does not.
lockShared(t, x, turn) ==
  /\ \/ lk[t][x] = "enterS" /\ MtxFree(x)
     \/ lk[t][x] = "spinS"
  /\ \/ ~turn /\ At(t, x, "sleepS") /\ UNCHANGED <<numReader, writing>>
     \/ turn /\ writing[x] /\ At(t, x, "spinS") /\ UNCHANGED <<numReader, writing>>
     \/ /\ turn /\ ~writing[x]
        /\ numReader' = [numReader EXCEPT ![x] = @ + 1]
        /\ At(t, x, "shared")
        /\ UNCHANGED writing

\* lockExclusive: the same turn-taking, then the flag goes up and the writer
\* waits for the remaining readers.
lockExclusive(t, x, turn) ==
  /\ \/ lk[t][x] = "enterX" /\ MtxFree(x)
     \/ lk[t][x] = "spinX"
  /\ \/ ~turn /\ At(t, x, "sleepX") /\ UNCHANGED writing
     \/ turn /\ writing[x] /\ At(t, x, "spinX") /\ UNCHANGED writing
     \/ /\ turn /\ ~writing[x]
        /\ writing' = [writing EXCEPT ![x] = TRUE]
        /\ At(t, x, IF numReader[x] > 0 THEN "sleepR" ELSE "exclusive")
  /\ UNCHANGED numReader

\* The writer was notified on `reader' and tests numReader again.
drainReaders(t, x) ==
  /\ lk[t][x] = "drain"
  /\ MtxFree(x)
  /\ At(t, x, IF numReader[x] > 0 THEN "sleepR" ELSE "exclusive")
  /\ UNCHANGED <<numReader, writing>>

\* A condition variable may wake a thread that nobody notified.
spuriousWakeup(t, x) ==
  /\ \/ lk[t][x] = "sleepS" /\ At(t, x, "enterS")
     \/ lk[t][x] = "sleepX" /\ At(t, x, "enterX")
     \/ lk[t][x] = "sleepR" /\ At(t, x, "drain")
  /\ UNCHANGED <<numReader, writing>>

\* writer.notify_all(), after t itself has left the lock of x.
notifyWriter(t, x) ==
  lk' = [u \in Threads |-> [lk[u] EXCEPT ![x] =
           IF u = t THEN "none"
           ELSE CASE @ = "sleepS" -> "enterS"
                  [] @ = "sleepX" -> "enterX"
                  [] OTHER        -> @]]

\* reader.notify_one(), after t itself has left the lock of x.
notifyReader(t, x) ==
  LET asleep == {u \in Threads \ {t} : lk[u][x] = "sleepR"}
  IN  \/ /\ asleep = {}
         /\ At(t, x, "none")
      \/ \E u \in asleep :
           lk' = [lk EXCEPT ![t][x] = "none", ![u][x] = "drain"]

\* Mutant: the writer forgets to set the flag down.
unlockExclusiveKeepsFlag(t, x) ==
  /\ MtxFree(x)
  /\ notifyWriter(t, x)
  /\ UNCHANGED <<numReader, writing>>

\* Mutant: the writer sets the flag down without taking mtx.
unlockExclusiveNoMtx(t, x) ==
  /\ writing' = [writing EXCEPT ![x] = FALSE]
  /\ notifyWriter(t, x)
  /\ UNCHANGED numReader

\* Mutant: the writer wakes nobody.
unlockExclusiveSilent(t, x) ==
  /\ MtxFree(x)
  /\ writing' = [writing EXCEPT ![x] = FALSE]
  /\ At(t, x, "none")
  /\ UNCHANGED numReader

\* Mutant: the last reader does not wake the draining writer.
unlockSharedSilent(t, x) ==
  /\ MtxFree(x)
  /\ numReader' = [numReader EXCEPT ![x] = @ - 1]
  /\ IF writing[x] THEN At(t, x, "none") ELSE notifyWriter(t, x)
  /\ UNCHANGED writing

unlockExclusive(t, x) ==
  /\ MtxFree(x)
  /\ writing' = [writing EXCEPT ![x] = FALSE]
  /\ notifyWriter(t, x)
  /\ UNCHANGED numReader

unlockShared(t, x) ==
  /\ MtxFree(x)
  /\ numReader' = [numReader EXCEPT ![x] = @ - 1]
  /\ \/ writing[x] /\ numReader[x] = 1 /\ notifyReader(t, x)
     \/ writing[x] /\ numReader[x] # 1 /\ At(t, x, "none")
     \/ ~writing[x] /\ notifyWriter(t, x)
  /\ UNCHANGED writing

\* Any client: it calls a lock it is not inside and unlocks what it holds.
RWNext ==
  \E t \in Threads, x \in Records :
    \/ lk[t][x] = "none" /\ callShared(t, x)
    \/ lk[t][x] = "none" /\ callExclusive(t, x)
    \/ \E turn \in BOOLEAN : lockShared(t, x, turn)
    \/ \E turn \in BOOLEAN : lockExclusive(t, x, turn)
    \/ drainReaders(t, x)
    \/ spuriousWakeup(t, x)
    \/ lk[t][x] = "exclusive" /\ unlockExclusive(t, x)
    \/ lk[t][x] = "shared" /\ unlockShared(t, x)

RWSpec == RWInit /\ [][RWNext]_rwVars

-----------------------------------------------------------------------------
\* numReader and writing say exactly who is inside: numReader counts the
\* threads that lockShared let in and unlockShared did not let out, and writing
\* is up exactly while one thread is draining the readers or holds the lock
\* exclusively, and then only one (rwlock.h:25-28, 36, 49, 59).
ReaderCount(x) ==
  numReader[x] = Cardinality({t \in Threads : lk[t][x] = "shared"})

Bookkeeping ==
  \A x \in Records :
    /\ ReaderCount(x)
    /\ writing[x] <=> \E t \in Threads : lk[t][x] \in Claimed
    /\ \A t, u \in Threads :
         lk[t][x] \in Claimed /\ lk[u][x] \in Claimed => t = u

\* A writer inside lockExclusive's critical part is alone: while a thread
\* holds x exclusively nobody else holds it in either mode, whatever the
\* racy checkQueue answered on the way in (rwlock.h:19-50).
Exclusion ==
  \A x \in Records, t, u \in Threads :
    t # u /\ lk[t][x] = "exclusive" => lk[u][x] \notin {"shared", "exclusive"}

\* The last reader to leave wakes the writer that waits for it: a writer never
\* sleeps on `reader' when numReader has reached zero (rwlock.h:27-28, 53-68).
NoLostDrain ==
  \A x \in Records, t \in Threads : lk[t][x] = "sleepR" => numReader[x] > 0

\* A thread goes round the do-while holding mtx only while the flag belongs to
\* another thread, which needs that very mtx to clear it (rwlock.h:22-24, 34).
SpinBlocksOwner ==
  \A x \in Records, t \in Threads :
    lk[t][x] \in Spinning =>
      \E u \in Threads \ {t} : lk[u][x] \in Claimed
=============================================================================
