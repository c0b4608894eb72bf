---------------------------- MODULE RWLock_proofs ----------------------------
(***************************************************************************)
(* Proofs about RWLock: for any number of threads and records, and for     *)
(* any answers of checkQueue, the lock keeps its books right, excludes     *)
(* conflicting holders and loses no wakeup of a draining writer.           *)
(*                                                                         *)
(* Exclusion is not inductive: that no reader gets in beside a writer is   *)
(* a fact about the flag and the counter.  The inductive invariant says,   *)
(* for each record, what numReader and writing mean (Bookkeeping), that a  *)
(* writer is let through only when numReader is zero, and that a spinning  *)
(* thread still sees the flag up.                                          *)
(***************************************************************************)
EXTENDS RWLock, FiniteSetTheorems, TLAPS

Sharers(x) == {t \in Threads : lk[t][x] = "shared"}

LockInv(x) ==
  /\ numReader[x] = Cardinality(Sharers(x))
  /\ writing[x] <=> \E t \in Threads : lk[t][x] \in Claimed
  /\ \A t, u \in Threads : lk[t][x] \in Claimed /\ lk[u][x] \in Claimed => t = u
  /\ \A t \in Threads : lk[t][x] = "exclusive" => numReader[x] = 0
  /\ \A t \in Threads : lk[t][x] = "sleepR" => numReader[x] > 0
  /\ \A t \in Threads : lk[t][x] \in Spinning => writing[x]

RWInv == RWTypeOK /\ \A x \in Records : LockInv(x)

-----------------------------------------------------------------------------
(* Lemmas on the operators.                                                *)

\* What At does to lk, point by point.
LEMMA AtPointwise ==
  ASSUME NEW t \in Threads, NEW x \in Records, NEW phase \in Phases,
         lk \in [Threads -> [Records -> Phases]], At(t, x, phase)
  PROVE  /\ lk' \in [Threads -> [Records -> Phases]]
         /\ \A u \in Threads, y \in Records :
              lk'[u][y] = IF u = t /\ y = x THEN phase ELSE lk[u][y]
BY DEF At

\* What writer.notify_all does to lk, point by point: t is out, the sleepers of
\* x are about to test their turn again.
LEMMA NotifyWriterPointwise ==
  ASSUME NEW t \in Threads, NEW x \in Records,
         lk \in [Threads -> [Records -> Phases]], notifyWriter(t, x)
  PROVE  /\ lk' \in [Threads -> [Records -> Phases]]
         /\ \A u \in Threads, y \in Records : y # x => lk'[u][y] = lk[u][y]
         /\ lk'[t][x] = "none"
         /\ \A u \in Threads \ {t} :
              \/ lk'[u][x] = lk[u][x]
              \/ lk[u][x] = "sleepS" /\ lk'[u][x] = "enterS"
              \/ lk[u][x] = "sleepX" /\ lk'[u][x] = "enterX"
<1> DEFINE To(u, p) == IF u = t THEN "none"
                       ELSE CASE p = "sleepS" -> "enterS"
                              [] p = "sleepX" -> "enterX"
                              [] OTHER        -> p
<1>1. lk' = [u \in Threads |-> [lk[u] EXCEPT ![x] = To(u, lk[u][x])]]
  BY DEF notifyWriter
<1>2. \A u \in Threads, p \in Phases : To(u, p) \in Phases
  BY DEF Phases
<1>3. \A u \in Threads, y \in Records :
        lk'[u][y] = IF y = x THEN To(u, lk[u][x]) ELSE lk[u][y]
  BY <1>1
<1>4. lk' \in [Threads -> [Records -> Phases]]
  <2> HIDE DEF To
  <2> QED BY <1>1, <1>2
<1> QED
  BY <1>3, <1>4

\* A step at the lock of x leaves what is known of every other lock alone.
LEMMA OtherLocks ==
  ASSUME NEW y \in Records, LockInv(y),
         numReader'[y] = numReader[y], writing'[y] = writing[y],
         \A u \in Threads : lk'[u][y] = lk[u][y]
  PROVE  LockInv(y)'
<1>1. Sharers(y)' = Sharers(y)
  BY DEF Sharers
<1> QED
  BY <1>1 DEF LockInv

\* The readers inside a lock are finitely many, so they can be counted.
LEMMA SharersFinite ==
  ASSUME NEW x \in Records
  PROVE  IsFiniteSet(Sharers(x))
BY ThreadsFinite, FS_Subset DEF Sharers

-----------------------------------------------------------------------------
\* The invariant holds when the locks are made.
LEMMA InitInv == RWInit => RWInv
<1> SUFFICES ASSUME RWInit PROVE RWInv
  OBVIOUS
<1>1. RWTypeOK
  BY DEF RWInit, RWTypeOK, Phases
<1>2. ASSUME NEW x \in Records PROVE LockInv(x)
  <2>1. Sharers(x) = {}
    BY DEF RWInit, Sharers
  <2>2. Cardinality(Sharers(x)) = 0
    BY <2>1, FS_EmptySet
  <2> QED
    BY <2>2 DEF RWInit, LockInv, Claimed, Spinning
<1> QED
  BY <1>1, <1>2 DEF RWInv

-----------------------------------------------------------------------------
(* Each operation preserves what is known of the lock it works on.         *)

\* A step that changes only the place of t, to a place outside, keeps the
\* invariant when it stays clear of the places the books are about.
LEMMA MovePreserves ==
  ASSUME RWInv, NEW t \in Threads, NEW x \in Records, NEW phase \in Phases,
         At(t, x, phase), UNCHANGED <<numReader, writing>>,
         lk[t][x] # "shared", lk[t][x] \notin Claimed,
         phase # "shared", phase \notin Claimed,
         phase \in Spinning => writing[x]
  PROVE  RWInv'
<1> USE DEF RWInv, RWTypeOK
<1>1. /\ lk' \in [Threads -> [Records -> Phases]]
      /\ \A u \in Threads, y \in Records :
           lk'[u][y] = IF u = t /\ y = x THEN phase ELSE lk[u][y]
  BY AtPointwise
<1>2. ASSUME NEW y \in Records, y # x PROVE LockInv(y)'
  BY <1>1, <1>2, OtherLocks
<1>3. LockInv(x)'
  <2>1. Sharers(x)' = Sharers(x)
    BY <1>1 DEF Sharers
  <2>2. \A u \in Threads : lk'[u][x] \in Claimed <=> lk[u][x] \in Claimed
    BY <1>1
  <2>3. \A u \in Threads : lk'[u][x] \in Claimed => lk'[u][x] = lk[u][x]
    BY <1>1
  <2>4. \A u \in Threads : lk'[u][x] \in Spinning => writing[x]
    BY <1>1 DEF LockInv
  <2> QED
    BY <2>1, <2>2, <2>3, <2>4 DEF LockInv, Claimed
<1> QED
  BY <1>1, <1>2, <1>3

\* The reader gets in: the flag is down, so no writer has claimed the lock.
LEMMA EnterSharedPreserves ==
  ASSUME RWInv, NEW t \in Threads, NEW x \in Records,
         lk[t][x] \in {"enterS", "spinS"}, ~writing[x],
         numReader' = [numReader EXCEPT ![x] = @ + 1],
         At(t, x, "shared"), UNCHANGED writing
  PROVE  RWInv'
<1> USE DEF RWInv, RWTypeOK
<1>0. "shared" \in Phases
  BY DEF Phases
<1>1. /\ lk' \in [Threads -> [Records -> Phases]]
      /\ \A u \in Threads, y \in Records :
           lk'[u][y] = IF u = t /\ y = x THEN "shared" ELSE lk[u][y]
  BY <1>0, AtPointwise
<1>2. ASSUME NEW y \in Records, y # x PROVE LockInv(y)'
  BY <1>1, <1>2, OtherLocks
<1>3. LockInv(x)'
  <2>1. Sharers(x)' = Sharers(x) \cup {t}
    BY <1>1 DEF Sharers
  <2>2. t \notin Sharers(x)
    BY DEF Sharers
  <2>3. Cardinality(Sharers(x)') = Cardinality(Sharers(x)) + 1
    BY <2>1, <2>2, SharersFinite, FS_AddElement
  <2>4. numReader'[x] = numReader[x] + 1
    OBVIOUS
  <2>5. \A u \in Threads : lk[u][x] \notin Claimed /\ lk[u][x] \notin Spinning
    BY DEF LockInv
  <2>6. \A u \in Threads : lk'[u][x] \notin Claimed /\ lk'[u][x] \notin Spinning
    BY <1>1, <2>5 DEF Claimed, Spinning
  <2> QED
    BY <2>3, <2>4, <2>6 DEF LockInv, Claimed
<1>4. numReader' \in [Records -> Nat]
  OBVIOUS
<1> QED
  BY <1>1, <1>2, <1>3, <1>4

\* The writer claims the lock: the flag is down, so no other writer has, and it
\* passes at once only if no reader is inside.
LEMMA ClaimPreserves ==
  ASSUME RWInv, NEW t \in Threads, NEW x \in Records,
         lk[t][x] \in {"enterX", "spinX"}, ~writing[x],
         writing' = [writing EXCEPT ![x] = TRUE],
         At(t, x, IF numReader[x] > 0 THEN "sleepR" ELSE "exclusive"),
         UNCHANGED numReader
  PROVE  RWInv'
<1> USE DEF RWInv, RWTypeOK
<1> DEFINE phase == IF numReader[x] > 0 THEN "sleepR" ELSE "exclusive"
<1>0. phase \in Phases /\ phase \in Claimed
  BY DEF Phases, Claimed
<1>1. /\ lk' \in [Threads -> [Records -> Phases]]
      /\ \A u \in Threads, y \in Records :
           lk'[u][y] = IF u = t /\ y = x THEN phase ELSE lk[u][y]
  BY <1>0, AtPointwise
<1>2. ASSUME NEW y \in Records, y # x PROVE LockInv(y)'
  BY <1>1, <1>2, OtherLocks
<1>3. LockInv(x)'
  <2>1. Sharers(x)' = Sharers(x)
    BY <1>1 DEF Sharers
  <2>2. \A u \in Threads : lk[u][x] \notin Claimed
    BY DEF LockInv
  <2>3. writing'[x] /\ numReader[x] \in Nat
    OBVIOUS
  <2> QED
    BY <1>0, <1>1, <2>1, <2>2, <2>3 DEF LockInv, Claimed
<1>4. writing' \in [Records -> BOOLEAN]
  OBVIOUS
<1> QED
  BY <1>1, <1>2, <1>3, <1>4

\* The writer looks at numReader again.
LEMMA DrainPreserves ==
  ASSUME RWInv, NEW t \in Threads, NEW x \in Records, drainReaders(t, x)
  PROVE  RWInv'
<1> USE DEF RWInv, RWTypeOK, drainReaders
<1> DEFINE phase == IF numReader[x] > 0 THEN "sleepR" ELSE "exclusive"
<1>0. phase \in Phases /\ phase \in Claimed /\ lk[t][x] \in Claimed
  BY DEF Phases, Claimed
<1>1. /\ lk' \in [Threads -> [Records -> Phases]]
      /\ \A u \in Threads, y \in Records :
           lk'[u][y] = IF u = t /\ y = x THEN phase ELSE lk[u][y]
  BY <1>0, AtPointwise
<1>2. ASSUME NEW y \in Records, y # x PROVE LockInv(y)'
  BY <1>1, <1>2, OtherLocks
<1>3. LockInv(x)'
  <2>1. Sharers(x)' = Sharers(x)
    BY <1>1 DEF Sharers
  <2>2. numReader[x] \in Nat
    OBVIOUS
  <2>3. \A u \in Threads : lk'[u][x] \in Claimed <=> lk[u][x] \in Claimed
    BY <1>0, <1>1
  <2>4. \A u \in Threads : lk'[u][x] \in Claimed => u = t
    BY <1>0, <2>3 DEF LockInv
  <2>5. \A u \in Threads : lk'[u][x] \in Spinning => writing[x]
    BY <1>0, <1>1 DEF LockInv, Claimed, Spinning
  <2>6. \A u \in Threads : lk'[u][x] = "exclusive" => numReader[x] = 0
    BY <1>1, <2>2, <2>4 DEF Claimed
  <2>7. \A u \in Threads : lk'[u][x] = "sleepR" => numReader[x] > 0
    BY <1>1, <2>2, <2>4 DEF Claimed
  <2> QED
    BY <2>1, <2>3, <2>5, <2>6, <2>7 DEF LockInv
<1> QED
  BY <1>1, <1>2, <1>3

\* A spurious wakeup: a sleeper tests its condition again.
LEMMA SpuriousPreserves ==
  ASSUME RWInv, NEW t \in Threads, NEW x \in Records, spuriousWakeup(t, x)
  PROVE  RWInv'
<1> USE DEF RWInv, RWTypeOK
<1>1. CASE lk[t][x] = "sleepS" /\ At(t, x, "enterS")
  BY <1>1, MovePreserves DEF spuriousWakeup, Phases, Claimed, Spinning
<1>2. CASE lk[t][x] = "sleepX" /\ At(t, x, "enterX")
  BY <1>2, MovePreserves DEF spuriousWakeup, Phases, Claimed, Spinning
<1>3. CASE lk[t][x] = "sleepR" /\ At(t, x, "drain")
  <2>0. "drain" \in Phases /\ "drain" \in Claimed /\ lk[t][x] \in Claimed
    BY <1>3 DEF Phases, Claimed
  <2>1. /\ lk' \in [Threads -> [Records -> Phases]]
        /\ \A u \in Threads, y \in Records :
             lk'[u][y] = IF u = t /\ y = x THEN "drain" ELSE lk[u][y]
    BY <1>3, <2>0, AtPointwise
  <2>2. UNCHANGED <<numReader, writing>>
    BY DEF spuriousWakeup
  <2>3. ASSUME NEW y \in Records, y # x PROVE LockInv(y)'
    BY <2>1, <2>2, <2>3, OtherLocks
  <2>4. LockInv(x)'
    <3>1. Sharers(x)' = Sharers(x)
      BY <1>3, <2>1 DEF Sharers
    <3>2. \A u \in Threads : lk'[u][x] \in Claimed <=> lk[u][x] \in Claimed
      BY <2>0, <2>1
    <3>3. \A u \in Threads : lk'[u][x] # "drain" => lk'[u][x] = lk[u][x]
      BY <2>1
    <3>4. "drain" \notin Spinning
      BY DEF Spinning
    <3> QED
      BY <2>2, <3>1, <3>2, <3>3, <3>4 DEF LockInv
  <2> QED
    BY <2>1, <2>2, <2>3, <2>4
<1> QED
  BY <1>1, <1>2, <1>3 DEF spuriousWakeup

\* The writer leaves: it was the only claimant, so the flag can go down.
LEMMA UnlockExclusivePreserves ==
  ASSUME RWInv, NEW t \in Threads, NEW x \in Records,
         lk[t][x] = "exclusive", unlockExclusive(t, x)
  PROVE  RWInv'
<1> USE DEF RWInv, RWTypeOK, unlockExclusive
<1>1. /\ lk' \in [Threads -> [Records -> Phases]]
      /\ \A u \in Threads, y \in Records : y # x => lk'[u][y] = lk[u][y]
      /\ lk'[t][x] = "none"
      /\ \A u \in Threads \ {t} :
           \/ lk'[u][x] = lk[u][x]
           \/ lk[u][x] = "sleepS" /\ lk'[u][x] = "enterS"
           \/ lk[u][x] = "sleepX" /\ lk'[u][x] = "enterX"
  BY NotifyWriterPointwise
<1>2. ASSUME NEW y \in Records, y # x PROVE LockInv(y)'
  BY <1>1, <1>2, OtherLocks
<1>3. LockInv(x)'
  <2>1. Sharers(x)' = Sharers(x)
    BY <1>1 DEF Sharers
  <2>2. \A u \in Threads : lk[u][x] \in Claimed => u = t
    BY DEF LockInv, Claimed
  <2>3. \A u \in Threads : lk'[u][x] \notin Claimed
    BY <1>1, <2>2 DEF Claimed
  <2>4. \A u \in Threads : lk'[u][x] \notin Spinning
    BY <1>1 DEF MtxFree, Spinning
  <2>5. ~writing'[x] /\ numReader' = numReader
    OBVIOUS
  <2> QED
    BY <2>1, <2>3, <2>4, <2>5 DEF LockInv, Claimed
<1>4. writing' \in [Records -> BOOLEAN]
  OBVIOUS
<1> QED
  BY <1>1, <1>2, <1>3, <1>4

\* The reader leaves.  When it is the last one and a writer waits for it, that
\* writer is woken: no claimant is left asleep on `reader'.
LEMMA UnlockSharedPreserves ==
  ASSUME RWInv, NEW t \in Threads, NEW x \in Records,
         lk[t][x] = "shared", unlockShared(t, x)
  PROVE  RWInv'
<1> USE DEF RWInv, RWTypeOK
<1>0. /\ numReader[x] = Cardinality(Sharers(x))
      /\ numReader[x] - 1 = Cardinality(Sharers(x) \ {t})
      /\ numReader[x] - 1 \in Nat
  <2>1. t \in Sharers(x)
    BY DEF Sharers
  <2>2. Cardinality(Sharers(x) \ {t}) = Cardinality(Sharers(x)) - 1
    BY <2>1, SharersFinite, FS_RemoveElement
  <2>3. Cardinality(Sharers(x) \ {t}) \in Nat
    BY SharersFinite, FS_RemoveElement, FS_CardinalityType
  <2> QED
    BY <2>2, <2>3 DEF LockInv
<1>1. /\ numReader' \in [Records -> Nat]
      /\ numReader'[x] = numReader[x] - 1
      /\ \A y \in Records : y # x => numReader'[y] = numReader[y]
      /\ writing' = writing
  BY <1>0 DEF unlockShared
<1>2. \A u \in Threads : lk[u][x] # "exclusive"
  BY <1>0 DEF LockInv
<1>3. \A u \in Threads : lk[u][x] \notin Spinning
  BY DEF unlockShared, MtxFree
\* What the three cases have in common.
<1>4. /\ lk' \in [Threads -> [Records -> Phases]]
      /\ \A u \in Threads, y \in Records : y # x => lk'[u][y] = lk[u][y]
      /\ lk'[t][x] = "none"
      /\ \A u \in Threads \ {t} :
           \/ lk'[u][x] = lk[u][x]
           \/ lk[u][x] = "sleepS" /\ lk'[u][x] = "enterS"
           \/ lk[u][x] = "sleepX" /\ lk'[u][x] = "enterX"
           \/ lk[u][x] = "sleepR" /\ lk'[u][x] = "drain"
      /\ numReader[x] = 1 => \A u \in Threads : lk'[u][x] # "sleepR"
  <2>0. "none" \in Phases /\ "drain" \in Phases
    BY DEF Phases
  <2>1. CASE writing[x] /\ numReader[x] = 1 /\ notifyReader(t, x)
    <3>1. CASE At(t, x, "none") /\ \A u \in Threads \ {t} : lk[u][x] # "sleepR"
      BY <2>0, <3>1, AtPointwise
    <3>2. CASE \E w \in Threads \ {t} :
                 /\ lk[w][x] = "sleepR"
                 /\ lk' = [lk EXCEPT ![t][x] = "none", ![w][x] = "drain"]
      <4> PICK w \in Threads \ {t} :
            /\ lk[w][x] = "sleepR"
            /\ lk' = [lk EXCEPT ![t][x] = "none", ![w][x] = "drain"]
        BY <3>2
      <4>1. lk' \in [Threads -> [Records -> Phases]]
        BY <2>0
      <4>2. \A u \in Threads, y \in Records :
              lk'[u][y] = IF u = t /\ y = x THEN "none"
                          ELSE IF u = w /\ y = x THEN "drain" ELSE lk[u][y]
        OBVIOUS
      <4>3. \A u \in Threads : lk[u][x] = "sleepR" => u = w
        BY DEF LockInv, Claimed
      <4>4. lk'[t][x] = "none" /\ \A u \in Threads, y \in Records : y # x => lk'[u][y] = lk[u][y]
        BY <4>2
      <4>5. \A u \in Threads \ {t} :
              lk'[u][x] = lk[u][x] \/ (lk[u][x] = "sleepR" /\ lk'[u][x] = "drain")
        BY <4>2
      <4>6. \A u \in Threads : lk'[u][x] # "sleepR"
        BY <4>2, <4>3
      <4> QED
        BY <4>1, <4>4, <4>5, <4>6
    <3> QED
      BY <2>1, <3>1, <3>2 DEF notifyReader
  <2>2. CASE writing[x] /\ numReader[x] # 1 /\ At(t, x, "none")
    BY <2>0, <2>2, AtPointwise
  <2>3. CASE ~writing[x] /\ notifyWriter(t, x)
    <3>1. \A u \in Threads : lk[u][x] # "sleepR"
      BY <2>3 DEF LockInv, Claimed
    <3> QED
      BY <2>3, <3>1, NotifyWriterPointwise
  <2> QED
    BY <2>1, <2>2, <2>3 DEF unlockShared
<1>5. ASSUME NEW y \in Records, y # x PROVE LockInv(y)'
  BY <1>1, <1>4, <1>5, OtherLocks
<1>6. LockInv(x)'
  <2>1. Sharers(x)' = Sharers(x) \ {t}
    BY <1>4 DEF Sharers
  <2>2. \A u \in Threads : lk'[u][x] \in Claimed <=> lk[u][x] \in Claimed
    BY <1>4 DEF Claimed
  <2>3. \A u \in Threads : lk'[u][x] # "exclusive" /\ lk'[u][x] \notin Spinning
    BY <1>2, <1>3, <1>4 DEF Spinning
  <2>4. \A u \in Threads : lk'[u][x] = "sleepR" => numReader[x] - 1 > 0
    BY <1>0, <1>4
  <2> QED
    BY <1>0, <1>1, <2>1, <2>2, <2>3, <2>4 DEF LockInv
<1> QED
  BY <1>1, <1>4, <1>5, <1>6

-----------------------------------------------------------------------------
(* What a step of t at the lock of x does to the places of the threads; a  *)
(* client of the lock needs no more than this.                             *)

\* A notification, or a spurious wakeup, takes a sleeper back to its test.
Woken(p, q) == \/ p = "sleepS" /\ q = "enterS"
               \/ p = "sleepX" /\ q = "enterX"
               \/ p = "sleepR" /\ q = "drain"

Frame(t, x) ==
  /\ lk' \in [Threads -> [Records -> Phases]]
  /\ \A y \in Records : y # x => lk'[t][y] = lk[t][y]
  /\ \A u \in Threads, y \in Records : u # t =>
       lk'[u][y] = lk[u][y] \/ Woken(lk[u][y], lk'[u][y])

\* An operation that moves only its caller.
LEMMA AtFrame ==
  ASSUME NEW t \in Threads, NEW x \in Records, NEW phase \in Phases,
         RWTypeOK, At(t, x, phase)
  PROVE  Frame(t, x) /\ lk'[t][x] = phase
BY AtPointwise DEF Frame, RWTypeOK

\* The lock operations move the caller forward inside its own mode.
LEMMA LockFrame ==
  ASSUME NEW t \in Threads, NEW x \in Records, RWTypeOK
  PROVE  /\ callShared(t, x) => Frame(t, x) /\ lk'[t][x] = "enterS"
         /\ callExclusive(t, x) => Frame(t, x) /\ lk'[t][x] = "enterX"
         /\ \A turn \in BOOLEAN : lockShared(t, x, turn) =>
              Frame(t, x) /\ lk'[t][x] \in {"sleepS", "spinS", "shared"}
         /\ \A turn \in BOOLEAN : lockExclusive(t, x, turn) =>
              Frame(t, x) /\ lk'[t][x] \in {"sleepX", "spinX", "sleepR", "exclusive"}
         /\ drainReaders(t, x) =>
              Frame(t, x) /\ lk'[t][x] \in {"sleepR", "exclusive"}
         /\ spuriousWakeup(t, x) =>
              Frame(t, x) /\ Woken(lk[t][x], lk'[t][x])
<1>0. {"enterS", "enterX", "sleepS", "sleepX", "spinS", "spinX", "sleepR",
       "drain", "shared", "exclusive"} \subseteq Phases
  BY DEF Phases
<1>1. callShared(t, x) => Frame(t, x) /\ lk'[t][x] = "enterS"
  BY <1>0, AtFrame DEF callShared
<1>2. callExclusive(t, x) => Frame(t, x) /\ lk'[t][x] = "enterX"
  BY <1>0, AtFrame DEF callExclusive
<1>3. \A turn \in BOOLEAN : lockShared(t, x, turn) =>
        Frame(t, x) /\ lk'[t][x] \in {"sleepS", "spinS", "shared"}
  BY <1>0, AtFrame DEF lockShared
<1>4. \A turn \in BOOLEAN : lockExclusive(t, x, turn) =>
        Frame(t, x) /\ lk'[t][x] \in {"sleepX", "spinX", "sleepR", "exclusive"}
  BY <1>0, AtFrame DEF lockExclusive
<1>5. drainReaders(t, x) => Frame(t, x) /\ lk'[t][x] \in {"sleepR", "exclusive"}
  BY <1>0, AtFrame DEF drainReaders
<1>6. spuriousWakeup(t, x) => Frame(t, x) /\ Woken(lk[t][x], lk'[t][x])
  BY <1>0, AtFrame DEF spuriousWakeup, Woken
<1> QED
  BY <1>1, <1>2, <1>3, <1>4, <1>5, <1>6

\* The unlock operations take the caller out and wake others.
LEMMA UnlockFrame ==
  ASSUME NEW t \in Threads, NEW x \in Records, RWTypeOK,
         unlockExclusive(t, x) \/ unlockShared(t, x)
  PROVE  Frame(t, x) /\ lk'[t][x] = "none"
<1>0. "none" \in Phases /\ "drain" \in Phases
  BY DEF Phases
<1>1. CASE At(t, x, "none")
  BY <1>0, <1>1, AtFrame
<1>2. CASE notifyWriter(t, x)
  BY <1>2, NotifyWriterPointwise DEF Frame, Woken, RWTypeOK
<1>3. CASE notifyReader(t, x)
  <2>1. CASE \E w \in Threads \ {t} :
               /\ lk[w][x] = "sleepR"
               /\ lk' = [lk EXCEPT ![t][x] = "none", ![w][x] = "drain"]
    <3> PICK w \in Threads \ {t} :
          /\ lk[w][x] = "sleepR"
          /\ lk' = [lk EXCEPT ![t][x] = "none", ![w][x] = "drain"]
      BY <2>1
    <3>1. lk' \in [Threads -> [Records -> Phases]]
      BY <1>0 DEF RWTypeOK
    <3>2. \A u \in Threads, y \in Records :
            lk'[u][y] = IF u = t /\ y = x THEN "none"
                        ELSE IF u = w /\ y = x THEN "drain" ELSE lk[u][y]
      BY DEF RWTypeOK
    <3> QED
      BY <3>1, <3>2 DEF Frame, Woken
  <2> QED
    BY <1>1, <1>3, <2>1 DEF notifyReader
<1> QED
  BY <1>1, <1>2, <1>3 DEF unlockExclusive, unlockShared

-----------------------------------------------------------------------------
\* Every step of every client preserves the invariant.
LEMMA NextInv == RWInv /\ [RWNext]_rwVars => RWInv'
<1> SUFFICES ASSUME RWInv, [RWNext]_rwVars PROVE RWInv'
  OBVIOUS
<1> USE DEF RWInv, RWTypeOK
<1>1. CASE UNCHANGED rwVars
  <2>1. \A x \in Records : LockInv(x)'
    BY <1>1, OtherLocks DEF rwVars
  <2> QED
    BY <1>1, <2>1 DEF rwVars
<1>2. ASSUME NEW t \in Threads, NEW x \in Records,
             lk[t][x] = "none", callShared(t, x) \/ callExclusive(t, x)
      PROVE  RWInv'
  BY <1>2, MovePreserves DEF callShared, callExclusive, Phases, Claimed, Spinning
<1>3. ASSUME NEW t \in Threads, NEW x \in Records, NEW turn \in BOOLEAN,
             lockShared(t, x, turn)
      PROVE  RWInv'
  <2>0. lk[t][x] \in {"enterS", "spinS"}
    BY <1>3 DEF lockShared
  <2>1. CASE At(t, x, "sleepS") /\ UNCHANGED <<numReader, writing>>
    BY <2>0, <2>1, MovePreserves DEF Phases, Claimed, Spinning
  <2>2. CASE writing[x] /\ At(t, x, "spinS") /\ UNCHANGED <<numReader, writing>>
    BY <2>0, <2>2, MovePreserves DEF Phases, Claimed, Spinning
  <2>3. CASE /\ ~writing[x] /\ At(t, x, "shared") /\ UNCHANGED writing
             /\ numReader' = [numReader EXCEPT ![x] = @ + 1]
    BY <2>0, <2>3, EnterSharedPreserves
  <2> QED
    BY <1>3, <2>1, <2>2, <2>3 DEF lockShared
<1>4. ASSUME NEW t \in Threads, NEW x \in Records, NEW turn \in BOOLEAN,
             lockExclusive(t, x, turn)
      PROVE  RWInv'
  <2>0. lk[t][x] \in {"enterX", "spinX"} /\ UNCHANGED numReader
    BY <1>4 DEF lockExclusive
  <2>1. CASE At(t, x, "sleepX") /\ UNCHANGED writing
    BY <2>0, <2>1, MovePreserves DEF Phases, Claimed, Spinning
  <2>2. CASE writing[x] /\ At(t, x, "spinX") /\ UNCHANGED writing
    BY <2>0, <2>2, MovePreserves DEF Phases, Claimed, Spinning
  <2>3. CASE /\ ~writing[x] /\ writing' = [writing EXCEPT ![x] = TRUE]
             /\ At(t, x, IF numReader[x] > 0 THEN "sleepR" ELSE "exclusive")
    BY <2>0, <2>3, ClaimPreserves
  <2> QED
    BY <1>4, <2>1, <2>2, <2>3 DEF lockExclusive
<1> QED
  BY <1>1, <1>2, <1>3, <1>4, DrainPreserves, SpuriousPreserves,
     UnlockExclusivePreserves, UnlockSharedPreserves DEF RWNext

\* What the invariant says of the lock, in the words of the properties.
LEMMA InvImplies ==
  RWInv => RWTypeOK /\ Bookkeeping /\ Exclusion /\ NoLostDrain /\ SpinBlocksOwner
<1> SUFFICES ASSUME RWInv
             PROVE  RWTypeOK /\ Bookkeeping /\ Exclusion /\ NoLostDrain /\ SpinBlocksOwner
  OBVIOUS
<1>1. Bookkeeping
  BY DEF RWInv, LockInv, Bookkeeping, ReaderCount, Sharers
<1>2. Exclusion
  <2> SUFFICES ASSUME NEW x \in Records, NEW t \in Threads, NEW u \in Threads,
                      t # u, lk[t][x] = "exclusive",
                      lk[u][x] \in {"shared", "exclusive"}
               PROVE  FALSE
    BY DEF Exclusion
  <2>1. CASE lk[u][x] = "exclusive"
    BY <2>1 DEF RWInv, LockInv, Claimed
  <2>2. CASE lk[u][x] = "shared"
    <3>1. Cardinality(Sharers(x)) = 0
      BY DEF RWInv, LockInv
    <3>2. Sharers(x) = {}
      BY <3>1, SharersFinite, FS_EmptySet
    <3> QED
      BY <2>2, <3>2 DEF Sharers
  <2> QED
    BY <2>1, <2>2
<1>3. NoLostDrain
  BY DEF RWInv, LockInv, NoLostDrain
<1>4. SpinBlocksOwner
  BY DEF RWInv, LockInv, SpinBlocksOwner, Spinning, Claimed
<1> QED
  BY <1>1, <1>2, <1>3, <1>4 DEF RWInv

\* The invariant of every behaviour of the locks.
THEOREM RWInvariant == RWSpec => []RWInv
BY InitInv, NextInv, PTL DEF RWSpec

\* The counters, flags and places of rwlock.h stay within their types: numReader,
\* which unlockShared decrements unchecked, never goes below zero.
THEOREM RWTypeCorrect == RWSpec => []RWTypeOK
BY RWInvariant, InvImplies, PTL

\* numReader and writing mean what their names say, whoever uses the lock and
\* whatever checkQueue answers.
THEOREM BookkeepingTheorem == RWSpec => []Bookkeeping
BY RWInvariant, InvImplies, PTL

\* A thread inside lockExclusive is alone: the racy checkQueue cannot break the
\* mutual exclusion of readers and writers.
THEOREM ExclusionTheorem == RWSpec => []Exclusion
BY RWInvariant, InvImplies, PTL

\* A writer never sleeps on `reader' when the last reader has left.
THEOREM NoLostDrainTheorem == RWSpec => []NoLostDrain
BY RWInvariant, InvImplies, PTL

\* A thread spins holding mtx only while another thread needs that mtx to clear
\* the flag: the spin never ends by itself.
THEOREM SpinBlocksOwnerTheorem == RWSpec => []SpinBlocksOwner
BY RWInvariant, InvImplies, PTL
=============================================================================
