------------------------- MODULE WFSnapshot_proofs --------------------------
(***************************************************************************)
(* Theorems about WFSnapshot, for any number of threads and updates: a     *)
(* snapshot is regular, a scan never borrows one and makes at most N + 1   *)
(* collects, run() returns the number of updates, and every variable stays *)
(* within its type.                                                        *)
(*                                                                         *)
(* The argument for the first two.  As the copy constructor drops the      *)
(* stamp, every update writes the stamp 1, so the stamp of a component     *)
(* goes from 0 to 1 once and stays there (Stamps).  A component that has   *)
(* moved has the stamp 1 in the older copy, hence in the newer one, and    *)
(* never differs again (Behind): the direct snapshot is the only one that  *)
(* is returned.  Its values were read field by field during the scan, each *)
(* from a component whose value was recorded in seen when it was written   *)
(* (Recorded).  A scan makes two collects and one more for each component  *)
(* that moved, which its own never does (Rounds, Own).                     *)
(***************************************************************************)
EXTENDS WFSnapshot, FiniteSetTheorems, WellFoundedInduction, TLAPS

Labels == {"loop", "collectOld", "collectNew", "compare", "store", "done"}

\* SnapshotTypeOK without total: that a sum of integers is one takes an induction.
SnapType ==
  /\ snaps \in [Threads -> StampedSnap]
  /\ exit \in BOOLEAN
  /\ updateCounts \in [Threads -> Int]
  /\ pc \in [Threads -> Labels]
  /\ newValue \in [Threads -> StampedSnap]
  /\ oldCopy \in [Threads -> [Threads -> StampedSnap]]
  /\ newCopy \in [Threads -> [Threads -> StampedSnap]]
  /\ moved \in [Threads -> SUBSET Threads]
  /\ next \in [Threads -> Threads]
  /\ todo \in [Threads -> (SUBSET Fields) \ {{}}]
  /\ updateCount \in [Threads -> 0..MaxUpdates]
  /\ seen \in [Threads -> [Threads -> SUBSET (Values \cup {0})]]

\* The update t is working at is one that is allowed; a copy has begun or not.
Control(t) ==
  /\ pc[t] \notin {"loop", "done"} => updateCount[t] < MaxUpdates
  /\ pc[t] = "compare" => next[t] = 1 /\ todo[t] = Fields

\* Every update writes the stamp 1.
Stamps(t) ==
  /\ snaps[t].stamp \in {0, 1}
  /\ pc[t] = "store" => newValue[t].stamp = 1

\* The second collect of this round has read field f of component i.
Read(t, i, f) ==
  \/ pc[t] = "compare"
  \/ pc[t] = "collectNew" /\ (i < next[t] \/ (i = next[t] /\ f \notin todo[t]))

\* The copies of component i are in the order in which they were made.
Behind(t, i) ==
  /\ oldCopy[t][i].stamp =< snaps[i].stamp
  /\ newCopy[t][i].stamp =< snaps[i].stamp
  /\ Read(t, i, "stamp") => oldCopy[t][i].stamp =< newCopy[t][i].stamp
  /\ i \in moved[t] => oldCopy[t][i].stamp = 1

\* What t can read, has read and returns of component i is in seen.
Recorded(t, i) ==
  /\ Scanning(t) => snaps[i].value \in seen[t][i]
  /\ Read(t, i, "value") => newCopy[t][i].value \in seen[t][i]

ScanInv ==
  /\ SnapType
  /\ \A t \in Threads : Control(t) /\ Stamps(t)
  /\ \A t, i \in Threads : Behind(t, i) /\ Recorded(t, i)
  /\ RegularScan

\* run() has returned the sum of what the threads had counted when they left.
CountInv ==
  /\ \A t \in Threads : pc[t] = "done" => updateCounts[t] = updateCount[t]
  /\ total # NoSnap => total = Sum(updateCounts) /\ \A t \in Threads : pc[t] = "done"

\* A component that has moved already never differs again: the snapshot its owner
\* took is never borrowed (wfsnapshot.h:56-60).
NeverBorrows ==
  \A t \in Threads : pc[t] = "compare" => Differing(t) \cap moved[t] = {}

-----------------------------------------------------------------------------
(* The operators of the model.                                             *)

\* A set of naturals has a least element.
LEMMA LeastNatural ==
  ASSUME NEW S, S \subseteq Nat, S # {}
  PROVE  \E x \in S : \A y \in S : x =< y
<1> DEFINE R == OpToRel(<, Nat)
<1>1. IsWellFoundedOn(R, Nat)
  BY NatLessThanWellFounded
<1>2. \A x, y \in Nat : x < y => <<x, y>> \in R
  BY DEF OpToRel
<1> HIDE DEF R
<1>3. PICK x \in S : \A y \in S : ~ (<<y, x>> \in R)
  BY <1>1, WFMin
<1>4. ASSUME NEW y \in S PROVE x =< y
  <2>1. x \in Nat /\ y \in Nat
    OBVIOUS
  <2>2. ~(y < x)
    BY <1>2, <1>3, <2>1
  <2> QED
    BY <2>1, <2>2
<1> QED
  BY <1>4

\* The scan stops at one of the components that differ.
LEMMA MinDiffers ==
  ASSUME NEW t \in Threads, Differing(t) # {}
  PROVE  Min(Differing(t)) \in Differing(t)
<1>1. Differing(t) \subseteq Nat
  BY SnapshotAssumption DEF Differing, Threads
<1> QED
  BY <1>1, LeastNatural DEF Min

\* Copying one field of a struct.
LEMMA FieldCopy ==
  ASSUME NEW r \in StampedSnap, NEW s \in StampedSnap, NEW f \in Fields,
         NEW q, q = [r EXCEPT ![f] = s[f]]
  PROVE  /\ q \in StampedSnap
         /\ q.stamp = IF f = "stamp" THEN s.stamp ELSE r.stamp
         /\ q.value = IF f = "value" THEN s.value ELSE r.value
<1>1. CASE f = "stamp"
  BY <1>1 DEF StampedSnap
<1>2. CASE f = "value"
  BY <1>2 DEF StampedSnap
<1>3. CASE f = "snap"
  BY <1>3 DEF StampedSnap
<1> QED
  BY <1>1, <1>2, <1>3 DEF Fields

\* Writing a component of a thread's own copy of the array.
LEMMA CollectCopy ==
  ASSUME NEW copy \in [Threads -> [Threads -> StampedSnap]], NEW t \in Threads,
         NEW i \in Threads, NEW c \in StampedSnap,
         NEW q, q = [copy EXCEPT ![t] = [copy[t] EXCEPT ![i] = c]]
  PROVE  /\ q \in [Threads -> [Threads -> StampedSnap]]
         /\ \A u \in Threads : u # t => q[u] = copy[u]
         /\ \A j \in Threads : j # i => q[t][j] = copy[t][j]
         /\ q[t][i] = c
<1>1. /\ q[t] = [copy[t] EXCEPT ![i] = c]
      /\ \A u \in Threads : u # t => q[u] = copy[u]
  OBVIOUS
<1>2. q[t][i] = c /\ \A j \in Threads : j # i => q[t][j] = copy[t][j]
  BY <1>1
<1>3. [copy[t] EXCEPT ![i] = c] \in [Threads -> StampedSnap]
  OBVIOUS
<1>4. q \in [Threads -> [Threads -> StampedSnap]]
  BY <1>3
<1> QED
  BY <1>1, <1>2, <1>4

\* After a field, the collect is in the same component, in the next one, or over.
LEMMA CollectedStep ==
  ASSUME SnapType, NEW t \in Threads, NEW f \in todo[t], NEW label \in Labels,
         Collected(t, f, label)
  PROVE  /\ todo' \in [Threads -> (SUBSET Fields) \ {{}}]
         /\ next' \in [Threads -> Threads] /\ pc' \in [Threads -> Labels]
         /\ \A u \in Threads : u # t =>
              todo'[u] = todo[u] /\ next'[u] = next[u] /\ pc'[u] = pc[u]
         /\ \/ /\ todo'[t] = todo[t] \ {f}
               /\ next'[t] = next[t] /\ pc'[t] = pc[t]
            \/ /\ todo[t] = {f} /\ todo'[t] = Fields
               /\ next'[t] = next[t] + 1 /\ pc'[t] = pc[t]
            \/ /\ todo[t] = {f} /\ todo'[t] = Fields
               /\ next[t] = N /\ next'[t] = 1 /\ pc'[t] = label
<1>1. todo[t] \in (SUBSET Fields) \ {{}} /\ next[t] \in Threads /\ f \in Fields
  BY DEF SnapType
<1>2. \A n \in Threads : (n % N) + 1 = IF n = N THEN 1 ELSE n + 1
  BY SnapshotAssumption DEF Threads
<1>3. 1 \in Threads /\ \A n \in Threads : n # N => n + 1 \in Threads
  BY SnapshotAssumption DEF Threads
<1>4. Fields \in (SUBSET Fields) \ {{}}
  BY DEF Fields
<1>5. CASE todo[t] # {f}
  <2>1. /\ todo' = [todo EXCEPT ![t] = todo[t] \ {f}]
        /\ next' = [next EXCEPT ![t] = next[t]] /\ pc' = [pc EXCEPT ![t] = pc[t]]
    BY <1>5 DEF Collected, CopyField
  <2>2. todo[t] \ {f} \in (SUBSET Fields) \ {{}}
    BY <1>1, <1>5
  <2> QED
    BY <2>1, <2>2 DEF SnapType
<1>6. CASE todo[t] = {f} /\ next[t] # N
  <2>1. /\ todo' = [todo EXCEPT ![t] = Fields]
        /\ next' = [next EXCEPT ![t] = next[t] + 1] /\ pc' = [pc EXCEPT ![t] = pc[t]]
    BY <1>1, <1>2, <1>6 DEF Collected, CopyField
  <2> QED
    BY <1>1, <1>3, <1>4, <1>6, <2>1 DEF SnapType
<1>7. CASE todo[t] = {f} /\ next[t] = N
  <2>1. /\ todo' = [todo EXCEPT ![t] = Fields]
        /\ next' = [next EXCEPT ![t] = 1] /\ pc' = [pc EXCEPT ![t] = label]
    BY <1>1, <1>2, <1>7 DEF Collected, CopyField
  <2> QED
    BY <1>1, <1>3, <1>4, <1>7, <2>1 DEF SnapType
<1> QED
  BY <1>5, <1>6, <1>7

-----------------------------------------------------------------------------
(* The invariant of the scans, action by action.                           *)

\* Nothing has been collected or stored.
LEMMA ScanInit == Init => ScanInv
<1> SUFFICES ASSUME Init PROVE ScanInv
  OBVIOUS
<1>1. Blank \in StampedSnap /\ Blank.stamp = 0
  BY DEF Blank, StampedSnap
<1>2. 1 \in Threads /\ Fields \in (SUBSET Fields) \ {{}}
  BY SnapshotAssumption DEF Threads, Fields
<1>3. Empty \in [Threads -> StampedSnap] /\ \A i \in Threads : Empty[i].stamp = 0
  BY <1>1 DEF Empty
<1>4. SnapType
  <2>0. 0 \in 0..MaxUpdates /\ Garbage \subseteq Int
    BY SnapshotAssumption
  <2>1. updateCounts \in [Threads -> Int] /\ updateCount \in [Threads -> 0..MaxUpdates]
    BY <2>0 DEF Init
  <2>2. seen \in [Threads -> [Threads -> SUBSET (Values \cup {0})]]
    BY DEF Init
  <2>3. next \in [Threads -> Threads] /\ todo \in [Threads -> (SUBSET Fields) \ {{}}]
    BY <1>2 DEF Init
  <2> QED
    BY <1>3, <2>1, <2>2, <2>3 DEF Init, SnapType, Labels
<1>5. ASSUME NEW t \in Threads PROVE Control(t) /\ Stamps(t)
  BY <1>3 DEF Init, Control, Stamps
<1>6. ASSUME NEW t \in Threads, NEW i \in Threads PROVE Behind(t, i) /\ Recorded(t, i)
  BY <1>3 DEF Init, Behind, Recorded, Read, Scanning
<1>7. RegularScan
  BY DEF Init, RegularScan
<1> QED
  BY <1>4, <1>5, <1>6, <1>7 DEF ScanInv

\* What a step does not touch of another thread.
LEMMA Others ==
  ASSUME ScanInv, NEW u \in Threads, UNCHANGED <<snaps, newValue[u], oldCopy[u],
           newCopy[u], moved[u], next[u], todo[u], updateCount[u], seen[u], pc[u]>>
  PROVE  /\ Control(u)' /\ Stamps(u)' /\ \A i \in Threads : Behind(u, i)' /\ Recorded(u, i)'
         /\ pc'[u] = "store" /\ todo'[u] = Fields =>
              newValue'[u].snap # NoSnap /\ \A i \in Threads : newValue'[u].snap[i] \in seen'[u][i]
<1>1. Control(u)' /\ Stamps(u)'
  BY DEF ScanInv, Control, Stamps
<1>2. \A i \in Threads : Behind(u, i)' /\ Recorded(u, i)'
  BY DEF ScanInv, Behind, Recorded, Read, Scanning
<1> QED
  BY <1>1, <1>2 DEF ScanInv, RegularScan

\* An update begins: whatever a component holds now is recorded.
LEMMA CallStep ==
  ASSUME ScanInv, NEW t \in Threads, Call(t)
  PROVE  ScanInv'
<1>0. /\ pc' = [pc EXCEPT ![t] = "collectOld"] /\ pc[t] = "loop"
      /\ seen' = [seen EXCEPT ![t] = [i \in Threads |-> {snaps[i].value}]]
      /\ newValue' = [newValue EXCEPT ![t].value = updateCount[t] + 1]
      /\ updateCount[t] < MaxUpdates
      /\ UNCHANGED <<sharedVars, oldCopy, newCopy, moved, next, todo, updateCount>>
      /\ SnapType
  BY DEF Call, ScanInv
<1>1. SnapType'
  <2>1. updateCount[t] + 1 \in Values
    BY <1>0, SnapshotAssumption DEF SnapType, Values
  <2>2. newValue' \in [Threads -> StampedSnap]
    <3> DEFINE r == [newValue[t] EXCEPT !.value = updateCount[t] + 1]
    <3>0. newValue \in [Threads -> StampedSnap] /\ newValue[t] \in StampedSnap
      BY <1>0 DEF SnapType
    <3>1. r \in StampedSnap
      BY <2>1, <3>0 DEF StampedSnap
    <3>2. newValue' = [newValue EXCEPT ![t] = r]
      BY <1>0
    <3> HIDE DEF r
    <3> QED
      BY <3>0, <3>1, <3>2
  <2>3. [i \in Threads |-> {snaps[i].value}] \in [Threads -> SUBSET (Values \cup {0})]
    BY <1>0 DEF SnapType, StampedSnap
  <2> QED
    BY <1>0, <2>2, <2>3 DEF SnapType, sharedVars, Labels
<1>2. pc'[t] = "collectOld" /\ seen'[t] = [i \in Threads |-> {snaps[i].value}]
  BY <1>0 DEF SnapType
<1>3. Control(t)' /\ Stamps(t)'
  BY <1>0, <1>2 DEF ScanInv, Control, Stamps, sharedVars
<1>4. ASSUME NEW i \in Threads PROVE Behind(t, i)' /\ Recorded(t, i)'
  BY <1>0, <1>2 DEF ScanInv, Behind, Recorded, Read, Scanning, sharedVars
<1>5. ASSUME NEW u \in Threads, u # t
      PROVE  UNCHANGED <<snaps, newValue[u], oldCopy[u], newCopy[u], moved[u], next[u],
                         todo[u], updateCount[u], seen[u], pc[u]>>
  BY <1>0, <1>5 DEF SnapType, sharedVars
<1> QED
  BY <1>1, <1>2, <1>3, <1>4, <1>5, Others DEF ScanInv, RegularScan

\* A field of the first copy.
LEMMA CollectOldStep ==
  ASSUME ScanInv, NEW t \in Threads, CollectOld(t)
  PROVE  ScanInv'
<1>0. /\ pc[t] = "collectOld"
      /\ UNCHANGED <<snaps, exit, updateCounts, newValue, newCopy, moved, updateCount, seen>>
      /\ SnapType
  BY DEF CollectOld, sharedVars, ScanInv
<1> DEFINE k == next[t]
<1>1. PICK f \in todo[t] : /\ oldCopy' = [oldCopy EXCEPT ![t][k][f] = snaps[k][f]]
                           /\ Collected(t, f, "collectNew")
  BY DEF CollectOld
<1>2. k \in Threads /\ f \in Fields /\ snaps[k] \in StampedSnap
  BY <1>0 DEF SnapType
<1>3. /\ oldCopy' \in [Threads -> [Threads -> StampedSnap]]
      /\ \A u \in Threads : u # t => oldCopy'[u] = oldCopy[u]
      /\ \A j \in Threads : j # k => oldCopy'[t][j] = oldCopy[t][j]
      /\ oldCopy'[t][k].stamp = IF f = "stamp" THEN snaps[k].stamp ELSE oldCopy[t][k].stamp
  <2> DEFINE c == [oldCopy[t][k] EXCEPT ![f] = snaps[k][f]]
  <2>0. oldCopy \in [Threads -> [Threads -> StampedSnap]] /\ oldCopy[t][k] \in StampedSnap
    BY <1>0, <1>2 DEF SnapType
  <2>1. /\ c \in StampedSnap
        /\ c.stamp = IF f = "stamp" THEN snaps[k].stamp ELSE oldCopy[t][k].stamp
    BY <1>2, <2>0, FieldCopy
  <2>2. oldCopy' = [oldCopy EXCEPT ![t] = [oldCopy[t] EXCEPT ![k] = c]]
    BY <1>1
  <2> HIDE DEF c, k
  <2> QED
    BY <1>2, <2>0, <2>1, <2>2, CollectCopy
<1>4. /\ todo' \in [Threads -> (SUBSET Fields) \ {{}}]
      /\ next' \in [Threads -> Threads] /\ pc' \in [Threads -> Labels]
      /\ \A u \in Threads : u # t =>
           todo'[u] = todo[u] /\ next'[u] = next[u] /\ pc'[u] = pc[u]
      /\ pc'[t] \in {"collectOld", "collectNew"}
      /\ pc'[t] = "collectNew" => todo'[t] = Fields /\ next'[t] = 1
  <2>1. "collectNew" \in Labels
    BY DEF Labels
  <2> QED
    BY <1>0, <1>1, <2>1, CollectedStep
<1>5. SnapType'
  <2>1. oldCopy' \in [Threads -> [Threads -> StampedSnap]]
    BY <1>3
  <2> QED
    BY <1>0, <1>4, <2>1 DEF SnapType
<1>6. Control(t)' /\ Stamps(t)'
  BY <1>0, <1>4 DEF ScanInv, Control, Stamps
<1>7. ASSUME NEW i \in Threads PROVE Behind(t, i)' /\ Recorded(t, i)'
  <2>1. ~Read(t, i, "stamp")' /\ ~Read(t, i, "value")'
    <3>1. i \in Int /\ ~(i < 1)
      BY SnapshotAssumption DEF Threads
    <3>2. pc'[t] \in {"collectOld", "collectNew"}
      BY <1>4
    <3>3. pc'[t] = "collectNew" => todo'[t] = Fields /\ next'[t] = 1
      BY <1>4
    <3> QED
      BY <3>1, <3>2, <3>3 DEF Read, Fields
  <2>2. Behind(t, i) /\ Stamps(i) /\ Recorded(t, i)
    BY DEF ScanInv
  <2>3. Behind(t, i)'
    <3>1. oldCopy[t][i].stamp \in Nat /\ snaps[i].stamp \in Nat
      BY <1>0 DEF SnapType, StampedSnap
    <3>2. oldCopy'[t][i].stamp \in {oldCopy[t][i].stamp, snaps[i].stamp}
      BY <1>2, <1>3
    <3> QED
      BY <1>0, <2>1, <2>2, <3>1, <3>2 DEF Behind, Stamps
  <2>4. Recorded(t, i)'
    BY <1>0, <2>1, <2>2 DEF Recorded, Scanning
  <2> QED
    BY <2>3, <2>4
<1>8. ASSUME NEW u \in Threads, u # t
      PROVE  UNCHANGED <<snaps, newValue[u], oldCopy[u], newCopy[u], moved[u], next[u],
                         todo[u], updateCount[u], seen[u], pc[u]>>
  <2>1. oldCopy'[u] = oldCopy[u]
    BY <1>3, <1>8
  <2> QED
    BY <1>0, <1>4, <1>8, <2>1
<1> QED
  BY <1>4, <1>5, <1>6, <1>7, <1>8, Others DEF ScanInv, RegularScan

\* A field of the second copy.
LEMMA CollectNewStep ==
  ASSUME ScanInv, NEW t \in Threads, CollectNew(t)
  PROVE  ScanInv'
<1>0. /\ pc[t] = "collectNew"
      /\ UNCHANGED <<snaps, exit, updateCounts, newValue, oldCopy, moved, updateCount, seen>>
      /\ SnapType
  BY DEF CollectNew, sharedVars, ScanInv
<1> DEFINE k == next[t]
<1>1. PICK f \in todo[t] : /\ newCopy' = [newCopy EXCEPT ![t][k][f] = snaps[k][f]]
                           /\ Collected(t, f, "compare")
  BY DEF CollectNew
<1>2. k \in Threads /\ f \in Fields /\ snaps[k] \in StampedSnap
  BY <1>0 DEF SnapType
<1>3. /\ newCopy' \in [Threads -> [Threads -> StampedSnap]]
      /\ \A u \in Threads : u # t => newCopy'[u] = newCopy[u]
      /\ \A j \in Threads : j # k => newCopy'[t][j] = newCopy[t][j]
      /\ newCopy'[t][k].stamp = IF f = "stamp" THEN snaps[k].stamp ELSE newCopy[t][k].stamp
      /\ newCopy'[t][k].value = IF f = "value" THEN snaps[k].value ELSE newCopy[t][k].value
  <2> DEFINE c == [newCopy[t][k] EXCEPT ![f] = snaps[k][f]]
  <2>0. newCopy \in [Threads -> [Threads -> StampedSnap]] /\ newCopy[t][k] \in StampedSnap
    BY <1>0, <1>2 DEF SnapType
  <2>1. /\ c \in StampedSnap
        /\ c.stamp = IF f = "stamp" THEN snaps[k].stamp ELSE newCopy[t][k].stamp
        /\ c.value = IF f = "value" THEN snaps[k].value ELSE newCopy[t][k].value
    BY <1>2, <2>0, FieldCopy
  <2>2. newCopy' = [newCopy EXCEPT ![t] = [newCopy[t] EXCEPT ![k] = c]]
    BY <1>1
  <2> HIDE DEF c, k
  <2> QED
    BY <1>2, <2>0, <2>1, <2>2, CollectCopy
<1>4. /\ todo' \in [Threads -> (SUBSET Fields) \ {{}}]
      /\ next' \in [Threads -> Threads] /\ pc' \in [Threads -> Labels]
      /\ \A u \in Threads : u # t =>
           todo'[u] = todo[u] /\ next'[u] = next[u] /\ pc'[u] = pc[u]
      /\ \/ todo'[t] = todo[t] \ {f} /\ next'[t] = k /\ pc'[t] = "collectNew"
         \/ /\ todo[t] = {f} /\ todo'[t] = Fields
            /\ next'[t] = k + 1 /\ pc'[t] = "collectNew"
         \/ /\ todo[t] = {f} /\ todo'[t] = Fields
            /\ k = N /\ next'[t] = 1 /\ pc'[t] = "compare"
  <2>1. "compare" \in Labels
    BY DEF Labels
  <2> QED
    BY <1>0, <1>1, <2>1, CollectedStep
<1>5. SnapType'
  BY <1>0, <1>3, <1>4 DEF SnapType
<1>6. Control(t)' /\ Stamps(t)'
  BY <1>0, <1>4 DEF ScanInv, Control, Stamps
<1>7. ASSUME NEW i \in Threads, NEW g \in Fields, Read(t, i, g)'
      PROVE  Read(t, i, g) \/ (i = k /\ g = f)
  <2>1. i \in Int /\ k \in Int /\ i =< N
    BY <1>2, SnapshotAssumption DEF Threads
  <2> QED
    BY <1>0, <1>4, <1>7, <2>1 DEF Read
<1>8. ~Read(t, k, f)
  BY <1>0, <1>2, SnapshotAssumption DEF Read, Threads
<1>9. ASSUME NEW i \in Threads PROVE Behind(t, i)' /\ Recorded(t, i)'
  <2>0. {"stamp", "value"} \subseteq Fields
    BY DEF Fields
  <2>1. Behind(t, i) /\ Stamps(i) /\ Recorded(t, i)
    BY DEF ScanInv
  <2>2. CASE i # k
    <3>1. newCopy'[t][i] = newCopy[t][i]
      BY <1>3, <2>2
    <3>2. \A g \in Fields : Read(t, i, g)' => Read(t, i, g)
      BY <1>7, <2>2
    <3>3. Read(t, i, "stamp")' => Read(t, i, "stamp")
      BY <2>0, <3>2
    <3>4. Read(t, i, "value")' => Read(t, i, "value")
      BY <2>0, <3>2
    <3> QED
      BY <1>0, <1>4, <2>0, <2>1, <3>1, <3>3, <3>4 DEF Behind, Recorded, Scanning
  <2>3. CASE i = k
    <3>1. Read(t, i, "stamp")' => f = "stamp" \/ (f # "stamp" /\ Read(t, i, "stamp"))
      BY <1>7, <1>8, <2>0, <2>3
    <3>2. Read(t, i, "value")' => f = "value" \/ (f # "value" /\ Read(t, i, "value"))
      BY <1>7, <1>8, <2>0, <2>3
    <3>3. Behind(t, i)'
      <4>1. snaps[i].stamp \in Nat
        BY <2>1 DEF Stamps
      <4> QED
        BY <1>0, <1>3, <2>1, <2>3, <3>1, <4>1 DEF Behind
    <3>4. Recorded(t, i)'
      BY <1>0, <1>3, <1>4, <2>1, <2>3, <3>2 DEF Recorded, Scanning
    <3> QED
      BY <3>3, <3>4
  <2> QED
    BY <2>2, <2>3
<1>10. ASSUME NEW u \in Threads, u # t
      PROVE  UNCHANGED <<snaps, newValue[u], oldCopy[u], newCopy[u], moved[u], next[u],
                         todo[u], updateCount[u], seen[u], pc[u]>>
  BY <1>0, <1>3, <1>4, <1>10
<1> QED
  BY <1>4, <1>5, <1>6, <1>9, <1>10, Others DEF ScanInv, RegularScan

\* The two copies agree in the stamp of every component that has moved.
LEMMA NoBorrowing ==
  ASSUME ScanInv, NEW t \in Threads, pc[t] = "compare"
  PROVE  /\ Differing(t) \cap moved[t] = {}
         /\ \A i \in Differing(t) : newCopy[t][i].stamp = 1
<1> SUFFICES ASSUME NEW i \in Differing(t)
             PROVE  i \notin moved[t] /\ newCopy[t][i].stamp = 1
  OBVIOUS
<1>1. /\ i \in Threads /\ oldCopy[t][i].stamp # newCopy[t][i].stamp
      /\ Behind(t, i) /\ Stamps(i)
  BY DEF Differing, ScanInv
<1>2. /\ oldCopy[t][i].stamp \in Nat /\ newCopy[t][i].stamp \in Nat
      /\ snaps[i].stamp \in {0, 1}
  BY <1>1 DEF ScanInv, SnapType, StampedSnap, Stamps
<1> QED
  BY <1>1, <1>2 DEF Behind, Read

\* The end of a scan, or another round of it.
LEMMA CompareStep ==
  ASSUME ScanInv, NEW t \in Threads, Compare(t)
  PROVE  ScanInv'
<1>0. /\ pc[t] = "compare" /\ next[t] = 1 /\ todo[t] = Fields
      /\ UNCHANGED <<snaps, exit, updateCounts, next, todo, updateCount, seen>>
      /\ SnapType
  BY DEF Compare, sharedVars, ScanInv, Control
<1>1. \/ Make(t, Direct(t))
      \/ \E i \in Differing(t) : Retry(t, i)
  BY <1>0, MinDiffers, NoBorrowing DEF Compare
<1>2. CASE Make(t, Direct(t))
  <2> DEFINE r == [newValue[t] EXCEPT !.stamp = 1, !.snap = Direct(t)]
  <2>1. CopyConstruct(snaps[t]).stamp + 1 = 1
    BY <1>0 DEF CopyConstruct, SnapType, StampedSnap
  <2>2. /\ newValue' = [newValue EXCEPT ![t] = r]
        /\ oldCopy' = [oldCopy EXCEPT ![t] = Empty]
        /\ newCopy' = [newCopy EXCEPT ![t] = Empty]
        /\ moved' = [moved EXCEPT ![t] = {}]
        /\ pc' = [pc EXCEPT ![t] = "store"]
    BY <1>2, <2>1 DEF Make
  <2>3. /\ Direct(t) \in [Threads -> Values \cup {0}]
        /\ \A i \in Threads : Direct(t)[i] \in seen[t][i]
    <3>1. \A i \in Threads : newCopy[t][i] \in StampedSnap
      BY <1>0 DEF SnapType
    <3>2. \A i \in Threads : newCopy[t][i].value \in seen[t][i]
      BY <1>0 DEF ScanInv, Recorded, Read
    <3> QED
      BY <3>1, <3>2 DEF Direct, StampedSnap
  <2>4. r \in StampedSnap /\ r.stamp = 1 /\ r.snap = Direct(t)
    <3>1. newValue[t] \in StampedSnap
      BY <1>0 DEF SnapType
    <3> QED
      BY <2>3, <3>1 DEF StampedSnap
  <2>5. Empty \in [Threads -> StampedSnap] /\ \A i \in Threads : Empty[i].stamp = 0
    BY DEF Empty, Blank, StampedSnap
  <2> HIDE DEF r
  <2>6. SnapType'
    BY <1>0, <2>2, <2>4, <2>5 DEF SnapType, Labels
  <2>7. /\ newValue'[t] = r /\ oldCopy'[t] = Empty /\ newCopy'[t] = Empty
        /\ moved'[t] = {} /\ pc'[t] = "store"
    BY <1>0, <2>2 DEF SnapType
  <2>8. Control(t)' /\ Stamps(t)'
    BY <1>0, <2>4, <2>7 DEF ScanInv, Control, Stamps
  <2>9. ASSUME NEW i \in Threads PROVE Behind(t, i)' /\ Recorded(t, i)'
    <3>1. snaps[i].stamp \in Nat
      BY <1>0 DEF SnapType, StampedSnap
    <3> QED
      BY <1>0, <2>5, <2>7, <3>1 DEF Behind, Recorded, Read, Scanning
  <2>10. newValue'[t].snap # NoSnap /\ \A i \in Threads : newValue'[t].snap[i] \in seen'[t][i]
    BY <1>0, <2>3, <2>4, <2>7, SnapshotAssumption
  <2>11. ASSUME NEW u \in Threads, u # t
         PROVE  UNCHANGED <<snaps, newValue[u], oldCopy[u], newCopy[u], moved[u], next[u],
                            todo[u], updateCount[u], seen[u], pc[u]>>
    BY <1>0, <2>2, <2>11 DEF SnapType
  <2> QED
    BY <2>6, <2>8, <2>9, <2>10, <2>11, Others DEF ScanInv, RegularScan
<1>3. ASSUME NEW i \in Differing(t), Retry(t, i) PROVE ScanInv'
  <2>0. i \in Threads
    BY DEF Differing
  <2>1. /\ moved' = [moved EXCEPT ![t] = @ \cup {i}]
        /\ oldCopy' = [oldCopy EXCEPT ![t] = newCopy[t]]
        /\ pc' = [pc EXCEPT ![t] = "collectNew"]
        /\ UNCHANGED <<newValue, newCopy>>
    BY <1>3 DEF Retry
  <2>2. SnapType'
    BY <1>0, <2>0, <2>1 DEF SnapType, Labels
  <2>3. /\ oldCopy'[t] = newCopy[t] /\ pc'[t] = "collectNew" /\ newCopy' = newCopy
        /\ moved'[t] = moved[t] \cup {i}
    BY <1>0, <2>1 DEF SnapType
  <2>4. Control(t)' /\ Stamps(t)'
    BY <1>0, <2>3 DEF ScanInv, Control, Stamps
  <2>5. ASSUME NEW j \in Threads PROVE Behind(t, j)' /\ Recorded(t, j)'
    <3>1. ~Read(t, j, "stamp")' /\ ~Read(t, j, "value")'
      BY <1>0, <2>3, SnapshotAssumption DEF Read, Threads, Fields
    <3>2. Behind(t, j) /\ Recorded(t, j) /\ Stamps(j)
      BY DEF ScanInv
    <3>3. j \in moved'[t] => newCopy[t][j].stamp = 1
      <4>1. CASE j = i
        BY <1>0, <4>1, NoBorrowing
      <4>2. CASE j # i
        <5>1. newCopy[t][j].stamp \in Nat /\ snaps[j].stamp \in {0, 1}
          BY <1>0, <3>2 DEF SnapType, StampedSnap, Stamps
        <5> QED
          BY <1>0, <2>3, <3>2, <4>2, <5>1 DEF Behind, Read
      <4> QED
        BY <4>1, <4>2
    <3>4. Behind(t, j)'
      BY <1>0, <2>3, <3>1, <3>2, <3>3 DEF Behind
    <3>5. Recorded(t, j)'
      BY <1>0, <2>3, <3>1, <3>2 DEF Recorded, Scanning
    <3> QED
      BY <3>4, <3>5
  <2>6. ASSUME NEW u \in Threads, u # t
        PROVE  UNCHANGED <<snaps, newValue[u], oldCopy[u], newCopy[u], moved[u], next[u],
                           todo[u], updateCount[u], seen[u], pc[u]>>
    BY <1>0, <2>1, <2>6 DEF SnapType
  <2> QED
    BY <2>2, <2>3, <2>4, <2>5, <2>6, Others DEF ScanInv, RegularScan
<1> QED
  BY <1>1, <1>2, <1>3

\* A field of the component is written: scans that are running see it.
LEMMA StoreStep ==
  ASSUME ScanInv, NEW t \in Threads, Store(t)
  PROVE  ScanInv'
<1>0. /\ pc[t] = "store" /\ SnapType /\ newValue[t].stamp = 1
      /\ updateCount[t] < MaxUpdates
      /\ UNCHANGED <<exit, updateCounts, oldCopy, newCopy, moved, next>>
  BY DEF Store, ScanInv, Stamps, Control
<1>1. PICK f \in todo[t] :
        /\ snaps' = [snaps EXCEPT ![t][f] = newValue[t][f]]
        /\ CopyField(t, f)
        /\ IF todo[t] = {f}
           THEN /\ newValue' = [newValue EXCEPT ![t] = Blank]
                /\ updateCount' = [updateCount EXCEPT ![t] = @ + 1]
                /\ pc' = [pc EXCEPT ![t] = "loop"]
           ELSE UNCHANGED <<newValue, updateCount, pc>>
  BY DEF Store
<1>2. /\ snaps' \in [Threads -> StampedSnap]
      /\ \A i \in Threads : i # t => snaps'[i] = snaps[i]
      /\ snaps'[t].stamp \in {snaps[t].stamp, 1}
      /\ snaps'[t].value \in Values \cup {0}
  <2> DEFINE c == [snaps[t] EXCEPT ![f] = newValue[t][f]]
  <2>1. snaps[t] \in StampedSnap /\ newValue[t] \in StampedSnap /\ f \in Fields
    BY <1>0 DEF SnapType
  <2>2. c \in StampedSnap /\ c.stamp \in {snaps[t].stamp, 1}
    BY <1>0, <2>1, FieldCopy
  <2>3. c.value \in Values \cup {0}
    BY <2>2 DEF StampedSnap
  <2>4. snaps' = [snaps EXCEPT ![t] = c]
    BY <1>1
  <2> HIDE DEF c
  <2> QED
    BY <1>0, <2>2, <2>3, <2>4 DEF SnapType
<1>3. \A i \in Threads : snaps'[i].stamp \in {0, 1} /\ snaps[i].stamp =< snaps'[i].stamp
  BY <1>0, <1>2 DEF ScanInv, Stamps
<1>4. /\ todo' \in [Threads -> (SUBSET Fields) \ {{}}]
      /\ \A u \in Threads : u # t => todo'[u] = todo[u]
      /\ todo[t] # {f} => todo'[t] # Fields
  <2>1. todo[t] \in (SUBSET Fields) \ {{}}
    BY <1>0 DEF SnapType
  <2>2. (IF todo[t] = {f} THEN Fields ELSE todo[t] \ {f}) \in (SUBSET Fields) \ {{}}
    BY <1>1, <2>1 DEF Fields
  <2>3. todo' = [todo EXCEPT ![t] = IF todo[t] = {f} THEN Fields ELSE todo[t] \ {f}]
    BY <1>1 DEF CopyField
  <2>4. f \in Fields
    BY <2>1
  <2> QED
    BY <1>0, <2>2, <2>3, <2>4 DEF SnapType
<1>5. /\ newValue' \in [Threads -> StampedSnap] /\ pc' \in [Threads -> Labels]
      /\ updateCount' \in [Threads -> 0..MaxUpdates]
      /\ \A u \in Threads : u # t =>
           newValue'[u] = newValue[u] /\ updateCount'[u] = updateCount[u] /\ pc'[u] = pc[u]
      /\ pc'[t] = "loop" \/ (/\ pc'[t] = "store" /\ newValue'[t] = newValue[t]
                             /\ updateCount'[t] = updateCount[t] /\ todo'[t] # Fields)
  <2>1. Blank \in StampedSnap /\ "loop" \in Labels
    BY DEF Blank, StampedSnap, Labels
  <2>2. updateCount[t] + 1 \in 0..MaxUpdates
    BY <1>0, SnapshotAssumption DEF SnapType
  <2>3. CASE todo[t] = {f}
    <3>1. /\ newValue' = [newValue EXCEPT ![t] = Blank]
          /\ updateCount' = [updateCount EXCEPT ![t] = updateCount[t] + 1]
          /\ pc' = [pc EXCEPT ![t] = "loop"]
      BY <1>1, <2>3
    <3>2. /\ newValue \in [Threads -> StampedSnap] /\ pc \in [Threads -> Labels]
          /\ updateCount \in [Threads -> 0..MaxUpdates]
      BY <1>0 DEF SnapType
    <3> QED
      BY <2>1, <2>2, <3>1, <3>2
  <2>4. CASE todo[t] # {f}
    BY <1>0, <1>1, <1>4, <2>4 DEF SnapType
  <2> QED
    BY <2>3, <2>4
<1>6. /\ seen' \in [Threads -> [Threads -> SUBSET (Values \cup {0})]]
      /\ \A u \in Threads : u # t =>
           seen'[u] = IF Scanning(u) THEN [seen[u] EXCEPT ![t] = @ \cup {snaps'[t].value}]
                      ELSE seen[u]
  <2> DEFINE S(u) == IF u = t THEN [i \in Threads |-> {}]
                     ELSE IF Scanning(u) THEN [seen[u] EXCEPT ![t] = @ \cup {snaps'[t].value}]
                     ELSE seen[u]
  <2>1. seen' = [u \in Threads |-> S(u)]
    BY DEF Store
  <2>2. ASSUME NEW u \in Threads PROVE S(u) \in [Threads -> SUBSET (Values \cup {0})]
    <3>1. seen[u] \in [Threads -> SUBSET (Values \cup {0})]
      BY <1>0 DEF SnapType
    <3>2. [seen[u] EXCEPT ![t] = @ \cup {snaps'[t].value}]
            \in [Threads -> SUBSET (Values \cup {0})]
      BY <1>2, <3>1
    <3> QED
      BY <3>1, <3>2
  <2>3. \A u \in Threads : u # t =>
          S(u) = IF Scanning(u) THEN [seen[u] EXCEPT ![t] = @ \cup {snaps'[t].value}]
                 ELSE seen[u]
    OBVIOUS
  <2> HIDE DEF S
  <2> QED
    BY <2>1, <2>2, <2>3
<1>7. SnapType'
  BY <1>0, <1>2, <1>4, <1>5, <1>6 DEF SnapType
<1>8. ASSUME NEW u \in Threads PROVE Control(u)' /\ Stamps(u)'
  <2>1. CASE u = t
    BY <1>0, <1>3, <1>5, <2>1 DEF Control, Stamps
  <2>2. CASE u # t
    BY <1>0, <1>3, <1>4, <1>5, <2>2 DEF ScanInv, Control, Stamps
  <2> QED
    BY <2>1, <2>2
<1>9. ASSUME NEW u \in Threads, NEW i \in Threads PROVE Behind(u, i)' /\ Recorded(u, i)'
  <2>0. Behind(u, i) /\ Recorded(u, i)
    BY DEF ScanInv
  <2>1. /\ oldCopy[u][i].stamp \in Nat /\ newCopy[u][i].stamp \in Nat
        /\ snaps[i].stamp \in {0, 1} /\ snaps'[i].stamp \in {0, 1}
        /\ snaps[i].stamp =< snaps'[i].stamp
    BY <1>0, <1>3 DEF ScanInv, SnapType, StampedSnap, Stamps
  <2>2. CASE u = t
    BY <1>0, <1>5, <2>0, <2>1, <2>2 DEF Behind, Recorded, Read, Scanning
  <2>3. CASE u # t
    <3>1. \A g : Read(u, i, g)' <=> Read(u, i, g)
      BY <1>0, <1>4, <1>5, <2>3 DEF Read
    <3>2. Behind(u, i)'
      BY <1>0, <2>0, <2>1, <3>1 DEF Behind
    <3>3. Recorded(u, i)'
      <4>1. seen[u] \in [Threads -> SUBSET (Values \cup {0})]
        BY <1>0 DEF SnapType
      <4>2. seen[u][i] \subseteq seen'[u][i]
        BY <1>6, <2>3, <4>1
      <4>3. Scanning(u) => snaps'[i].value \in seen'[u][i]
        BY <1>2, <1>6, <2>0, <2>3, <4>1 DEF Recorded
      <4>4. Scanning(u)' <=> Scanning(u)
        BY <1>5, <2>3 DEF Scanning
      <4> QED
        BY <1>0, <2>0, <3>1, <4>2, <4>3, <4>4 DEF Recorded
    <3> QED
      BY <3>2, <3>3
  <2> QED
    BY <2>2, <2>3
<1>10. RegularScan'
  <2> SUFFICES ASSUME NEW u \in Threads, pc'[u] = "store", todo'[u] = Fields
               PROVE  /\ newValue'[u].snap # NoSnap
                      /\ \A i \in Threads : newValue'[u].snap[i] \in seen'[u][i]
    BY DEF RegularScan
  <2>1. u # t
    BY <1>5
  <2>2. seen'[u] = seen[u]
    BY <1>5, <1>6, <2>1 DEF Scanning
  <2> QED
    BY <1>4, <1>5, <2>1, <2>2 DEF ScanInv, RegularScan
<1> QED
  BY <1>7, <1>8, <1>9, <1>10 DEF ScanInv

\* Steps that no scan takes part in.
LEMMA QuietStep ==
  ASSUME ScanInv, updateCounts' \in [Threads -> Int], exit' \in BOOLEAN,
         \/ UNCHANGED pc
         \/ \E t \in Threads : pc[t] = "loop" /\ pc' = [pc EXCEPT ![t] = "done"],
         UNCHANGED <<snaps, newValue, oldCopy, newCopy, moved, next, todo, updateCount, seen>>
  PROVE  ScanInv'
<1>1. SnapType'
  BY DEF ScanInv, SnapType, Labels
<1>2. ASSUME NEW u \in Threads
      PROVE  pc'[u] = pc[u] \/ (pc[u] = "loop" /\ pc'[u] = "done")
  BY DEF ScanInv, SnapType
<1>3. \A u \in Threads : Control(u)' /\ Stamps(u)'
  BY <1>2 DEF ScanInv, Control, Stamps
<1>4. \A u, i \in Threads : Behind(u, i)'
  BY <1>2 DEF ScanInv, Behind, Read
<1>5. \A u, i \in Threads : Recorded(u, i)'
  BY <1>2 DEF ScanInv, Recorded, Read, Scanning
<1>6. RegularScan'
  BY <1>2 DEF ScanInv, RegularScan
<1> QED
  BY <1>1, <1>3, <1>4, <1>5, <1>6 DEF ScanInv

\* Every step keeps the invariant of the scans.
LEMMA ScanNext == ScanInv /\ [Next]_vars => ScanInv'
<1> SUFFICES ASSUME ScanInv, [Next]_vars PROVE ScanInv'
  OBVIOUS
<1>0. SnapType
  BY DEF ScanInv
<1>1. ASSUME NEW t \in Threads, Leave(t) PROVE ScanInv'
  <2>1. updateCounts' \in [Threads -> Int]
    <3>1. updateCount[t] \in Int
      BY <1>0, SnapshotAssumption DEF SnapType
    <3> QED
      BY <1>0, <1>1, <3>1 DEF Leave, SnapType
  <2> QED
    BY <1>0, <1>1, <2>1, QuietStep DEF Leave, SnapType
<1>2. CASE SetExit \/ Join \/ UNCHANGED vars
  BY <1>0, <1>2, QuietStep DEF SetExit, Join, vars, sharedVars, localVars, SnapType
<1> QED
  BY <1>1, <1>2, CallStep, CollectOldStep, CollectNewStep, CompareStep, StoreStep
     DEF Next, work, run, Returned

\* Every component of a snapshot is a value its owner's component held, or was being
\* assigned, while the scan was running, though the structs are copied field by
\* field without synchronisation (wfsnapshot.h:38-83).
THEOREM RegularTheorem == Spec => []RegularScan
<1>1. ScanInv => RegularScan
  BY DEF ScanInv
<1> QED
  BY ScanInit, ScanNext, <1>1, PTL DEF Spec

\* A scan never finds a component moved that has moved before, so it never returns
\* a borrowed snapshot: the branch of wfsnapshot.h:56-60 is dead, as the copy
\* constructor drops the stamp (stampedsnap.h:20-23).
THEOREM NeverBorrowsTheorem == Spec => []NeverBorrows
<1>1. ScanInv => NeverBorrows
  BY NoBorrowing DEF NeverBorrows
<1> QED
  BY ScanInit, ScanNext, <1>1, PTL DEF Spec

-----------------------------------------------------------------------------
(* The number of collects of a scan.                                       *)

\* The collects of this scan are the first one, one for each component that has
\* moved, and the one that is compared now.  The next scan starts afresh.
Rounds(t) ==
  /\ pc[t] \notin {"collectNew", "compare"} => moved[t] = {} /\ collects[t] = 0
  /\ pc[t] = "collectNew" => collects[t] = Cardinality(moved[t]) + 1
  /\ pc[t] = "compare" => collects[t] = Cardinality(moved[t]) + 2
  /\ pc[t] \in {"loop", "store"} => next[t] = 1
  /\ pc[t] = "loop" => todo[t] = Fields

\* The first collect has read the stamp of the scanning thread's own component.
ReadOld(t) ==
  \/ pc[t] \in {"collectNew", "compare"}
  \/ pc[t] = "collectOld" /\ (t < next[t] \/ (t = next[t] /\ "stamp" \notin todo[t]))

\* A thread's own component does not move while it scans.
Own(t) ==
  /\ t \notin moved[t]
  /\ ReadOld(t) => oldCopy[t][t].stamp = snaps[t].stamp
  /\ Read(t, t, "stamp") => newCopy[t][t].stamp = snaps[t].stamp

RoundInv ==
  /\ collects \in [Threads -> Nat]
  /\ \A t \in Threads : Rounds(t) /\ Own(t)

\* What a step does not touch of another thread's rounds.
LEMMA RoundOthers ==
  ASSUME RoundInv, NEW u \in Threads, UNCHANGED <<snaps[u], oldCopy[u], newCopy[u],
           moved[u], next[u], todo[u], pc[u], collects[u]>>
  PROVE  Rounds(u)' /\ Own(u)'
<1>1. Rounds(u)'
  BY DEF RoundInv, Rounds
<1>2. Own(u)'
  BY DEF RoundInv, Own, ReadOld, Read
<1> QED
  BY <1>1, <1>2

\* The components that have moved are some of the others.
LEMMA MovedBound ==
  ASSUME ScanInv, RoundInv, NEW t \in Threads
  PROVE  /\ IsFiniteSet(moved[t]) /\ Cardinality(moved[t]) \in Nat
         /\ Cardinality(moved[t]) =< N - 1
<1>1. IsFiniteSet(Threads) /\ Cardinality(Threads) = N /\ N \in Nat
  BY FS_Interval, SnapshotAssumption DEF Threads
<1>2. IsFiniteSet(Threads \ {t}) /\ Cardinality(Threads \ {t}) = N - 1
  BY <1>1, FS_RemoveElement
<1>3. moved[t] \subseteq Threads \ {t}
  BY DEF ScanInv, SnapType, RoundInv, Own
<1> QED
  BY <1>2, <1>3, FS_Subset, FS_CardinalityType

\* Only the end of a collect is counted.
LEMMA CollectedCount ==
  ASSUME RoundInv, NEW t \in Threads, NEW f \in todo[t], NEW label \in Labels,
         Collected(t, f, label), collects[t] =< N + 1
  PROVE  /\ collects' \in [Threads -> Nat]
         /\ \A u \in Threads : u # t => collects'[u] = collects[u]
         /\ collects'[t] = IF todo[t] = {f} /\ next[t] = N THEN collects[t] + 1
                           ELSE collects[t]
BY DEF RoundInv, Collected

\* A field of the first copy keeps the count.
LEMMA RoundOld ==
  ASSUME ScanInv, RoundInv, NEW t \in Threads, CollectOld(t)
  PROVE  RoundInv'
<1>0. /\ pc[t] = "collectOld" /\ SnapType /\ Rounds(t) /\ Own(t)
      /\ UNCHANGED <<snaps, newCopy, moved>>
  BY DEF CollectOld, sharedVars, ScanInv, RoundInv
<1> DEFINE k == next[t]
<1>1. PICK f \in todo[t] : /\ oldCopy' = [oldCopy EXCEPT ![t][k][f] = snaps[k][f]]
                           /\ Collected(t, f, "collectNew")
  BY DEF CollectOld
<1>2. k \in Threads /\ f \in Fields /\ snaps[k] \in StampedSnap /\ "collectNew" \in Labels
  BY <1>0 DEF SnapType, Labels
<1>3. /\ \A u \in Threads : u # t => oldCopy'[u] = oldCopy[u]
      /\ t # k => oldCopy'[t][t] = oldCopy[t][t]
      /\ oldCopy'[t][k].stamp = IF f = "stamp" THEN snaps[k].stamp ELSE oldCopy[t][k].stamp
  <2> DEFINE c == [oldCopy[t][k] EXCEPT ![f] = snaps[k][f]]
  <2>0. oldCopy \in [Threads -> [Threads -> StampedSnap]] /\ oldCopy[t][k] \in StampedSnap
    BY <1>0, <1>2 DEF SnapType
  <2>1. /\ c \in StampedSnap
        /\ c.stamp = IF f = "stamp" THEN snaps[k].stamp ELSE oldCopy[t][k].stamp
    BY <1>2, <2>0, FieldCopy
  <2>2. oldCopy' = [oldCopy EXCEPT ![t] = [oldCopy[t] EXCEPT ![k] = c]]
    BY <1>1
  <2> HIDE DEF c, k
  <2> QED
    BY <1>2, <2>0, <2>1, <2>2, CollectCopy
<1>4. /\ todo' \in [Threads -> (SUBSET Fields) \ {{}}] /\ next' \in [Threads -> Threads]
      /\ \A u \in Threads : u # t =>
           todo'[u] = todo[u] /\ next'[u] = next[u] /\ pc'[u] = pc[u]
      /\ \/ /\ todo'[t] = todo[t] \ {f}
            /\ next'[t] = next[t] /\ pc'[t] = pc[t]
         \/ /\ todo[t] = {f} /\ todo'[t] = Fields
            /\ next'[t] = next[t] + 1 /\ pc'[t] = pc[t]
         \/ /\ todo[t] = {f} /\ todo'[t] = Fields
            /\ next[t] = N /\ next'[t] = 1 /\ pc'[t] = "collectNew"
  BY <1>0, <1>1, <1>2, CollectedStep
<1>5. /\ collects' \in [Threads -> Nat]
      /\ \A u \in Threads : u # t => collects'[u] = collects[u]
      /\ collects'[t] = IF todo[t] = {f} /\ next[t] = N THEN collects[t] + 1 ELSE collects[t]
  <2>1. collects[t] =< N + 1
    BY <1>0, SnapshotAssumption DEF Rounds
  <2> QED
    BY <1>1, <1>2, <2>1, CollectedCount
<1>6. t \in Int /\ k \in Int /\ 1 =< t /\ t =< N /\ N \in Int
  BY <1>2, SnapshotAssumption DEF Threads
<1>7. Rounds(t)'
  <2>1. Cardinality({}) = 0
    BY FS_EmptySet
  <2>2. moved[t] = {} /\ collects[t] = 0
    BY <1>0 DEF Rounds
  <2>3. CASE pc'[t] = "collectNew"
    BY <1>0, <1>4, <1>5, <2>1, <2>2, <2>3 DEF Rounds
  <2>4. CASE pc'[t] # "collectNew"
    <3>1. pc'[t] = "collectOld" /\ ~(todo[t] = {f} /\ next[t] = N)
      <4>1. todo'[t] # {}
        BY <1>4
      <4>2. next'[t] =< N
        BY <1>4, SnapshotAssumption DEF Threads
      <4> QED
        BY <1>0, <1>4, <1>6, <2>4, <4>1, <4>2
    <3> QED
      BY <1>0, <1>5, <2>2, <3>1 DEF Rounds
  <2> QED
    BY <2>3, <2>4
<1>8. Own(t)'
  <2>1. ReadOld(t)' => ReadOld(t) \/ (t = k /\ f = "stamp")
    BY <1>0, <1>4, <1>6 DEF ReadOld, Fields
  <2>2. t = k /\ f = "stamp" => oldCopy'[t][t].stamp = snaps[t].stamp
    BY <1>3
  <2>3. t # k \/ f # "stamp" => oldCopy'[t][t].stamp = oldCopy[t][t].stamp
    BY <1>3
  <2>4. ~Read(t, t, "stamp")'
    <3>1. CASE pc'[t] = "collectNew"
      BY <1>0, <1>4, <1>6, <3>1 DEF Read, Fields
    <3>2. CASE pc'[t] # "collectNew"
      BY <1>0, <1>4, <3>2 DEF Read
    <3> QED
      BY <3>1, <3>2
  <2> QED
    BY <1>0, <2>1, <2>2, <2>3, <2>4 DEF Own
<1>9. ASSUME NEW u \in Threads, u # t PROVE Rounds(u)' /\ Own(u)'
  <2>1. UNCHANGED <<snaps[u], oldCopy[u], newCopy[u], moved[u], next[u], todo[u], pc[u],
                    collects[u]>>
    BY <1>0, <1>3, <1>4, <1>5, <1>9
  <2> QED
    BY <2>1, RoundOthers
<1> QED
  BY <1>5, <1>7, <1>8, <1>9 DEF RoundInv

\* A field of a later copy; the last one counts.
LEMMA RoundNew ==
  ASSUME ScanInv, RoundInv, NEW t \in Threads, CollectNew(t)
  PROVE  RoundInv'
<1>0. /\ pc[t] = "collectNew" /\ SnapType /\ Rounds(t) /\ Own(t)
      /\ UNCHANGED <<snaps, oldCopy, moved>>
  BY DEF CollectNew, sharedVars, ScanInv, RoundInv
<1> DEFINE k == next[t]
<1>1. PICK f \in todo[t] : /\ newCopy' = [newCopy EXCEPT ![t][k][f] = snaps[k][f]]
                           /\ Collected(t, f, "compare")
  BY DEF CollectNew
<1>2. k \in Threads /\ f \in Fields /\ snaps[k] \in StampedSnap /\ "compare" \in Labels
  BY <1>0 DEF SnapType, Labels
<1>3. /\ \A u \in Threads : u # t => newCopy'[u] = newCopy[u]
      /\ t # k => newCopy'[t][t] = newCopy[t][t]
      /\ newCopy'[t][k].stamp = IF f = "stamp" THEN snaps[k].stamp ELSE newCopy[t][k].stamp
  <2> DEFINE c == [newCopy[t][k] EXCEPT ![f] = snaps[k][f]]
  <2>0. newCopy \in [Threads -> [Threads -> StampedSnap]] /\ newCopy[t][k] \in StampedSnap
    BY <1>0, <1>2 DEF SnapType
  <2>1. /\ c \in StampedSnap
        /\ c.stamp = IF f = "stamp" THEN snaps[k].stamp ELSE newCopy[t][k].stamp
    BY <1>2, <2>0, FieldCopy
  <2>2. newCopy' = [newCopy EXCEPT ![t] = [newCopy[t] EXCEPT ![k] = c]]
    BY <1>1
  <2> HIDE DEF c, k
  <2> QED
    BY <1>2, <2>0, <2>1, <2>2, CollectCopy
<1>4. /\ todo' \in [Threads -> (SUBSET Fields) \ {{}}] /\ next' \in [Threads -> Threads]
      /\ \A u \in Threads : u # t =>
           todo'[u] = todo[u] /\ next'[u] = next[u] /\ pc'[u] = pc[u]
      /\ \/ /\ todo'[t] = todo[t] \ {f}
            /\ next'[t] = next[t] /\ pc'[t] = pc[t]
         \/ /\ todo[t] = {f} /\ todo'[t] = Fields
            /\ next'[t] = next[t] + 1 /\ pc'[t] = pc[t]
         \/ /\ todo[t] = {f} /\ todo'[t] = Fields
            /\ next[t] = N /\ next'[t] = 1 /\ pc'[t] = "compare"
  BY <1>0, <1>1, <1>2, CollectedStep
<1>5. /\ collects' \in [Threads -> Nat]
      /\ \A u \in Threads : u # t => collects'[u] = collects[u]
      /\ collects'[t] = IF todo[t] = {f} /\ next[t] = N THEN collects[t] + 1 ELSE collects[t]
  <2>1. collects[t] =< N + 1
    BY <1>0, MovedBound, SnapshotAssumption DEF Rounds
  <2> QED
    BY <1>1, <1>2, <2>1, CollectedCount
<1>6. t \in Int /\ k \in Int /\ 1 =< t /\ t =< N /\ N \in Int
  BY <1>2, SnapshotAssumption DEF Threads
<1>7. Rounds(t)'
  <2>1. collects[t] = Cardinality(moved[t]) + 1 /\ collects[t] \in Nat
    BY <1>0 DEF Rounds, RoundInv
  <2>2. Cardinality(moved[t]) \in Nat
    BY MovedBound
  <2>3. CASE pc'[t] = "compare"
    <3>1. collects'[t] = collects[t] + 1
      BY <1>0, <1>4, <1>5, <2>3
    <3>2. collects'[t] = Cardinality(moved[t]) + 2
      BY <2>1, <2>2, <3>1
    <3> QED
      BY <1>0, <2>3, <3>2 DEF Rounds
  <2>4. CASE pc'[t] # "compare"
    <3>1. pc'[t] = "collectNew" /\ ~(todo[t] = {f} /\ next[t] = N)
      <4>1. todo'[t] # {}
        BY <1>4
      <4>2. next'[t] =< N
        BY <1>4, SnapshotAssumption DEF Threads
      <4> QED
        BY <1>0, <1>4, <1>6, <2>4, <4>1, <4>2
    <3> QED
      BY <1>0, <1>5, <2>1, <3>1 DEF Rounds
  <2> QED
    BY <2>3, <2>4
<1>8. Own(t)'
  <2>1. Read(t, t, "stamp")' => Read(t, t, "stamp") \/ (t = k /\ f = "stamp")
    BY <1>0, <1>4, <1>6 DEF Read, Fields
  <2>2. t = k /\ f = "stamp" => newCopy'[t][t].stamp = snaps[t].stamp
    BY <1>3
  <2>3. t # k \/ f # "stamp" => newCopy'[t][t].stamp = newCopy[t][t].stamp
    BY <1>3
  <2>4. ReadOld(t)
    BY <1>0 DEF ReadOld
  <2> QED
    BY <1>0, <2>1, <2>2, <2>3, <2>4 DEF Own
<1>9. ASSUME NEW u \in Threads, u # t PROVE Rounds(u)' /\ Own(u)'
  <2>1. UNCHANGED <<snaps[u], oldCopy[u], newCopy[u], moved[u], next[u], todo[u], pc[u],
                    collects[u]>>
    BY <1>0, <1>3, <1>4, <1>5, <1>9
  <2> QED
    BY <2>1, RoundOthers
<1> QED
  BY <1>5, <1>7, <1>8, <1>9 DEF RoundInv

\* A scan ends, or one more component has moved, which is not the thread's own.
LEMMA RoundCompare ==
  ASSUME ScanInv, RoundInv, NEW t \in Threads, Compare(t)
  PROVE  RoundInv'
<1>0. /\ pc[t] = "compare" /\ next[t] = 1 /\ todo[t] = Fields
      /\ SnapType /\ Rounds(t) /\ Own(t)
      /\ UNCHANGED <<snaps, next, todo>>
  BY DEF Compare, sharedVars, ScanInv, Control, RoundInv
<1>1. \/ Make(t, Direct(t))
      \/ \E i \in Differing(t) : i \notin moved[t] /\ Retry(t, i)
  BY <1>0, MinDiffers, NoBorrowing DEF Compare
<1>2. CASE Make(t, Direct(t))
  <2>1. /\ oldCopy' = [oldCopy EXCEPT ![t] = Empty] /\ newCopy' = [newCopy EXCEPT ![t] = Empty]
        /\ moved' = [moved EXCEPT ![t] = {}] /\ collects' = [collects EXCEPT ![t] = 0]
        /\ pc' = [pc EXCEPT ![t] = "store"]
    BY <1>2 DEF Make
  <2>2. collects' \in [Threads -> Nat]
    BY <2>1 DEF RoundInv
  <2>3. pc'[t] = "store" /\ moved'[t] = {} /\ collects'[t] = 0
    BY <1>0, <2>1 DEF SnapType, RoundInv
  <2>4. Rounds(t)' /\ Own(t)'
    BY <1>0, <2>3 DEF Rounds, Own, ReadOld, Read
  <2>5. ASSUME NEW u \in Threads, u # t PROVE Rounds(u)' /\ Own(u)'
    <3>1. UNCHANGED <<snaps[u], oldCopy[u], newCopy[u], moved[u], next[u], todo[u], pc[u],
                      collects[u]>>
      BY <1>0, <2>1, <2>5 DEF SnapType, RoundInv
    <3> QED
      BY <3>1, RoundOthers
  <2> QED
    BY <2>2, <2>4, <2>5 DEF RoundInv
<1>3. ASSUME NEW i \in Differing(t), i \notin moved[t], Retry(t, i) PROVE RoundInv'
  <2>1. /\ moved' = [moved EXCEPT ![t] = @ \cup {i}]
        /\ oldCopy' = [oldCopy EXCEPT ![t] = newCopy[t]]
        /\ pc' = [pc EXCEPT ![t] = "collectNew"]
        /\ UNCHANGED <<newCopy, collects>>
    BY <1>3 DEF Retry
  <2>2. /\ oldCopy'[t] = newCopy[t] /\ pc'[t] = "collectNew"
        /\ moved'[t] = moved[t] \cup {i}
    BY <1>0, <2>1 DEF SnapType
  <2>3. i # t
    BY <1>0 DEF Differing, Own, ReadOld, Read
  <2>5. /\ Cardinality(moved[t]) \in Nat
        /\ Cardinality(moved[t] \cup {i}) = Cardinality(moved[t]) + 1
    BY <1>3, MovedBound, FS_AddElement
  <2>6. Rounds(t)'
    <3>1. collects[t] = Cardinality(moved[t]) + 2
      BY <1>0 DEF Rounds
    <3>2. collects'[t] = Cardinality(moved'[t]) + 1
      <4>1. collects'[t] = collects[t]
        BY <2>1
      <4>2. Cardinality(moved'[t]) = Cardinality(moved[t]) + 1
        BY <2>2, <2>5
      <4> QED
        BY <2>5, <3>1, <4>1, <4>2
    <3> QED
      BY <2>2, <3>2 DEF Rounds
  <2>7. Own(t)'
    <3>1. newCopy[t][t].stamp = snaps[t].stamp
      BY <1>0 DEF Own, Read
    <3>2. ~Read(t, t, "stamp")'
      BY <1>0, <2>2, SnapshotAssumption DEF Read, Threads, Fields
    <3> QED
      BY <1>0, <2>2, <2>3, <3>1, <3>2 DEF Own
  <2>8. ASSUME NEW u \in Threads, u # t PROVE Rounds(u)' /\ Own(u)'
    <3>1. UNCHANGED <<snaps[u], oldCopy[u], newCopy[u], moved[u], next[u], todo[u], pc[u],
                      collects[u]>>
      BY <1>0, <2>1, <2>8 DEF SnapType, RoundInv
    <3> QED
      BY <3>1, RoundOthers
  <2>9. collects' \in [Threads -> Nat]
    BY <2>1 DEF RoundInv
  <2> QED
    BY <2>6, <2>7, <2>8, <2>9 DEF RoundInv
<1> QED
  BY <1>1, <1>2, <1>3

\* The steps outside a scan: a thread calls update, stores or leaves.
LEMMA RoundOutside ==
  ASSUME ScanInv, RoundInv, NEW t \in Threads, Call(t) \/ Store(t) \/ Leave(t)
  PROVE  RoundInv'
<1>0. SnapType /\ Rounds(t) /\ Own(t)
  BY DEF ScanInv, RoundInv
<1>1. /\ pc[t] \in {"loop", "store"} /\ pc'[t] \in {"collectOld", "store", "loop", "done"}
      /\ UNCHANGED <<oldCopy, newCopy, moved, next, collects>>
      /\ \A u \in Threads : u # t => UNCHANGED <<snaps[u], todo[u], pc[u]>>
  BY <1>0 DEF Call, Store, Leave, CopyField, sharedVars, SnapType
<1>2. /\ pc'[t] = "collectOld" => pc[t] = "loop" /\ todo'[t] = todo[t]
      /\ pc'[t] = "loop" => todo'[t] = Fields
  BY <1>0 DEF Call, Store, Leave, CopyField, SnapType
<1>3. Rounds(t)'
  BY <1>0, <1>1, <1>2 DEF Rounds
<1>4. Own(t)'
  <2>1. ~Read(t, t, "stamp")'
    BY <1>1 DEF Read
  <2>2. t \notin moved'[t]
    BY <1>0, <1>1 DEF Own
  <2>3. ~ReadOld(t)'
    <3>1. t \in Int /\ 1 =< t
      BY SnapshotAssumption DEF Threads
    <3>2. pc'[t] = "collectOld" => next'[t] = 1 /\ todo'[t] = Fields
      BY <1>0, <1>1, <1>2 DEF Rounds
    <3> QED
      BY <1>1, <3>1, <3>2 DEF ReadOld, Fields
  <2> QED
    BY <2>1, <2>2, <2>3 DEF Own
<1>5. ASSUME NEW u \in Threads, u # t PROVE Rounds(u)' /\ Own(u)'
  <2>1. UNCHANGED <<snaps[u], oldCopy[u], newCopy[u], moved[u], next[u], todo[u], pc[u],
                    collects[u]>>
    BY <1>1, <1>5
  <2> QED
    BY <2>1, RoundOthers
<1> QED
  BY <1>1, <1>3, <1>4, <1>5 DEF RoundInv

\* Every step keeps the invariant of the rounds.
LEMMA RoundNext == ScanInv /\ RoundInv /\ [Next]_vars => RoundInv'
<1> SUFFICES ASSUME ScanInv, RoundInv, [Next]_vars PROVE RoundInv'
  OBVIOUS
<1>1. CASE SetExit \/ Join \/ UNCHANGED vars
  <2>1. UNCHANGED <<snaps, oldCopy, newCopy, moved, next, todo, pc, collects>>
    BY <1>1 DEF SetExit, Join, vars, sharedVars, localVars
  <2>2. \A u \in Threads : UNCHANGED <<snaps[u], oldCopy[u], newCopy[u], moved[u], next[u],
                                       todo[u], pc[u], collects[u]>>
    BY <2>1
  <2> QED
    BY <2>1, <2>2, RoundOthers DEF RoundInv
<1> QED
  BY <1>1, RoundOld, RoundNew, RoundCompare, RoundOutside DEF Next, work, run, Returned

\* At the start nobody has collected anything.
LEMMA RoundInit == Init => RoundInv
<1> SUFFICES ASSUME Init PROVE RoundInv
  OBVIOUS
<1>1. collects \in [Threads -> Nat]
  BY DEF Init
<1>2. ASSUME NEW t \in Threads
      PROVE  pc[t] = "loop" /\ moved[t] = {} /\ collects[t] = 0 /\ next[t] = 1 /\ todo[t] = Fields
  BY DEF Init
<1>3. ASSUME NEW t \in Threads PROVE Rounds(t) /\ Own(t)
  BY <1>2 DEF Rounds, Own, ReadOld, Read
<1> QED
  BY <1>1, <1>3 DEF RoundInv

\* A scan makes at most N + 1 collects, for any number of threads and of updates they
\* make meanwhile: a retry is for a component that had not moved before, and never
\* for the scanning thread's own (wfsnapshot.h:46-75).
THEOREM ScanBoundTheorem == Spec => []ScanBound
<1>1. ScanInv /\ RoundInv => ScanBound
  <2> SUFFICES ASSUME ScanInv, RoundInv, NEW t \in Threads PROVE collects[t] =< N + 1
    BY DEF ScanBound
  <2>4. Cardinality(moved[t]) \in Nat /\ Cardinality(moved[t]) =< N - 1
    BY MovedBound
  <2>5. Rounds(t)
    BY DEF RoundInv
  <2> QED
    BY <2>4, <2>5, SnapshotAssumption DEF Rounds
<1> QED
  BY <1>1, ScanInit, ScanNext, RoundInit, RoundNext, PTL DEF Spec

-----------------------------------------------------------------------------
(* The result of run().                                                    *)

\* Every step keeps the counts of the threads that have left, and the sum.
LEMMA CountNext == ScanInv /\ CountInv /\ [Next]_vars => CountInv'
<1> SUFFICES ASSUME ScanInv, CountInv, [Next]_vars PROVE CountInv'
  OBVIOUS
<1>0. SnapType
  BY DEF ScanInv
<1>1. ASSUME NEW t \in Threads, work(t) PROVE CountInv'
  <2>1. /\ total' = total
        /\ \A u \in Threads : u # t => /\ pc'[u] = pc[u] /\ updateCount'[u] = updateCount[u]
                                       /\ updateCounts'[u] = updateCounts[u]
    BY <1>0, <1>1 DEF work, Call, CollectOld, CollectNew, Collected, Compare, Make, Retry,
                      Store, Leave, sharedVars, SnapType
  <2>2. pc[t] # "done"
    BY <1>1 DEF work, Call, CollectOld, CollectNew, Compare, Store, Leave
  <2>3. pc'[t] = "done" => updateCounts'[t] = updateCount'[t]
    <3>1. CASE Leave(t)
      BY <1>0, <3>1 DEF Leave, SnapType
    <3>2. CASE ~Leave(t)
      BY <1>0, <1>1, <2>2, <3>2 DEF work, Call, CollectOld, CollectNew, Collected, Compare,
                                   Make, Retry, Store, SnapType
    <3> QED
      BY <3>1, <3>2
  <2> QED
    BY <2>1, <2>2, <2>3 DEF CountInv
<1>2. CASE SetExit \/ Join \/ UNCHANGED vars
  BY <1>2 DEF CountInv, SetExit, Join, vars, sharedVars, localVars
<1> QED
  BY <1>1, <1>2 DEF Next, run, Returned

\* run() returns the number of updates that were made, as it adds up the counts
\* after every thread has written its own (threadpool.cpp:36-44, 66).
THEOREM TotalTheorem == Spec => []TotalIsUpdates
<1>1. Init => CountInv
  BY DEF Init, CountInv
<1>2. ScanInv /\ CountInv => TotalIsUpdates
  <2> SUFFICES ASSUME ScanInv, CountInv, total # NoSnap PROVE total = Sum(updateCount)
    BY DEF TotalIsUpdates
  <2>1. \A t \in Threads : updateCounts[t] = updateCount[t]
    BY DEF CountInv
  <2>2. updateCounts = updateCount
    BY <2>1 DEF ScanInv, SnapType
  <2> QED
    BY <2>2 DEF CountInv
<1> QED
  BY <1>1, <1>2, ScanInit, ScanNext, CountNext, PTL DEF Spec

-----------------------------------------------------------------------------
(* The sum run() returns is an integer: by induction on the number of      *)
(* threads that are added up.                                              *)

First(s) == CHOOSE x \in s : TRUE
Upto(k) == {s \in SUBSET Threads : Cardinality(s) =< k}

\* Taking a thread out of a set of threads.
LEMMA Rest ==
  ASSUME NEW s \in SUBSET Threads, s # {}
  PROVE  /\ First(s) \in s /\ s \ {First(s)} \in SUBSET Threads
         /\ Cardinality(s) \in Nat \ {0}
         /\ Cardinality(s \ {First(s)}) = Cardinality(s) - 1
<1>1. First(s) \in s
  BY DEF First
<1>2. IsFiniteSet(Threads)
  BY FS_Interval, SnapshotAssumption DEF Threads
<1>3. IsFiniteSet(s)
  BY <1>2, FS_Subset
<1>4. Cardinality(s) \in Nat
  BY <1>3, FS_CardinalityType
<1>5. Cardinality(s) # 0
  BY <1>3, FS_EmptySet
<1>6. Cardinality(s \ {First(s)}) = Cardinality(s) - 1
  BY <1>1, <1>3, FS_RemoveElement
<1> QED
  BY <1>1, <1>4, <1>5, <1>6

\* The recursion of Sum.
LEMMA SumUnfolds ==
  ASSUME NEW c
  PROVE  Sum(c) = (CHOOSE g : g = [s \in SUBSET Threads |->
                     IF s = {} THEN 0 ELSE c[First(s)] + g[s \ {First(s)}]])[Threads]
BY DEF Sum, MapThenSumSet, MapThenFoldSet, First

\* It has a solution on the sets of up to k threads.
LEMMA SumDefined ==
  ASSUME NEW c, NEW k \in Nat
  PROVE  \E g : g = [s \in Upto(k) |->
                       IF s = {} THEN 0 ELSE c[First(s)] + g[s \ {First(s)}]]
<1> DEFINE Step(g, s) == IF s = {} THEN 0 ELSE c[First(s)] + g[s \ {First(s)}]
           Ex(m) == \E g : g = [s \in Upto(m) |-> Step(g, s)]
           Bad == {m \in Nat : ~Ex(m)}
<1> SUFFICES ASSUME Bad # {} PROVE FALSE
  OBVIOUS
<1>1. PICK m \in Bad : \A j \in Bad : m =< j
  <2>1. Bad \in SUBSET Nat
    OBVIOUS
  <2> HIDE DEF Bad
  <2> QED
    BY <2>1, LeastNatural
<1>2. Ex(0)
  <2> DEFINE g == [s \in Upto(0) |-> 0]
  <2>1. ASSUME NEW s \in Upto(0), s # {} PROVE FALSE
    <3>1. s \in SUBSET Threads /\ Cardinality(s) =< 0
      BY DEF Upto
    <3>2. Cardinality(s) \in Nat \ {0}
      BY <2>1, <3>1, Rest
    <3> QED
      BY <3>1, <3>2
  <2>2. g = [s \in Upto(0) |-> Step(g, s)]
    BY <2>1
  <2> QED
    BY <2>2
<1>3. m \in Nat \ {0} /\ m - 1 \in Nat /\ Ex(m - 1)
  <2>1. m # 0 /\ m \in Nat
    BY <1>2
  <2>2. m - 1 \in Nat /\ ~(m =< m - 1)
    BY <2>1
  <2>3. m - 1 \notin Bad
    BY <1>1, <2>2
  <2> QED
    BY <2>1, <2>2, <2>3
<1>4. PICK f : f = [s \in Upto(m - 1) |-> Step(f, s)]
  BY <1>3
<1> DEFINE h == [s \in Upto(m) |-> Step(f, s)]
<1>5. ASSUME NEW s \in Upto(m), s # {}
      PROVE  /\ s \ {First(s)} \in Upto(m) /\ s \ {First(s)} \in Upto(m - 1)
             /\ h[s \ {First(s)}] = f[s \ {First(s)}]
  <2>1. s \ {First(s)} \in Upto(m) /\ s \ {First(s)} \in Upto(m - 1)
    BY <1>3, <1>5, Rest DEF Upto
  <2>2. PICK r : r = s \ {First(s)}
    OBVIOUS
  <2>3. h[r] = Step(f, r)
    BY <2>1, <2>2
  <2> HIDE DEF h, Step
  <2>4. f[r] = Step(f, r)
    BY <1>4, <2>1, <2>2
  <2> QED
    BY <2>1, <2>2, <2>3, <2>4
<1>6. \A s \in Upto(m) : Step(f, s) = Step(h, s)
  <2> HIDE DEF h
  <2> QED
    BY <1>5
<1>7. h = [s \in Upto(m) |-> Step(h, s)]
  <2> HIDE DEF Step
  <2>1. h = [s \in Upto(m) |-> Step(f, s)]
    OBVIOUS
  <2> HIDE DEF h
  <2> QED
    BY <1>6, <2>1
<1>8. Ex(m)
  BY <1>7
<1> QED
  BY <1>8

\* A sum of integers is an integer.
LEMMA SumType == \A c \in [Threads -> Int] : Sum(c) \in Int
<1> SUFFICES ASSUME NEW c \in [Threads -> Int] PROVE Sum(c) \in Int
  OBVIOUS
<1> DEFINE Step(g, s) == IF s = {} THEN 0 ELSE c[First(s)] + g[s \ {First(s)}]
           sum == CHOOSE g : g = [s \in SUBSET Threads |-> Step(g, s)]
<1>1. Sum(c) = sum[Threads]
  BY SumUnfolds
<1>2. SUBSET Threads = Upto(N) /\ N \in Nat
  <2>1. IsFiniteSet(Threads) /\ Cardinality(Threads) = N /\ N \in Nat
    BY FS_Interval, SnapshotAssumption DEF Threads
  <2>2. \A s \in SUBSET Threads : Cardinality(s) =< N
    BY <2>1, FS_Subset
  <2> QED
    BY <2>1, <2>2 DEF Upto
<1>3. \E g : g = [s \in SUBSET Threads |-> Step(g, s)]
  <2>1. PICK g : g = [s \in Upto(N) |-> Step(g, s)]
    BY <1>2, SumDefined
  <2> HIDE DEF Step
  <2> QED
    BY <1>2, <2>1
<1>4. sum = [s \in SUBSET Threads |-> Step(sum, s)]
  <2> HIDE DEF Step
  <2> QED
    BY <1>3
<1> HIDE DEF sum
<1>5. \A s \in SUBSET Threads : sum[s] = Step(sum, s)
  <2> HIDE DEF Step
  <2> QED
    BY <1>4
<1> DEFINE Bad == {k \in Nat : \E s \in SUBSET Threads : Cardinality(s) = k /\ sum[s] \notin Int}
<1>6. Bad = {}
  <2> SUFFICES ASSUME Bad # {} PROVE FALSE
    OBVIOUS
  <2>1. PICK k \in Bad : \A j \in Bad : k =< j
    <3>1. Bad \in SUBSET Nat
      OBVIOUS
    <3> HIDE DEF Bad
    <3> QED
      BY <3>1, LeastNatural
  <2>2. PICK s \in SUBSET Threads : Cardinality(s) = k /\ sum[s] \notin Int
    OBVIOUS
  <2>3. s # {}
    <3>1. sum[{}] = Step(sum, {})
      BY <1>5
    <3>2. sum[{}] = 0
      BY <3>1
    <3> HIDE DEF Step
    <3> QED
      BY <2>2, <3>2
  <2>4. PICK r : r = s \ {First(s)}
    OBVIOUS
  <2>5. /\ First(s) \in Threads /\ r \in SUBSET Threads
        /\ k \in Nat \ {0} /\ Cardinality(r) = k - 1
    BY <2>2, <2>3, <2>4, Rest
  <2>6. k - 1 \in Nat /\ ~(k =< k - 1)
    BY <2>5
  <2>7. sum[r] \in Int
    <3>1. k - 1 \notin Bad
      BY <2>1, <2>6
    <3> QED
      BY <2>5, <2>6, <3>1
  <2>8. sum[s] = c[First(s)] + sum[r]
    BY <1>5, <2>3, <2>4
  <2> QED
    BY <2>2, <2>5, <2>7, <2>8
<1>7. Cardinality(Threads) \in Nat
  <2>1. IsFiniteSet(Threads)
    BY FS_Interval, SnapshotAssumption DEF Threads
  <2> QED
    BY <2>1, FS_CardinalityType
<1>8. sum[Threads] \in Int
  BY <1>6, <1>7
<1> QED
  BY <1>1, <1>8

\* Type correctness: in particular run() returns a number of updates, and nothing before.
THEOREM SnapshotTypeCorrect == Spec => []SnapshotTypeOK
<1>1. Init => CountInv
  BY DEF Init, CountInv
<1>2. ScanInv /\ CountInv /\ RoundInv => SnapshotTypeOK
  <2> SUFFICES ASSUME ScanInv, CountInv, RoundInv PROVE SnapshotTypeOK
    OBVIOUS
  <2>1. SnapType
    BY DEF ScanInv
  <2>2. total \in Int \cup {NoSnap}
    BY <2>1, SumType DEF CountInv, SnapType
  <2> QED
    BY <2>1, <2>2 DEF SnapType, SnapshotTypeOK, Labels, RoundInv
<1> QED
  BY <1>1, <1>2, ScanInit, ScanNext, CountNext, RoundInit, RoundNext, PTL DEF Spec
=============================================================================
