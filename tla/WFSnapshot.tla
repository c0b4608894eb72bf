----------------------------- MODULE WFSnapshot ------------------------------
(***************************************************************************)
(* project3: N threads update their own component of a shared array until  *)
(* the main thread raises `exit' (threadpool.cpp).  An update first takes  *)
(* a wait-free snapshot of the array (wfsnapshot.h): collect all           *)
(* components twice; equal stamps mean nothing moved; a component seen to  *)
(* move twice lends the snapshot its own update took.                      *)
(*                                                                         *)
(* The components are plain structs of three fields, copied without any    *)
(* synchronisation: reader and writer go field by field, in any order, so  *)
(* a collect may mix the fields of several updates.  Copying a StampedSnap *)
(* with its constructor does not keep the stamp (stampedsnap.h:20),        *)
(* copying it by assignment does.                                          *)
(***************************************************************************)
EXTENDS Integers, FiniteSets, FiniteSetsExt

CONSTANTS N,            \* the number of threads, and of components
          NoSnap,       \* nullptr
          Garbage,      \* what an uninitialised int may hold
          MaxUpdates    \* bound on the updates of a thread

Threads == 1..N

\* What Random<int>::get returns is only ever copied: a value is the number of the
\* update it is drawn for.
Values == 1..MaxUpdates

ASSUME SnapshotAssumption ==
  /\ N \in Nat \ {0} /\ MaxUpdates \in Nat
  /\ Garbage \subseteq Int
  /\ NoSnap \notin [Threads -> Values \cup {0}]

VARIABLES snaps,          \* the shared array of StampedSnaps
          exit,           \* set when the minute is over
          updateCounts,   \* per thread, written when it leaves
          total,          \* what run() returns, NoSnap before
          pc, newValue,   \* where a thread is; the component it is building
          oldCopy, newCopy, moved, next,   \* locals of scan() and collect()
          todo,           \* fields a struct copy has yet to copy
          updateCount,    \* local of work()
          seen,           \* history: values a component had during a scan
          collects        \* history: collects of the running scan, up to N + 2

sharedVars == <<snaps, exit, updateCounts, total>>
localVars == <<pc, newValue, oldCopy, newCopy, moved, next, todo,
               updateCount>>
vars == <<sharedVars, localVars, seen, collects>>

StampedSnap == [stamp : Nat, value : Values \cup {0},
                snap : [Threads -> Values \cup {0}] \cup {NoSnap}]
Fields == {"stamp", "value", "snap"}
Blank == [stamp |-> 0, value |-> 0, snap |-> NoSnap]

SnapshotTypeOK ==
  /\ snaps \in [Threads -> StampedSnap]
  /\ exit \in BOOLEAN
  /\ updateCounts \in [Threads -> Int]
  /\ total \in Int \cup {NoSnap}
  /\ pc \in [Threads -> {"loop", "collectOld", "collectNew", "compare", "store", "done"}]
  /\ newValue \in [Threads -> StampedSnap]
  /\ oldCopy \in [Threads -> [Threads -> StampedSnap]]
  /\ newCopy \in [Threads -> [Threads -> StampedSnap]]
  /\ moved \in [Threads -> SUBSET Threads]
  /\ next \in [Threads -> Threads]
  /\ todo \in [Threads -> (SUBSET Fields) \ {{}}]
  /\ updateCount \in [Threads -> 0..MaxUpdates]
  /\ seen \in [Threads -> [Threads -> SUBSET (Values \cup {0})]]
  /\ collects \in [Threads -> Nat]

Empty == [i \in Threads |-> Blank]

Init ==
  /\ snaps = Empty
  /\ exit = FALSE
  /\ updateCounts \in [Threads -> Garbage]
  /\ total = NoSnap
  /\ pc = [t \in Threads |-> "loop"]
  /\ newValue = Empty
  /\ oldCopy = [t \in Threads |-> Empty]
  /\ newCopy = [t \in Threads |-> Empty]
  /\ moved = [t \in Threads |-> {}]
  /\ next = [t \in Threads |-> 1]
  /\ todo = [t \in Threads |-> Fields]
  /\ updateCount = [t \in Threads |-> 0]
  /\ seen = [t \in Threads |-> [i \in Threads |-> {}]]
  /\ collects = [t \in Threads |-> 0]

-----------------------------------------------------------------------------
\* work() goes round its loop: draw a value and call update.
Call(t) ==
  /\ pc[t] = "loop" /\ ~exit
  /\ updateCount[t] < MaxUpdates
  /\ newValue' = [newValue EXCEPT ![t].value = updateCount[t] + 1]
  /\ seen' = [seen EXCEPT ![t] = [i \in Threads |-> {snaps[i].value}]]
  /\ pc' = [pc EXCEPT ![t] = "collectOld"]
  /\ UNCHANGED <<sharedVars, oldCopy, newCopy, moved, next, todo, updateCount, collects>>

\* One field of a struct copy; the last one ends it.
CopyField(t, f) ==
  todo' = [todo EXCEPT ![t] = IF @ = {f} THEN Fields ELSE @ \ {f}]

\* Mutant: the loop of collect() runs one element too far.
CollectedRunsOn(t, f, label) ==
  /\ CopyField(t, f)
  /\ next' = [next EXCEPT ![t] = IF todo[t] = {f} THEN @ + 1 ELSE @]
  /\ pc' = [pc EXCEPT ![t] = IF todo[t] = {f} /\ next[t] > N THEN label ELSE @]
  /\ UNCHANGED collects

\* One field of one element of collect(): copied by assignment, the stamp too.
\* After the last field of the last element the thread is at label.
Collected(t, f, label) ==
  /\ CopyField(t, f)
  /\ next' = [next EXCEPT ![t] = IF todo[t] = {f} THEN (@ % N) + 1 ELSE @]
  /\ pc' = [pc EXCEPT ![t] = IF todo[t] = {f} /\ next[t] = N THEN label ELSE @]
  /\ collects' = [collects EXCEPT ![t] =
       IF todo[t] = {f} /\ next[t] = N /\ @ =< N + 1 THEN @ + 1 ELSE @]

CollectOld(t) ==
  /\ pc[t] = "collectOld"
  /\ \E f \in todo[t] :
       /\ oldCopy' = [oldCopy EXCEPT ![t][next[t]][f] = snaps[next[t]][f]]
       /\ Collected(t, f, "collectNew")
  /\ UNCHANGED <<sharedVars, newValue, newCopy, moved, updateCount, seen>>

CollectNew(t) ==
  /\ pc[t] = "collectNew"
  /\ \E f \in todo[t] :
       /\ newCopy' = [newCopy EXCEPT ![t][next[t]][f] = snaps[next[t]][f]]
       /\ Collected(t, f, "compare")
  /\ UNCHANGED <<sharedVars, newValue, oldCopy, moved, updateCount, seen>>

Differing(t) == {i \in Threads : oldCopy[t][i].stamp # newCopy[t][i].stamp}

\* The copy constructor (stampedsnap.h:20-23), through which update() looks at
\* its previous component.
CopyConstruct(ssnap) == [ssnap EXCEPT !.stamp = 0]

\* scan() has returned: make the new component.  The locals of scan() are gone.
Make(t, snap) ==
  /\ newValue' = [newValue EXCEPT
        ![t].stamp = CopyConstruct(snaps[t]).stamp + 1, ![t].snap = snap]
  /\ oldCopy' = [oldCopy EXCEPT ![t] = Empty]
  /\ newCopy' = [newCopy EXCEPT ![t] = Empty]
  /\ moved' = [moved EXCEPT ![t] = {}]
  /\ collects' = [collects EXCEPT ![t] = 0]
  /\ pc' = [pc EXCEPT ![t] = "store"]

\* A component moved that has not moved before: compare with the newer copy.
Retry(t, i) ==
  /\ moved' = [moved EXCEPT ![t] = @ \cup {i}]
  /\ oldCopy' = [oldCopy EXCEPT ![t] = newCopy[t]]
  /\ pc' = [pc EXCEPT ![t] = "collectNew"]
  /\ UNCHANGED <<newValue, newCopy, collects>>

Direct(t) == [i \in Threads |-> newCopy[t][i].value]

\* Mutant: a component that moved once already lends its snapshot.
CompareLendsEarly(t) ==
  /\ pc[t] = "compare"
  /\ IF Differing(t) = {} THEN Make(t, Direct(t))
     ELSE Make(t, newCopy[t][Min(Differing(t))].snap)
  /\ UNCHANGED <<sharedVars, next, todo, updateCount, seen>>

\* Mutant: any difference just collects again.
CompareInsists(t) ==
  /\ pc[t] = "compare"
  /\ IF Differing(t) = {} THEN Make(t, Direct(t))
     ELSE /\ pc' = [pc EXCEPT ![t] = "collectNew"]
          /\ UNCHANGED <<newValue, oldCopy, newCopy, moved, collects>>
  /\ UNCHANGED <<sharedVars, next, todo, updateCount, seen>>

\* Mutant: a scan waits for the updates that are being stored.
CompareWaits(t) ==
  /\ \A i \in Threads : pc[i] # "store"
  /\ pc[t] = "compare"
  /\ IF Differing(t) = {} THEN Make(t, Direct(t))
     ELSE LET i == Min(Differing(t))
          IN  IF i \in moved[t] THEN Make(t, oldCopy[t][i].snap) ELSE Retry(t, i)
  /\ UNCHANGED <<sharedVars, next, todo, updateCount, seen>>

\* The for loop of scan(): it stops at the first differing stamp.
Compare(t) ==
  /\ pc[t] = "compare"
  /\ IF Differing(t) = {} THEN Make(t, Direct(t))
     ELSE LET i == Min(Differing(t))
          IN  IF i \in moved[t] THEN Make(t, oldCopy[t][i].snap) ELSE Retry(t, i)
  /\ UNCHANGED <<sharedVars, next, todo, updateCount, seen>>

\* A scan of u is running.
Scanning(u) == pc[u] \in {"collectOld", "collectNew", "compare"}

\* One field of the assignment to snaps[t]; after the last one update() returns
\* and is counted.
Store(t) ==
  /\ pc[t] = "store"
  /\ \E f \in todo[t] :
       /\ snaps' = [snaps EXCEPT ![t][f] = newValue[t][f]]
       /\ CopyField(t, f)
       /\ IF todo[t] = {f}
          THEN /\ newValue' = [newValue EXCEPT ![t] = Blank]
               /\ updateCount' = [updateCount EXCEPT ![t] = @ + 1]
               /\ pc' = [pc EXCEPT ![t] = "loop"]
          ELSE UNCHANGED <<newValue, updateCount, pc>>
  /\ seen' = [u \in Threads |-> IF u = t THEN [i \in Threads |-> {}]
                ELSE IF Scanning(u) THEN [seen[u] EXCEPT ![t] = @ \cup {snaps'[t].value}]
                ELSE seen[u]]
  /\ UNCHANGED <<exit, updateCounts, total, oldCopy, newCopy, moved, next, collects>>

Leave(t) ==
  /\ pc[t] = "loop" /\ exit
  /\ updateCounts' = [updateCounts EXCEPT ![t] = updateCount[t]]
  /\ pc' = [pc EXCEPT ![t] = "done"]
  /\ UNCHANGED <<snaps, exit, total, newValue, oldCopy, newCopy, moved, next,
                 todo, updateCount, seen, collects>>

work(t) == \/ Call(t) \/ CollectOld(t) \/ CollectNew(t) \/ Compare(t)
           \/ Store(t) \/ Leave(t)

-----------------------------------------------------------------------------
(* run(): sleep, raise the flag, join, add up.                             *)

SetExit ==
  /\ ~exit
  /\ exit' = TRUE
  /\ UNCHANGED <<snaps, updateCounts, total, localVars, seen, collects>>

Sum(counts) == MapThenSumSet(LAMBDA t : counts[t], Threads)

\* Mutant: the counts are added up without joining the threads.
JoinNobody ==
  /\ exit /\ total = NoSnap
  /\ total' = Sum(updateCounts)
  /\ UNCHANGED <<snaps, exit, updateCounts, localVars, seen, collects>>

Join ==
  /\ exit /\ total = NoSnap
  /\ \A t \in Threads : pc[t] = "done"
  /\ total' = Sum(updateCounts)
  /\ UNCHANGED <<snaps, exit, updateCounts, localVars, seen, collects>>

run == SetExit \/ Join

Returned == total # NoSnap /\ UNCHANGED vars

Next == (\E t \in Threads : work(t)) \/ run \/ Returned

Spec == Init /\ [][Next]_vars

-----------------------------------------------------------------------------
(* Properties.                                                             *)

\* Every component of a snapshot is a value its owner's component held, or was
\* being assigned, while the scan was running: torn and unordered copies never
\* bring back an overwritten value (wfsnapshot.h:38-83).
RegularScan ==
  \A t \in Threads : pc[t] = "store" /\ todo[t] = Fields =>
    /\ newValue[t].snap # NoSnap
    /\ \A i \in Threads : newValue[t].snap[i] \in seen[t][i]

\* run() adds up the counts after every thread has written its own, so it
\* returns the number of updates made (threadpool.cpp:36-44, 66).
TotalIsUpdates ==
  total # NoSnap => total = Sum(updateCount)

\* Wait-freedom, first half: a scan ends after at most N + 1 collects, however often
\* the others update meanwhile, as each retry is for another component that moved
\* (wfsnapshot.h:46-75).
ScanBound == \A t \in Threads : collects[t] =< N + 1

\* Wait-freedom, second half: a thread that is scheduled finishes every update it has
\* begun, also when the others stop for ever anywhere, in the middle of a store too
\* (wfsnapshot.h:20-83).
WaitsForNobody == WF_vars(work(1)) => (pc[1] = "collectOld" ~> pc[1] = "loop")

\* When the minute ends and the scheduler runs every thread, run() returns the number
\* of updates made (threadpool.cpp:21-45).
Scheduled == WF_vars(run) /\ \A t \in Threads : WF_vars(work(t))
RunReturns == Scheduled => <>(total = Sum(updateCount))
=============================================================================
