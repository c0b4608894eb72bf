--------------------------- MODULE OptimisticList ---------------------------
(***************************************************************************)
(* lab11/optimistic.cpp: the traversal takes no locks; the two nodes found *)
(* are locked and list_validate walks again, without locks, to see that    *)
(* the first is still in the list and still leads to the second.  Removed  *)
(* nodes are never freed.                                                  *)
(***************************************************************************)
EXTENDS LinkedList

CONSTANT NoThread

VARIABLES mutex,     \* of the nodes: who holds it
          it         \* of list_validate

Init ==
  /\ ListInit
  /\ mutex = [n \in Nodes |-> NoThread]
  /\ it = [t \in Threads |-> head]

Begin(t) ==
  /\ pc[t] = "begin"
  /\ FromHead(t)
  /\ Goto(t, "walk")
  /\ UNCHANGED <<heapVars, callVars, mutex, it>>

Walk(t) ==
  /\ pc[t] = "walk" /\ Before(t)
  /\ Advance(t)
  /\ UNCHANGED <<heapVars, callVars, pc, mutex, it>>

LockPrev(t) ==
  /\ pc[t] = "walk" /\ ~Before(t) /\ mutex[prev[t]] = NoThread
  /\ mutex' = [mutex EXCEPT ![prev[t]] = t]
  /\ Goto(t, "lockCurr")
  /\ UNCHANGED <<heapVars, callVars, prev, curr, it>>

LockCurr(t) ==
  /\ pc[t] = "lockCurr" /\ mutex[curr[t]] = NoThread
  /\ mutex' = [mutex EXCEPT ![curr[t]] = t]
  /\ it' = [it EXCEPT ![t] = head]
  /\ Goto(t, "validate")
  /\ UNCHANGED <<heapVars, callVars, prev, curr>>

UnlockBoth(t) == [mutex EXCEPT ![prev[t]] = NoThread, ![curr[t]] = NoThread]

\* list_validate: one node of its walk ...
ValidateNext(t) ==
  /\ pc[t] = "validate" /\ it[t] # prev[t] /\ key[it[t]] <= key[prev[t]]
  /\ it' = [it EXCEPT ![t] = next[it[t]]]
  /\ UNCHANGED <<heapVars, callVars, walkVars, mutex>>

\* Mutant: validation looks only whether prev still leads to curr.
ValidatedLocally(t) ==
  /\ pc[t] = "validate" /\ next[prev[t]] = curr[t]
  /\ Goto(t, "apply")
  /\ UNCHANGED <<heapVars, callVars, prev, curr, mutex, it>>

\* ... and its end with true ...
Validated(t) ==
  /\ pc[t] = "validate" /\ it[t] = prev[t] /\ next[prev[t]] = curr[t]
  /\ Goto(t, "apply")
  /\ UNCHANGED <<heapVars, callVars, prev, curr, mutex, it>>

\* ... or with false: unlock and begin again.
Refused(t) ==
  /\ pc[t] = "validate"
  /\ IF it[t] = prev[t] THEN next[prev[t]] # curr[t] ELSE key[it[t]] > key[prev[t]]
  /\ mutex' = UnlockBoth(t)
  /\ Goto(t, "begin")
  /\ UNCHANGED <<heapVars, callVars, prev, curr, it>>

\* The change, and the two unlocks after it.
Apply(t) ==
  /\ pc[t] = "apply"
  /\ Link(t)
  /\ mutex' = UnlockBoth(t)
  /\ Goto(t, "return")
  /\ UNCHANGED <<key, freed, prev, curr, it>>

ThreadFunc(t) ==
  \/ (Call(t) \/ Return(t)) /\ UNCHANGED <<mutex, it>>
  \/ Begin(t) \/ Walk(t) \/ LockPrev(t) \/ LockCurr(t)
  \/ ValidateNext(t) \/ Validated(t) \/ Refused(t) \/ Apply(t)

-----------------------------------------------------------------------------
(* Properties.                                                             *)

\* What list_validate has seen node by node, without locks, still holds when the
\* change is made: prev is in the list and leads to curr (optimistic.cpp:41-50, 81-82).
ValidatedStays ==
  \A t \in Threads : pc[t] = "apply" =>
    /\ prev[t] \in Reached /\ next[prev[t]] = curr[t]
    /\ mutex[prev[t]] = t /\ mutex[curr[t]] = t
=============================================================================
