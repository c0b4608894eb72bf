------------------------------ MODULE FineList ------------------------------
(***************************************************************************)
(* lab11/fine_grained.cpp: every node has a mutex; a traversal locks the   *)
(* next node before it lets go of the last one, and a removal frees its    *)
(* node.                                                                   *)
(***************************************************************************)
EXTENDS LinkedList

CONSTANT NoThread

VARIABLE mutex       \* of the nodes: who holds it

Init == ListInit /\ mutex = [n \in Nodes |-> NoThread]

LockHead(t) ==
  /\ pc[t] = "begin" /\ mutex[head] = NoThread
  /\ mutex' = [mutex EXCEPT ![head] = t]
  /\ FromHead(t)
  /\ Goto(t, "lockCurr")
  /\ UNCHANGED <<heapVars, callVars>>

LockCurr(t) ==
  /\ pc[t] = "lockCurr" /\ mutex[curr[t]] = NoThread
  /\ mutex' = [mutex EXCEPT ![curr[t]] = t]
  /\ Goto(t, "walk")
  /\ UNCHANGED <<heapVars, callVars, prev, curr>>

\* Mutant: the traversal lets go of curr as well before it takes the next node.
WalkLetsGo(t) ==
  /\ pc[t] = "walk" /\ Before(t)
  /\ mutex' = [mutex EXCEPT ![prev[t]] = NoThread, ![curr[t]] = NoThread]
  /\ Advance(t)
  /\ Goto(t, "lockCurr")
  /\ UNCHANGED <<heapVars, callVars>>

\* Mutant: the traversal keeps the mutex of prev.
WalkKeepsPrev(t) ==
  /\ pc[t] = "walk" /\ Before(t)
  /\ Advance(t)
  /\ Goto(t, "lockCurr")
  /\ UNCHANGED <<heapVars, callVars, mutex>>

Walk(t) ==
  /\ pc[t] = "walk" /\ Before(t)
  /\ mutex' = [mutex EXCEPT ![prev[t]] = NoThread]
  /\ Advance(t)
  /\ Goto(t, "lockCurr")
  /\ UNCHANGED <<heapVars, callVars>>

\* The change, and the two unlocks after it.
Apply(t) ==
  /\ pc[t] = "walk" /\ ~Before(t)
  /\ Link(t)
  /\ mutex' = [mutex EXCEPT ![prev[t]] = NoThread, ![curr[t]] = NoThread]
  /\ Goto(t, IF Unlinked(t) THEN "free" ELSE "return")
  /\ UNCHANGED <<key, freed, prev, curr>>

ThreadFunc(t) ==
  \/ (Call(t) \/ Free(t) \/ Return(t)) /\ UNCHANGED mutex
  \/ LockHead(t) \/ LockCurr(t) \/ Walk(t) \/ Apply(t)

-----------------------------------------------------------------------------
(* Properties.                                                             *)

\* The nodes whose memory the next step of t looks into.
Touches(t) ==
  CASE pc[t] = "lockCurr" -> {prev[t], curr[t]}
    [] pc[t] = "walk" -> {prev[t], curr[t]}
    [] pc[t] = "free" -> {curr[t]}
    [] OTHER -> {}

\* free() comes after both unlocks: nobody may be waiting for the mutex of the node or
\* be about to read it (fine_grained.cpp:95-100).
NoUseAfterFree == \A t \in Threads : Touches(t) \cap freed = {}

\* A thread that waits for a mutex holds none of a later node, so there is no
\* circle of waiting threads (fine_grained.cpp:49-59).
LockOrder ==
  \A t \in Threads : pc[t] = "lockCurr" =>
    \A n \in Nodes : mutex[n] = t => n = prev[t] /\ key[n] < key[curr[t]]
=============================================================================
