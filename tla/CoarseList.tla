----------------------------- MODULE CoarseList -----------------------------
(***************************************************************************)
(* lab11/coarse_grained.cpp: one mutex for the whole list.  A removal      *)
(* frees its node after it has let go of the mutex.                        *)
(***************************************************************************)
EXTENDS LinkedList

CONSTANT NoThread

VARIABLE mutex       \* who holds it

Init == ListInit /\ mutex = NoThread

Lock(t) ==
  /\ pc[t] = "begin" /\ mutex = NoThread
  /\ mutex' = t
  /\ FromHead(t)
  /\ Goto(t, "walk")
  /\ UNCHANGED <<heapVars, callVars>>

Walk(t) ==
  /\ pc[t] = "walk" /\ Before(t)
  /\ Advance(t)
  /\ UNCHANGED <<heapVars, callVars, pc, mutex>>

\* The change, and the unlock after it.
Apply(t) ==
  /\ pc[t] = "walk" /\ ~Before(t)
  /\ Link(t)
  /\ mutex' = NoThread
  /\ Goto(t, IF Unlinked(t) THEN "free" ELSE "return")
  /\ UNCHANGED <<key, freed, prev, curr>>

ThreadFunc(t) ==
  \/ (Call(t) \/ Free(t) \/ Return(t)) /\ UNCHANGED mutex
  \/ Lock(t) \/ Walk(t) \/ Apply(t)

-----------------------------------------------------------------------------
(* Properties.                                                             *)

\* free() runs outside the mutex: the node it gets is one that no traversal stands
\* on (coarse_grained.cpp:88-90).
NoUseAfterFree ==
  \A t \in Threads :
    /\ pc[t] = "walk" => prev[t] \notin freed
    /\ pc[t] \in {"walk", "free"} => curr[t] \notin freed
=============================================================================
