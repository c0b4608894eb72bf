--------------------------- MODULE ConcurrentList ---------------------------
(***************************************************************************)
(* The three lists of lab11 side by side: `program' says which of the      *)
(* three source files runs.  They share the nodes, the calls and what they *)
(* promise, and differ in how they lock.                                   *)
(***************************************************************************)
EXTENDS LinkedList

CONSTANT NoThread

ASSUME NoThreadAssumption == NoThread \notin Threads

VARIABLES program,
          list_mutex,      \* the mutex of coarse_grained.cpp
          mutex,           \* those of the nodes in the others
          it               \* of list_validate in optimistic.cpp

vars == <<heapVars, callVars, walkVars, program, list_mutex, mutex, it>>

Coarse == INSTANCE CoarseList WITH mutex <- list_mutex
Fine == INSTANCE FineList
Optimistic == INSTANCE OptimisticList

Init ==
  /\ program \in {"coarse_grained", "fine_grained", "optimistic"}
  /\ Coarse!Init /\ Optimistic!Init

ThreadFunc(t) ==
  /\ \/ program = "coarse_grained" /\ Coarse!ThreadFunc(t) /\ UNCHANGED <<mutex, it>>
     \/ program = "fine_grained" /\ Fine!ThreadFunc(t) /\ UNCHANGED <<list_mutex, it>>
     \/ program = "optimistic" /\ Optimistic!ThreadFunc(t) /\ UNCHANGED list_mutex
  /\ UNCHANGED program

Joined == AllDone /\ UNCHANGED vars

Next == (\E t \in Threads : ThreadFunc(t)) \/ Joined

Spec == Init /\ [][Next]_vars

-----------------------------------------------------------------------------
(* Properties.                                                             *)

\* free() comes after the unlocks: nobody may be waiting for a mutex of the node or be
\* about to read it (coarse_grained.cpp:88-90, fine_grained.cpp:95-100).
NoUseAfterFree ==
  /\ program = "coarse_grained" => Coarse!NoUseAfterFree
  /\ program = "fine_grained" => Fine!NoUseAfterFree

\* A thread that waits for the mutex of a node holds none of a later node, so there is
\* no circle of waiting threads (fine_grained.cpp:49-59).
LockOrder == program = "fine_grained" => Fine!LockOrder

\* What list_validate has seen node by node, without locks, still holds when the
\* change is made: prev is in the list and leads to curr (optimistic.cpp:41-50, 81-82).
ValidatedStays == program = "optimistic" => Optimistic!ValidatedStays
=============================================================================
