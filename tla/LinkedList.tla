----------------------------- MODULE LinkedList -----------------------------
(***************************************************************************)
(* What the three lists of lab11 share: sorted nodes between two           *)
(* sentinels, the work of a thread and the change an operation makes once  *)
(* it has found its place.  CoarseList, FineList and OptimisticList add    *)
(* how they lock.                                                          *)
(*                                                                         *)
(* A node is named after the call that allocates it, so memory is never    *)
(* used again; NoUseAfterFree says that this hides nothing.                *)
(***************************************************************************)
EXTENDS Integers, Functions

CONSTANTS Threads, Keys,
          NumWork,             \* num_work, the calls of each thread
          MaxCalls,            \* bound on the calls of all threads together
          INT_MIN, INT_MAX     \* the keys of the sentinels

ASSUME ListAssumption ==
  /\ Threads \cap {"head", "tail", "null"} = {}
  /\ NumWork \in Nat /\ MaxCalls \in Nat
  /\ Keys \subseteq INT_MIN..INT_MAX
  /\ INT_MIN \in Int /\ INT_MAX \in Int /\ INT_MIN < INT_MAX

head == <<"head", 0>>
tail == <<"tail", 0>>
NULL == <<"null", 0>>
Nodes == {head, tail} \cup (Threads \X (1..NumWork))

VARIABLES key, next,        \* of the nodes
          freed,            \* nodes given to free()
          job, ret,         \* the call of a thread and its answer
          work,             \* calls a thread has begun
          pc, prev, curr    \* of the threads

heapVars == <<key, next, freed>>
callVars == <<job, ret, work>>
walkVars == <<pc, prev, curr>>

\* The nodes met from head, and the keys in the list.
Reached ==
  LET from[n \in Nodes \cup {NULL}] ==
        IF n = NULL THEN {} ELSE {n} \cup from[next[n]]
  IN  from[head]
Contents == {key[n] : n \in Reached \ {head, tail}}

Set == INSTANCE ListSet WITH set <- Contents

\* list_init.
ListInit ==
  /\ key = [n \in Nodes |-> IF n = head THEN INT_MIN ELSE INT_MAX]
  /\ next = [n \in Nodes |-> IF n = head THEN tail ELSE NULL]
  /\ freed = {}
  /\ job = [t \in Threads |-> Set!Idle]
  /\ ret = [t \in Threads |-> "pending"]
  /\ work = [t \in Threads |-> 0]
  /\ pc = [t \in Threads |-> "idle"]
  /\ prev = [t \in Threads |-> head]
  /\ curr = [t \in Threads |-> head]

\* The node list_add has allocated.
node(t) == <<t, work[t]>>

Goto(t, label) == pc' = [pc EXCEPT ![t] = label]

\* Work that is none of the three operations is skipped, so the threads may make
\* any number of calls up to num_work.
WorkLeft(t) == work[t] < NumWork /\ FoldFunction(+, 0, work) < MaxCalls

\* ThreadFunc takes its next piece of work; list_add allocates its node.
Call(t) ==
  /\ pc[t] = "idle" /\ WorkLeft(t)
  /\ work' = [work EXCEPT ![t] = @ + 1]
  /\ \E c \in Set!Calls :
       /\ job' = [job EXCEPT ![t] = c]
       /\ key' = IF c.op = "A" THEN [key EXCEPT ![<<t, work'[t]>>] = c.key] ELSE key
  /\ Goto(t, "begin")
  /\ UNCHANGED <<next, freed, ret, prev, curr>>

\* prev = head; curr = head->next.
FromHead(t) ==
  /\ prev' = [prev EXCEPT ![t] = head]
  /\ curr' = [curr EXCEPT ![t] = next[head]]

\* prev = curr; curr = curr->next.
Advance(t) ==
  /\ prev' = [prev EXCEPT ![t] = curr[t]]
  /\ curr' = [curr EXCEPT ![t] = next[curr[t]]]

\* Mutant: the traversal also passes the key it looks for.
BeforeOrAt(t) == key[curr[t]] <= job[t].key

Before(t) == key[curr[t]] < job[t].key
Found(t) == key[curr[t]] = job[t].key

\* Mutant: a new node is not linked to its successor.
LinkLoose(t) ==
  /\ ret' = [ret EXCEPT ![t] =
               IF Found(t) = (job[t].op # "A") THEN "true" ELSE "false"]
  /\ next' = CASE job[t].op = "A" /\ ~Found(t) -> [next EXCEPT ![prev[t]] = node(t)]
               [] job[t].op = "R" /\ Found(t) ->
                    [next EXCEPT ![prev[t]] = next[curr[t]]]
               [] OTHER -> next
  /\ UNCHANGED <<job, work>>

\* Mutant: list_remove answers true whether or not it finds its key.
LinkRemovesAnyway(t) ==
  /\ ret' = [ret EXCEPT ![t] =
               IF job[t].op = "R" \/ Found(t) = (job[t].op # "A") THEN "true" ELSE "false"]
  /\ next' = CASE job[t].op = "A" /\ ~Found(t) ->
                    [next EXCEPT ![prev[t]] = node(t), ![node(t)] = curr[t]]
               [] job[t].op = "R" /\ Found(t) ->
                    [next EXCEPT ![prev[t]] = next[curr[t]]]
               [] OTHER -> next
  /\ UNCHANGED <<job, work>>

\* The place is found and locked: the links of an add or a removal, the answer.
\* Both links of an add are written under the locks.
Link(t) ==
  /\ ret' = [ret EXCEPT ![t] =
               IF Found(t) = (job[t].op # "A") THEN "true" ELSE "false"]
  /\ next' = CASE job[t].op = "A" /\ ~Found(t) ->
                    [next EXCEPT ![prev[t]] = node(t), ![node(t)] = curr[t]]
               [] job[t].op = "R" /\ Found(t) ->
                    [next EXCEPT ![prev[t]] = next[curr[t]]]
               [] OTHER -> next
  /\ UNCHANGED <<job, work>>

Unlinked(t) == job[t].op = "R" /\ Found(t)

\* free(curr) after a removal.
Free(t) ==
  /\ pc[t] = "free"
  /\ freed' = freed \cup {curr[t]}
  /\ Goto(t, "return")
  /\ UNCHANGED <<key, next, callVars, prev, curr>>

Return(t) ==
  /\ pc[t] = "return"
  /\ job' = [job EXCEPT ![t] = Set!Idle]
  /\ ret' = [ret EXCEPT ![t] = "pending"]
  /\ Goto(t, "idle")
  /\ UNCHANGED <<heapVars, work, prev, curr>>

AllDone == \A t \in Threads : pc[t] = "idle" /\ ~WorkLeft(t)

-----------------------------------------------------------------------------
(* Properties.                                                             *)

ListTypeOK ==
  /\ key \in [Nodes -> INT_MIN..INT_MAX]
  /\ next \in [Nodes -> Nodes \cup {NULL}]
  /\ freed \in SUBSET Nodes
  /\ job \in [Threads -> Set!Calls \cup {Set!Idle}]
  /\ ret \in [Threads -> {"pending", "true", "false"}]
  /\ work \in [Threads -> 0..NumWork]
  /\ prev \in [Threads -> Nodes] /\ curr \in [Threads -> Nodes]

\* The list stays sorted: a link leads to a greater key, also from nodes that have
\* been taken out, on which an unlocked traversal may still stand.
Sorted == \A n \in Nodes : next[n] # NULL => key[n] < key[next[n]]

\* Every call answers and changes the list as if it took effect at one moment
\* between its call and its return (list_add, list_remove, list_contains).
Linearizable == Set!SetSpec
=============================================================================
