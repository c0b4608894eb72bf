------------------------ MODULE ConcurrentList_proofs ------------------------
(***************************************************************************)
(* Proofs about the three lists of lab11, for any number of threads, calls *)
(* and keys, provided no key is that of a sentinel: list_remove(INT_MAX)   *)
(* would take the tail out of the list (KeysBetween).                      *)
(*                                                                         *)
(* Heap and Calling say what all three keep, whatever they lock: a node    *)
(* that has been linked leads to one that has been linked and has a        *)
(* greater key, and a traversal stands on such nodes, short of its key.    *)
(* Live is for the two that free: no node in the list leads to a dead one, *)
(* and no two lead to the same, so a removal leaves nobody a way to the    *)
(* node it frees.  CoarseLocks, FineLocks and OptimisticLocks say who      *)
(* holds what.                                                             *)
(*                                                                         *)
(* ReachInv says where the traversals stand in the list: a node between    *)
(* two locks, or one that list_validate has passed, is still linked from   *)
(* head (Placed), and a call that has found its answer has found what the  *)
(* list holds (Answers).  Every step then is one of the set ListSet or     *)
(* none: the lists are linearizable.                                       *)
(***************************************************************************)
EXTENDS ConcurrentList, WellFoundedInduction, TLAPS

KeysBetween == Keys \cap {INT_MIN, INT_MAX} = {}

ListType ==
  /\ ListTypeOK
  /\ pc \in [Threads -> {"idle", "begin", "walk", "lockCurr", "validate", "apply", "free",
                         "return"}]

\* n is or was in the list.
Used(n) == n \in {head, tail} \/ next[n] # NULL

Heap ==
  /\ key[head] = INT_MIN /\ key[tail] = INT_MAX /\ next[tail] = NULL /\ next[head] # NULL
  /\ \A n \in Nodes : next[n] # NULL => key[n] < key[next[n]] /\ Used(next[n])
  /\ \A t \in Threads, k \in 1..NumWork : work[t] < k => next[<<t, k>>] = NULL

\* t is between its call and its change, and on its way through the list.
Searching(t) == pc[t] \in {"begin", "walk", "lockCurr", "validate", "apply"}
Walking(t) == pc[t] \in {"walk", "lockCurr", "validate", "apply"}

Calling(t) ==
  /\ Used(prev[t]) /\ Used(curr[t])
  /\ Searching(t) => job[t] \in Set!Calls /\ work[t] > 0
  /\ Searching(t) /\ job[t].op = "A" => key[node(t)] = job[t].key /\ next[node(t)] = NULL
  /\ Walking(t) => key[prev[t]] < job[t].key /\ key[prev[t]] < key[curr[t]]
  /\ program = "optimistic" /\ pc[t] \in {"lockCurr", "validate", "apply"} =>
       job[t].key =< key[curr[t]]

ListInv == ListType /\ Heap /\ \A t \in Threads : Calling(t)

-----------------------------------------------------------------------------
(* The two lists that free.                                                *)

\* The nodes given to free(), and those about to be.
Dead == {n \in Nodes : n \in freed \/ \E t \in Threads : pc[t] = "free" /\ curr[t] = n}

Live ==
  /\ head \notin Dead /\ tail \notin Dead
  /\ \A n \in Dead : Used(n)
  /\ \A n \in Nodes : next[n] # NULL /\ n \notin Dead => next[n] \notin Dead
  /\ \A m, n \in Nodes \ Dead : next[n] # NULL /\ next[m] = next[n] => m = n
  /\ \A t \in Threads : pc[t] = "free" => curr[t] \notin freed
  /\ \A t, u \in Threads : pc[t] = "free" /\ pc[u] = "free" /\ curr[t] = curr[u] => t = u
  /\ \A t \in Threads : pc[t] \in {"walk", "lockCurr"} =>
       prev[t] \notin Dead /\ curr[t] \notin Dead /\ next[prev[t]] = curr[t]

CoarseLocks ==
  \A t \in Threads : /\ pc[t] \notin {"lockCurr", "validate", "apply"}
                     /\ list_mutex = t <=> pc[t] = "walk"

FineLocks ==
  /\ mutex \in [Nodes -> Threads \cup {NoThread}]
  /\ \A t \in Threads : pc[t] \notin {"validate", "apply"}
  /\ \A t \in Threads, n \in Nodes :
       mutex[n] = t <=> \/ pc[t] \in {"walk", "lockCurr"} /\ n = prev[t]
                        \/ pc[t] = "walk" /\ n = curr[t]

OptimisticLocks ==
  /\ mutex \in [Nodes -> Threads \cup {NoThread}]
  /\ \A t \in Threads : pc[t] # "free"
  /\ \A t \in Threads, n \in Nodes :
       mutex[n] = t <=> \/ pc[t] \in {"lockCurr", "validate", "apply"} /\ n = prev[t]
                        \/ pc[t] \in {"validate", "apply"} /\ n = curr[t]
  /\ \A t \in Threads : pc[t] = "apply" => next[prev[t]] = curr[t]

Locks ==
  /\ program \in {"coarse_grained", "fine_grained", "optimistic"}
  /\ program = "coarse_grained" => Live /\ CoarseLocks
  /\ program = "fine_grained" => Live /\ FineLocks
  /\ program = "optimistic" => OptimisticLocks

-----------------------------------------------------------------------------
(* What a step of t can be, in all three lists.                            *)

CallMove(t) ==
  /\ pc[t] = "idle" /\ work[t] < NumWork
  /\ work' = [work EXCEPT ![t] = @ + 1]
  /\ \E c \in Set!Calls :
       /\ job' = [job EXCEPT ![t] = c]
       /\ key' = IF c.op = "A" THEN [key EXCEPT ![<<t, work'[t]>>] = c.key] ELSE key
  /\ pc' = [pc EXCEPT ![t] = "begin"]
  /\ UNCHANGED <<next, freed, ret, prev, curr>>

\* prev = head; curr = head->next.
StartMove(t, to) ==
  /\ pc[t] = "begin" /\ pc' = [pc EXCEPT ![t] = to]
  /\ prev' = [prev EXCEPT ![t] = head] /\ curr' = [curr EXCEPT ![t] = next[head]]
  /\ UNCHANGED <<key, next, freed, job, ret, work>>

\* prev = curr; curr = curr->next.
StepMove(t, to) ==
  /\ pc[t] = "walk" /\ key[curr[t]] < job[t].key /\ pc' = [pc EXCEPT ![t] = to]
  /\ prev' = [prev EXCEPT ![t] = curr[t]] /\ curr' = [curr EXCEPT ![t] = next[curr[t]]]
  /\ UNCHANGED <<key, next, freed, job, ret, work>>

\* Only t's place changes: a lock, or list_validate.
StayMove(t, to) ==
  /\ Walking(t) /\ pc' = [pc EXCEPT ![t] = to]
  /\ UNCHANGED <<key, next, freed, job, ret, work, prev, curr>>

\* The change and the answer.
LinkMove(t, to) ==
  /\ pc[t] = (IF program = "optimistic" THEN "apply" ELSE "walk")
  /\ job[t].key =< key[curr[t]]
  /\ ret' = [ret EXCEPT ![t] = IF Found(t) = (job[t].op # "A") THEN "true" ELSE "false"]
  /\ \/ /\ job[t].op = "A" /\ key[curr[t]] # job[t].key /\ to = "return"
        /\ next' = [next EXCEPT ![prev[t]] = node(t), ![node(t)] = curr[t]]
     \/ /\ job[t].op = "R" /\ key[curr[t]] = job[t].key
        /\ to = IF program = "optimistic" THEN "return" ELSE "free"
        /\ next' = [next EXCEPT ![prev[t]] = next[curr[t]]]
     \/ /\ ~(job[t].op = "A" /\ key[curr[t]] # job[t].key)
        /\ ~(job[t].op = "R" /\ key[curr[t]] = job[t].key)
        /\ next' = next /\ to = "return"
  /\ pc' = [pc EXCEPT ![t] = to]
  /\ UNCHANGED <<job, work, key, freed, prev, curr>>

FreeMove(t) ==
  /\ pc[t] = "free" /\ pc' = [pc EXCEPT ![t] = "return"]
  /\ freed' = freed \cup {curr[t]}
  /\ UNCHANGED <<key, next, job, ret, work, prev, curr>>

ReturnMove(t) ==
  /\ pc[t] = "return" /\ pc' = [pc EXCEPT ![t] = "idle"]
  /\ job' = [job EXCEPT ![t] = Set!Idle] /\ ret' = [ret EXCEPT ![t] = "pending"]
  /\ UNCHANGED <<key, next, freed, work, prev, curr>>

Move(t) ==
  \/ CallMove(t) \/ FreeMove(t) \/ ReturnMove(t)
  \/ \E to \in {"walk", "lockCurr"} : StartMove(t, to) \/ StepMove(t, to)
  \/ \E to \in {"begin", "walk", "lockCurr", "validate", "apply"} : StayMove(t, to)
  \/ \E to \in {"free", "return"} : LinkMove(t, to)

-----------------------------------------------------------------------------
(* The moves keep ListInv.                                                 *)

\* The sentinels and the null pointer are no node that a thread allocates.
LEMMA NodeFacts ==
  /\ head \in Nodes /\ tail \in Nodes /\ head # tail /\ NULL \notin Nodes
  /\ \A t \in Threads, k \in 1..NumWork : <<t, k>> \in Nodes /\ <<t, k>> \notin {head, tail}
BY ListAssumption DEF head, tail, NULL, Nodes

\* Every key lies between those of the sentinels.
LEMMA KeyFacts ==
  ASSUME KeysBetween
  PROVE  /\ INT_MIN \in Int /\ INT_MAX \in Int /\ INT_MIN < INT_MAX
         /\ \A k \in Keys : k \in INT_MIN..INT_MAX /\ INT_MIN < k /\ k < INT_MAX
         /\ \A c \in Set!Calls : c.key \in Keys /\ c.op \in {"A", "R", "C"}
<1>1. \A c \in Set!Calls : c.key \in Keys /\ c.op \in {"A", "R", "C"}
  BY DEF Set!Calls, Set!Ops
<1>2. ASSUME NEW k \in Keys
      PROVE  k \in INT_MIN..INT_MAX /\ INT_MIN < k /\ k < INT_MAX
  BY ListAssumption DEF KeysBetween
<1> QED
  BY <1>1, <1>2, ListAssumption

\* list_add allocates a node that nobody knows, so no key in use is overwritten.
LEMMA CallKeeps ==
  ASSUME KeysBetween, ListInv, program' = program, NEW t \in Threads, CallMove(t)
  PROVE  /\ ListInv'
         /\ \A n \in Nodes : Used(n)' <=> Used(n)
<1>1. ListType /\ Heap /\ \A u \in Threads : Calling(u)
  BY DEF ListInv
<1>2. PICK c \in Set!Calls :
        /\ job' = [job EXCEPT ![t] = c]
        /\ key' = IF c.op = "A" THEN [key EXCEPT ![<<t, work'[t]>>] = c.key] ELSE key
  BY DEF CallMove
<1>3. /\ pc[t] = "idle" /\ work[t] \in Int /\ work[t] < NumWork
      /\ work' = [work EXCEPT ![t] = @ + 1] /\ pc' = [pc EXCEPT ![t] = "begin"]
      /\ UNCHANGED <<next, freed, ret, prev, curr>>
  BY <1>1, ListAssumption DEF CallMove, ListType, ListTypeOK
<1>4. work'[t] = work[t] + 1 /\ work'[t] \in 1..NumWork /\ work' \in [Threads -> 0..NumWork]
  BY <1>1, <1>3, ListAssumption DEF ListType, ListTypeOK
<1> DEFINE new == <<t, work'[t]>>
<1>5. new \in Nodes /\ next[new] = NULL /\ new \notin {head, tail}
  BY <1>1, <1>3, <1>4, NodeFacts DEF Heap
<1>6. \A n \in Nodes : Used(n)' <=> Used(n)
  BY <1>3 DEF Used
<1>7. \A n \in Nodes : (n # new => key'[n] = key[n]) /\ (Used(n) => key'[n] = key[n])
  <2>1. key \in [Nodes -> INT_MIN..INT_MAX]
    BY <1>1 DEF ListType, ListTypeOK
  <2>2. ASSUME NEW n \in Nodes, n # new PROVE key'[n] = key[n]
    BY <1>2, <2>1, <2>2
  <2> QED
    BY <1>5, <2>2 DEF Used
<1>8. c.key \in Keys /\ c.key \in INT_MIN..INT_MAX
  BY KeyFacts
<1>9. ListType'
  <2>1. key' \in [Nodes -> INT_MIN..INT_MAX]
    BY <1>1, <1>2, <1>5, <1>8 DEF ListType, ListTypeOK
  <2>2. job' \in [Threads -> Set!Calls \cup {Set!Idle}]
    BY <1>1, <1>2 DEF ListType, ListTypeOK
  <2>3. pc' \in [Threads -> {"idle", "begin", "walk", "lockCurr", "validate", "apply", "free",
                             "return"}]
    BY <1>1, <1>3 DEF ListType
  <2> QED
    BY <1>1, <1>3, <1>4, <2>1, <2>2, <2>3 DEF ListType, ListTypeOK
<1>10. Heap'
  <2>1. \A n \in Nodes : next[n] # NULL => next[n] \in Nodes /\ Used(n) /\ Used(next[n])
                                           /\ key[n] < key[next[n]]
    BY <1>1 DEF Heap, ListType, ListTypeOK, Used
  <2>2. \A n \in Nodes : next'[n] # NULL => key'[n] < key'[next'[n]] /\ Used(next[n])'
    BY <1>3, <1>6, <1>7, <2>1
  <2>3. Used(head) /\ Used(tail)
    BY DEF Used
  <2>4. ASSUME NEW u \in Threads, NEW k \in 1..NumWork, work'[u] < k
        PROVE  next'[<<u, k>>] = NULL
    <3>1. work[u] < k
      BY <1>1, <1>3, <1>4, <2>4 DEF ListType, ListTypeOK
    <3> QED
      BY <1>1, <1>3, <3>1 DEF Heap
  <2>5. /\ key'[head] = INT_MIN /\ key'[tail] = INT_MAX
        /\ next'[tail] = NULL /\ next'[head] # NULL
    BY <1>1, <1>3, <1>7, <2>3, NodeFacts DEF Heap
  <2> QED
    BY <2>2, <2>4, <2>5 DEF Heap
<1>11. ASSUME NEW u \in Threads PROVE Calling(u)'
  <2>0. prev[u] \in Nodes /\ curr[u] \in Nodes /\ prev'[u] = prev[u] /\ curr'[u] = curr[u]
    BY <1>1, <1>3 DEF ListType, ListTypeOK
  <2>1. Calling(u)
    BY <1>1
  <2>2. Used(prev[u])' /\ Used(curr[u])'
    BY <1>3, <1>6, <2>0, <2>1 DEF Calling
  <2>3. CASE u = t
    <3>1. pc'[t] = "begin" /\ job'[t] = c /\ work'[t] > 0
      BY <1>1, <1>2, <1>3, <1>4 DEF ListType, ListTypeOK
    <3>2. c.op = "A" => key'[new] = c.key /\ next'[new] = NULL
      BY <1>1, <1>2, <1>3, <1>5 DEF ListType, ListTypeOK
    <3> QED
      BY <2>2, <2>3, <3>1, <3>2 DEF Calling, Searching, Walking, node
  <2>4. CASE u # t
    <3>1. pc'[u] = pc[u] /\ job'[u] = job[u] /\ work'[u] = work[u]
      BY <1>1, <1>2, <1>3, <2>4 DEF ListType, ListTypeOK
    <3>2. key'[prev[u]] = key[prev[u]] /\ key'[curr[u]] = key[curr[u]]
      BY <1>7, <2>0, <2>1 DEF Calling
    <3>3. Searching(u) => key'[node(u)] = key[node(u)]
      <4>1. Searching(u) => node(u) \in Nodes /\ node(u) # new
        <5>1. work[u] \in 0..NumWork
          BY <1>1 DEF ListType, ListTypeOK
        <5>2. Searching(u) => work[u] \in 1..NumWork
          BY <2>1, <5>1, ListAssumption DEF Calling
        <5> QED
          BY <2>4, <5>2, NodeFacts DEF node
      <4> QED
        BY <1>7, <4>1
    <3>4. node(u)' = node(u) /\ next' = next
      BY <1>3, <3>1 DEF node
    <3>5. /\ Searching(u)' <=> Searching(u)
          /\ Walking(u)' <=> Walking(u)
      BY <3>1 DEF Searching, Walking
    <3> QED
      BY <2>0, <2>1, <2>2, <3>1, <3>2, <3>3, <3>4, <3>5 DEF Calling
  <2> QED
    BY <2>3, <2>4
<1> QED
  BY <1>6, <1>9, <1>10, <1>11 DEF ListInv

\* A traversal that is short of its key is not at the tail, and goes on to a greater key.
LEMMA WalkKeeps ==
  ASSUME KeysBetween, ListInv, program' = program, NEW t \in Threads,
         NEW to \in {"begin", "walk", "lockCurr", "validate", "apply"},
         \/ /\ StartMove(t, to) \/ StepMove(t, to)
            /\ to \in {"walk", "lockCurr"} /\ (program = "optimistic" => to = "walk")
         \/ /\ StayMove(t, to)
            /\ program = "optimistic" => to = "begin" \/ job[t].key =< key[curr[t]]
  PROVE  ListInv'
<1>1. ListType /\ Heap /\ \A u \in Threads : Calling(u)
  BY DEF ListInv
<1>2. pc' = [pc EXCEPT ![t] = to] /\ UNCHANGED <<key, next, freed, job, ret, work>>
  BY DEF StartMove, StepMove, StayMove
<1>3. \A n \in Nodes : Used(n)' <=> Used(n)
  BY <1>2 DEF Used
<1>4. Heap'
  BY <1>1, <1>2 DEF Heap, Used
<1>5. Searching(t) /\ job[t] \in Set!Calls /\ job[t].key \in Keys
  <2>1. Searching(t)
    BY DEF StartMove, StepMove, StayMove, Searching, Walking
  <2> QED
    BY <1>1, <2>1, KeyFacts DEF Calling
<1>6. job[t].key \in Int /\ INT_MIN < job[t].key /\ job[t].key < INT_MAX /\ INT_MAX \in Int
  BY <1>5, KeyFacts
<1>7. /\ prev' = [prev EXCEPT ![t] = prev'[t]] /\ prev'[t] \in Nodes /\ Used(prev'[t])
      /\ curr' = [curr EXCEPT ![t] = curr'[t]] /\ curr'[t] \in Nodes /\ Used(curr'[t])
      /\ to # "begin" => key[prev'[t]] < job[t].key /\ key[prev'[t]] < key[curr'[t]]
      /\ program = "optimistic" /\ to \in {"lockCurr", "validate", "apply"} =>
           job[t].key =< key[curr'[t]]
  <2>0. /\ prev \in [Threads -> Nodes] /\ curr \in [Threads -> Nodes]
        /\ next \in [Nodes -> Nodes \cup {NULL}] /\ key \in [Nodes -> INT_MIN..INT_MAX]
    BY <1>1 DEF ListType, ListTypeOK
  <2>1. CASE StartMove(t, to)
    <3>1. /\ prev' = [prev EXCEPT ![t] = head] /\ curr' = [curr EXCEPT ![t] = next[head]]
          /\ to \notin {"validate", "apply", "begin"} /\ (program = "optimistic" => to # "lockCurr")
      BY <2>1 DEF StartMove, StayMove, Walking
    <3>2. next[head] # NULL /\ next[head] \in Nodes /\ Used(next[head])
          /\ key[head] = INT_MIN /\ key[head] < key[next[head]] /\ Used(head)
      BY <1>1, <2>0, NodeFacts DEF Heap, Used
    <3> QED
      BY <1>6, <2>0, <3>1, <3>2, NodeFacts
  <2>2. CASE StepMove(t, to) /\ to \in {"walk", "lockCurr"} /\ (program = "optimistic" => to = "walk")
    <3>1. /\ key[curr[t]] < job[t].key
          /\ prev' = [prev EXCEPT ![t] = curr[t]] /\ curr' = [curr EXCEPT ![t] = next[curr[t]]]
      BY <2>2 DEF StepMove
    <3>2. curr[t] \in Nodes /\ Used(curr[t]) /\ key[curr[t]] \in Int
      BY <1>1, <2>0, KeyFacts DEF Calling
    <3>3. curr[t] # tail
      BY <1>1, <1>6, <3>1, <3>2 DEF Heap
    <3>4. next[curr[t]] # NULL /\ next[curr[t]] \in Nodes
      BY <1>1, <2>0, <3>2, <3>3 DEF Heap, Used
    <3>5. key[curr[t]] < key[next[curr[t]]] /\ Used(next[curr[t]])
      BY <1>1, <3>2, <3>4 DEF Heap
    <3> QED
      BY <2>0, <2>2, <3>1, <3>2, <3>4, <3>5
  <2>3. CASE /\ StayMove(t, to)
             /\ program = "optimistic" => to = "begin" \/ job[t].key =< key[curr[t]]
    BY <1>1, <2>0, <2>3 DEF StayMove, Calling
  <2> QED
    BY <2>1, <2>2, <2>3
<1>8. ListType'
  <2>1. pc' \in [Threads -> {"idle", "begin", "walk", "lockCurr", "validate", "apply", "free",
                             "return"}]
    BY <1>1, <1>2 DEF ListType
  <2>2. prev' \in [Threads -> Nodes] /\ curr' \in [Threads -> Nodes]
    BY <1>1, <1>7 DEF ListType, ListTypeOK
  <2> QED
    BY <1>1, <1>2, <2>1, <2>2 DEF ListType, ListTypeOK
<1>9. ASSUME NEW u \in Threads PROVE Calling(u)'
  <2>1. Calling(u) /\ node(u)' = node(u)
    BY <1>1, <1>2 DEF node
  <2>2. CASE u = t
    <3>1. pc'[t] = to
      BY <1>1, <1>2 DEF ListType
    <3>2. Used(prev[t])' /\ Used(curr[t])'
      BY <1>3, <1>7
    <3>3. /\ Searching(t)' => job'[t] \in Set!Calls /\ work'[t] > 0
          /\ Searching(t)' /\ job'[t].op = "A" =>
               key'[node(t)] = job'[t].key /\ next'[node(t)] = NULL
      BY <1>2, <1>5, <2>1, <2>2 DEF Calling
    <3>4. Walking(t)' => key'[prev'[t]] < job'[t].key /\ key'[prev'[t]] < key'[curr'[t]]
      BY <1>2, <1>7, <3>1 DEF Walking
    <3>5. program' = "optimistic" /\ pc'[t] \in {"lockCurr", "validate", "apply"} =>
             job'[t].key =< key'[curr'[t]]
      BY <1>2, <1>7, <3>1
    <3> QED
      BY <2>1, <2>2, <3>2, <3>3, <3>4, <3>5 DEF Calling
  <2>3. CASE u # t
    <3>1. pc'[u] = pc[u] /\ prev'[u] = prev[u] /\ curr'[u] = curr[u]
      BY <1>1, <1>2, <1>7, <2>3 DEF ListType, ListTypeOK
    <3> QED
      BY <1>2, <2>1, <3>1 DEF Calling, Searching, Walking, Used
  <2> QED
    BY <2>2, <2>3
<1> QED
  BY <1>4, <1>8, <1>9 DEF ListInv

\* The place where t makes its change.
LEMMA LinkPlace ==
  ASSUME KeysBetween, ListInv, NEW t \in Threads, NEW to, LinkMove(t, to)
  PROVE  /\ job[t] \in Set!Calls /\ prev[t] \in Nodes /\ curr[t] \in Nodes
         /\ Used(curr[t]) /\ Used(prev[t])
         /\ prev[t] # tail /\ next[prev[t]] # NULL /\ curr[t] # head /\ prev[t] # curr[t]
         /\ key[prev[t]] < job[t].key /\ key[prev[t]] < key[curr[t]]
         /\ job[t].op = "A" => /\ node(t) \in Nodes /\ ~Used(node(t)) /\ next[node(t)] = NULL
                               /\ key[node(t)] = job[t].key
         /\ key[curr[t]] = job[t].key => curr[t] # tail /\ next[curr[t]] # NULL
         /\ node(t) \notin {head, tail}
<1>1. ListType /\ Heap /\ Calling(t) /\ Searching(t) /\ Walking(t)
  BY DEF ListInv, LinkMove, Searching, Walking
<1>2. /\ job[t] \in Set!Calls /\ prev[t] \in Nodes /\ curr[t] \in Nodes
      /\ Used(curr[t]) /\ Used(prev[t]) /\ key[prev[t]] < job[t].key
      /\ key[prev[t]] < key[curr[t]]
  BY <1>1 DEF Calling, ListType, ListTypeOK
<1>3. /\ job[t].key \in Int /\ INT_MIN < job[t].key /\ job[t].key < INT_MAX
      /\ INT_MIN \in Int /\ INT_MAX \in Int
  BY <1>2, KeyFacts
<1>4. \A n \in Nodes : key[n] \in Int /\ INT_MIN =< key[n] /\ key[n] =< INT_MAX
  BY <1>1, <1>3 DEF ListType, ListTypeOK
<1>5. prev[t] # tail /\ curr[t] # head /\ prev[t] # curr[t]
  BY <1>1, <1>2, <1>3, <1>4 DEF Heap
<1>6. next[prev[t]] # NULL
  BY <1>1, <1>2, <1>5 DEF Heap, Used
<1>7. key[curr[t]] = job[t].key => curr[t] # tail /\ next[curr[t]] # NULL
  BY <1>1, <1>2, <1>3, <1>5 DEF Heap, Used
<1>8. work[t] \in 1..NumWork
  BY <1>1, ListAssumption DEF Calling, ListType, ListTypeOK
<1>9. node(t) \in Nodes /\ node(t) \notin {head, tail}
  BY <1>8, NodeFacts DEF node
<1>10. job[t].op = "A" => /\ node(t) \in Nodes /\ ~Used(node(t)) /\ next[node(t)] = NULL
                          /\ key[node(t)] = job[t].key
  BY <1>1, <1>9 DEF Calling, Used
<1> QED
  BY <1>2, <1>5, <1>6, <1>7, <1>9, <1>10

\* A change keeps the order of the keys, locked or not.
LEMMA LinkKeeps ==
  ASSUME KeysBetween, ListInv, program' = program, NEW t \in Threads,
         NEW to \in {"free", "return"}, LinkMove(t, to)
  PROVE  ListInv'
<1>1. ListType /\ Heap /\ \A u \in Threads : Calling(u)
  BY DEF ListInv
<1>2. /\ ret' = [ret EXCEPT ![t] = IF Found(t) = (job[t].op # "A") THEN "true" ELSE "false"]
      /\ pc' = [pc EXCEPT ![t] = to] /\ UNCHANGED <<job, work, key, freed, prev, curr>>
      /\ job[t].key =< key[curr[t]]
  BY DEF LinkMove
<1>3. /\ job[t] \in Set!Calls /\ prev[t] \in Nodes /\ curr[t] \in Nodes
      /\ Used(curr[t]) /\ Used(prev[t])
      /\ prev[t] # tail /\ next[prev[t]] # NULL /\ curr[t] # head /\ prev[t] # curr[t]
      /\ key[prev[t]] < job[t].key /\ key[prev[t]] < key[curr[t]]
      /\ job[t].op = "A" => /\ node(t) \in Nodes /\ ~Used(node(t)) /\ next[node(t)] = NULL
                            /\ key[node(t)] = job[t].key
      /\ key[curr[t]] = job[t].key => curr[t] # tail /\ next[curr[t]] # NULL
      /\ node(t) \notin {head, tail}
  BY LinkPlace
<1>4. /\ next \in [Nodes -> Nodes \cup {NULL}] /\ job[t].key \in Int
      /\ \A n \in Nodes : key[n] \in Int
  BY <1>1, <1>3, KeyFacts DEF ListType, ListTypeOK
<1>5. /\ next' \in [Nodes -> Nodes \cup {NULL}]
      /\ \A n \in Nodes : next[n] # NULL => next'[n] # NULL
      /\ \A n \in Nodes : next'[n] # NULL => key[n] < key[next'[n]] /\ Used(next[n])'
      /\ \A n \in Nodes : n # prev[t] /\ ~(job[t].op = "A" /\ n = node(t)) => next'[n] = next[n]
  <2>0. \A n \in Nodes : next[n] # NULL => /\ next[n] \in Nodes /\ key[n] < key[next[n]]
                                           /\ Used(next[n])
    BY <1>1, <1>4 DEF Heap
  <2>1. CASE /\ job[t].op = "A" /\ key[curr[t]] # job[t].key
             /\ next' = [next EXCEPT ![prev[t]] = node(t), ![node(t)] = curr[t]]
    <3>1. /\ node(t) # prev[t] /\ node(t) # curr[t]
          /\ next'[prev[t]] = node(t) /\ next'[node(t)] = curr[t]
          /\ \A n \in Nodes : n # prev[t] /\ n # node(t) => next'[n] = next[n]
      BY <1>3, <1>4, <2>1
    <3>2. node(t) # NULL /\ curr[t] # NULL
      BY <1>3, <2>1, NodeFacts
    <3>3. \A n \in Nodes : Used(n) => Used(n)'
      BY <3>1, <3>2 DEF Used
    <3>4. Used(node(t))' /\ Used(curr[t])'
      BY <1>2, <1>3, <3>1, <3>2, <3>3 DEF Used, node
    <3>5. key[prev[t]] < key[node(t)] /\ key[node(t)] < key[curr[t]]
      BY <1>2, <1>3, <1>4, <2>1
    <3>6. ASSUME NEW n \in Nodes, next'[n] # NULL
          PROVE  key[n] < key[next'[n]] /\ Used(next[n])'
      <4>1. CASE n = prev[t]
        BY <1>2, <3>1, <3>4, <3>5, <4>1 DEF Used, node
      <4>2. CASE n = node(t)
        BY <1>2, <3>1, <3>4, <3>5, <4>2 DEF Used
      <4>3. CASE n # prev[t] /\ n # node(t)
        <5>1. next'[n] = next[n] /\ next[n] \in Nodes /\ Used(next[n]) /\ key[n] < key[next[n]]
          BY <2>0, <3>1, <3>6, <4>3
        <5> QED
          BY <3>3, <5>1 DEF Used
      <4> QED
        BY <4>1, <4>2, <4>3
    <3>7. next' \in [Nodes -> Nodes \cup {NULL}]
      BY <1>3, <1>4, <2>1
    <3> QED
      BY <2>1, <3>1, <3>2, <3>6, <3>7
  <2>2. CASE /\ job[t].op = "R" /\ key[curr[t]] = job[t].key
             /\ next' = [next EXCEPT ![prev[t]] = next[curr[t]]]
    <3>1. /\ next[curr[t]] # NULL /\ next[curr[t]] \in Nodes /\ Used(next[curr[t]])
          /\ key[curr[t]] < key[next[curr[t]]]
      BY <1>3, <2>0, <2>2
    <3>2. /\ next'[prev[t]] = next[curr[t]]
          /\ \A n \in Nodes : n # prev[t] => next'[n] = next[n]
      BY <1>3, <1>4, <2>2
    <3>3. \A n \in Nodes : Used(n) => Used(n)'
      BY <3>1, <3>2 DEF Used
    <3>4. key[prev[t]] < key[next[curr[t]]]
      BY <1>3, <1>4, <3>1
    <3>5. ASSUME NEW n \in Nodes, next'[n] # NULL
          PROVE  key[n] < key[next'[n]] /\ Used(next[n])'
      <4>1. CASE n = prev[t]
        BY <3>1, <3>2, <3>3, <3>4, <4>1 DEF Used
      <4>2. CASE n # prev[t]
        <5>1. next'[n] = next[n] /\ next[n] \in Nodes /\ Used(next[n]) /\ key[n] < key[next[n]]
          BY <2>0, <3>2, <3>5, <4>2
        <5> QED
          BY <3>3, <5>1 DEF Used
      <4> QED
        BY <4>1, <4>2
    <3>6. next' \in [Nodes -> Nodes \cup {NULL}]
      BY <1>4, <2>2, <3>1
    <3> QED
      BY <3>1, <3>2, <3>5, <3>6
  <2>3. CASE next' = next
    BY <1>4, <2>0, <2>3 DEF Used
  <2> QED
    BY <2>1, <2>2, <2>3 DEF LinkMove
<1>6. \A n \in Nodes : Used(n) => Used(n)'
  BY <1>5 DEF Used
<1>7. ListType'
  <2>1. pc' \in [Threads -> {"idle", "begin", "walk", "lockCurr", "validate", "apply", "free",
                             "return"}]
    BY <1>1, <1>2 DEF ListType
  <2>2. ret' \in [Threads -> {"pending", "true", "false"}]
    BY <1>1, <1>2 DEF ListType, ListTypeOK
  <2> QED
    BY <1>1, <1>2, <1>5, <2>1, <2>2 DEF ListType, ListTypeOK
<1>8. Heap'
  <2>1. next'[tail] = NULL
    BY <1>1, <1>3, <1>5, NodeFacts DEF Heap
  <2>2. next'[head] # NULL
    BY <1>1, <1>5, NodeFacts DEF Heap
  <2>3. ASSUME NEW u \in Threads, NEW k \in 1..NumWork, work'[u] < k
        PROVE  next'[<<u, k>>] = NULL
    <3>1. next[<<u, k>>] = NULL /\ <<u, k>> \in Nodes
      BY <1>1, <1>2, <2>3, NodeFacts DEF Heap
    <3>2. <<u, k>> # prev[t] /\ <<u, k>> # node(t)
      <4>1. u = t => k # work[t]
        BY <1>1, <1>2, <2>3 DEF ListType, ListTypeOK
      <4> QED
        BY <1>3, <3>1, <4>1 DEF node
    <3> QED
      BY <1>5, <3>1, <3>2
  <2> QED
    BY <1>1, <1>2, <1>5, <2>1, <2>2, <2>3 DEF Heap
<1>9. ASSUME NEW u \in Threads PROVE Calling(u)'
  <2>0. /\ Calling(u) /\ node(u)' = node(u) /\ prev[u] \in Nodes /\ curr[u] \in Nodes
        /\ prev'[u] = prev[u] /\ curr'[u] = curr[u]
    BY <1>1, <1>2 DEF node, ListType, ListTypeOK
  <2>1. Used(prev[u])' /\ Used(curr[u])'
    BY <1>2, <1>6, <2>0 DEF Calling, Used
  <2>2. CASE u = t
    <3>1. ~Searching(t)' /\ ~Walking(t)' /\ pc'[t] \notin {"lockCurr", "validate", "apply"}
      BY <1>1, <1>2 DEF Searching, Walking, ListType
    <3> QED
      BY <2>1, <2>2, <3>1 DEF Calling
  <2>3. CASE u # t
    <3>1. pc'[u] = pc[u] /\ (Searching(u)' <=> Searching(u)) /\ (Walking(u)' <=> Walking(u))
      BY <1>1, <1>2, <2>3 DEF ListType, Searching, Walking
    <3>2. Searching(u) /\ job[u].op = "A" => next'[node(u)] = NULL
      <4>1. SUFFICES ASSUME Searching(u), job[u].op = "A" PROVE next'[node(u)] = NULL
        OBVIOUS
      <4>2. work[u] \in 1..NumWork /\ next[node(u)] = NULL
        BY <2>0, <4>1, <1>1, ListAssumption DEF Calling, ListType, ListTypeOK
      <4>3. node(u) \in Nodes /\ node(u) # node(t) /\ node(u) # prev[t]
        BY <1>3, <2>3, <4>2, NodeFacts DEF node
      <4> QED
        BY <1>5, <4>2, <4>3
    <3> QED
      BY <1>2, <2>0, <2>1, <3>1, <3>2 DEF Calling
  <2> QED
    BY <2>2, <2>3
<1> QED
  BY <1>7, <1>8, <1>9 DEF ListInv

\* Freeing and returning leave the list as it is.
LEMMA EndKeeps ==
  ASSUME ListInv, program' = program, NEW t \in Threads, FreeMove(t) \/ ReturnMove(t)
  PROVE  ListInv'
<1>1. ListType /\ Heap /\ \A u \in Threads : Calling(u)
  BY DEF ListInv
<1>2. PICK to \in {"return", "idle"} :
        pc' = [pc EXCEPT ![t] = to] /\ UNCHANGED <<key, next, work, prev, curr>>
  BY DEF FreeMove, ReturnMove
<1>3. ListType'
  <2>1. pc' \in [Threads -> {"idle", "begin", "walk", "lockCurr", "validate", "apply", "free",
                             "return"}]
    BY <1>1, <1>2 DEF ListType
  <2>2. freed' \in SUBSET Nodes
    BY <1>1 DEF FreeMove, ReturnMove, ListType, ListTypeOK
  <2>3. job' \in [Threads -> Set!Calls \cup {Set!Idle}]
    BY <1>1 DEF FreeMove, ReturnMove, ListType, ListTypeOK
  <2>4. ret' \in [Threads -> {"pending", "true", "false"}]
    BY <1>1 DEF FreeMove, ReturnMove, ListType, ListTypeOK
  <2> QED
    BY <1>1, <1>2, <2>1, <2>2, <2>3, <2>4 DEF ListType, ListTypeOK
<1>4. Heap'
  BY <1>1, <1>2 DEF Heap, Used
<1>5. ASSUME NEW u \in Threads PROVE Calling(u)'
  <2>1. Calling(u) /\ Used(prev[u])' /\ Used(curr[u])' /\ node(u)' = node(u)
    BY <1>1, <1>2 DEF Calling, Used, node
  <2>2. CASE u = t
    <3>1. ~Searching(t)' /\ ~Walking(t)' /\ pc'[t] \notin {"lockCurr", "validate", "apply"}
      BY <1>1, <1>2 DEF Searching, Walking, ListType
    <3> QED
      BY <2>1, <2>2, <3>1 DEF Calling
  <2>3. CASE u # t
    <3>1. pc'[u] = pc[u] /\ job'[u] = job[u]
      BY <1>1, <1>2, <2>3 DEF ListType, ListTypeOK, FreeMove, ReturnMove
    <3> QED
      BY <1>2, <2>1, <3>1 DEF Calling, Searching, Walking
  <2> QED
    BY <2>2, <2>3
<1> QED
  BY <1>3, <1>4, <1>5 DEF ListInv

-----------------------------------------------------------------------------
(* The moves keep Live.                                                    *)

\* While the links and the dead nodes stay, only the places of the traversals matter.
LEMMA LiveSame ==
  ASSUME Live, ListInv, next' = next, Dead' = Dead,
         \A u \in Threads : pc'[u] = "free" =>
           pc[u] = "free" /\ curr'[u] = curr[u] /\ curr[u] \notin freed',
         \A u \in Threads : pc'[u] \in {"walk", "lockCurr"} =>
           prev'[u] \notin Dead /\ curr'[u] \notin Dead /\ next[prev'[u]] = curr'[u]
  PROVE  Live'
<1>1. \A n \in Nodes : Used(n)' <=> Used(n)
  BY DEF Used
<1>2. /\ \A t \in Threads : pc'[t] = "free" => curr'[t] \notin freed'
      /\ \A t, u \in Threads : pc'[t] = "free" /\ pc'[u] = "free" /\ curr'[t] = curr'[u] => t = u
  BY DEF Live
<1>3. \A n \in Dead : Used(n)'
  BY <1>1 DEF Live, Dead
<1> QED
  BY <1>2, <1>3 DEF Live

\* A call, a return, free() and a traversal leave the links alone, and no node dies.
LEMMA LiveWalk ==
  ASSUME KeysBetween, Live, ListInv, NEW t \in Threads, NEW to \in {"walk", "lockCurr"},
         \/ CallMove(t) \/ FreeMove(t) \/ ReturnMove(t)
         \/ StartMove(t, to) \/ StepMove(t, to)
         \/ StayMove(t, to) /\ pc[t] \in {"walk", "lockCurr"}
  PROVE  Live'
<1>1. /\ ListType /\ Heap /\ Calling(t) /\ next' = next
      /\ prev \in [Threads -> Nodes] /\ curr \in [Threads -> Nodes]
      /\ next \in [Nodes -> Nodes \cup {NULL}]
  BY DEF ListInv, ListType, ListTypeOK, CallMove, FreeMove, ReturnMove, StartMove, StepMove,
     StayMove
<1>2. \A u \in Threads : u # t => pc'[u] = pc[u] /\ prev'[u] = prev[u] /\ curr'[u] = curr[u]
  BY <1>1 DEF ListType, CallMove, FreeMove, ReturnMove, StartMove, StepMove, StayMove
<1>3. CASE FreeMove(t)
  <2>1. pc[t] = "free" /\ pc'[t] = "return" /\ freed' = freed \cup {curr[t]} /\ curr' = curr
    BY <1>1, <1>3 DEF FreeMove, ListType
  <2>2. Dead' = Dead
    BY <1>1, <1>2, <2>1 DEF Dead
  <2>3. \A u \in Threads : pc'[u] = "free" =>
          pc[u] = "free" /\ curr'[u] = curr[u] /\ curr[u] \notin freed'
    BY <1>2, <2>1 DEF Live
  <2> QED
    BY <1>1, <1>2, <2>1, <2>2, <2>3, LiveSame DEF Live
<1>4. CASE ~FreeMove(t)
  <2>1. pc[t] # "free" /\ pc'[t] # "free" /\ freed' = freed
    BY <1>1, <1>4 DEF ListType, CallMove, ReturnMove, StartMove, StepMove, StayMove
  <2>2. Dead' = Dead
    BY <1>2, <2>1 DEF Dead
  <2>3. pc'[t] \in {"walk", "lockCurr"} =>
          prev'[t] \notin Dead /\ curr'[t] \notin Dead /\ next[prev'[t]] = curr'[t]
    <3>1. CASE CallMove(t) \/ ReturnMove(t)
      BY <1>1, <3>1 DEF CallMove, ReturnMove, ListType
    <3>2. CASE StartMove(t, to)
      <4>1. prev'[t] = head /\ curr'[t] = next[head] /\ next[head] # NULL
        BY <1>1, <3>2 DEF StartMove, Heap
      <4> QED
        BY <4>1, NodeFacts DEF Live
    <3>3. CASE StepMove(t, to)
      <4>1. /\ prev'[t] = curr[t] /\ curr'[t] = next[curr[t]] /\ pc[t] = "walk"
            /\ key[curr[t]] < job[t].key
        BY <1>1, <3>3 DEF StepMove
      <4>2. curr[t] \in Nodes /\ curr[t] \notin Dead /\ Used(curr[t])
        BY <1>1, <4>1 DEF Live, Calling
      <4>3. curr[t] # tail
        <5>1. job[t] \in Set!Calls
          BY <1>1, <4>1 DEF Calling, Searching
        <5>2. job[t].key \in Int /\ job[t].key < INT_MAX /\ INT_MAX \in Int
          BY <5>1, KeyFacts
        <5> QED
          BY <1>1, <4>1, <5>2 DEF Heap
      <4>4. next[curr[t]] # NULL
        BY <1>1, <4>2, <4>3 DEF Heap, Used
      <4> QED
        BY <4>1, <4>2, <4>4 DEF Live
    <3>4. CASE StayMove(t, to) /\ pc[t] \in {"walk", "lockCurr"}
      BY <3>4 DEF StayMove, Live
    <3> QED
      BY <1>4, <3>1, <3>2, <3>3, <3>4
  <2>4. \A u \in Threads : pc'[u] = "free" =>
          pc[u] = "free" /\ curr'[u] = curr[u] /\ curr[u] \notin freed'
    BY <1>2, <2>1 DEF Live
  <2>5. \A u \in Threads : pc'[u] \in {"walk", "lockCurr"} =>
           prev'[u] \notin Dead /\ curr'[u] \notin Dead /\ next[prev'[u]] = curr'[u]
    BY <1>2, <2>3 DEF Live
  <2> QED
    BY <1>1, <2>2, <2>4, <2>5, LiveSame
<1> QED
  BY <1>3, <1>4

\* A removal leaves nobody a way to the node it takes out: prev was the only one in the list
\* that led to it, and no other traversal stands on either.
LEMMA LiveLink ==
  ASSUME KeysBetween, Live, ListInv, program # "optimistic", NEW t \in Threads,
         NEW to \in {"free", "return"}, LinkMove(t, to), pc[t] = "walk",
         \A u \in Threads : u # t /\ pc[u] \in {"walk", "lockCurr"} =>
           prev[u] \notin {prev[t], curr[t]}
  PROVE  Live'
<1>0. /\ ListType /\ Heap /\ \A u \in Threads : Calling(u)
      /\ prev \in [Threads -> Nodes] /\ curr \in [Threads -> Nodes]
      /\ next \in [Nodes -> Nodes \cup {NULL}] /\ \A n \in Nodes : key[n] \in Int
  BY KeyFacts DEF ListInv, ListType, ListTypeOK
<1>1. pc'[t] = to /\ \A u \in Threads : u # t => pc'[u] = pc[u]
  BY <1>0 DEF LinkMove, ListType
<1>2. UNCHANGED <<freed, prev, curr>>
  BY DEF LinkMove
<1>3. /\ prev[t] \in Nodes /\ curr[t] \in Nodes /\ Used(curr[t]) /\ Used(prev[t])
      /\ prev[t] # tail /\ next[prev[t]] # NULL /\ curr[t] # head /\ prev[t] # curr[t]
      /\ job[t].op = "A" => /\ node(t) \in Nodes /\ ~Used(node(t)) /\ next[node(t)] = NULL
                            /\ key[node(t)] = job[t].key
      /\ key[curr[t]] = job[t].key => curr[t] # tail /\ next[curr[t]] # NULL
  BY LinkPlace
<1>4. prev[t] \notin Dead /\ curr[t] \notin Dead /\ next[prev[t]] = curr[t]
  BY DEF Live
<1>5. \A n \in Nodes : next[n] # NULL => next[n] \in Nodes /\ Used(next[n]) /\ key[n] < key[next[n]]
  BY <1>0 DEF Heap
<1>6. CASE next' = next /\ to = "return"
  <2>1. Dead' = Dead
    BY <1>1, <1>2, <1>6 DEF Dead
  <2> QED
    BY <1>1, <1>2, <1>6, <2>1, LiveSame DEF Live
<1>7. CASE /\ job[t].op = "A" /\ to = "return"
           /\ next' = [next EXCEPT ![prev[t]] = node(t), ![node(t)] = curr[t]]
  <2>1. Dead' = Dead
    BY <1>1, <1>2, <1>7 DEF Dead
  <2>2. node(t) \notin Dead /\ node(t) # prev[t] /\ node(t) # curr[t]
    BY <1>3, <1>7 DEF Live
  <2>3. /\ next'[prev[t]] = node(t) /\ next'[node(t)] = curr[t]
        /\ \A n \in Nodes : n # prev[t] /\ n # node(t) => next'[n] = next[n]
    BY <1>0, <1>3, <1>7, <2>2
  <2>4. \A n \in Dead : Used(n)'
    BY <1>3, <2>2, <2>3, NodeFacts DEF Live, Dead, Used
  <2>5. \A n \in Nodes : next'[n] # NULL /\ n \notin Dead => next'[n] \notin Dead
    BY <1>4, <2>2, <2>3 DEF Live
  <2>6. ASSUME NEW m \in Nodes \ Dead, NEW n \in Nodes \ Dead, next'[n] # NULL,
               next'[m] = next'[n]
        PROVE  m = n
    <3>1. \A x \in Nodes : next[x] # node(t)
      BY <1>3, <1>5, <1>7, NodeFacts
    <3>2. \A x \in Nodes \ Dead : next[x] = curr[t] => x = prev[t]
      BY <1>3, <1>4 DEF Live
    <3>3. CASE m = prev[t]
      BY <2>2, <2>3, <2>6, <3>1, <3>3
    <3>4. CASE m = node(t)
      BY <2>2, <2>3, <2>6, <3>2, <3>4
    <3>5. CASE n = prev[t]
      BY <2>2, <2>3, <2>6, <3>1, <3>5
    <3>6. CASE n = node(t)
      BY <2>2, <2>3, <2>6, <3>2, <3>6
    <3>7. CASE m # prev[t] /\ m # node(t) /\ n # prev[t] /\ n # node(t)
      BY <2>3, <2>6, <3>7 DEF Live
    <3> QED
      BY <3>3, <3>4, <3>5, <3>6, <3>7
  <2>7. ASSUME NEW u \in Threads, pc'[u] \in {"walk", "lockCurr"}
        PROVE  prev[u] \notin Dead /\ curr[u] \notin Dead /\ next'[prev[u]] = curr[u]
    <3>1. u # t /\ pc[u] \in {"walk", "lockCurr"}
      BY <1>1, <1>7, <2>7
    <3>2. prev[u] # prev[t] /\ Used(prev[u]) /\ prev[u] \in Nodes
      BY <1>0, <3>1 DEF Calling
    <3>3. prev[u] # node(t)
      BY <1>3, <1>7, <3>2
    <3> QED
      BY <2>3, <3>1, <3>2, <3>3 DEF Live
  <2>8. /\ \A u \in Threads : pc'[u] = "free" => curr[u] \notin freed
        /\ \A u, v \in Threads : pc'[u] = "free" /\ pc'[v] = "free" /\ curr[u] = curr[v] => u = v
    BY <1>1, <1>7 DEF Live
  <2>9. head \notin Dead /\ tail \notin Dead
    BY DEF Live
  <2> QED
    BY <1>2, <2>1, <2>4, <2>5, <2>6, <2>7, <2>8, <2>9 DEF Live
<1>8. CASE /\ key[curr[t]] = job[t].key /\ to = "free"
           /\ next' = [next EXCEPT ![prev[t]] = next[curr[t]]]
  <2>1. Dead' = Dead \cup {curr[t]}
    BY <1>1, <1>2, <1>3, <1>8 DEF Dead
  <2>2. /\ next'[prev[t]] = next[curr[t]]
        /\ \A n \in Nodes : n # prev[t] => next'[n] = next[n]
    BY <1>0, <1>3, <1>8
  <2>3. next[curr[t]] # NULL /\ next[curr[t]] \notin Dead /\ next[curr[t]] # curr[t]
    <3>1. next[curr[t]] # NULL
      BY <1>3, <1>8
    <3>2. key[curr[t]] < key[next[curr[t]]] /\ key[curr[t]] \in Int
      BY <1>0, <1>3, <1>5, <3>1
    <3>3. next[curr[t]] # curr[t]
      BY <3>2
    <3> QED
      BY <1>3, <1>4, <3>1, <3>3 DEF Live
  <2>4. \A n \in Dead' : Used(n)'
    BY <1>3, <2>1, <2>2, <2>3 DEF Live, Dead, Used
  <2>5. \A x \in Nodes \ Dead : next[x] = curr[t] => x = prev[t]
    BY <1>3, <1>4 DEF Live
  <2>6. ASSUME NEW n \in Nodes, next'[n] # NULL, n \notin Dead'
        PROVE  next'[n] \notin Dead'
    <3>1. CASE n = prev[t]
      BY <2>1, <2>2, <2>3, <3>1
    <3>2. CASE n # prev[t]
      BY <2>1, <2>2, <2>5, <2>6, <3>2 DEF Live
    <3> QED
      BY <3>1, <3>2
  <2>7. ASSUME NEW m \in Nodes \ Dead', NEW n \in Nodes \ Dead', next'[n] # NULL,
               next'[m] = next'[n]
        PROVE  m = n
    <3>1. \A x \in Nodes \ Dead : next[x] = next[curr[t]] => x = curr[t]
      BY <1>3, <1>4, <2>3 DEF Live
    <3>2. m \in Nodes \ Dead /\ m # curr[t] /\ n \in Nodes \ Dead /\ n # curr[t]
      BY <2>1
    <3> QED
      BY <2>2, <2>7, <3>1, <3>2 DEF Live
  <2>8. ASSUME NEW u \in Threads, pc'[u] \in {"walk", "lockCurr"}
        PROVE  prev[u] \notin Dead' /\ curr[u] \notin Dead' /\ next'[prev[u]] = curr[u]
    <3>1. u # t /\ pc[u] \in {"walk", "lockCurr"}
      BY <1>1, <1>8, <2>8
    <3>2. /\ prev[u] # prev[t] /\ prev[u] # curr[t] /\ prev[u] \in Nodes
          /\ prev[u] \notin Dead /\ curr[u] \notin Dead /\ next[prev[u]] = curr[u]
      BY <1>0, <3>1 DEF Live
    <3>3. curr[u] # curr[t]
      BY <2>5, <3>2
    <3> QED
      BY <2>1, <2>2, <3>2, <3>3
  <2>9. \A u \in Threads : pc'[u] = "free" => curr[u] \notin freed
    BY <1>1, <1>3, <1>4 DEF Live, Dead
  <2>10. \A u, v \in Threads : pc'[u] = "free" /\ pc'[v] = "free" /\ curr[u] = curr[v] => u = v
    BY <1>1, <1>3, <1>4 DEF Live, Dead
  <2>11. head \notin Dead' /\ tail \notin Dead'
    BY <1>3, <1>8, <2>1 DEF Live
  <2> QED
    BY <1>2, <2>4, <2>6, <2>7, <2>8, <2>9, <2>10, <2>11 DEF Live
<1> QED
  BY <1>6, <1>7, <1>8 DEF LinkMove

-----------------------------------------------------------------------------
(* coarse_grained.cpp and fine_grained.cpp.                                *)

\* A step of coarse_grained.cpp: whoever walks holds the mutex, so nobody else does.
LEMMA CoarseStep ==
  ASSUME KeysBetween, ListInv, Live, CoarseLocks, program = "coarse_grained",
         program' = program, NEW t \in Threads, Coarse!ThreadFunc(t)
  PROVE  ListInv' /\ Live' /\ CoarseLocks' /\ Move(t)
<1> USE DEF Coarse!Goto
<1>0. pc \in [Threads -> {"idle", "begin", "walk", "lockCurr", "validate", "apply", "free",
                          "return"}]
  BY DEF ListInv, ListType
<1>1. CASE (Coarse!Call(t) \/ Coarse!Free(t) \/ Coarse!Return(t)) /\ UNCHANGED list_mutex
  <2>1. CallMove(t) \/ FreeMove(t) \/ ReturnMove(t)
    BY <1>1 DEF Coarse!Call, Coarse!WorkLeft, CallMove, Coarse!Set!Calls, Set!Calls,
       Coarse!Set!Ops, Set!Ops, Coarse!Free, FreeMove, Coarse!callVars, Coarse!Return,
       ReturnMove, Coarse!heapVars, Coarse!Set!Idle, Set!Idle
  <2>2. ListInv' /\ Live'
    BY <2>1, CallKeeps, EndKeeps, LiveWalk
  <2>3. pc[t] # "walk" /\ pc'[t] \in {"begin", "return", "idle"}
        /\ \A u \in Threads : u # t => pc'[u] = pc[u]
    BY <1>0, <2>1 DEF CallMove, FreeMove, ReturnMove
  <2> QED
    BY <1>1, <2>1, <2>2, <2>3 DEF CoarseLocks, Move
<1>2. CASE Coarse!Lock(t)
  <2>1. StartMove(t, "walk") /\ list_mutex = NoThread /\ list_mutex' = t
    BY <1>2 DEF Coarse!Lock, Coarse!FromHead, Coarse!head, head, Coarse!heapVars,
       Coarse!callVars, StartMove
  <2>2. ListInv' /\ Live'
    BY <2>1, WalkKeeps, LiveWalk
  <2>3. pc'[t] = "walk" /\ \A u \in Threads : u # t => pc'[u] = pc[u]
    BY <1>0, <2>1 DEF StartMove
  <2> QED
    BY <2>1, <2>2, <2>3, NoThreadAssumption DEF CoarseLocks, Move
<1>3. CASE Coarse!Walk(t)
  <2>1. StepMove(t, "walk") /\ list_mutex' = list_mutex /\ pc' = pc
    BY <1>0, <1>3 DEF Coarse!Walk, Coarse!Before, Coarse!Advance, Coarse!heapVars,
       Coarse!callVars, StepMove
  <2>2. ListInv' /\ Live'
    BY <2>1, WalkKeeps, LiveWalk
  <2> QED
    BY <2>1, <2>2 DEF CoarseLocks, Move
<1>4. CASE Coarse!Apply(t)
  <2>0. /\ pc[t] = "walk" /\ ~(key[curr[t]] < job[t].key) /\ Coarse!Link(t)
        /\ list_mutex' = NoThread /\ UNCHANGED <<key, freed, prev, curr>>
        /\ pc' = [pc EXCEPT ![t] = IF job[t].op = "R" /\ key[curr[t]] = job[t].key
                                   THEN "free" ELSE "return"]
    BY <1>4 DEF Coarse!Apply, Coarse!Before, Coarse!Unlinked, Coarse!Found
  <2>1. PICK to \in {"free", "return"} : LinkMove(t, to)
    <3>1. job[t].key =< key[curr[t]]
      <4>1. job[t] \in Set!Calls
        BY <2>0 DEF ListInv, Calling, Searching
      <4>2. job[t].key \in Int /\ key[curr[t]] \in Int
        BY <4>1, KeyFacts DEF ListInv, ListType, ListTypeOK
      <4> QED
        BY <2>0, <4>2
    <3>2. /\ ret' = [ret EXCEPT ![t] = IF Found(t) = (job[t].op # "A") THEN "true" ELSE "false"]
          /\ UNCHANGED <<job, work>>
          /\ \/ /\ job[t].op = "A" /\ key[curr[t]] # job[t].key
                /\ next' = [next EXCEPT ![prev[t]] = node(t), ![node(t)] = curr[t]]
             \/ /\ job[t].op = "R" /\ key[curr[t]] = job[t].key
                /\ next' = [next EXCEPT ![prev[t]] = next[curr[t]]]
             \/ /\ ~(job[t].op = "A" /\ key[curr[t]] # job[t].key)
                /\ ~(job[t].op = "R" /\ key[curr[t]] = job[t].key) /\ next' = next
      BY <2>0 DEF Coarse!Link, Coarse!Found, Found, Coarse!node, node
    <3> QED
      BY <2>0, <3>1, <3>2 DEF LinkMove
  <2>2. \A u \in Threads : u # t => pc[u] \notin {"walk", "lockCurr"}
    BY <2>0 DEF CoarseLocks
  <2>3. ListInv' /\ Live'
    BY <2>0, <2>1, <2>2, LinkKeeps, LiveLink
  <2>4. pc'[t] \in {"free", "return"} /\ \A u \in Threads : u # t => pc'[u] = pc[u]
    BY <1>0, <2>0
  <2> QED
    BY <2>0, <2>1, <2>2, <2>3, <2>4, NoThreadAssumption DEF CoarseLocks, Move
<1> QED
  BY <1>1, <1>2, <1>3, <1>4 DEF Coarse!ThreadFunc

\* A step of fine_grained.cpp: prev and curr of a walk are locked, so nobody else stands on
\* them, and who waits for curr has it from a prev of its own.
LEMMA FineStep ==
  ASSUME KeysBetween, ListInv, Live, FineLocks, program = "fine_grained",
         program' = program, NEW t \in Threads, Fine!ThreadFunc(t)
  PROVE  ListInv' /\ Live' /\ FineLocks' /\ Move(t)
<1> USE DEF Fine!Goto
<1>0. /\ pc \in [Threads -> {"idle", "begin", "walk", "lockCurr", "validate", "apply", "free",
                             "return"}]
      /\ prev \in [Threads -> Nodes] /\ curr \in [Threads -> Nodes]
      /\ mutex \in [Nodes -> Threads \cup {NoThread}]
  BY DEF ListInv, ListType, ListTypeOK, FineLocks
<1>a. Walking(t) => job[t].key \in Int /\ key[curr[t]] \in Int /\ prev[t] # curr[t]
  <2>1. Walking(t) => job[t] \in Set!Calls /\ key[prev[t]] < key[curr[t]]
    BY DEF ListInv, Calling, Searching, Walking
  <2>2. key[prev[t]] \in Int /\ key[curr[t]] \in Int
    BY <1>0, KeyFacts DEF ListInv, ListType, ListTypeOK
  <2> QED
    BY <2>1, <2>2, KeyFacts
<1>1. CASE (Fine!Call(t) \/ Fine!Free(t) \/ Fine!Return(t)) /\ UNCHANGED mutex
  <2>1. CallMove(t) \/ FreeMove(t) \/ ReturnMove(t)
    BY <1>1 DEF Fine!Call, Fine!WorkLeft, CallMove, Fine!Set!Calls, Set!Calls,
       Fine!Set!Ops, Set!Ops, Fine!Free, FreeMove, Fine!callVars, Fine!Return,
       ReturnMove, Fine!heapVars, Fine!Set!Idle, Set!Idle
  <2>2. ListInv' /\ Live'
    BY <2>1, CallKeeps, EndKeeps, LiveWalk
  <2>3. pc[t] \notin {"walk", "lockCurr"} /\ pc'[t] \in {"begin", "return", "idle"}
        /\ \A u \in Threads : u # t => pc'[u] = pc[u]
    BY <1>0, <2>1 DEF CallMove, FreeMove, ReturnMove
  <2>4. UNCHANGED <<prev, curr>>
    BY <2>1 DEF CallMove, FreeMove, ReturnMove
  <2> QED
    BY <1>1, <2>1, <2>2, <2>3, <2>4 DEF FineLocks, Move
<1>2. CASE Fine!LockHead(t)
  <2>1. StartMove(t, "lockCurr") /\ mutex[head] = NoThread /\ mutex' = [mutex EXCEPT ![head] = t]
    BY <1>2 DEF Fine!LockHead, Fine!FromHead, Fine!head, head, Fine!heapVars,
       Fine!callVars, StartMove
  <2>2. ListInv' /\ Live'
    BY <2>1, WalkKeeps, LiveWalk
  <2>3. /\ pc[t] = "begin" /\ pc'[t] = "lockCurr" /\ prev'[t] = head
        /\ \A u \in Threads : u # t =>
             pc'[u] = pc[u] /\ prev'[u] = prev[u] /\ curr'[u] = curr[u]
    BY <1>0, <2>1 DEF StartMove
  <2>4. /\ mutex' \in [Nodes -> Threads \cup {NoThread}]
        /\ mutex'[head] = t /\ \A n \in Nodes : n # head => mutex'[n] = mutex[n]
    BY <1>0, <2>1, NodeFacts
  <2>5. \A u \in Threads : pc'[u] \notin {"validate", "apply"}
    BY <2>3 DEF FineLocks
  <2>6. ASSUME NEW u \in Threads, NEW n \in Nodes
        PROVE  mutex'[n] = u <=> \/ pc'[u] \in {"walk", "lockCurr"} /\ n = prev'[u]
                                 \/ pc'[u] = "walk" /\ n = curr'[u]
    <3>1. mutex[n] = u <=> \/ pc[u] \in {"walk", "lockCurr"} /\ n = prev[u]
                           \/ pc[u] = "walk" /\ n = curr[u]
      BY DEF FineLocks
    <3>2. CASE n = head
      BY <2>1, <2>3, <2>4, <3>1, <3>2, NoThreadAssumption
    <3>3. CASE n # head
      BY <2>1, <2>3, <2>4, <3>1, <3>3
    <3> QED
      BY <3>2, <3>3
  <2> QED
    BY <2>1, <2>2, <2>4, <2>5, <2>6 DEF FineLocks, Move
<1>3. CASE Fine!LockCurr(t)
  <2>1. /\ StayMove(t, "walk") /\ pc[t] = "lockCurr" /\ mutex[curr[t]] = NoThread
        /\ mutex' = [mutex EXCEPT ![curr[t]] = t]
    BY <1>3 DEF Fine!LockCurr, Fine!heapVars, Fine!callVars, StayMove, Walking
  <2>2. ListInv' /\ Live'
    BY <2>1, WalkKeeps, LiveWalk
  <2>3. /\ pc'[t] = "walk" /\ \A u \in Threads : u # t => pc'[u] = pc[u]
        /\ UNCHANGED <<prev, curr>>
    BY <1>0, <2>1 DEF StayMove
  <2>4. /\ mutex' \in [Nodes -> Threads \cup {NoThread}]
        /\ mutex'[curr[t]] = t /\ \A n \in Nodes : n # curr[t] => mutex'[n] = mutex[n]
    BY <1>0, <2>1
  <2>5. \A u \in Threads : pc'[u] \notin {"validate", "apply"}
    BY <2>3 DEF FineLocks
  <2>6. ASSUME NEW u \in Threads, NEW n \in Nodes
        PROVE  mutex'[n] = u <=> \/ pc'[u] \in {"walk", "lockCurr"} /\ n = prev'[u]
                                 \/ pc'[u] = "walk" /\ n = curr'[u]
    <3>1. mutex[n] = u <=> \/ pc[u] \in {"walk", "lockCurr"} /\ n = prev[u]
                           \/ pc[u] = "walk" /\ n = curr[u]
      BY DEF FineLocks
    <3>2. CASE n = curr[t]
      BY <2>1, <2>3, <2>4, <3>1, <3>2, NoThreadAssumption
    <3>3. CASE n # curr[t]
      BY <2>1, <2>3, <2>4, <3>1, <3>3
    <3> QED
      BY <3>2, <3>3
  <2> QED
    BY <2>1, <2>2, <2>4, <2>5, <2>6 DEF FineLocks, Move
<1>4. CASE Fine!Walk(t)
  <2>1. StepMove(t, "lockCurr") /\ pc[t] = "walk" /\ mutex' = [mutex EXCEPT ![prev[t]] = NoThread]
    BY <1>4 DEF Fine!Walk, Fine!Before, Fine!Advance, Fine!heapVars, Fine!callVars, StepMove
  <2>2. ListInv' /\ Live'
    BY <2>1, WalkKeeps, LiveWalk
  <2>3. /\ pc'[t] = "lockCurr" /\ prev'[t] = curr[t] /\ prev[t] # curr[t]
        /\ \A u \in Threads : u # t =>
             pc'[u] = pc[u] /\ prev'[u] = prev[u] /\ curr'[u] = curr[u]
    BY <1>0, <1>a, <2>1 DEF StepMove, Walking
  <2>4. /\ mutex' \in [Nodes -> Threads \cup {NoThread}]
        /\ mutex'[prev[t]] = NoThread /\ \A n \in Nodes : n # prev[t] => mutex'[n] = mutex[n]
    BY <1>0, <2>1
  <2>5. \A u \in Threads : pc'[u] \notin {"validate", "apply"}
    BY <2>3 DEF FineLocks
  <2>6. mutex[prev[t]] = t
    BY <1>0, <2>1 DEF FineLocks
  <2>7. ASSUME NEW u \in Threads, NEW n \in Nodes
        PROVE  mutex'[n] = u <=> \/ pc'[u] \in {"walk", "lockCurr"} /\ n = prev'[u]
                                 \/ pc'[u] = "walk" /\ n = curr'[u]
    <3>1. mutex[n] = u <=> \/ pc[u] \in {"walk", "lockCurr"} /\ n = prev[u]
                           \/ pc[u] = "walk" /\ n = curr[u]
      BY DEF FineLocks
    <3>2. CASE n = prev[t]
      BY <2>1, <2>3, <2>4, <2>6, <3>1, <3>2, NoThreadAssumption
    <3>3. CASE n # prev[t]
      BY <2>1, <2>3, <2>4, <3>1, <3>3
    <3> QED
      BY <3>2, <3>3
  <2> QED
    BY <2>1, <2>2, <2>4, <2>5, <2>7 DEF FineLocks, Move
<1>5. CASE Fine!Apply(t)
  <2>0. /\ pc[t] = "walk" /\ ~(key[curr[t]] < job[t].key) /\ Fine!Link(t)
        /\ mutex' = [mutex EXCEPT ![prev[t]] = NoThread, ![curr[t]] = NoThread]
        /\ UNCHANGED <<key, freed, prev, curr>>
        /\ pc' = [pc EXCEPT ![t] = IF job[t].op = "R" /\ key[curr[t]] = job[t].key
                                   THEN "free" ELSE "return"]
    BY <1>5 DEF Fine!Apply, Fine!Before, Fine!Unlinked, Fine!Found
  <2>1. PICK to \in {"free", "return"} : LinkMove(t, to)
    <3>1. job[t].key =< key[curr[t]]
      BY <1>a, <2>0 DEF Walking
    <3>2. /\ ret' = [ret EXCEPT ![t] = IF Found(t) = (job[t].op # "A") THEN "true" ELSE "false"]
          /\ UNCHANGED <<job, work>>
          /\ \/ /\ job[t].op = "A" /\ key[curr[t]] # job[t].key
                /\ next' = [next EXCEPT ![prev[t]] = node(t), ![node(t)] = curr[t]]
             \/ /\ job[t].op = "R" /\ key[curr[t]] = job[t].key
                /\ next' = [next EXCEPT ![prev[t]] = next[curr[t]]]
             \/ /\ ~(job[t].op = "A" /\ key[curr[t]] # job[t].key)
                /\ ~(job[t].op = "R" /\ key[curr[t]] = job[t].key) /\ next' = next
      BY <2>0 DEF Fine!Link, Fine!Found, Found, Fine!node, node
    <3> QED
      BY <2>0, <3>1, <3>2 DEF LinkMove
  <2>2. mutex[prev[t]] = t /\ mutex[curr[t]] = t
    BY <1>0, <2>0 DEF FineLocks
  <2>3. \A u \in Threads : u # t /\ pc[u] \in {"walk", "lockCurr"} =>
          prev[u] \notin {prev[t], curr[t]}
    BY <1>0, <2>2 DEF FineLocks
  <2>4. ListInv' /\ Live'
    BY <2>0, <2>1, <2>3, LinkKeeps, LiveLink
  <2>5. pc'[t] \in {"free", "return"} /\ \A u \in Threads : u # t => pc'[u] = pc[u]
    BY <1>0, <2>0
  <2>6. /\ mutex' \in [Nodes -> Threads \cup {NoThread}]
        /\ mutex'[prev[t]] = NoThread /\ mutex'[curr[t]] = NoThread
        /\ \A n \in Nodes : n # prev[t] /\ n # curr[t] => mutex'[n] = mutex[n]
    BY <1>0, <2>0
  <2>7. \A u \in Threads : pc'[u] \notin {"validate", "apply"}
    BY <2>5 DEF FineLocks
  <2>8. ASSUME NEW u \in Threads, NEW n \in Nodes
        PROVE  mutex'[n] = u <=> \/ pc'[u] \in {"walk", "lockCurr"} /\ n = prev'[u]
                                 \/ pc'[u] = "walk" /\ n = curr'[u]
    <3>1. mutex[n] = u <=> \/ pc[u] \in {"walk", "lockCurr"} /\ n = prev[u]
                           \/ pc[u] = "walk" /\ n = curr[u]
      BY DEF FineLocks
    <3>2. CASE n \in {prev[t], curr[t]}
      BY <2>0, <2>2, <2>5, <2>6, <3>1, <3>2, NoThreadAssumption
    <3>3. CASE n \notin {prev[t], curr[t]}
      BY <2>0, <2>5, <2>6, <3>1, <3>3
    <3> QED
      BY <3>2, <3>3
  <2> QED
    BY <2>1, <2>4, <2>6, <2>7, <2>8 DEF FineLocks, Move
<1> QED
  BY <1>1, <1>2, <1>3, <1>4, <1>5 DEF Fine!ThreadFunc

-----------------------------------------------------------------------------
(* optimistic.cpp.                                                         *)

\* What a step does to the locks it holds, in the end.
LEMMA OptimisticMutex ==
  ASSUME OptimisticLocks, ListType, NEW t \in Threads, NEW l, pc' = [pc EXCEPT ![t] = l],
         UNCHANGED <<prev, curr>>,
         \/ /\ pc[t] = "walk" /\ l = "lockCurr" /\ mutex[prev[t]] = NoThread
            /\ mutex' = [mutex EXCEPT ![prev[t]] = t]
         \/ /\ pc[t] = "lockCurr" /\ l = "validate" /\ mutex[curr[t]] = NoThread
            /\ mutex' = [mutex EXCEPT ![curr[t]] = t]
         \/ pc[t] = "validate" /\ l \in {"validate", "apply"} /\ mutex' = mutex
         \/ /\ pc[t] \in {"validate", "apply"} /\ l \in {"begin", "return"}
            /\ mutex' = [mutex EXCEPT ![prev[t]] = NoThread, ![curr[t]] = NoThread]
  PROVE  /\ mutex' \in [Nodes -> Threads \cup {NoThread}]
         /\ \A u \in Threads : pc'[u] # "free"
         /\ \A u \in Threads, n \in Nodes :
              mutex'[n] = u <=> \/ pc'[u] \in {"lockCurr", "validate", "apply"} /\ n = prev'[u]
                                \/ pc'[u] \in {"validate", "apply"} /\ n = curr'[u]
<1>1. /\ pc'[t] = l /\ \A u \in Threads : u # t => pc'[u] = pc[u]
      /\ prev[t] \in Nodes /\ curr[t] \in Nodes
      /\ mutex \in [Nodes -> Threads \cup {NoThread}]
  BY DEF ListType, ListTypeOK, OptimisticLocks
<1>2. /\ mutex' \in [Nodes -> Threads \cup {NoThread}]
      /\ \A u \in Threads : pc'[u] # "free"
  BY <1>1 DEF OptimisticLocks
<1>3. ASSUME NEW u \in Threads, NEW n \in Nodes
      PROVE  mutex'[n] = u <=> \/ pc'[u] \in {"lockCurr", "validate", "apply"} /\ n = prev[u]
                               \/ pc'[u] \in {"validate", "apply"} /\ n = curr[u]
  <2>1. mutex[n] = u <=> \/ pc[u] \in {"lockCurr", "validate", "apply"} /\ n = prev[u]
                         \/ pc[u] \in {"validate", "apply"} /\ n = curr[u]
    BY DEF OptimisticLocks
  <2>2. mutex[n] = t <=> \/ pc[t] \in {"lockCurr", "validate", "apply"} /\ n = prev[t]
                         \/ pc[t] \in {"validate", "apply"} /\ n = curr[t]
    BY DEF OptimisticLocks
  <2>3. CASE u = t
    BY <1>1, <2>1, <2>3, NoThreadAssumption
  <2>4. CASE u # t
    BY <1>1, <2>1, <2>2, <2>4, NoThreadAssumption
  <2> QED
    BY <2>3, <2>4
<1> QED
  BY <1>2, <1>3

\* A step of optimistic.cpp.
LEMMA OptimisticStep ==
  ASSUME KeysBetween, ListInv, OptimisticLocks, program = "optimistic", program' = program,
         NEW t \in Threads, Optimistic!ThreadFunc(t)
  PROVE  ListInv' /\ OptimisticLocks' /\ Move(t)
<1> USE DEF Optimistic!Goto
<1>0. /\ pc \in [Threads -> {"idle", "begin", "walk", "lockCurr", "validate", "apply", "free",
                             "return"}]
      /\ prev \in [Threads -> Nodes] /\ curr \in [Threads -> Nodes] /\ ListType
      /\ mutex \in [Nodes -> Threads \cup {NoThread}]
  BY DEF ListInv, ListType, ListTypeOK, OptimisticLocks
<1>1. CASE /\ \/ (Optimistic!Call(t) \/ Optimistic!Return(t)) /\ UNCHANGED <<mutex, it>>
              \/ Optimistic!Begin(t) \/ Optimistic!Walk(t)
  <2>1. /\ \/ CallMove(t) \/ ReturnMove(t) \/ StartMove(t, "walk") \/ StepMove(t, "walk")
        /\ mutex' = mutex
    <3>1. CASE (Optimistic!Call(t) \/ Optimistic!Return(t)) /\ UNCHANGED <<mutex, it>>
      BY <3>1 DEF Optimistic!Call, Optimistic!WorkLeft, CallMove, Optimistic!Set!Calls,
         Set!Calls, Optimistic!Set!Ops, Set!Ops, Optimistic!Return, ReturnMove,
         Optimistic!heapVars, Optimistic!Set!Idle, Set!Idle
    <3>2. CASE Optimistic!Begin(t)
      BY <3>2 DEF Optimistic!Begin, Optimistic!FromHead, Optimistic!head, head,
         Optimistic!heapVars, Optimistic!callVars, StartMove
    <3>3. CASE Optimistic!Walk(t)
      BY <1>0, <3>3 DEF Optimistic!Walk, Optimistic!Before, Optimistic!Advance,
         Optimistic!heapVars, Optimistic!callVars, StepMove
    <3> QED
      BY <1>1, <3>1, <3>2, <3>3
  <2>2. ListInv'
    BY <2>1, CallKeeps, EndKeeps, WalkKeeps
  <2>3. /\ pc[t] \notin {"lockCurr", "validate", "apply"}
        /\ pc'[t] \in {"begin", "walk", "idle"} /\ next' = next
        /\ \A u \in Threads : u # t =>
             pc'[u] = pc[u] /\ prev'[u] = prev[u] /\ curr'[u] = curr[u]
    BY <1>0, <2>1 DEF CallMove, ReturnMove, StartMove, StepMove
  <2>4. \A u \in Threads : pc'[u] # "free" /\ (pc'[u] = "apply" => next'[prev'[u]] = curr'[u])
    BY <2>3 DEF OptimisticLocks
  <2>5. \A u \in Threads, n \in Nodes :
          mutex'[n] = u <=> \/ pc'[u] \in {"lockCurr", "validate", "apply"} /\ n = prev'[u]
                            \/ pc'[u] \in {"validate", "apply"} /\ n = curr'[u]
    BY <2>1, <2>3 DEF OptimisticLocks
  <2> QED
    BY <1>0, <2>1, <2>2, <2>4, <2>5 DEF OptimisticLocks, Move
<1>2. CASE \/ Optimistic!LockPrev(t) \/ Optimistic!LockCurr(t) \/ Optimistic!ValidateNext(t)
           \/ Optimistic!Validated(t) \/ Optimistic!Refused(t)
  <2>1. PICK l :
          /\ pc' = [pc EXCEPT ![t] = l]
          /\ UNCHANGED <<key, next, freed, job, ret, work, prev, curr>>
          /\ \/ /\ pc[t] = "walk" /\ l = "lockCurr" /\ mutex[prev[t]] = NoThread
                /\ mutex' = [mutex EXCEPT ![prev[t]] = t] /\ ~(key[curr[t]] < job[t].key)
             \/ /\ pc[t] = "lockCurr" /\ l = "validate" /\ mutex[curr[t]] = NoThread
                /\ mutex' = [mutex EXCEPT ![curr[t]] = t]
             \/ pc[t] = "validate" /\ l = "validate" /\ mutex' = mutex
             \/ /\ pc[t] = "validate" /\ l = "apply" /\ mutex' = mutex
                /\ next[prev[t]] = curr[t]
             \/ /\ pc[t] = "validate" /\ l = "begin"
                /\ mutex' = [mutex EXCEPT ![prev[t]] = NoThread, ![curr[t]] = NoThread]
    <3> USE DEF Optimistic!heapVars, Optimistic!callVars, Optimistic!walkVars,
                Optimistic!UnlockBoth
    <3>1. CASE Optimistic!LockPrev(t)
      BY <3>1 DEF Optimistic!LockPrev, Optimistic!Before
    <3>2. CASE Optimistic!LockCurr(t)
      BY <3>2 DEF Optimistic!LockCurr
    <3>3. CASE Optimistic!ValidateNext(t)
      <4>1. pc' = [pc EXCEPT ![t] = "validate"]
        BY <1>0, <3>3 DEF Optimistic!ValidateNext
      <4> QED
        BY <3>3, <4>1 DEF Optimistic!ValidateNext
    <3>4. CASE Optimistic!Validated(t)
      BY <3>4 DEF Optimistic!Validated
    <3>5. CASE Optimistic!Refused(t)
      BY <3>5 DEF Optimistic!Refused
    <3> QED
      BY <1>2, <3>1, <3>2, <3>3, <3>4, <3>5
  <2>2. l \in {"begin", "lockCurr", "validate", "apply"} /\ StayMove(t, l)
    BY <2>1 DEF StayMove, Walking
  <2>3. l = "begin" \/ job[t].key =< key[curr[t]]
    <3>1. CASE pc[t] = "walk"
      <4>1. job[t] \in Set!Calls
        BY <3>1 DEF ListInv, Calling, Searching
      <4>2. job[t].key \in Int /\ key[curr[t]] \in Int
        BY <4>1, KeyFacts DEF ListInv, ListType, ListTypeOK
      <4> QED
        BY <2>1, <3>1, <4>2
    <3>2. CASE pc[t] \in {"lockCurr", "validate"}
      BY <3>2 DEF ListInv, Calling
    <3> QED
      BY <2>1, <3>1, <3>2
  <2>4. ListInv'
    BY <2>2, <2>3, WalkKeeps
  <2>5. /\ mutex' \in [Nodes -> Threads \cup {NoThread}]
        /\ \A u \in Threads : pc'[u] # "free"
        /\ \A u \in Threads, n \in Nodes :
             mutex'[n] = u <=> \/ pc'[u] \in {"lockCurr", "validate", "apply"} /\ n = prev'[u]
                               \/ pc'[u] \in {"validate", "apply"} /\ n = curr'[u]
    BY <1>0, <2>1, OptimisticMutex
  <2>6. \A u \in Threads : pc'[u] = "apply" => next'[prev'[u]] = curr'[u]
    BY <1>0, <2>1 DEF OptimisticLocks
  <2> QED
    BY <2>2, <2>4, <2>5, <2>6 DEF OptimisticLocks, Move
<1>3. CASE Optimistic!Apply(t)
  <2>0. /\ pc[t] = "apply" /\ Optimistic!Link(t) /\ pc' = [pc EXCEPT ![t] = "return"]
        /\ mutex' = [mutex EXCEPT ![prev[t]] = NoThread, ![curr[t]] = NoThread]
        /\ UNCHANGED <<key, freed, prev, curr>>
    BY <1>3 DEF Optimistic!Apply, Optimistic!UnlockBoth
  <2>1. LinkMove(t, "return")
    <3>1. job[t].key =< key[curr[t]]
      BY <2>0 DEF ListInv, Calling
    <3>2. /\ ret' = [ret EXCEPT ![t] = IF Found(t) = (job[t].op # "A") THEN "true" ELSE "false"]
          /\ UNCHANGED <<job, work>>
          /\ \/ /\ job[t].op = "A" /\ key[curr[t]] # job[t].key
                /\ next' = [next EXCEPT ![prev[t]] = node(t), ![node(t)] = curr[t]]
             \/ /\ job[t].op = "R" /\ key[curr[t]] = job[t].key
                /\ next' = [next EXCEPT ![prev[t]] = next[curr[t]]]
             \/ /\ ~(job[t].op = "A" /\ key[curr[t]] # job[t].key)
                /\ ~(job[t].op = "R" /\ key[curr[t]] = job[t].key) /\ next' = next
      BY <2>0 DEF Optimistic!Link, Optimistic!Found, Found, Optimistic!node, node
    <3> QED
      BY <2>0, <3>1, <3>2 DEF LinkMove
  <2>2. ListInv'
    BY <2>1, LinkKeeps
  <2>3. /\ mutex' \in [Nodes -> Threads \cup {NoThread}]
        /\ \A u \in Threads : pc'[u] # "free"
        /\ \A u \in Threads, n \in Nodes :
             mutex'[n] = u <=> \/ pc'[u] \in {"lockCurr", "validate", "apply"} /\ n = prev'[u]
                               \/ pc'[u] \in {"validate", "apply"} /\ n = curr'[u]
    BY <1>0, <2>0, OptimisticMutex
  <2>4. ASSUME NEW u \in Threads, pc'[u] = "apply" PROVE next'[prev[u]] = curr[u]
    <3>1. u # t /\ pc[u] = "apply"
      BY <1>0, <2>0, <2>4
    <3>2. mutex[prev[u]] = u /\ mutex[prev[t]] = t /\ next[prev[u]] = curr[u]
      BY <1>0, <2>0, <3>1 DEF OptimisticLocks
    <3>3. prev[u] # prev[t] /\ Used(prev[u]) /\ prev[u] \in Nodes
      BY <1>0, <3>1, <3>2 DEF ListInv, Calling
    <3>4. job[t].op = "A" => prev[u] # node(t)
      BY <2>1, <3>3, LinkPlace
    <3>5. next'[prev[u]] = next[prev[u]]
      BY <1>0, <2>1, <3>3, <3>4 DEF LinkMove, ListType, ListTypeOK
    <3> QED
      BY <3>2, <3>5
  <2> QED
    BY <2>0, <2>1, <2>2, <2>3, <2>4 DEF OptimisticLocks, Move
<1> QED
  BY <1>1, <1>2, <1>3 DEF Optimistic!ThreadFunc

-----------------------------------------------------------------------------
(* The theorems.                                                           *)

\* A new list has its two sentinels, and nobody holds a mutex.
LEMMA InitInv ==
  ASSUME KeysBetween, Init
  PROVE  ListInv /\ Locks
<1>1. /\ key = [n \in Nodes |-> IF n = head THEN INT_MIN ELSE INT_MAX]
      /\ next = [n \in Nodes |-> IF n = head THEN tail ELSE NULL]
      /\ freed = {} /\ job = [t \in Threads |-> Set!Idle]
      /\ ret = [t \in Threads |-> "pending"] /\ work = [t \in Threads |-> 0]
      /\ pc = [t \in Threads |-> "idle"] /\ prev = [t \in Threads |-> head]
      /\ curr = [t \in Threads |-> head] /\ mutex = [n \in Nodes |-> NoThread]
      /\ list_mutex = NoThread
      /\ program \in {"coarse_grained", "fine_grained", "optimistic"}
  BY DEF Init, Coarse!Init, Optimistic!Init, Optimistic!ListInit, Optimistic!Nodes, Nodes,
     Optimistic!head, head, Optimistic!tail, tail, Optimistic!NULL, NULL,
     Optimistic!Set!Idle, Set!Idle
<1>2. ListType
  <2>1. key \in [Nodes -> INT_MIN..INT_MAX]
    BY <1>1, KeyFacts
  <2>2. next \in [Nodes -> Nodes \cup {NULL}] /\ freed \in SUBSET Nodes
    BY <1>1, NodeFacts
  <2>3. work \in [Threads -> 0..NumWork]
    BY <1>1, ListAssumption
  <2>4. job \in [Threads -> Set!Calls \cup {Set!Idle}]
    BY <1>1
  <2>5. prev \in [Threads -> Nodes] /\ curr \in [Threads -> Nodes]
    BY <1>1, NodeFacts
  <2> QED
    BY <1>1, <2>1, <2>2, <2>3, <2>4, <2>5 DEF ListType, ListTypeOK
<1>3. Heap
  BY <1>1, NodeFacts, KeyFacts DEF Heap, Used
<1>4. \A t \in Threads : Calling(t)
  BY <1>1 DEF Calling, Used, Searching, Walking
<1>5. Dead = {}
  BY <1>1 DEF Dead
<1>6. Live
  <2>1. \A m, n \in Nodes : next[n] # NULL /\ next[m] = next[n] => m = n
    BY <1>1
  <2> QED
    BY <1>1, <1>5, <2>1 DEF Live
<1>7. CoarseLocks /\ FineLocks /\ OptimisticLocks
  BY <1>1, NoThreadAssumption DEF CoarseLocks, FineLocks, OptimisticLocks
<1> QED
  BY <1>1, <1>2, <1>3, <1>4, <1>6, <1>7 DEF ListInv, Locks

\* No step of any of the three lists leaves the invariant.
THEOREM ListInvariant == KeysBetween => (Spec => [](ListInv /\ Locks))
<1> SUFFICES ASSUME KeysBetween PROVE Spec => [](ListInv /\ Locks)
  OBVIOUS
<1>1. Init => ListInv /\ Locks
  BY InitInv
<1>2. ListInv /\ Locks /\ [Next]_vars => ListInv' /\ Locks'
  <2> SUFFICES ASSUME ListInv, Locks, [Next]_vars PROVE ListInv' /\ Locks'
    OBVIOUS
  <2>1. CASE \E t \in Threads : ThreadFunc(t)
    <3>1. PICK t \in Threads : ThreadFunc(t)
      BY <2>1
    <3>2. program' = program
      BY <3>1 DEF ThreadFunc
    <3>3. CASE program = "coarse_grained"
      <4>1. Coarse!ThreadFunc(t)
        BY <3>1, <3>3 DEF ThreadFunc
      <4>2. ListInv' /\ Live' /\ CoarseLocks'
        BY <3>2, <3>3, <4>1, CoarseStep DEF Locks
      <4> QED
        BY <3>2, <3>3, <4>2 DEF Locks
    <3>4. CASE program = "fine_grained"
      <4>1. Fine!ThreadFunc(t)
        BY <3>1, <3>4 DEF ThreadFunc
      <4>2. ListInv' /\ Live' /\ FineLocks'
        BY <3>2, <3>4, <4>1, FineStep DEF Locks
      <4> QED
        BY <3>2, <3>4, <4>2 DEF Locks
    <3>5. CASE program = "optimistic"
      <4>1. Optimistic!ThreadFunc(t)
        BY <3>1, <3>5 DEF ThreadFunc
      <4>2. ListInv' /\ OptimisticLocks'
        BY <3>2, <3>5, <4>1, OptimisticStep DEF Locks
      <4> QED
        BY <3>2, <3>5, <4>2 DEF Locks
    <3> QED
      BY <3>3, <3>4, <3>5 DEF Locks
  <2>2. CASE UNCHANGED vars
    <3>1. UNCHANGED <<key, next, freed, job, ret, work, pc, prev, curr, program, list_mutex,
                      mutex>>
      BY <2>2 DEF vars, heapVars, callVars, walkVars
    <3>2. ListInv'
      BY <3>1 DEF ListInv, ListType, ListTypeOK, Heap, Calling, Used, Searching, Walking, node
    <3>3. (Live => Live') /\ (CoarseLocks => CoarseLocks')
      BY <3>1 DEF Live, Dead, Used, CoarseLocks
    <3>4. (FineLocks => FineLocks') /\ (OptimisticLocks => OptimisticLocks')
      BY <3>1 DEF FineLocks, OptimisticLocks
    <3> QED
      BY <3>1, <3>2, <3>3, <3>4 DEF Locks
  <2> QED
    BY <2>1, <2>2 DEF Next, Joined
<1> QED
  BY <1>1, <1>2, PTL DEF Spec

\* A traversal never runs past the tail, and curr and prev are nodes.
THEOREM ListTypeCorrect == KeysBetween => (Spec => []ListTypeOK)
<1>1. ListInv /\ Locks => ListTypeOK
  BY DEF ListInv, ListType
<1> QED
  BY <1>1, ListInvariant, PTL

\* All three lists stay sorted, on nodes that have been taken out as well.
THEOREM SortedTheorem == KeysBetween => (Spec => []Sorted)
<1>1. ListInv /\ Locks => Sorted
  BY DEF ListInv, Heap, Sorted
<1> QED
  BY <1>1, ListInvariant, PTL

\* free() after the unlocks never hits a node that a traversal stands on or waits for.
THEOREM FreeTheorem == KeysBetween => (Spec => []NoUseAfterFree)
<1>1. ListInv /\ Locks => NoUseAfterFree
  <2> SUFFICES ASSUME ListInv, Locks PROVE NoUseAfterFree
    OBVIOUS
  <2>1. prev \in [Threads -> Nodes] /\ curr \in [Threads -> Nodes]
    BY DEF ListInv, ListType, ListTypeOK
  <2>2. Live => \A t \in Threads :
          /\ pc[t] \in {"walk", "lockCurr"} => prev[t] \notin freed /\ curr[t] \notin freed
          /\ pc[t] = "free" => curr[t] \notin freed
    BY <2>1 DEF Live, Dead
  <2>3. program = "coarse_grained" => Coarse!NoUseAfterFree
    BY <2>2 DEF Locks, Coarse!NoUseAfterFree
  <2>4. program = "fine_grained" => Fine!NoUseAfterFree
    BY <2>2 DEF Locks, Fine!NoUseAfterFree, Fine!Touches
  <2> QED
    BY <2>3, <2>4 DEF NoUseAfterFree
<1> QED
  BY <1>1, ListInvariant, PTL

\* Who waits for the mutex of a node of fine_grained.cpp holds none but that of an earlier
\* one, so no circle of waiting threads can close.
THEOREM LockOrderTheorem == KeysBetween => (Spec => []LockOrder)
<1>1. ListInv /\ Locks => LockOrder
  <2> SUFFICES ASSUME ListInv, Locks, program = "fine_grained",
                      NEW t \in Threads, pc[t] = "lockCurr", NEW n \in Nodes, mutex[n] = t
               PROVE  n = prev[t] /\ key[n] < key[curr[t]]
    BY DEF LockOrder, Fine!LockOrder, Fine!Nodes, Nodes, Fine!head, head, Fine!tail, tail
  <2>1. n = prev[t]
    BY DEF Locks, FineLocks
  <2>2. key[prev[t]] < key[curr[t]]
    BY DEF ListInv, Calling, Walking
  <2> QED
    BY <2>1, <2>2
<1> QED
  BY <1>1, ListInvariant, PTL

-----------------------------------------------------------------------------
(* The nodes in the list.                                                  *)
(*                                                                         *)
(* Reached follows the links by recursion; for the proofs it is the least  *)
(* set that holds head and is closed under the links.  The two agree       *)
(* because the keys grow along the links and cannot grow for ever.         *)

Closed(f, S) == \A n \in S : f[n] # NULL => f[n] \in S

\* The nodes that links f lead to from a.
From(f, a) == {m \in Nodes : \A S \in SUBSET Nodes : a \in S /\ Closed(f, S) => m \in S}

List == From(next, head)

\* Every nonempty set of naturals has a least element.
LEMMA LeastNatural ==
  ASSUME NEW S \in SUBSET Nat, S # {}
  PROVE  \E m \in S : \A k \in S : m =< k
<1> DEFINE R == {ss \in Nat \X Nat : ss[1] < ss[2]}
<1>1. IsWellFoundedOn(R, Nat)
  BY NatLessThanWellFounded DEF OpToRel
<1>2. \A x, y \in Nat : <<y, x>> \in R <=> y < x
  OBVIOUS
<1> HIDE DEF R
<1>3. PICK x \in S : \A y \in S : ~(<<y, x>> \in R)
  BY <1>1, WFMin
<1>4. \A y \in S : ~(y < x)
  BY <1>2, <1>3
<1> QED
  BY <1>4

\* From(f, a) is the least closed set that holds a.
LEMMA FromFacts ==
  ASSUME NEW f, NEW a \in Nodes, f \in [Nodes -> Nodes \cup {NULL}]
  PROVE  /\ From(f, a) \in SUBSET Nodes /\ a \in From(f, a) /\ Closed(f, From(f, a))
         /\ \A S \in SUBSET Nodes : a \in S /\ Closed(f, S) => From(f, a) \subseteq S
<1>1. ASSUME NEW n \in From(f, a), f[n] # NULL PROVE f[n] \in From(f, a)
  BY <1>1 DEF From, Closed
<1> QED
  BY <1>1 DEF From, Closed

\* It is the least.
LEMMA FromLeast ==
  ASSUME NEW f, NEW a, NEW S \in SUBSET Nodes, a \in S, Closed(f, S)
  PROVE  From(f, a) \subseteq S
BY DEF From

\* The first link, and then the rest.
LEMMA FromStep ==
  ASSUME NEW f, NEW a \in Nodes, f \in [Nodes -> Nodes \cup {NULL}]
  PROVE  From(f, a) = {a} \cup (IF f[a] = NULL THEN {} ELSE From(f, f[a]))
<1> DEFINE rest == IF f[a] = NULL THEN {} ELSE From(f, f[a])
<1>1. f[a] # NULL => f[a] \in Nodes
  OBVIOUS
<1>2. rest \in SUBSET Nodes /\ Closed(f, {a} \cup rest)
  <2>1. CASE f[a] = NULL
    BY <2>1 DEF Closed
  <2>2. CASE f[a] # NULL
    <3>1. /\ From(f, f[a]) \in SUBSET Nodes /\ f[a] \in From(f, f[a])
          /\ Closed(f, From(f, f[a]))
      BY <1>1, <2>2, FromFacts
    <3> QED
      BY <2>2, <3>1 DEF Closed
  <2> QED
    BY <2>1, <2>2
<1>3. rest \subseteq From(f, a)
  <2>1. CASE f[a] # NULL
    <3>1. f[a] \in From(f, a) /\ From(f, a) \in SUBSET Nodes /\ Closed(f, From(f, a))
      BY <2>1, FromFacts DEF Closed
    <3>2. From(f, f[a]) \subseteq From(f, a)
      BY <1>1, <2>1, <3>1, FromFacts
    <3> QED
      BY <2>1, <3>2
  <2> QED
    BY <2>1
<1> HIDE DEF rest
<1>4. From(f, a) \subseteq {a} \cup rest
  BY <1>2, FromFacts
<1>5. a \in From(f, a)
  BY FromFacts
<1> QED
  BY <1>3, <1>4, <1>5 DEF rest

\* Where m and n are in a list with keys k: no link jumps over either.
InOrder(f, k, m, n) ==
  \/ m = n
  \/ k[n] < k[m] /\ f[n] # NULL /\ k[f[n]] =< k[m]
  \/ k[m] < k[n] /\ f[m] # NULL /\ k[f[m]] =< k[n]

\* If the keys grow along the links, the nodes that a leads to are one chain.
LEMMA Chain ==
  ASSUME NEW f, NEW k, NEW a \in Nodes, f \in [Nodes -> Nodes \cup {NULL}],
         k \in [Nodes -> Int], \A n \in Nodes : f[n] # NULL => k[n] < k[f[n]]
  PROVE  \A m, n \in From(f, a) : InOrder(f, k, m, n)
<1>1. PICK L : L = From(f, a)
  OBVIOUS
<1>2. /\ L \in SUBSET Nodes /\ a \in L /\ Closed(f, L)
      /\ \A S \in SUBSET Nodes : a \in S /\ Closed(f, S) => L \subseteq S
  BY <1>1, FromFacts
<1>3. \A n \in L : k[a] =< k[n]
  <2> DEFINE S == {n \in L : k[a] =< k[n]}
  <2>1. a \in S
    BY <1>2
  <2>2. ASSUME NEW n \in S, f[n] # NULL PROVE f[n] \in S
    <3>1. f[n] \in L /\ k[n] < k[f[n]]
      BY <1>2, <2>2 DEF Closed
    <3> QED
      BY <1>2, <2>2, <3>1
  <2> QED
    BY <1>2, <2>1, <2>2 DEF Closed
<1> DEFINE P == {m \in L : \A n \in L : InOrder(f, k, m, n)}
<1>4. a \in P
  <2> DEFINE S == {n \in L : InOrder(f, k, a, n)}
  <2>1. a \in S
    BY <1>2 DEF InOrder
  <2>2. ASSUME NEW n \in S, f[n] # NULL PROVE f[n] \in S
    <3>1. f[n] \in L /\ k[n] < k[f[n]] /\ k[n] \in Int /\ k[f[n]] \in Int /\ k[a] \in Int
          /\ k[a] =< k[n] /\ (f[a] # NULL => k[f[a]] \in Int)
      BY <1>2, <1>3, <2>2 DEF Closed
    <3>2. InOrder(f, k, a, n)
      OBVIOUS
    <3>3. InOrder(f, k, a, f[n])
      BY <2>2, <3>1, <3>2 DEF InOrder
    <3> QED
      BY <3>1, <3>3
  <2>3. L \subseteq S
    BY <1>2, <2>1, <2>2 DEF Closed
  <2> QED
    BY <1>2, <2>3
<1>5. ASSUME NEW m \in P, f[m] # NULL PROVE f[m] \in P
  <2>1. PICK m1 : m1 = f[m]
    OBVIOUS
  <2>2. m \in L /\ m1 \in L /\ k[m] < k[m1]
    BY <1>2, <1>5, <2>1 DEF Closed
  <2> DEFINE S == {n \in L : InOrder(f, k, m1, n)}
  <2>3. a \in S
    <3>1. InOrder(f, k, a, m1)
      BY <1>4, <2>2
    <3> QED
      BY <1>2, <3>1 DEF InOrder
  <2>4. ASSUME NEW n \in S, f[n] # NULL PROVE f[n] \in S
    <3>1. PICK n1 : n1 = f[n]
      OBVIOUS
    <3>2. n \in L /\ n1 \in L /\ k[n] < k[n1]
      BY <1>2, <2>4, <3>1 DEF Closed
    <3>3. /\ k[n] \in Int /\ k[n1] \in Int /\ k[m] \in Int /\ k[m1] \in Int
          /\ f[m1] # NULL => k[f[m1]] \in Int
          /\ f[n1] # NULL => k[f[n1]] \in Int
      BY <1>2, <2>2, <3>2
    <3>4. InOrder(f, k, m, n) /\ InOrder(f, k, m, n1) /\ InOrder(f, k, m1, n)
      BY <3>2
    <3>5. InOrder(f, k, m1, n1)
      BY <2>1, <2>2, <2>4, <3>1, <3>2, <3>3, <3>4 DEF InOrder
    <3> QED
      BY <3>1, <3>2, <3>5
  <2>5. L \subseteq S
    BY <1>2, <2>3, <2>4 DEF Closed
  <2> QED
    BY <2>1, <2>2, <2>5
<1>6. L \subseteq P
  BY <1>2, <1>4, <1>5 DEF Closed
<1> QED
  BY <1>1, <1>6

\* Following the links by recursion reaches that chain.
LEMMA ReachedIsList == KeysBetween /\ ListInv => Reached = List
<1> SUFFICES ASSUME KeysBetween, ListInv PROVE Reached = List
  OBVIOUS
<1>1. /\ next \in [Nodes -> Nodes \cup {NULL}] /\ key \in [Nodes -> INT_MIN..INT_MAX]
      /\ \A n \in Nodes : next[n] # NULL => key[n] < key[next[n]]
  BY DEF ListInv, ListType, ListTypeOK, Heap
<1> DEFINE All == Nodes \cup {NULL}
           Rec(g) == [n \in All |-> IF n = NULL THEN {} ELSE {n} \cup g[next[n]]]
           from == CHOOSE g : g = Rec(g)
<1>2. Reached = from[head]
  BY DEF Reached
<1> DEFINE body(n) == IF n = NULL THEN {} ELSE From(next, n)
           lists == [n \in All |-> body(n)]
<1>3. lists = Rec(lists)
  <2>1. ASSUME NEW n \in Nodes
        PROVE  From(next, n) = {n} \cup lists[next[n]]
    <3>1. next[n] \in All
      BY <1>1
    <3> QED
      BY <1>1, <3>1, FromStep
  <2>2. ASSUME NEW n \in All
        PROVE  body(n) = IF n = NULL THEN {} ELSE {n} \cup lists[next[n]]
    BY <2>1, NodeFacts
  <2> HIDE DEF body
  <2> QED
    BY <2>2
<1> HIDE DEF lists
<1>4. from = Rec(from)
  BY <1>3
<1> HIDE DEF from
<1> DEFINE Wrong == {n \in Nodes : from[n] # From(next, n)}
           left(n) == INT_MAX - key[n]
           Dist == {left(n) : n \in Wrong}
<1>5. Wrong = {}
  <2>1. SUFFICES ASSUME Wrong # {} PROVE FALSE
    OBVIOUS
  <2>2. Dist \in SUBSET Nat /\ Dist # {}
    BY <1>1, <2>1, KeyFacts
  <2>3. PICK d \in Dist : \A e \in Dist : d =< e
    BY <2>2, LeastNatural
  <2>4. PICK n \in Wrong : d = left(n)
    OBVIOUS
  <2>5. from[n] = {n} \cup from[next[n]]
    BY <1>1, <1>4, NodeFacts
  <2>6. CASE next[n] = NULL
    <3>1. from[NULL] = {}
      BY <1>4
    <3> QED
      BY <1>1, <2>5, <2>6, <3>1, FromStep
  <2>7. CASE next[n] # NULL
    <3>1. next[n] \in Nodes /\ left(next[n]) < left(n)
      BY <1>1, <2>7, KeyFacts
    <3>2. next[n] \notin Wrong
      BY <1>1, <2>3, <2>4, <3>1, KeyFacts
    <3>3. from[next[n]] = From(next, next[n])
      BY <3>1, <3>2
    <3>4. From(next, n) = {n} \cup From(next, next[n])
      BY <1>1, <2>7, FromStep
    <3> HIDE DEF left
    <3> QED
      BY <2>5, <3>3, <3>4
  <2> QED
    BY <2>6, <2>7
<1> QED
  BY <1>2, <1>5, NodeFacts DEF List

\* What a call has answered so far.
Answers(t) ==
  /\ pc[t] = "idle" => job[t] = Set!Idle /\ ret[t] = "pending"
  /\ Searching(t) => ret[t] = "pending"
  /\ pc[t] \in {"free", "return"} => job[t] \in Set!Calls /\ ret[t] # "pending"

\* A locked traversal stands in the list.  One of list_validate need not, but if it can
\* still get to prev, whose mutex t holds, then prev has stayed in the list.
Placed(t) ==
  /\ program # "optimistic" /\ pc[t] \in {"walk", "lockCurr"} => prev[t] \in List
  /\ program = "optimistic" /\ pc[t] = "validate" /\ prev[t] \in From(next, it[t]) =>
       prev[t] \in List
  /\ pc[t] = "apply" => prev[t] \in List

Validating == it \in [Threads -> Nodes] /\ \A t \in Threads : Used(it[t])

ReachInv == Validating /\ \A t \in Threads : Answers(t) /\ Placed(t)

\* The list is a chain of growing keys from head.
LEMMA ListFacts ==
  ASSUME KeysBetween, ListInv
  PROVE  /\ next \in [Nodes -> Nodes \cup {NULL}] /\ key \in [Nodes -> Int]
         /\ \A n \in Nodes : next[n] # NULL => next[n] \in Nodes /\ key[n] < key[next[n]]
         /\ List \in SUBSET Nodes /\ head \in List /\ Closed(next, List)
         /\ \A S \in SUBSET Nodes : head \in S /\ Closed(next, S) => List \subseteq S
         /\ \A m, n \in List : InOrder(next, key, m, n)
<1>1. /\ next \in [Nodes -> Nodes \cup {NULL}] /\ key \in [Nodes -> Int]
      /\ \A n \in Nodes : next[n] # NULL => next[n] \in Nodes /\ key[n] < key[next[n]]
  BY KeyFacts DEF ListInv, ListType, ListTypeOK, Heap
<1>2. /\ List \in SUBSET Nodes /\ head \in List /\ Closed(next, List)
      /\ \A S \in SUBSET Nodes : head \in S /\ Closed(next, S) => List \subseteq S
  BY <1>1, FromFacts, NodeFacts DEF List
<1>3. \A m, n \in List : InOrder(next, key, m, n)
  BY <1>1, Chain, NodeFacts DEF List
<1> QED
  BY <1>1, <1>2, <1>3

\* An add between two neighbours of the list adds its node and nothing else.
LEMMA AddToList ==
  ASSUME KeysBetween, ListInv, NEW p \in List, NEW n \in Nodes, NEW c \in Nodes,
         next[p] = c, ~Used(n), NEW g, next' = g, g = [next EXCEPT ![p] = n, ![n] = c]
  PROVE  /\ List' = List \cup {n} /\ n \notin List
         /\ \A a \in Nodes : Used(a) => From(g, a) \subseteq From(next, a) \cup {n}
<1>1. /\ next \in [Nodes -> Nodes \cup {NULL}] /\ NULL \notin Nodes
      /\ List \in SUBSET Nodes /\ head \in List /\ Closed(next, List) /\ head \in Nodes
      /\ \A S \in SUBSET Nodes : head \in S /\ Closed(next, S) => List \subseteq S
  BY ListFacts, NodeFacts
<1>2. n # p /\ next[n] = NULL
  BY <1>1 DEF Used
<1>3. /\ g \in [Nodes -> Nodes \cup {NULL}] /\ g[p] = n /\ g[n] = c
      /\ \A m \in Nodes : m \notin {p, n} => g[m] = next[m]
  BY <1>1, <1>2
<1>4. ASSUME NEW a \in Nodes, Used(a)
      PROVE  n \notin From(next, a) /\ From(g, a) \subseteq From(next, a) \cup {n}
  <2>1. PICK S : S = From(next, a)
    OBVIOUS
  <2>2. S \in SUBSET Nodes /\ a \in S /\ Closed(next, S)
    BY <1>1, <2>1, FromFacts
  <2>3. n \notin S
    <3> DEFINE U == {m \in Nodes : Used(m)}
    <3>1. Closed(next, U)
      BY <1>1 DEF Closed, ListInv, Heap
    <3>2. S \subseteq U
      BY <1>1, <1>4, <2>1, <3>1, FromFacts
    <3> QED
      BY <3>2
  <2>4. CASE p \in S
    <3>1. Closed(g, S \cup {n})
      BY <1>1, <1>2, <1>3, <2>2, <2>4 DEF Closed
    <3> QED
      BY <2>1, <2>2, <2>3, <3>1, FromLeast
  <2>5. CASE p \notin S
    <3>1. Closed(g, S)
      BY <1>1, <1>2, <1>3, <2>2, <2>3, <2>5 DEF Closed
    <3> QED
      BY <2>1, <2>2, <2>3, <3>1, FromLeast
  <2> QED
    BY <2>4, <2>5
<1>5. PICK L : L = List'
  OBVIOUS
<1>a. L = From(g, head)
  BY <1>5 DEF List, From, Closed
<1>6. L \in SUBSET Nodes /\ head \in L /\ Closed(g, L)
  BY <1>1, <1>3, <1>a, FromFacts
<1>7. List \subseteq L /\ n \in L
  <2>1. Closed(next, L)
    BY <1>1, <1>2, <1>3, <1>6 DEF Closed
  <2>2. List \subseteq L
    BY <1>1, <1>6, <2>1
  <2> QED
    BY <1>1, <1>3, <1>6, <2>2 DEF Closed
<1>8. L \subseteq List \cup {n} /\ n \notin List
  BY <1>1, <1>4, <1>a DEF List, Used
<1> QED
  BY <1>4, <1>5, <1>7, <1>8

\* A removal takes out its node and nothing else.
LEMMA RemoveFromList ==
  ASSUME KeysBetween, ListInv, NEW p \in List, NEW c \in Nodes,
         next[p] = c, NEW g, next' = g, g = [next EXCEPT ![p] = next[c]]
  PROVE  /\ List' = List \ {c} /\ c \in List
         /\ \A a \in Nodes : From(g, a) \subseteq From(next, a)
<1>1. /\ next \in [Nodes -> Nodes \cup {NULL}] /\ NULL \notin Nodes
      /\ List \in SUBSET Nodes /\ head \in List /\ Closed(next, List) /\ head \in Nodes
      /\ \A S \in SUBSET Nodes : head \in S /\ Closed(next, S) => List \subseteq S
  BY ListFacts, NodeFacts
<1>2. /\ key \in [Nodes -> Int] /\ \A m \in Nodes : next[m] # NULL => key[m] < key[next[m]]
      /\ \A m \in List : InOrder(next, key, m, p) /\ InOrder(next, key, head, c)
  <2>1. c \in List
    BY <1>1 DEF Closed
  <2> QED
    BY <2>1, ListFacts
<1>3. /\ g \in [Nodes -> Nodes \cup {NULL}] /\ g[p] = next[c]
      /\ \A m \in Nodes : m # p => g[m] = next[m]
  BY <1>1
<1>4. c # p /\ c \in List /\ next[c] # c
  BY <1>1, <1>2 DEF Closed
<1>5. c # head
  BY <1>1, <1>2, <1>4, KeyFacts DEF ListInv, Heap, ListType, ListTypeOK
<1>6. ASSUME NEW a \in Nodes PROVE From(g, a) \subseteq From(next, a)
  <2>1. PICK S : S = From(next, a)
    OBVIOUS
  <2>2. S \in SUBSET Nodes /\ a \in S /\ Closed(next, S)
    BY <1>1, <2>1, FromFacts
  <2>3. Closed(g, S)
    BY <1>1, <1>3, <2>2 DEF Closed
  <2> QED
    BY <2>1, <2>2, <2>3, FromLeast
<1>7. Closed(g, List \ {c})
  <2>1. ASSUME NEW m \in List, m # p, next[m] = c PROVE FALSE
    <3>1. /\ InOrder(next, key, m, p) /\ key[m] \in Int /\ key[p] \in Int /\ key[c] \in Int
          /\ key[m] < key[c] /\ key[p] < key[c]
      BY <1>1, <1>2, <2>1
    <3> QED
      BY <2>1, <3>1 DEF InOrder
  <2> QED
    BY <1>1, <1>3, <1>4, <2>1 DEF Closed
<1>8. PICK L : L = List'
  OBVIOUS
<1>a. L = From(g, head)
  BY <1>8 DEF List, From, Closed
<1>9. L \in SUBSET Nodes /\ head \in L /\ Closed(g, L)
  BY <1>1, <1>3, <1>a, FromFacts
<1>10. L \subseteq List \ {c}
  BY <1>1, <1>5, <1>7, <1>a, FromLeast
<1>11. List \subseteq L \cup {c}
  <2> DEFINE W == {m \in Nodes : m \in L \/ (m = c /\ p \in L)}
  <2>1. ASSUME NEW m \in W, next[m] # NULL PROVE next[m] \in W
    BY <1>1, <1>3, <1>4, <1>9, <2>1 DEF Closed
  <2>2. List \subseteq W
    BY <1>1, <1>9, <2>1 DEF Closed
  <2> QED
    BY <2>2
<1> QED
  BY <1>4, <1>6, <1>8, <1>10, <1>11

-----------------------------------------------------------------------------
(* The change of a call is the effect of the abstract set.                 *)

InListKeys == {key[n] : n \in List \ {head, tail}}

\* The keys in the list, before and after a step.
LEMMA ContentsKeys == KeysBetween /\ ListInv => Contents = InListKeys
BY ReachedIsList DEF Contents, InListKeys

\* The same of the next state.
LEMMA ContentsKeysNext == KeysBetween /\ ListInv' => Contents' = InListKeys'
<1>1. (KeysBetween /\ ListInv => Contents = InListKeys)'
  BY ContentsKeys, PTL
<1> QED
  BY <1>1

\* At its place a call finds its key exactly when the key is in the list.
LEMMA FoundIfPresent ==
  ASSUME KeysBetween, ListInv, NEW t \in Threads, NEW to, LinkMove(t, to),
         prev[t] \in List, next[prev[t]] = curr[t]
  PROVE  /\ curr[t] \in List
         /\ key[curr[t]] = job[t].key <=> job[t].key \in Contents
<1>1. /\ List \in SUBSET Nodes /\ Closed(next, List) /\ key \in [Nodes -> Int]
      /\ \A m, n \in List : InOrder(next, key, m, n)
  BY ListFacts
<1>2. /\ prev[t] \in Nodes /\ curr[t] \in Nodes /\ next[prev[t]] # NULL /\ curr[t] # head
      /\ key[prev[t]] < job[t].key /\ job[t] \in Set!Calls
      /\ key[curr[t]] = job[t].key => curr[t] # tail
  BY LinkPlace
<1>3. job[t].key =< key[curr[t]] /\ job[t].key \in Int
  BY <1>2, KeyFacts DEF LinkMove
<1>4. curr[t] \in List
  BY <1>1, <1>2 DEF Closed
<1>5. key[curr[t]] = job[t].key => job[t].key \in InListKeys
  BY <1>2, <1>4 DEF InListKeys
<1>6. ASSUME NEW n \in List, key[n] = job[t].key PROVE key[curr[t]] = job[t].key
  <2>1. /\ InOrder(next, key, prev[t], n) /\ key[n] \in Int /\ key[prev[t]] \in Int
        /\ key[curr[t]] \in Int
    BY <1>1, <1>2
  <2> QED
    BY <1>2, <1>3, <1>6, <2>1 DEF InOrder
<1> QED
  BY <1>4, <1>5, <1>6, ContentsKeys DEF InListKeys

\* Every change is one effect of the abstract set, answer included.
LEMMA LinkIsEffect ==
  ASSUME KeysBetween, ListInv, ListInv', NEW t \in Threads, NEW to, LinkMove(t, to),
         prev[t] \in List, next[prev[t]] = curr[t], ret[t] = "pending"
  PROVE  Set!Effect(t)
<1>1. /\ List \in SUBSET Nodes /\ key \in [Nodes -> Int] /\ next \in [Nodes -> Nodes \cup {NULL}]
      /\ \A m, n \in List : InOrder(next, key, m, n)
  BY ListFacts
<1>2. /\ job[t] \in Set!Calls /\ curr[t] \in Nodes /\ next[prev[t]] # NULL
      /\ job[t].op = "A" => /\ node(t) \in Nodes /\ ~Used(node(t))
                            /\ key[node(t)] = job[t].key
      /\ key[curr[t]] = job[t].key => curr[t] # tail
      /\ node(t) \notin {head, tail} /\ curr[t] # head
  BY LinkPlace
<1>3. curr[t] \in List /\ (key[curr[t]] = job[t].key <=> job[t].key \in Contents)
  BY FoundIfPresent
<1>4. /\ Contents = {key[n] : n \in List \ {head, tail}}
      /\ Contents' = {key[n] : n \in List' \ {head, tail}}
  <2>1. key' = key
    BY DEF LinkMove
  <2> QED
    BY <2>1, ContentsKeys, ContentsKeysNext DEF InListKeys
<1>5. job[t].op \in {"A", "R", "C"} /\ job[t] # Set!Idle /\ UNCHANGED job
  <2>1. job[t].op \in {"A", "R", "C"}
    BY <1>2, KeyFacts
  <2> QED
    BY <2>1 DEF Set!Idle, LinkMove
<1>6. Contents' = CASE job[t].op = "A" -> Contents \cup {job[t].key}
                    [] job[t].op = "R" -> Contents \ {job[t].key}
                    [] OTHER -> Contents
  <2>1. CASE /\ job[t].op = "A" /\ key[curr[t]] # job[t].key
             /\ next' = [next EXCEPT ![prev[t]] = node(t), ![node(t)] = curr[t]]
    <3>1. List' = List \cup {node(t)}
      BY <1>2, <2>1, AddToList
    <3> QED
      BY <1>2, <1>4, <2>1, <3>1
  <2>2. CASE /\ job[t].op = "R" /\ key[curr[t]] = job[t].key
             /\ next' = [next EXCEPT ![prev[t]] = next[curr[t]]]
    <3>1. List' = List \ {curr[t]}
      BY <1>2, <2>2, RemoveFromList
    <3>2. ASSUME NEW n \in List, key[n] = job[t].key PROVE n = curr[t]
      <4>1. InOrder(next, key, n, curr[t]) /\ key[n] \in Int /\ key[curr[t]] \in Int
        BY <1>1, <1>2, <1>3
      <4> QED
        BY <2>2, <3>2, <4>1 DEF InOrder
    <3>3. Contents' = Contents \ {job[t].key}
      BY <1>4, <2>2, <3>1, <3>2
    <3> QED
      BY <2>2, <3>3
  <2>3. CASE /\ ~(job[t].op = "A" /\ key[curr[t]] # job[t].key)
             /\ ~(job[t].op = "R" /\ key[curr[t]] = job[t].key) /\ next' = next
    <3>1. List' = List
      BY <2>3 DEF List, From, Closed
    <3>2. Contents' = Contents
      BY <1>4, <3>1
    <3> QED
      BY <1>3, <1>5, <2>3, <3>2
  <2> QED
    BY <2>1, <2>2, <2>3 DEF LinkMove
<1>7. ret' = [ret EXCEPT ![t] = IF (IF job[t].op = "A" THEN job[t].key \notin Contents
                                                      ELSE job[t].key \in Contents)
                               THEN "true" ELSE "false"]
  BY <1>3 DEF LinkMove, Found
<1> QED
  BY <1>5, <1>6, <1>7 DEF Set!Effect

\* Every step of the three lists is a move, and keeps the invariant.
LEMMA StepMoves ==
  ASSUME KeysBetween, ListInv, Locks, NEW t \in Threads, ThreadFunc(t)
  PROVE  ListInv' /\ Locks' /\ Move(t) /\ program' = program
<1>1. program' = program
  BY DEF ThreadFunc
<1>2. CASE program = "coarse_grained"
  <2>1. Coarse!ThreadFunc(t)
    BY <1>2 DEF ThreadFunc
  <2>2. ListInv' /\ Live' /\ CoarseLocks' /\ Move(t)
    BY <1>1, <1>2, <2>1, CoarseStep DEF Locks
  <2> QED
    BY <1>1, <1>2, <2>2 DEF Locks
<1>3. CASE program = "fine_grained"
  <2>1. Fine!ThreadFunc(t)
    BY <1>3 DEF ThreadFunc
  <2>2. ListInv' /\ Live' /\ FineLocks' /\ Move(t)
    BY <1>1, <1>3, <2>1, FineStep DEF Locks
  <2> QED
    BY <1>1, <1>3, <2>2 DEF Locks
<1>4. CASE program = "optimistic"
  <2>1. Optimistic!ThreadFunc(t)
    BY <1>4 DEF ThreadFunc
  <2>2. ListInv' /\ OptimisticLocks' /\ Move(t)
    BY <1>1, <1>4, <2>1, OptimisticStep DEF Locks
  <2> QED
    BY <1>1, <1>4, <2>2 DEF Locks
<1> QED
  BY <1>2, <1>3, <1>4 DEF Locks

\* At its change t stands in the list, with curr right behind prev.
LEMMA LinkInList ==
  ASSUME ListInv, Locks, NEW t \in Threads, Placed(t), NEW to, LinkMove(t, to)
  PROVE  prev[t] \in List /\ next[prev[t]] = curr[t]
<1>1. CASE program = "optimistic"
  BY <1>1 DEF LinkMove, Locks, OptimisticLocks, Placed
<1>2. CASE program # "optimistic"
  BY <1>2 DEF LinkMove, Locks, Live, Placed
<1> QED
  BY <1>1, <1>2

\* Only a call in its change answers.
LEMMA AnswersMove ==
  ASSUME ListInv, NEW t \in Threads, Move(t), \A u \in Threads : Answers(u)
  PROVE  \A u \in Threads : Answers(u)'
<1>1. /\ pc \in [Threads -> {"idle", "begin", "walk", "lockCurr", "validate", "apply", "free",
                             "return"}]
      /\ ret \in [Threads -> {"pending", "true", "false"}]
      /\ job \in [Threads -> Set!Calls \cup {Set!Idle}]
  BY DEF ListInv, ListType, ListTypeOK
<1>2. \A u \in Threads : u # t => pc'[u] = pc[u] /\ job'[u] = job[u] /\ ret'[u] = ret[u]
  BY <1>1 DEF Move, CallMove, FreeMove, ReturnMove, StartMove, StepMove, StayMove, LinkMove
<1>3. Answers(t)'
  <2>1. CASE CallMove(t)
    <3>1. pc[t] = "idle" /\ pc'[t] = "begin" /\ ret'[t] = ret[t]
      BY <1>1, <2>1 DEF CallMove
    <3> QED
      BY <3>1 DEF Answers, Searching
  <2>2. CASE ReturnMove(t)
    <3>1. pc'[t] = "idle" /\ job'[t] = Set!Idle /\ ret'[t] = "pending"
      BY <1>1, <2>2 DEF ReturnMove
    <3> QED
      BY <3>1 DEF Answers, Searching
  <2>3. CASE FreeMove(t)
    <3>1. pc[t] = "free" /\ pc'[t] = "return" /\ job'[t] = job[t] /\ ret'[t] = ret[t]
      BY <1>1, <2>3 DEF FreeMove
    <3> QED
      BY <3>1 DEF Answers, Searching
  <2>4. CASE \/ \E to \in {"walk", "lockCurr"} : StartMove(t, to) \/ StepMove(t, to)
             \/ \E to \in {"begin", "walk", "lockCurr", "validate", "apply"} : StayMove(t, to)
    <3>1. Searching(t) /\ pc'[t] \in {"begin", "walk", "lockCurr", "validate", "apply"}
          /\ ret'[t] = ret[t]
      BY <1>1, <2>4 DEF StartMove, StepMove, StayMove, Searching, Walking
    <3> QED
      BY <3>1 DEF Answers, Searching
  <2>5. CASE \E to \in {"free", "return"} : LinkMove(t, to)
    <3>1. Searching(t) /\ pc'[t] \in {"free", "return"} /\ ret'[t] \in {"true", "false"}
          /\ job'[t] = job[t]
      BY <1>1, <2>5 DEF LinkMove, Searching
    <3>2. job[t] \in Set!Calls
      BY <3>1 DEF ListInv, Calling
    <3> QED
      BY <3>1, <3>2 DEF Answers, Searching
  <2> QED
    BY <2>1, <2>2, <2>3, <2>4, <2>5 DEF Move
<1>4. ASSUME NEW u \in Threads, u # t PROVE Answers(u)'
  BY <1>2, <1>4 DEF Answers, Searching
<1> QED
  BY <1>3, <1>4

\* A call, a change and a return of a list are those of the abstract set; no other step
\* shows.
LEMMA MoveIsSet ==
  ASSUME KeysBetween, ListInv, ListInv', Locks, NEW t \in Threads, Move(t),
         Answers(t), Placed(t)
  PROVE  Set!SetNext \/ UNCHANGED Set!setVars
<1>1. /\ Contents = InListKeys /\ Contents' = InListKeys'
  BY ContentsKeys, ContentsKeysNext
<1>2. next' = next /\ key' = key => Contents' = Contents
  BY <1>1 DEF InListKeys, List, From, Closed
<1>3. CASE CallMove(t)
  <2>1. PICK c \in Set!Calls :
          /\ job' = [job EXCEPT ![t] = c]
          /\ key' = IF c.op = "A" THEN [key EXCEPT ![<<t, work'[t]>>] = c.key] ELSE key
    BY <1>3 DEF CallMove
  <2>2. job[t] = Set!Idle /\ UNCHANGED ret /\ next' = next
    BY <1>3 DEF CallMove, Answers
  <2>3. List' = List
    BY <2>2 DEF List, From, Closed
  <2>4. \A n \in List : key'[n] = key[n]
    <3>1. <<t, work'[t]>> \notin List
      <4>1. work'[t] = work[t] + 1 /\ work'[t] \in 1..NumWork /\ work[t] < work'[t]
        BY <1>3, ListAssumption DEF CallMove, ListInv, ListType, ListTypeOK
      <4>2. next[<<t, work'[t]>>] = NULL /\ ~Used(<<t, work'[t]>>)
        BY <4>1, NodeFacts DEF ListInv, Heap, Used
      <4>3. \A n \in List : Used(n)
        <5> DEFINE U == {n \in Nodes : Used(n)}
        <5>1. Closed(next, U) /\ head \in U
          BY ListFacts, NodeFacts DEF ListInv, Heap, Closed, Used
        <5>2. List \subseteq U
          BY <5>1, FromLeast DEF List
        <5> QED
          BY <5>2
      <4> QED
        BY <4>2, <4>3
    <3>2. key \in [Nodes -> Int] /\ List \in SUBSET Nodes
      BY ListFacts
    <3> QED
      BY <2>1, <3>1, <3>2
  <2>5. Contents' = Contents
    BY <1>1, <2>3, <2>4 DEF InListKeys
  <2>6. Set!SetCall(t)
    BY <2>1, <2>2, <2>5 DEF Set!SetCall
  <2> QED
    BY <2>6 DEF Set!SetNext
<1>4. CASE ReturnMove(t)
  <2>1. pc[t] = "return" /\ next' = next /\ key' = key
        /\ job' = [job EXCEPT ![t] = Set!Idle] /\ ret' = [ret EXCEPT ![t] = "pending"]
    BY <1>4 DEF ReturnMove
  <2>2. job[t] # Set!Idle /\ ret[t] # "pending"
    <3>1. job[t].op \in {"A", "R", "C"}
      BY <2>1, KeyFacts DEF Answers
    <3> QED
      BY <2>1, <3>1 DEF Answers, Set!Idle
  <2>3. Set!SetReturn(t)
    BY <1>2, <2>1, <2>2 DEF Set!SetReturn
  <2> QED
    BY <2>3 DEF Set!SetNext
<1>5. CASE \E to \in {"free", "return"} : LinkMove(t, to)
  <2>1. PICK to \in {"free", "return"} : LinkMove(t, to)
    BY <1>5
  <2>2. ret[t] = "pending"
    BY <2>1 DEF LinkMove, Answers, Searching
  <2>3. Set!Effect(t)
    BY <2>1, <2>2, LinkInList, LinkIsEffect
  <2> QED
    BY <2>3 DEF Set!SetNext
<1>6. CASE \/ FreeMove(t) \/ \E to \in {"walk", "lockCurr"} : StartMove(t, to) \/ StepMove(t, to)
           \/ \E to \in {"begin", "walk", "lockCurr", "validate", "apply"} : StayMove(t, to)
  <2>1. UNCHANGED <<key, next, job, ret>>
    BY <1>6 DEF FreeMove, StartMove, StepMove, StayMove
  <2> QED
    BY <1>2, <2>1 DEF Set!setVars
<1> QED
  BY <1>3, <1>4, <1>5, <1>6 DEF Move

\* What a step does to the walk of list_validate.
LEMMA ValidateMove ==
  ASSUME KeysBetween, ListInv, Validating, NEW t \in Threads, ThreadFunc(t), Locks
  PROVE  /\ it' \in [Threads -> Nodes] /\ \A u \in Threads : Used(it'[u])
         /\ program = "optimistic" =>
              /\ \A u \in Threads : u # t => it'[u] = it[u]
              /\ pc'[t] = "validate" =>
                   \/ it'[t] = head
                   \/ /\ pc[t] = "validate" /\ next[it[t]] \in Nodes /\ it'[t] = next[it[t]]
                      /\ UNCHANGED <<next, prev>>
              /\ pc'[t] = "apply" =>
                   pc[t] = "validate" /\ it[t] = prev[t] /\ UNCHANGED <<next, prev>>
<1>1. it \in [Threads -> Nodes] /\ \A u \in Threads : Used(it[u])
  BY DEF Validating
<1>2. /\ pc \in [Threads -> {"idle", "begin", "walk", "lockCurr", "validate", "apply", "free",
                             "return"}]
      /\ prev \in [Threads -> Nodes] /\ curr \in [Threads -> Nodes]
      /\ next \in [Nodes -> Nodes \cup {NULL}] /\ key \in [Nodes -> Int]
  BY KeyFacts DEF ListInv, ListType, ListTypeOK
<1>3. CASE program # "optimistic"
  <2>1. it' = it
    BY <1>3 DEF ThreadFunc
  <2> QED
    BY <1>1, <1>3, <2>1
<1>4. CASE program = "optimistic"
  <2> USE DEF Optimistic!Goto, Optimistic!heapVars, Optimistic!callVars, Optimistic!walkVars
  <2>0. Optimistic!ThreadFunc(t)
    BY <1>4 DEF ThreadFunc
  <2>1. CASE Optimistic!ValidateNext(t)
    <3>1. /\ pc[t] = "validate" /\ it[t] # prev[t] /\ key[it[t]] =< key[prev[t]]
          /\ it' = [it EXCEPT ![t] = next[it[t]]] /\ UNCHANGED <<next, prev, pc>>
      BY <2>1 DEF Optimistic!ValidateNext
    <3>2. next[it[t]] \in Nodes /\ Used(next[it[t]])
      <4>1. key[prev[t]] < key[curr[t]]
        BY <3>1 DEF ListInv, Calling, Walking
      <4>2. key[curr[t]] =< INT_MAX /\ INT_MAX \in Int /\ curr[t] \in Nodes
        BY <1>2, KeyFacts DEF ListInv, ListType, ListTypeOK
      <4>3. it[t] # tail
        BY <1>1, <1>2, <3>1, <4>1, <4>2 DEF ListInv, Heap
      <4>4. next[it[t]] # NULL
        BY <1>1, <4>3 DEF ListInv, Heap, Used
      <4> QED
        BY <1>1, <1>2, <4>4 DEF ListInv, Heap
    <3> QED
      BY <1>1, <1>4, <3>1, <3>2
  <2>2. CASE Optimistic!LockCurr(t)
    <3>1. it' = [it EXCEPT ![t] = head] /\ pc' = [pc EXCEPT ![t] = "validate"]
      BY <2>2 DEF Optimistic!LockCurr, Optimistic!head, head
    <3> QED
      BY <1>1, <1>2, <1>4, <3>1, NodeFacts DEF Used
  <2>3. CASE Optimistic!Validated(t)
    <3>1. /\ it' = it /\ pc[t] = "validate" /\ it[t] = prev[t] /\ UNCHANGED <<next, prev>>
          /\ pc' = [pc EXCEPT ![t] = "apply"]
      BY <2>3 DEF Optimistic!Validated
    <3> QED
      BY <1>1, <1>2, <1>4, <3>1
  <2>4. CASE \/ (Optimistic!Call(t) \/ Optimistic!Return(t)) /\ UNCHANGED <<mutex, it>>
             \/ Optimistic!Begin(t) \/ Optimistic!Walk(t) \/ Optimistic!LockPrev(t)
             \/ Optimistic!Refused(t) \/ Optimistic!Apply(t)
    <3>1. it' = it /\ pc'[t] \in {"begin", "idle", "walk", "lockCurr", "return"}
      BY <1>2, <2>4 DEF Optimistic!Call, Optimistic!Return, Optimistic!Begin, Optimistic!Walk,
         Optimistic!LockPrev, Optimistic!Refused, Optimistic!Apply
    <3> QED
      BY <1>1, <1>4, <3>1
  <2> QED
    BY <2>0, <2>1, <2>2, <2>3, <2>4 DEF Optimistic!ThreadFunc
<1> QED
  BY <1>3, <1>4

\* A step that leaves the links alone.
LEMMA PlacedWalk ==
  ASSUME KeysBetween, ListInv, Locks, ReachInv, NEW t \in Threads, ThreadFunc(t), Move(t),
         Locks', program' = program, next' = next, NEW u \in Threads
  PROVE  Placed(u)'
<1>1. /\ pc \in [Threads -> {"idle", "begin", "walk", "lockCurr", "validate", "apply", "free",
                             "return"}]
      /\ prev \in [Threads -> Nodes] /\ curr \in [Threads -> Nodes]
      /\ next \in [Nodes -> Nodes \cup {NULL}]
      /\ List \in SUBSET Nodes /\ head \in List /\ Closed(next, List)
  BY ListFacts DEF ListInv, ListType, ListTypeOK
<1>2. Placed(u) /\ Placed(t) /\ Validating
  BY DEF ReachInv
<1>3. PICK a : a = it'[u]
  OBVIOUS
<1>4. List' = List /\ From(next, it[u])' = From(next, a)
  BY <1>3 DEF List, From, Closed
<1>5. CASE u # t
  <2>1. pc'[u] = pc[u] /\ prev'[u] = prev[u]
    BY <1>1, <1>5 DEF Move, CallMove, FreeMove, ReturnMove, StartMove, StepMove, StayMove, LinkMove
  <2>2. program = "optimistic" => a = it[u]
    BY <1>2, <1>3, <1>5, ValidateMove
  <2> QED
    BY <1>2, <1>4, <2>1, <2>2 DEF Placed
<1>6. CASE u = t
  <2>1. CASE program = "optimistic"
    <3>1. ASSUME pc'[t] = "validate", prev'[t] \in From(next, a) PROVE prev'[t] \in List
      <4>1. CASE a = head
        BY <3>1, <4>1 DEF List
      <4>2. CASE /\ pc[t] = "validate" /\ next[it[t]] \in Nodes /\ a = next[it[t]]
                 /\ prev' = prev
        <5>1. it[t] \in Nodes /\ next[it[t]] # NULL
          BY <1>2, <4>2, NodeFacts DEF Validating
        <5>2. From(next, a) \subseteq From(next, it[t])
          BY <1>1, <4>2, <5>1, FromStep
        <5> QED
          BY <1>2, <2>1, <3>1, <4>2, <5>2 DEF Placed
      <4> QED
        BY <1>2, <1>3, <1>6, <2>1, <3>1, <4>1, <4>2, ValidateMove
    <3>2. ASSUME pc'[t] = "apply" PROVE prev'[t] \in List
      <4>1. pc[t] = "validate" /\ it[t] = prev[t] /\ prev' = prev
        BY <1>2, <2>1, <3>2, ValidateMove
      <4>2. prev[t] \in From(next, it[t])
        BY <1>1, <4>1, FromFacts
      <4> QED
        BY <1>2, <2>1, <4>1, <4>2 DEF Placed
    <3> QED
      BY <1>4, <1>6, <2>1, <3>1, <3>2 DEF Placed
  <2>2. CASE program # "optimistic"
    <3>1. pc'[t] # "apply" /\ pc[t] \notin {"validate", "apply"}
      BY <2>2 DEF Locks, CoarseLocks, FineLocks
    <3>2. ASSUME pc'[t] \in {"walk", "lockCurr"} PROVE prev'[t] \in List
      <4>1. CASE \E to \in {"walk", "lockCurr"} : StartMove(t, to)
        BY <1>1, <4>1 DEF StartMove
      <4>2. CASE \E to \in {"walk", "lockCurr"} : StepMove(t, to)
        <5>1. pc[t] = "walk" /\ prev'[t] = curr[t]
          BY <1>1, <4>2 DEF StepMove
        <5>2. prev[t] \in List /\ next[prev[t]] = curr[t] /\ curr[t] # NULL
          BY <1>1, <1>2, <2>2, <5>1, NodeFacts DEF Placed, Locks, Live
        <5> QED
          BY <1>1, <5>1, <5>2 DEF Closed
      <4>3. CASE \E to \in {"begin", "walk", "lockCurr", "validate", "apply"} : StayMove(t, to)
        <5>1. pc[t] \in {"walk", "lockCurr"} /\ prev' = prev
          BY <3>1, <4>3 DEF StayMove, Walking
        <5> QED
          BY <1>2, <2>2, <5>1 DEF Placed
      <4> QED
        BY <1>1, <3>2, <4>1, <4>2, <4>3
           DEF Move, CallMove, FreeMove, ReturnMove, LinkMove
    <3> QED
      BY <1>4, <1>6, <2>2, <3>1, <3>2 DEF Placed
  <2> QED
    BY <2>1, <2>2
<1> QED
  BY <1>5, <1>6

\* A change takes no node out of the list that another thread holds the mutex of.
LEMMA PlacedLink ==
  ASSUME KeysBetween, ListInv, Locks, ReachInv, NEW t \in Threads, ThreadFunc(t),
         NEW to \in {"free", "return"}, LinkMove(t, to), program' = program, NEW u \in Threads
  PROVE  Placed(u)'
<1>1. /\ pc \in [Threads -> {"idle", "begin", "walk", "lockCurr", "validate", "apply", "free",
                             "return"}]
      /\ prev \in [Threads -> Nodes] /\ curr \in [Threads -> Nodes]
      /\ pc' = [pc EXCEPT ![t] = to] /\ UNCHANGED <<prev, curr>>
  BY DEF ListInv, ListType, ListTypeOK, LinkMove
<1>2. Placed(u) /\ Placed(t) /\ Validating /\ Used(prev[u])
  BY DEF ReachInv, ListInv, Calling
<1>3. CASE u = t
  BY <1>1, <1>3 DEF Placed
<1>4. CASE u # t
  <2>1. pc'[u] = pc[u] /\ prev'[u] = prev[u] /\ (program = "optimistic" => it'[u] = it[u])
    BY <1>1, <1>2, <1>4, ValidateMove
  <2>2. program # "optimistic" /\ pc[u] \in {"walk", "lockCurr"} => prev[u] # curr[t]
    <3>1. program # "optimistic" => pc[t] = "walk"
      BY DEF LinkMove
    <3>2. CASE program = "coarse_grained"
      BY <1>4, <3>1, <3>2 DEF Locks, CoarseLocks
    <3>3. CASE program = "fine_grained"
      BY <1>1, <1>4, <3>1, <3>3 DEF Locks, FineLocks
    <3> QED
      BY <3>2, <3>3 DEF Locks
  <2>3. program = "optimistic" /\ pc[u] \in {"validate", "apply"} => prev[u] # curr[t]
    BY <1>1, <1>4 DEF Locks, OptimisticLocks, LinkMove
  <2>4. pc[u] = "apply" => program = "optimistic"
    BY DEF Locks, CoarseLocks, FineLocks
  <2>5. prev[t] \in List /\ next[prev[t]] = curr[t]
    BY <1>2, LinkInList
  <2>6. /\ curr[t] \in Nodes
        /\ job[t].op = "A" => node(t) \in Nodes /\ ~Used(node(t))
    BY LinkPlace
  <2>7. PICK g : g = next'
    OBVIOUS
  <2>8. From(next, it[u])' = From(g, it'[u])
    BY <2>7 DEF From, Closed
  <2>9. /\ prev[u] \in List /\ prev[u] # curr[t] => prev[u] \in List'
        /\ \A a \in Nodes : Used(a) /\ prev[u] \in From(g, a) => prev[u] \in From(next, a)
    <3>1. CASE /\ job[t].op = "A" /\ next' = [next EXCEPT ![prev[t]] = node(t), ![node(t)] = curr[t]]
      <4>1. PICK n : n = node(t)
        OBVIOUS
      <4>2. n \in Nodes /\ ~Used(n) /\ prev[u] # n
        BY <1>2, <2>6, <3>1, <4>1
      <4>3. g = [next EXCEPT ![prev[t]] = n, ![n] = curr[t]]
        BY <2>7, <3>1, <4>1
      <4>4. /\ List' = List \cup {n}
            /\ \A a \in Nodes : Used(a) => From(g, a) \subseteq From(next, a) \cup {n}
        BY <2>5, <2>6, <2>7, <4>2, <4>3, AddToList
      <4> QED
        BY <4>2, <4>4
    <3>2. CASE next' = [next EXCEPT ![prev[t]] = next[curr[t]]]
      <4>1. /\ List' = List \ {curr[t]}
            /\ \A a \in Nodes : From(g, a) \subseteq From(next, a)
        BY <2>5, <2>6, <2>7, <3>2, RemoveFromList
      <4> QED
        BY <4>1
    <3>3. CASE next' = next
      <4>1. List' = List
        BY <3>3 DEF List, From, Closed
      <4> QED
        BY <2>7, <3>3, <4>1
    <3> QED
      BY <3>1, <3>2, <3>3 DEF LinkMove
  <2>10. it[u] \in Nodes /\ Used(it[u])
    BY <1>2 DEF Validating
  <2> QED
    BY <1>2, <2>1, <2>2, <2>3, <2>4, <2>8, <2>9, <2>10 DEF Placed
<1> QED
  BY <1>3, <1>4

\* When a step changes no place in the list it leaves ReachInv alone; when it does, the
\* locks keep the places of the others.
LEMMA ReachStep ==
  ASSUME KeysBetween, ListInv, Locks, ReachInv, NEW t \in Threads, ThreadFunc(t)
  PROVE  ReachInv' /\ (Set!SetNext \/ UNCHANGED Set!setVars)
<1>1. ListInv' /\ Locks' /\ Move(t) /\ program' = program
  BY StepMoves
<1>2. /\ Validating /\ \A u \in Threads : Answers(u) /\ Placed(u)
  BY DEF ReachInv
<1>3. \A u \in Threads : Answers(u)'
  BY <1>1, <1>2, AnswersMove
<1>4. Validating'
  <2>1. it' \in [Threads -> Nodes] /\ \A u \in Threads : Used(it'[u])
    BY <1>2, ValidateMove
  <2>2. \A n \in Nodes : Used(n) => Used(n)'
    <3>1. next \in [Nodes -> Nodes \cup {NULL}] /\ NULL \notin Nodes
      BY NodeFacts DEF ListInv, ListType, ListTypeOK
    <3>2. CASE \E to \in {"free", "return"} : LinkMove(t, to)
      <4>1. PICK to \in {"free", "return"} : LinkMove(t, to)
        BY <3>2
      <4>2. /\ prev[t] \in Nodes /\ curr[t] \in Nodes
            /\ job[t].op = "A" => node(t) \in Nodes
            /\ key[curr[t]] = job[t].key => next[curr[t]] # NULL
        BY <4>1, LinkPlace
      <4>3. \A n \in Nodes : next[n] # NULL => next'[n] # NULL
        BY <3>1, <4>1, <4>2 DEF LinkMove
      <4> QED
        BY <4>3 DEF Used
    <3>3. CASE next' = next
      BY <3>3 DEF Used
    <3> QED
      BY <1>1, <3>2, <3>3 DEF Move, CallMove, FreeMove, ReturnMove, StartMove, StepMove, StayMove
  <2>3. \A u \in Threads : Used(it[u])'
    <3>1. ASSUME NEW u \in Threads PROVE Used(it[u])'
      <4>1. PICK a : a = it'[u]
        OBVIOUS
      <4>2. a \in Nodes /\ Used(a)
        BY <2>1, <4>1
      <4>3. Used(a)'
        BY <2>2, <4>2
      <4> QED
        BY <4>1, <4>3 DEF Used
    <3> QED
      BY <3>1
  <2> QED
    BY <2>1, <2>3 DEF Validating
<1>5. ASSUME NEW u \in Threads PROVE Placed(u)'
  <2>1. CASE \E to \in {"free", "return"} : LinkMove(t, to)
    BY <1>1, <2>1, PlacedLink
  <2>2. CASE next' = next
    BY <1>1, <2>2, PlacedWalk
  <2> QED
    BY <1>1, <2>1, <2>2 DEF Move, CallMove, FreeMove, ReturnMove, StartMove, StepMove, StayMove
<1>6. Set!SetNext \/ UNCHANGED Set!setVars
  BY <1>1, <1>2, MoveIsSet
<1> QED
  BY <1>3, <1>4, <1>5, <1>6 DEF ReachInv

\* All three lists keep the places of their traversals in the list.
THEOREM ReachInvariant == KeysBetween => (Spec => [](ListInv /\ Locks /\ ReachInv))
<1> SUFFICES ASSUME KeysBetween PROVE Spec => [](ListInv /\ Locks /\ ReachInv)
  OBVIOUS
<1>1. Init => ReachInv
  <2> SUFFICES ASSUME Init PROVE ReachInv
    OBVIOUS
  <2>1. /\ job = [t \in Threads |-> Set!Idle] /\ ret = [t \in Threads |-> "pending"]
        /\ pc = [t \in Threads |-> "idle"] /\ it = [t \in Threads |-> head]
    BY DEF Init, Optimistic!Init, Optimistic!ListInit, Optimistic!head, head,
       Optimistic!Set!Idle, Set!Idle
  <2>2. Validating
    BY <2>1, NodeFacts DEF Validating, Used
  <2>3. \A t \in Threads : Answers(t) /\ Placed(t)
    BY <2>1 DEF Answers, Placed, Searching
  <2> QED
    BY <2>2, <2>3 DEF ReachInv
<1>2. ListInv /\ Locks /\ ReachInv /\ [Next]_vars => ReachInv'
  <2> SUFFICES ASSUME ListInv, Locks, ReachInv, [Next]_vars PROVE ReachInv'
    OBVIOUS
  <2>1. CASE \E t \in Threads : ThreadFunc(t)
    BY <2>1, ReachStep
  <2>2. CASE UNCHANGED vars
    <3>1. UNCHANGED <<next, job, ret, pc, prev, program, it>>
      BY <2>2 DEF vars, heapVars, callVars, walkVars
    <3>2. Validating'
      BY <3>1 DEF ReachInv, Validating, Used
    <3>3. \A t \in Threads : Answers(t)'
      BY <3>1 DEF ReachInv, Answers, Searching
    <3>4. \A t \in Threads : Placed(t)'
      BY <3>1 DEF ReachInv, Placed, List, From, Closed
    <3> QED
      BY <3>2, <3>3, <3>4 DEF ReachInv
  <2> QED
    BY <2>1, <2>2 DEF Next, Joined
<1> QED
  BY <1>1, <1>2, ListInvariant, PTL DEF Spec

\* What list_validate has seen without locks still holds at the change: prev is in the list,
\* leads to curr and both are locked (optimistic.cpp:41-50, 81-82).
THEOREM ValidatedTheorem == KeysBetween => (Spec => []ValidatedStays)
<1> SUFFICES ASSUME KeysBetween PROVE Spec => []ValidatedStays
  OBVIOUS
<1>1. ListInv /\ Locks /\ ReachInv => ValidatedStays
  <2> SUFFICES ASSUME ListInv, Locks, ReachInv, program = "optimistic",
                      NEW t \in Threads, pc[t] = "apply"
               PROVE  /\ prev[t] \in Optimistic!Reached /\ next[prev[t]] = curr[t]
                      /\ mutex[prev[t]] = t /\ mutex[curr[t]] = t
    BY DEF ValidatedStays, Optimistic!ValidatedStays
  <2>1. Optimistic!Reached = Reached
    BY DEF Optimistic!Reached, Reached, Optimistic!Nodes, Nodes, Optimistic!head, head,
       Optimistic!tail, tail, Optimistic!NULL, NULL
  <2>2. prev[t] \in Reached
    BY ReachedIsList DEF ReachInv, Placed
  <2>3. next[prev[t]] = curr[t] /\ mutex[prev[t]] = t /\ mutex[curr[t]] = t
    BY DEF ListInv, ListType, ListTypeOK, Locks, OptimisticLocks
  <2> QED
    BY <2>1, <2>2, <2>3
<1> QED
  BY <1>1, ReachInvariant, PTL

\* All three lists are linearizable: every call of list_add, list_remove and list_contains
\* answers and changes the list as one step of the abstract set between call and return.
THEOREM LinearizableTheorem == KeysBetween => (Spec => Linearizable)
<1> SUFFICES ASSUME KeysBetween PROVE Spec => Linearizable
  OBVIOUS
<1>1. Init => Set!SetInit
  <2> SUFFICES ASSUME Init PROVE Set!SetInit
    OBVIOUS
  <2>1. /\ job = [t \in Threads |-> Set!Idle] /\ ret = [t \in Threads |-> "pending"]
        /\ next = [n \in Nodes |-> IF n = head THEN tail ELSE NULL]
    BY DEF Init, Optimistic!Init, Optimistic!ListInit, Optimistic!head, head, Optimistic!tail,
       tail, Optimistic!NULL, NULL, Optimistic!Nodes, Nodes, Optimistic!Set!Idle, Set!Idle
  <2>2. Contents = InListKeys
    BY InitInv, ContentsKeys
  <2>3. Closed(next, {head, tail})
    BY <2>1, NodeFacts DEF Closed
  <2>4. List \subseteq {head, tail}
    BY <2>3, NodeFacts, FromLeast DEF List
  <2>5. Contents = {}
    BY <2>2, <2>4 DEF InListKeys
  <2> QED
    BY <2>1, <2>5 DEF Set!SetInit
<1>2. ListInv /\ Locks /\ ReachInv /\ [Next]_vars => [Set!SetNext]_(Set!setVars)
  <2> SUFFICES ASSUME ListInv, Locks, ReachInv, [Next]_vars
               PROVE  Set!SetNext \/ UNCHANGED Set!setVars
    OBVIOUS
  <2>1. CASE \E t \in Threads : ThreadFunc(t)
    BY <2>1, ReachStep
  <2>2. CASE UNCHANGED vars
    BY <2>2 DEF vars, heapVars, callVars, walkVars, Set!setVars, Contents, Reached
  <2> QED
    BY <2>1, <2>2 DEF Next, Joined
<1> QED
  BY <1>1, <1>2, ReachInvariant, PTL DEF Spec, Linearizable, Set!SetSpec
=============================================================================
