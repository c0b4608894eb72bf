------------------------- MODULE RecLockList_proofs --------------------------
(***************************************************************************)
(* Proofs about RecLockList, for any number of connections, locks and      *)
(* transactions: only a lock whose owner has released it is cut out of the *)
(* list, put on gclist or freed; a lock that has not been released can be  *)
(* reached from the head of the list or from its appender; the stamps stay *)
(* within their bounds.                                                    *)
(*                                                                         *)
(* The first is not inductive.  A walk tests lock->state some steps     *)
(* before it cuts the lock, and the freeing thread reads its pointers from *)
(* gclist, so the invariant follows the released locks through the local   *)
(* pointers of the threads (Sound); and it says that no pointer runs ahead *)
(* of the heap (Allocated), as a pointer to a lock that is yet to be       *)
(* created would find it live again.  For the second WayInv says that a    *)
(* cut takes out released locks only, and for the third ClockInv that the  *)
(* clock counts commits, of which there are as many as transactions.       *)
(***************************************************************************)
EXTENDS RecLockList, FiniteSetTheorems, WellFoundedInduction, TLAPS

Allocated == 0..created

\* NULL, or a lock that is not, or no longer, anybody's.
Gone == {p \in Pointers : p = NULL \/ ~state[p]}

Labels == InDequeue \cup {"idle", "active", "link", "gc", "scan", "gcTail",
                          "gcHead", "collect"}
Locs == [cur : Pointers, next : Pointers, arg : Pointers, victim : Pointers,
         min : Nat \cup {MaxUlint}]

\* Where a thread stands on a lock, and where it has a next one.
AtNext == {"testCur", "testNext", "await", "casNext"}
AtCur == AtNext \cup {"testHead", "casHead", "search", "swapGc", "stamp", "linkGc"}

\* A thread at label may have the local pointers r: the locks it is about to cut
\* or free, or has cut, are released.
Sound(label, r) ==
  /\ label \in Labels /\ r \in Locs
  /\ {r.cur, r.next, r.arg, r.victim} \subseteq Allocated
  /\ r.victim \in Gone
  /\ label \in {"casHead", "collect"} => r.cur \in Gone
  /\ label \in {"await", "casNext"} => r.next \in Gone
  /\ label \in AtCur => r.cur # NULL
  /\ label \in AtNext => r.next # NULL

HeapType ==
  /\ created \in 0..MaxLocks
  /\ state \in [Locks -> BOOLEAN]
  /\ hash \in [Locks -> Allocated] /\ gc_hash \in [Locks -> Allocated \cap Gone]
  /\ {head, tail, gchead, gctail} \subseteq Allocated /\ {gchead, gctail} \subseteq Gone
  /\ freed \subseteq Allocated \cap Gone

RelInv ==
  /\ HeapType
  /\ sys_timestamp \in Nat /\ trx_timestamp \in [Trxs -> Nat]
  /\ pc \in [Trxs -> Labels] /\ loc \in [Trxs -> Locs]
  /\ \A t \in Trxs : Sound(pc[t], loc[t])

-----------------------------------------------------------------------------
\* Pointers are numbers, and the allocated ones are pointers.
LEMMA PointerFacts ==
  ASSUME created \in 0..MaxLocks
  PROVE  /\ \A p \in Pointers : p # NULL => p \in Locks
         /\ Allocated \subseteq Pointers /\ NULL \in Allocated /\ NULL \in Gone
         /\ Locks \subseteq Pointers
BY RecLockAssumption DEF Locks, Pointers, NULL, Allocated, Gone

\* A thread that has no pointers is sound.
LEMMA NoLocalsSound ==
  ASSUME created \in 0..MaxLocks, NEW label \in Labels, label \notin AtCur
  PROVE  Sound(label, NoLocals) /\ NoLocals \in Locs
BY PointerFacts DEF Sound, NoLocals, Locs, AtCur

\* The server starts with an empty list and no locks.
LEMMA RelInit == Init => RelInv
<1> SUFFICES ASSUME Init PROVE RelInv
  OBVIOUS
<1>1. created \in 0..MaxLocks
  BY RecLockAssumption DEF Init
<1>2. "idle" \in Labels \ AtCur
  BY DEF Labels, AtCur, AtNext
<1>3. HeapType
  BY <1>1, PointerFacts DEF Init, HeapType
<1> QED
  BY <1>1, <1>2, <1>3, NoLocalsSound DEF Init, RelInv

\* A step of t that only moves t to a sound place.
LEMMA LocalStep ==
  ASSUME RelInv, NEW t \in Trxs, NEW label, NEW r, Sound(label, r),
         pc' = [pc EXCEPT ![t] = label], loc' = [loc EXCEPT ![t] = r],
         UNCHANGED <<listVars, gc_hash, gchead, gctail, freed, created>>,
         sys_timestamp' \in Nat, trx_timestamp' \in [Trxs -> Nat]
  PROVE  RelInv'
<1>1. Allocated' = Allocated /\ Gone' = Gone
  BY DEF listVars, Allocated, Gone
<1>2. HeapType'
  BY <1>1 DEF RelInv, HeapType, listVars
<1>3. \A l, s : Sound(l, s)' <=> Sound(l, s)
  BY <1>1 DEF Sound
<1>4. /\ \A u \in Trxs : u # t => loc'[u] = loc[u] /\ pc'[u] = pc[u]
      /\ loc'[t] = r /\ pc'[t] = label
      /\ pc' \in [Trxs -> Labels] /\ loc' \in [Trxs -> Locs]
  BY DEF RelInv, Sound
<1> QED
  BY <1>2, <1>3, <1>4 DEF RelInv

\* What a step of t can rely on.
LEMMA Facts ==
  ASSUME RelInv, NEW t \in Trxs
  PROVE  /\ loc[t] \in Locs /\ pc[t] \in Labels /\ Sound(pc[t], loc[t])
         /\ loc = [loc EXCEPT ![t] = loc[t]] /\ pc = [pc EXCEPT ![t] = pc[t]]
         /\ sys_timestamp \in Nat /\ trx_timestamp \in [Trxs -> Nat]
         /\ \A l \in Locks : hash[l] \in Allocated /\ gc_hash[l] \in Allocated \cap Gone
         /\ {head, tail, gchead, gctail} \subseteq Allocated
         /\ {gchead, gctail} \subseteq Gone
         /\ NULL \in Allocated \cap Gone /\ Allocated \subseteq Pointers
         /\ \A p \in Pointers : p # NULL => p \in Locks
BY PointerFacts DEF RelInv, HeapType

\* The steps of the walk that read the list, or stop at a failed assertion.
LEMMA WalkSteps ==
  ASSUME RelInv, NEW t \in Trxs,
         ReadHead(t) \/ TestHead(t) \/ ReadNext(t) \/ TestCur(t) \/ TestNext(t) \/ Await(t)
  PROVE  RelInv'
<1> USE DEF At, Goto
<1> DEFINE c == loc[t].cur
           n == loc[t].next
<1>0. Sound(pc[t], loc[t])
  BY Facts
<1>1. /\ UNCHANGED <<listVars, gc_hash, gchead, gctail, freed, created>>
      /\ sys_timestamp' \in Nat /\ trx_timestamp' \in [Trxs -> Nat]
  BY Facts DEF ReadHead, TestHead, ReadNext, TestCur, TestNext, Await,
               gcVars, collectVars, trxVars
<1>2. AtCur \subseteq Labels
  BY DEF Labels, InDequeue, AtCur, AtNext
<1>3. CASE UNCHANGED <<pc, loc>>
  BY <1>0, <1>1, <1>3, Facts, LocalStep
<1>4. CASE ReadHead(t) /\ head # NULL
  <2> DEFINE r == [NoLocals EXCEPT !.cur = head]
  <2>1. r \in Locs /\ r.cur = head /\ r.next = NULL /\ r.arg = NULL /\ r.victim = NULL
    BY Facts DEF NoLocals, Locs
  <2>2. pc' = [pc EXCEPT ![t] = "testHead"] /\ loc' = [loc EXCEPT ![t] = r]
    BY <1>4 DEF ReadHead
  <2> HIDE DEF r
  <2>3. Sound("testHead", r)
    BY <1>2, <1>4, <2>1, Facts DEF Sound, AtCur, AtNext
  <2> QED
    BY <1>1, <2>2, <2>3, LocalStep
<1>5. CASE TestHead(t) /\ state[c]
  <2>1. pc' = [pc EXCEPT ![t] = "search"] /\ UNCHANGED loc /\ pc[t] = "testHead"
    BY <1>5 DEF TestHead
  <2>2. Sound("search", loc[t])
    BY <1>0, <1>2, <2>1 DEF Sound, AtCur, AtNext
  <2> QED
    BY <1>1, <2>1, <2>2, Facts, LocalStep
<1>6. CASE TestHead(t) /\ ~state[c]
  <2> DEFINE r == [loc[t] EXCEPT !.arg = hash[c]]
  <2>1. /\ pc' = [pc EXCEPT ![t] = "casHead"] /\ loc' = [loc EXCEPT ![t] = r]
        /\ pc[t] = "testHead"
    BY <1>6 DEF TestHead
  <2>2. c \in Locks /\ hash[c] \in Allocated /\ c \in Gone
    BY <1>0, <1>6, <2>1, Facts DEF Sound, AtCur, Gone
  <2>3. /\ r \in Locs /\ r.cur = c /\ r.arg = hash[c]
        /\ r.next = n /\ r.victim = loc[t].victim
    BY <2>2, Facts DEF Locs
  <2> HIDE DEF r
  <2>4. Sound("casHead", r)
    BY <1>0, <1>2, <2>1, <2>2, <2>3 DEF Sound, AtCur, AtNext
  <2> QED
    BY <1>1, <2>1, <2>4, LocalStep
<1>7. CASE ReadNext(t) /\ hash[c] # NULL
  <2> DEFINE r == [loc[t] EXCEPT !.next = hash[c]]
  <2>1. /\ pc' = [pc EXCEPT ![t] = "testCur"] /\ loc' = [loc EXCEPT ![t] = r]
        /\ pc[t] = "search"
    BY <1>7 DEF ReadNext
  <2>2. hash[c] \in Allocated
    BY <1>0, <2>1, Facts DEF Sound, AtCur
  <2>3. /\ r \in Locs /\ r.cur = c /\ r.next = hash[c]
        /\ r.arg = loc[t].arg /\ r.victim = loc[t].victim
    BY <2>2, Facts DEF Locs
  <2> HIDE DEF r
  <2>4. Sound("testCur", r)
    BY <1>0, <1>2, <1>7, <2>1, <2>2, <2>3 DEF Sound, AtCur, AtNext
  <2> QED
    BY <1>1, <2>1, <2>4, LocalStep
<1>8. CASE (TestCur(t) /\ ~state[c]) \/ (TestNext(t) /\ state[n])
  <2> DEFINE r == [loc[t] EXCEPT !.cur = n]
  <2>1. /\ pc' = [pc EXCEPT ![t] = "search"] /\ loc' = [loc EXCEPT ![t] = r]
        /\ pc[t] \in {"testCur", "testNext"}
    BY <1>8 DEF TestCur, TestNext
  <2>2. /\ r \in Locs /\ r.cur = n /\ r.next = n
        /\ r.arg = loc[t].arg /\ r.victim = loc[t].victim
    BY Facts DEF Locs
  <2> HIDE DEF r
  <2>3. Sound("search", r)
    BY <1>0, <1>2, <2>1, <2>2 DEF Sound, AtCur, AtNext
  <2> QED
    BY <1>1, <2>1, <2>3, LocalStep
<1>9. CASE (TestCur(t) /\ state[c]) \/ (TestNext(t) /\ ~state[n])
  <2>1. /\ UNCHANGED loc
        /\ \/ pc[t] = "testCur" /\ pc' = [pc EXCEPT ![t] = "testNext"]
           \/ pc[t] = "testNext" /\ ~state[n] /\ pc' = [pc EXCEPT ![t] = "await"]
    BY <1>9 DEF TestCur, TestNext
  <2>2. pc[t] = "testCur" => Sound("testNext", loc[t])
    BY <1>0, <1>2 DEF Sound, AtCur, AtNext
  <2>3. pc[t] = "testNext" /\ ~state[n] => Sound("await", loc[t])
    BY <1>0, <1>2, Facts DEF Sound, AtCur, AtNext, Gone
  <2> QED
    BY <1>1, <2>1, <2>2, <2>3, Facts, LocalStep
<1>10. CASE Await(t)
  <2> DEFINE r == [loc[t] EXCEPT !.arg = hash[n]]
  <2>1. /\ pc' = [pc EXCEPT ![t] = "casNext"] /\ loc' = [loc EXCEPT ![t] = r]
        /\ pc[t] = "await"
    BY <1>10 DEF Await
  <2>2. hash[n] \in Allocated
    BY <1>0, <2>1, Facts DEF Sound, AtNext
  <2>3. /\ r \in Locs /\ r.next = n /\ r.arg = hash[n]
        /\ r.cur = c /\ r.victim = loc[t].victim
    BY <2>2, Facts DEF Locs
  <2> HIDE DEF r
  <2>4. Sound("casNext", r)
    BY <1>0, <1>2, <2>1, <2>2, <2>3 DEF Sound, AtCur, AtNext
  <2> QED
    BY <1>1, <2>1, <2>4, LocalStep
<1>11. (ReadHead(t) /\ head = NULL) \/ (ReadNext(t) /\ hash[c] = NULL)
       => UNCHANGED <<pc, loc>>
  BY DEF ReadHead, ReadNext
<1> QED
  BY <1>3, <1>4, <1>5, <1>6, <1>7, <1>8, <1>9, <1>10, <1>11

\* Transactions begin and commit; a thread gets ready to free locks, and walks
\* along gclist or leaves it.
LEMMA CollectSteps ==
  ASSUME RelInv, NEW t \in Trxs,
         \/ Start(t) \/ Commit(t) \/ Stamp(t) \/ TryCollect(t) \/ EndCollect(t)
         \/ Scan(t) \/ ReadGcTail(t) \/ ReadGcHead(t) \/ Keep(t)
  PROVE  RelInv'
<1> USE DEF At, Goto
<1>0. Sound(pc[t], loc[t])
  BY Facts
<1>1. /\ UNCHANGED <<listVars, gc_hash, gchead, gctail, freed, created>>
      /\ sys_timestamp' \in Nat /\ trx_timestamp' \in [Trxs -> Nat]
  BY Facts DEF Start, Commit, Stamp, TryCollect, EndCollect, Finish, Scan,
               ReadGcTail, ReadGcHead, Keep, gcVars, collectVars, trxVars
<1>2. {"active", "idle", "head", "linkGc", "scan", "gcTail", "gcHead", "collect"}
        \subseteq Labels
  BY DEF Labels, InDequeue
<1>3. CASE Start(t) \/ Commit(t) \/ Stamp(t) \/ (TryCollect(t) /\ ~gclist_state)
  <2>1. /\ UNCHANGED loc
        /\ \/ \E label \in {"active", "idle", "head", "scan"} :
                pc' = [pc EXCEPT ![t] = label]
           \/ pc[t] = "stamp" /\ pc' = [pc EXCEPT ![t] = "linkGc"]
    BY <1>3 DEF Start, Commit, Stamp, TryCollect
  <2>2. \A label \in {"active", "idle", "head", "scan"} : Sound(label, loc[t])
    BY <1>0, <1>2 DEF Sound, AtCur, AtNext
  <2>3. pc[t] = "stamp" => Sound("linkGc", loc[t])
    BY <1>0, <1>2 DEF Sound, AtCur, AtNext
  <2> QED
    BY <1>1, <2>1, <2>2, <2>3, Facts, LocalStep
<1>4. CASE (TryCollect(t) /\ gclist_state) \/ EndCollect(t)
  <2>1. pc' = [pc EXCEPT ![t] = "idle"] /\ loc' = [loc EXCEPT ![t] = NoLocals]
    BY <1>4 DEF TryCollect, EndCollect, Finish
  <2>2. Sound("idle", NoLocals)
    BY <1>2, NoLocalsSound DEF AtCur, AtNext, RelInv, HeapType
  <2> QED
    BY <1>1, <2>1, <2>2, LocalStep
<1>5. CASE Scan(t)
  <2> DEFINE m == IF FirstTrx \in Running THEN trx_timestamp[FirstTrx] ELSE MaxUlint
             r == [loc[t] EXCEPT !.min = m]
  <2>1. pc' = [pc EXCEPT ![t] = "gcTail"] /\ loc' = [loc EXCEPT ![t] = r]
    BY <1>5 DEF Scan
  <2>2. m \in Nat \cup {MaxUlint}
    BY RecLockAssumption, Facts
  <2>3. /\ r \in Locs /\ r.cur = loc[t].cur /\ r.next = loc[t].next
        /\ r.arg = loc[t].arg /\ r.victim = loc[t].victim
    BY <2>2, Facts DEF Locs
  <2> HIDE DEF r
  <2>4. Sound("gcTail", r)
    BY <1>0, <1>2, <2>3 DEF Sound, AtCur, AtNext
  <2> QED
    BY <1>1, <2>1, <2>4, LocalStep
<1>6. CASE ReadGcTail(t)
  <2> DEFINE r == [loc[t] EXCEPT !.arg = gctail]
  <2>1. pc' = [pc EXCEPT ![t] = "gcHead"] /\ loc' = [loc EXCEPT ![t] = r]
    BY <1>6 DEF ReadGcTail
  <2>2. /\ r \in Locs /\ r.cur = loc[t].cur /\ r.next = loc[t].next
        /\ r.arg = gctail /\ r.victim = loc[t].victim
    BY Facts DEF Locs
  <2> HIDE DEF r
  <2>3. Sound("gcHead", r)
    BY <1>0, <1>2, <2>2, Facts DEF Sound, AtCur, AtNext
  <2> QED
    BY <1>1, <2>1, <2>3, LocalStep
<1>7. CASE ReadGcHead(t)
  <2> DEFINE r == [loc[t] EXCEPT !.cur = gchead]
  <2>1. pc' = [pc EXCEPT ![t] = "collect"] /\ loc' = [loc EXCEPT ![t] = r]
    BY <1>7 DEF ReadGcHead
  <2>2. /\ r \in Locs /\ r.cur = gchead /\ r.next = loc[t].next
        /\ r.arg = loc[t].arg /\ r.victim = loc[t].victim
    BY Facts DEF Locs
  <2> HIDE DEF r
  <2>3. Sound("collect", r)
    BY <1>0, <1>2, <2>2, Facts DEF Sound, AtCur, AtNext
  <2> QED
    BY <1>1, <2>1, <2>3, LocalStep
<1>8. CASE Keep(t)
  <2> DEFINE c == loc[t].cur
             r == [loc[t] EXCEPT !.next = c, !.cur = gc_hash[c]]
  <2>1. /\ UNCHANGED pc /\ loc' = [loc EXCEPT ![t] = r]
        /\ pc[t] = "collect" /\ c # NULL
    BY <1>8 DEF Keep, AtEnd
  <2>2. c \in Allocated /\ c \in Pointers /\ gc_hash[c] \in Allocated \cap Gone
    BY <1>0, <2>1, Facts DEF Sound
  <2>3. /\ r \in Locs /\ r.cur = gc_hash[c] /\ r.next = c
        /\ r.arg = loc[t].arg /\ r.victim = loc[t].victim
    BY <2>2, Facts DEF Locs
  <2> HIDE DEF r
  <2>4. Sound("collect", r)
    BY <1>0, <1>2, <2>2, <2>3 DEF Sound, AtCur, AtNext
  <2> QED
    BY <1>1, <2>1, <2>4, Facts, LocalStep
<1>9. TryCollect(t) => gclist_state \/ ~gclist_state
  OBVIOUS
<1> QED
  BY <1>3, <1>4, <1>5, <1>6, <1>7, <1>8, <1>9

\* The steps that write the list, gclist or the heap, and leave lock->state and
\* the set of allocated locks alone.
LEMMA WriteStep ==
  ASSUME RelInv, NEW t \in Trxs, NEW label, NEW r, Sound(label, r),
         pc' = [pc EXCEPT ![t] = label], loc' = [loc EXCEPT ![t] = r],
         UNCHANGED <<state, created, sys_timestamp, trx_timestamp>>,
         hash' \in [Locks -> Allocated], gc_hash' \in [Locks -> Allocated \cap Gone],
         {head', tail', gchead', gctail'} \subseteq Allocated,
         {gchead', gctail'} \subseteq Gone, freed' \subseteq Allocated \cap Gone
  PROVE  RelInv'
<1>1. Allocated' = Allocated /\ Gone' = Gone
  BY DEF Allocated, Gone
<1>2. HeapType'
  BY <1>1 DEF RelInv, HeapType
<1>3. \A l, s : Sound(l, s)' <=> Sound(l, s)
  BY <1>1 DEF Sound
<1>4. /\ \A u \in Trxs : u # t => loc'[u] = loc[u] /\ pc'[u] = pc[u]
      /\ loc'[t] = r /\ pc'[t] = label
      /\ pc' \in [Trxs -> Labels] /\ loc' \in [Trxs -> Locs]
  BY DEF RelInv, Sound
<1> QED
  BY <1>2, <1>3, <1>4 DEF RelInv

\* The two cuts, and the steps that put what was cut on gclist.
LEMMA CutSteps ==
  ASSUME RelInv, NEW t \in Trxs,
         CasHead(t) \/ CasNext(t) \/ SwapGc(t) \/ LinkGc(t)
  PROVE  RelInv'
<1> USE DEF At, Goto
<1> DEFINE c == loc[t].cur
           n == loc[t].next
           a == loc[t].arg
           v == loc[t].victim
<1>0. Sound(pc[t], loc[t])
  BY Facts
<1>1. UNCHANGED <<state, created, freed, sys_timestamp, trx_timestamp, tail>>
  BY DEF CasHead, CasNext, SwapGc, LinkGc, listVars, gcVars, collectVars, trxVars
<1>2. {"rehead", "swapGc", "search", "stamp"} \subseteq Labels
  BY DEF Labels, InDequeue
<1>3. /\ hash \in [Locks -> Allocated] /\ gc_hash \in [Locks -> Allocated \cap Gone]
      /\ {head, tail, gchead, gctail} \subseteq Allocated
      /\ {gchead, gctail} \subseteq Gone /\ freed \subseteq Allocated \cap Gone
      /\ {c, n, a, v} \subseteq Allocated /\ v \in Gone
  BY <1>0 DEF RelInv, HeapType, Sound
<1>4. CASE CasHead(t)
  <2>0. pc[t] = "casHead" /\ UNCHANGED <<hash, gc_hash, gchead, gctail>>
    BY <1>4 DEF CasHead, gcVars
  <2>1. CASE head = c
    <3> DEFINE r == [loc[t] EXCEPT !.victim = c]
    <3>1. /\ pc' = [pc EXCEPT ![t] = "swapGc"] /\ loc' = [loc EXCEPT ![t] = r]
          /\ head' = a
      BY <1>4, <2>1 DEF CasHead
    <3>2. r \in Locs /\ r.cur = c /\ r.next = n /\ r.arg = a /\ r.victim = c
      BY Facts DEF Locs
    <3> HIDE DEF r
    <3>3. Sound("swapGc", r)
      BY <1>0, <1>2, <2>0, <3>2 DEF Sound, AtCur, AtNext
    <3>4. {head', tail', gchead', gctail'} \subseteq Allocated
      BY <1>1, <1>3, <2>0, <3>1
    <3> QED
      BY <1>1, <1>3, <2>0, <3>1, <3>3, <3>4, WriteStep
  <2>2. CASE head # c
    <3>1. pc' = [pc EXCEPT ![t] = "rehead"] /\ UNCHANGED <<head, loc>>
      BY <1>4, <2>2 DEF CasHead
    <3>2. Sound("rehead", loc[t])
      BY <1>0, <1>2, <2>0 DEF Sound, AtCur, AtNext
    <3> QED
      BY <1>1, <1>3, <2>0, <3>1, <3>2, Facts, WriteStep
  <2> QED
    BY <2>1, <2>2
<1>5. CASE CasNext(t)
  <2>0. pc[t] = "casNext" /\ UNCHANGED <<head, gc_hash, gchead, gctail>>
    BY <1>5 DEF CasNext, gcVars
  <2>1. CASE hash[c] = n
    <3> DEFINE r == [loc[t] EXCEPT !.victim = n]
    <3>1. /\ pc' = [pc EXCEPT ![t] = "swapGc"] /\ loc' = [loc EXCEPT ![t] = r]
          /\ hash' = [hash EXCEPT ![c] = a]
      BY <1>5, <2>1 DEF CasNext
    <3>2. r \in Locs /\ r.cur = c /\ r.next = n /\ r.arg = a /\ r.victim = n
      BY Facts DEF Locs
    <3> HIDE DEF r
    <3>3. Sound("swapGc", r)
      BY <1>0, <1>2, <2>0, <3>2 DEF Sound, AtCur, AtNext
    <3>4. hash' \in [Locks -> Allocated]
      BY <1>3, <3>1
    <3> QED
      BY <1>1, <1>3, <2>0, <3>1, <3>3, <3>4, WriteStep
  <2>2. CASE hash[c] # n
    <3>1. pc' = [pc EXCEPT ![t] = "search"] /\ UNCHANGED <<hash, loc>>
      BY <1>5, <2>2 DEF CasNext
    <3>2. Sound("search", loc[t])
      BY <1>0, <1>2, <2>0 DEF Sound, AtCur, AtNext
    <3> QED
      BY <1>1, <1>3, <2>0, <3>1, <3>2, Facts, WriteStep
  <2> QED
    BY <2>1, <2>2
<1>6. CASE SwapGc(t)
  <2> DEFINE r == [loc[t] EXCEPT !.arg = gctail]
  <2>1. /\ pc' = [pc EXCEPT ![t] = "stamp"] /\ loc' = [loc EXCEPT ![t] = r]
        /\ pc[t] = "swapGc" /\ gctail' = v /\ UNCHANGED <<head, hash, gc_hash, gchead>>
    BY <1>6 DEF SwapGc, listVars
  <2>2. r \in Locs /\ r.cur = c /\ r.next = n /\ r.arg = gctail /\ r.victim = v
    BY <1>3, Facts DEF Locs
  <2> HIDE DEF r
  <2>3. Sound("stamp", r)
    BY <1>0, <1>2, <1>3, <2>1, <2>2 DEF Sound, AtCur, AtNext
  <2>4. /\ {head', tail', gchead', gctail'} \subseteq Allocated
        /\ {gchead', gctail'} \subseteq Gone
    BY <1>1, <1>3, <2>1
  <2> QED
    BY <1>1, <1>3, <2>1, <2>3, <2>4, WriteStep
<1>7. CASE LinkGc(t)
  <2> DEFINE r == [loc[t] EXCEPT !.next = NULL, !.arg = NULL, !.victim = NULL]
             label == IF v = c THEN "rehead" ELSE "search"
  <2>1. /\ pc' = [pc EXCEPT ![t] = label] /\ loc' = [loc EXCEPT ![t] = r]
        /\ pc[t] = "linkGc" /\ UNCHANGED <<head, hash, gctail>>
    BY <1>7 DEF LinkGc, listVars
  <2>2. r \in Locs /\ r.cur = c /\ r.next = NULL /\ r.arg = NULL /\ r.victim = NULL
    BY Facts DEF Locs
  <2> HIDE DEF r
  <2>3. Sound(label, r)
    BY <1>0, <1>2, <2>1, <2>2, Facts DEF Sound, AtCur, AtNext
  <2>4. gc_hash' \in [Locks -> Allocated \cap Gone] /\ gchead' \in Allocated \cap Gone
    BY <1>3, <1>7 DEF LinkGc
  <2> HIDE DEF label
  <2> QED
    BY <1>1, <1>3, <2>1, <2>3, <2>4, WriteStep
<1> QED
  BY <1>4, <1>5, <1>6, <1>7

\* The two ways of freeing a lock on gclist.
LEMMA FreeSteps ==
  ASSUME RelInv, NEW t \in Trxs, FreeHead(t) \/ FreeMiddle(t)
  PROVE  RelInv'
<1> DEFINE c == loc[t].cur
           g == gc_hash[c]
           r == [loc[t] EXCEPT !.cur = g]
<1>0. Sound(pc[t], loc[t])
  BY Facts
<1>1. /\ UNCHANGED <<listVars, gctail, created, sys_timestamp, trx_timestamp, pc>>
      /\ pc[t] = "collect" /\ c # NULL /\ loc' = [loc EXCEPT ![t] = r]
      /\ freed' = freed \cup {c}
      /\ \/ UNCHANGED gc_hash /\ gchead' = g
         \/ UNCHANGED gchead /\ gc_hash' = [gc_hash EXCEPT ![loc[t].next] = g]
  BY DEF FreeHead, FreeMiddle, At, AtEnd, trxVars
<1>2. c \in Allocated \cap Gone /\ c \in Locks /\ g \in Allocated \cap Gone
  BY <1>0, <1>1, Facts DEF Sound
<1>3. /\ r \in Locs /\ r.cur = g /\ r.next = loc[t].next
      /\ r.arg = loc[t].arg /\ r.victim = loc[t].victim
  BY <1>2, Facts DEF Locs
<1> HIDE DEF r, g
<1>4. Sound("collect", r)
  BY <1>0, <1>1, <1>2, <1>3 DEF Sound, AtCur, AtNext
<1>5. /\ hash' \in [Locks -> Allocated] /\ gc_hash' \in [Locks -> Allocated \cap Gone]
      /\ {head', tail', gchead', gctail'} \subseteq Allocated
      /\ {gchead', gctail'} \subseteq Gone /\ freed' \subseteq Allocated \cap Gone
  BY <1>1, <1>2 DEF RelInv, HeapType, listVars
<1>6. pc' = [pc EXCEPT ![t] = "collect"]
  BY <1>1, Facts
<1> QED
  BY <1>1, <1>4, <1>5, <1>6, WriteStep DEF listVars

\* A step of t after which no more locks are live, but perhaps more allocated,
\* leaves what is sound for the others sound.
LEMMA StaysSound ==
  ASSUME RelInv, NEW t \in Trxs, NEW label, NEW r, Sound(label, r)',
         pc' = [pc EXCEPT ![t] = label], loc' = [loc EXCEPT ![t] = r],
         Allocated \subseteq Allocated', Allocated \cap Gone \subseteq Gone',
         HeapType', UNCHANGED <<sys_timestamp, trx_timestamp>>
  PROVE  RelInv'
<1>1. ASSUME NEW u \in Trxs, u # t
      PROVE  Sound(pc[u], loc[u])'
  <2>1. Sound(pc[u], loc[u]) /\ pc'[u] = pc[u] /\ loc'[u] = loc[u]
    BY <1>1, Facts DEF RelInv
  <2> QED
    BY <2>1 DEF Sound
<1>2. /\ loc'[t] = r /\ pc'[t] = label
      /\ pc' \in [Trxs -> Labels] /\ loc' \in [Trxs -> Locs]
  BY DEF RelInv, Sound
<1> QED
  BY <1>1, <1>2 DEF RelInv

\* A new lock takes the first free place of the heap, to which nothing points.
LEMMA SwapStep ==
  ASSUME RelInv, NEW t \in Trxs, Swap(t)
  PROVE  RelInv'
<1>a. PICK lock : lock = created + 1
  OBVIOUS
<1>b. PICK r : r = [loc[t] EXCEPT !.cur = lock, !.arg = tail]
  OBVIOUS
<1>c. HeapType /\ Sound(pc[t], loc[t]) /\ created < MaxLocks
  BY DEF RelInv, Swap
<1>0. lock \in Locks /\ lock \notin Allocated
  BY <1>a, <1>c, RecLockAssumption DEF HeapType, Locks, Allocated
<1>1. /\ created' = lock /\ state' = [state EXCEPT ![lock] = TRUE] /\ tail' = lock
      /\ pc' = [pc EXCEPT ![t] = "link"] /\ loc' = [loc EXCEPT ![t] = r]
      /\ UNCHANGED <<head, hash, gc_hash, gchead, gctail, freed, sys_timestamp, trx_timestamp>>
  BY <1>a, <1>b DEF Swap, project4_lock_alloc, Goto, collectVars, trxVars
<1>2. Allocated \subseteq Allocated' /\ lock \in Allocated'
  BY <1>a, <1>c, <1>1 DEF Allocated, HeapType
<1>3. Allocated \cap Gone \subseteq Gone'
  BY <1>0, <1>1, <1>c DEF Gone, Pointers, HeapType
<1>4. HeapType'
  <2>1. created' \in 0..MaxLocks /\ state' \in [Locks -> BOOLEAN]
    BY <1>0, <1>c, <1>1, RecLockAssumption DEF Locks, HeapType
  <2>2. hash' \in [Locks -> Allocated'] /\ gc_hash' \in [Locks -> (Allocated \cap Gone)']
    BY <1>c, <1>1, <1>2, <1>3 DEF HeapType
  <2> QED
    BY <1>c, <1>1, <1>2, <1>3, <2>1, <2>2 DEF HeapType
<1>5. /\ r \in Locs /\ r.cur = lock /\ r.arg = tail
      /\ r.next = loc[t].next /\ r.victim = loc[t].victim
  BY <1>b, <1>0, Facts DEF Locs, Pointers
<1>6. tail \in Allocated
  BY <1>c DEF HeapType
<1>7. Sound("link", r)'
  BY <1>c, <1>2, <1>3, <1>5, <1>6 DEF Sound, Labels, AtCur, AtNext
<1> QED
  BY <1>1, <1>2, <1>3, <1>4, <1>7, StaysSound

\* The new lock is linked.
LEMMA LinkStep ==
  ASSUME RelInv, NEW t \in Trxs, Link(t)
  PROVE  RelInv'
<1>1. /\ pc' = [pc EXCEPT ![t] = "active"] /\ loc' = [loc EXCEPT ![t] = NoLocals]
      /\ UNCHANGED <<tail, state, gc_hash, gchead, gctail, freed, created,
                     sys_timestamp, trx_timestamp>>
  BY DEF Link, Goto, gcVars, collectVars
<1>2. Sound("active", NoLocals)
  BY NoLocalsSound DEF RelInv, HeapType, Labels, AtCur, AtNext
<1>3. hash' \in [Locks -> Allocated] /\ head' \in Allocated
  BY Facts DEF Link, RelInv, HeapType, Sound
<1> QED
  BY <1>1, <1>2, <1>3, WriteStep DEF RelInv, HeapType

\* A lock is released.
LEMMA MarkStep ==
  ASSUME RelInv, NEW t \in Trxs, Mark(t)
  PROVE  RelInv'
<1> DEFINE l == in_lock(t)
<1>0. PICK label : label = IF Len(trx_locks[t]) > 1 THEN "head" ELSE "gc"
  OBVIOUS
<1>1. /\ pc' = [pc EXCEPT ![t] = label] /\ loc' = [loc EXCEPT ![t] = NoLocals]
      /\ state' = [state EXCEPT ![l] = FALSE]
      /\ UNCHANGED <<head, tail, hash, gc_hash, gchead, gctail, freed, created,
                     sys_timestamp, trx_timestamp>>
  BY <1>0 DEF Mark, Goto, gcVars, collectVars
<1>2. Allocated' = Allocated /\ Gone \subseteq Gone'
  BY <1>1 DEF Allocated, Gone, Pointers, RelInv, HeapType
<1>3. HeapType'
  <2>1. gc_hash' \in [Locks -> (Allocated \cap Gone)']
    BY <1>1, <1>2 DEF RelInv, HeapType
  <2> QED
    BY <1>1, <1>2, <2>1 DEF RelInv, HeapType
<1>4. label \in Labels /\ label \notin AtCur
  BY <1>0 DEF Labels, InDequeue, AtCur, AtNext
<1>5. Sound(label, NoLocals)'
  <2>1. Sound(label, NoLocals)
    BY <1>4, NoLocalsSound DEF RelInv, HeapType
  <2> QED
    BY <1>2, <2>1 DEF Sound
<1> QED
  BY <1>1, <1>2, <1>3, <1>5, StaysSound

-----------------------------------------------------------------------------
\* Every step keeps the invariant.
LEMMA RelNext == RelInv /\ [Next]_vars => RelInv'
<1> SUFFICES ASSUME RelInv, [Next]_vars PROVE RelInv'
  OBVIOUS
<1>1. CASE UNCHANGED vars
  BY <1>1 DEF vars, listVars, gcVars, collectVars, trxVars, RelInv, HeapType,
              Sound, Allocated, Gone
<1>2. ASSUME NEW t \in Trxs, thread(t) PROVE RelInv'
  BY <1>2, WalkSteps, CollectSteps, CutSteps, FreeSteps, SwapStep, LinkStep, MarkStep
     DEF thread
<1> QED
  BY <1>1, <1>2 DEF Next, Stopped

\* The invariant gives the property.
LEMMA RelImplies == RelInv => OnlyReleasedGo
<1> SUFFICES ASSUME RelInv, NEW l \in Locks, state[l]
             PROVE  /\ l \notin freed
                    /\ l \notin {gchead, gctail} \cup {gc_hash[k] : k \in Locks}
                    /\ \A t \in Trxs : loc[t].victim # l
  BY DEF OnlyReleasedGo
<1>1. l \notin Gone
  BY RecLockAssumption DEF Gone, Locks, NULL
<1> QED
  BY <1>1 DEF RelInv, HeapType, Sound

\* Only locks whose owner has released them are cut out of the list of the cell,
\* put on gclist or freed, whatever the threads do and in whatever order
\* (lock0lock.cc:3409, 3435-3449, 8056-8067).
THEOREM ReleasedTheorem == Spec => []OnlyReleasedGo
<1>1. RelInv /\ [Next]_vars => RelInv'
  BY RelNext
<1> QED
  BY RelInit, <1>1, RelImplies, PTL DEF Spec

-----------------------------------------------------------------------------
(* No live lock is lost.                                                   *)
(*                                                                         *)
(* Locks are numbered in the order of their tail swaps, and links lead to  *)
(* greater numbers.  No link, and no pointer a compare-and-swap is about   *)
(* to store, jumps over a live lock (Past): so a walk does not pass the    *)
(* lock it looks for, and what it cuts is never the last lock.  And a lock *)
(* that leads nowhere though others came after it has the next one still   *)
(* to be linked (Linked).                                                  *)

\* No lock between two others is live.
Past(a, b) == \A k \in Locks : a < k /\ k < b => ~state[k]

\* A link from a to b.
LeadsTo(a, b) == a < b /\ b \in Allocated /\ Past(a, b)

Linked ==
  /\ tail = created /\ \A l \in Locks : state[l] => l =< created
  /\ head # NULL => Past(NULL, head)
  /\ \A l \in Locks : hash[l] # NULL => LeadsTo(l, hash[l])
  /\ \A l \in Locks : l < created =>
       hash[l] # NULL \/ \E t \in Trxs : pc[t] = "link" /\ loc[t].arg = l /\ loc[t].cur = l + 1

\* The locks of a transaction are live, and nobody else's.
Owned ==
  /\ trx_locks \in [Trxs -> Seq(Locks)]
  /\ \A t \in Trxs : \A i \in 1..Len(trx_locks[t]) :
       state[trx_locks[t][i]] /\ trx_locks[t][i] \in Allocated
  /\ \A t, u \in Trxs : \A i \in 1..Len(trx_locks[t]), j \in 1..Len(trx_locks[u]) :
       trx_locks[t][i] = trx_locks[u][j] => t = u /\ i = j
  /\ \A t, u \in Trxs : pc[t] = "link" =>
       /\ state[loc[t].cur]
       /\ \A i \in 1..Len(trx_locks[u]) : trx_locks[u][i] # loc[t].cur
       /\ pc[u] = "link" /\ loc[u].cur = loc[t].cur => u = t
  /\ \A t \in Trxs : pc[t] \in InDequeue => trx_locks[t] # <<>>

\* Where the walk of t stands, short of the lock it looks for, and what it will store.
Fits(t, label, r) ==
  /\ label = "link" => r.cur = r.arg + 1
  /\ label \in AtCur => r.cur =< in_lock(t)
  /\ label \in AtNext => LeadsTo(r.cur, r.next) /\ r.next =< in_lock(t)
  /\ label = "casNext" => LeadsTo(r.next, r.arg)
  /\ label = "casHead" => r.arg = NULL \/ LeadsTo(r.cur, r.arg)

WayInv == Linked /\ Owned /\ \A t \in Trxs : Fits(t, pc[t], loc[t])

\* The lists are empty at first.
LEMMA WayInit == Init => WayInv
<1> SUFFICES ASSUME Init PROVE WayInv
  OBVIOUS
<1>1. Linked
  BY RecLockAssumption DEF Init, Linked, Locks, NULL
<1>2. Owned
  <2>1. trx_locks \in [Trxs -> Seq(Locks)]
    BY DEF Init
  <2>2. \A t \in Trxs : trx_locks[t] = <<>> /\ Len(trx_locks[t]) = 0 /\ pc[t] = "idle"
    BY DEF Init
  <2> QED
    BY <2>1, <2>2 DEF Owned, InDequeue
<1>3. \A t \in Trxs : pc[t] = "idle"
  BY DEF Init
<1>4. \A t \in Trxs : Fits(t, pc[t], loc[t])
  BY <1>3 DEF Fits, AtCur, AtNext
<1> QED
  BY <1>1, <1>2, <1>4 DEF WayInv

\* The walk of a thread keeps its place while the others change the list.
LEMMA FitsStays ==
  ASSUME NEW t, NEW label, NEW r, Fits(t, label, r),
         Allocated \subseteq Allocated', trx_locks'[t] = trx_locks[t],
         \A a, b \in Allocated : Past(a, b) => Past(a, b)',
         label \in AtCur => r.cur \in Allocated, label \in AtNext => r.next \in Allocated
  PROVE  Fits(t, label, r)'
<1>1. in_lock(t)' = in_lock(t)
  BY DEF in_lock
<1>2. \A a \in Allocated : \A b : LeadsTo(a, b) => LeadsTo(a, b)'
  BY DEF LeadsTo
<1>3. "casHead" \in AtCur /\ "casNext" \in AtNext /\ AtNext \subseteq AtCur
  BY DEF AtCur, AtNext
<1> QED
  BY <1>1, <1>2, <1>3 DEF Fits

\* A step of t that changes nobody's locks.
LEMMA WayWrite ==
  ASSUME RelInv, WayInv, NEW t \in Trxs, NEW label, NEW r, Fits(t, label, r), Linked',
         pc' = [pc EXCEPT ![t] = label], loc' = [loc EXCEPT ![t] = r],
         UNCHANGED <<state, created, trx_locks>>,
         pc[t] # "link", label # "link", label \in InDequeue => trx_locks[t] # <<>>
  PROVE  WayInv'
<1>1. /\ \A u \in Trxs : u # t => loc'[u] = loc[u] /\ pc'[u] = pc[u]
      /\ loc'[t] = r /\ pc'[t] = label
  BY DEF RelInv
<1>2. Allocated' = Allocated /\ \A a, b : Past(a, b)' <=> Past(a, b)
  BY DEF Allocated, Past
<1>3. \A a, b : LeadsTo(a, b)' <=> LeadsTo(a, b)
  BY <1>2 DEF LeadsTo
<1>4. \A u, l, x : Fits(u, l, x)' <=> Fits(u, l, x)
  BY <1>3 DEF Fits, in_lock
<1>5. \A u \in Trxs : Fits(u, pc[u], loc[u])'
  BY <1>1, <1>4 DEF WayInv
<1>6. \A u \in Trxs : (pc[u] = "link")' => pc[u] = "link" /\ loc'[u] = loc[u]
  BY <1>1
<1>7. \A u \in Trxs : (pc[u] \in InDequeue)' => trx_locks[u] # <<>>
  BY <1>1 DEF WayInv, Owned
<1>8. Owned
  BY DEF WayInv
<1>9. Owned'
  <2>1. \A u, v \in Trxs : (pc[u] = "link")' =>
          /\ state[loc'[u].cur]
          /\ \A i \in 1..Len(trx_locks[v]) : trx_locks[v][i] # loc'[u].cur
          /\ (pc[v] = "link" /\ loc[v].cur = loc[u].cur)' => v = u
    BY <1>6, <1>8 DEF Owned
  <2>2. \A u \in Trxs : \A i \in 1..Len(trx_locks[u]) :
          state[trx_locks[u][i]] /\ trx_locks[u][i] \in Allocated'
    BY <1>2, <1>8 DEF Owned
  <2> QED
    BY <1>7, <1>8, <2>1, <2>2 DEF Owned
<1> QED
  BY <1>5, <1>9 DEF WayInv

\* A step of t that leaves the list alone too.
LEMMA WayLocal ==
  ASSUME RelInv, WayInv, NEW t \in Trxs, NEW label, NEW r, Fits(t, label, r),
         pc' = [pc EXCEPT ![t] = label], loc' = [loc EXCEPT ![t] = r],
         UNCHANGED <<head, tail, hash, state, created, trx_locks>>,
         pc[t] # "link", label # "link", label \in InDequeue => trx_locks[t] # <<>>
  PROVE  WayInv'
<1>1. \A u \in Trxs : pc[u] = "link" => loc'[u] = loc[u] /\ pc'[u] = pc[u]
  BY DEF RelInv
<1>2. \A a, b : Past(a, b)' <=> Past(a, b)
  BY DEF Past
<1>3. \A a, b : LeadsTo(a, b)' <=> LeadsTo(a, b)
  BY <1>2 DEF LeadsTo, Allocated
<1>4. Linked'
  BY <1>1, <1>2, <1>3 DEF WayInv, Linked
<1> QED
  BY <1>4, WayWrite

\* The lock a transaction is releasing is live, and a walk can rely on it.
LEMMA InLockFacts ==
  ASSUME RelInv, WayInv, NEW t \in Trxs, pc[t] \in InDequeue
  PROVE  /\ in_lock(t) \in Locks /\ in_lock(t) \in Allocated /\ state[in_lock(t)]
         /\ trx_locks[t] # <<>>
         /\ \A a \in Allocated : \A b \in Allocated :
              a < in_lock(t) /\ Past(a, b) => b =< in_lock(t)
<1>1. trx_locks[t] \in Seq(Locks) /\ trx_locks[t] # <<>>
  BY DEF WayInv, Owned
<1>2. Len(trx_locks[t]) \in 1..Len(trx_locks[t])
  BY <1>1
<1>3. in_lock(t) \in Locks
  BY <1>1, <1>2 DEF in_lock
<1>4. in_lock(t) \in Allocated /\ state[in_lock(t)]
  BY <1>2 DEF in_lock, WayInv, Owned
<1>5. ASSUME NEW a \in Allocated, NEW b \in Allocated, a < in_lock(t), Past(a, b)
      PROVE  b =< in_lock(t)
  BY <1>3, <1>4, <1>5, RecLockAssumption DEF Past, Allocated, Locks, RelInv, HeapType
<1> QED
  BY <1>1, <1>3, <1>4, <1>5

\* What is sound is in the heap.
LEMMA SoundFacts ==
  ASSUME RelInv, WayInv, NEW t \in Trxs
  PROVE  /\ loc[t] \in Locs /\ Sound(pc[t], loc[t]) /\ Fits(t, pc[t], loc[t])
         /\ Allocated \subseteq Nat /\ Allocated \subseteq Pointers
         /\ {loc[t].cur, loc[t].next, loc[t].arg, loc[t].victim} \subseteq Allocated
         /\ \A p \in Pointers : p # NULL => p \in Locks
         /\ \A l \in Locks : hash[l] \in Allocated /\ (hash[l] # NULL => LeadsTo(l, hash[l]))
BY Facts DEF RelInv, HeapType, WayInv, Sound, Allocated, Linked

\* Jumping over the next lock, which is not live, jumps over no live lock.
LEMMA PastTrans ==
  ASSUME NEW a \in Nat, NEW b \in Nat, NEW c \in Nat, Past(a, b), Past(b, c),
         b \in Gone
  PROVE  Past(a, c)
<1> SUFFICES ASSUME NEW k \in Locks, a < k, k < c PROVE ~state[k]
  BY DEF Past
<1>1. k \in Nat /\ k # NULL
  BY RecLockAssumption DEF Locks, NULL
<1>2. k < b \/ k = b \/ b < k
  BY <1>1
<1> QED
  BY <1>1, <1>2 DEF Past, Gone

\* The walk reads on, and never passes the lock it looks for: that one is live, and
\* no link jumps over it.
LEMMA WayWalk ==
  ASSUME RelInv, WayInv, NEW t \in Trxs,
         ReadHead(t) \/ TestHead(t) \/ ReadNext(t) \/ TestCur(t) \/ TestNext(t) \/ Await(t)
  PROVE  WayInv'
<1> USE DEF At, Goto
<1> DEFINE c == loc[t].cur
           n == loc[t].next
           l == in_lock(t)
<1>0. Fits(t, pc[t], loc[t]) /\ Sound(pc[t], loc[t])
  BY SoundFacts
<1>1. /\ UNCHANGED <<head, tail, hash, state, created, trx_locks>>
      /\ pc[t] # "link" /\ pc[t] \in InDequeue
  BY DEF ReadHead, TestHead, ReadNext, TestCur, TestNext, Await, listVars, trxVars, InDequeue
<1>2. /\ l \in Locks /\ l \in Allocated /\ state[l] /\ trx_locks[t] # <<>>
      /\ \A a \in Allocated : \A b \in Allocated : a < l /\ Past(a, b) => b =< l
  BY <1>1, InLockFacts
<1>3. /\ Allocated \subseteq Nat /\ c \in Allocated /\ n \in Allocated
      /\ \A p \in Pointers : p # NULL => p \in Locks
      /\ Allocated \subseteq Pointers /\ l # NULL
  BY <1>2, SoundFacts, RecLockAssumption DEF Locks, NULL
<1> HIDE DEF l
<1>4. CASE UNCHANGED <<pc, loc>>
  BY <1>0, <1>1, <1>2, <1>4, Facts, WayLocal
<1>5. CASE ReadHead(t) /\ head # NULL
  <2> DEFINE r == [NoLocals EXCEPT !.cur = head]
  <2>1. pc' = [pc EXCEPT ![t] = "testHead"] /\ loc' = [loc EXCEPT ![t] = r]
    BY <1>5 DEF ReadHead
  <2>2. r.cur = head
    BY DEF NoLocals
  <2>3. head =< l
    <3>1. head \in Allocated /\ NULL \in Allocated /\ Past(NULL, head)
      BY <1>5, Facts DEF WayInv, Linked
    <3>2. NULL < l
      BY <1>2, <1>3 DEF NULL
    <3> QED
      BY <1>2, <3>1, <3>2
  <2> HIDE DEF r
  <2>4. Fits(t, "testHead", r)
    BY <2>2, <2>3 DEF Fits, AtNext, l
  <2> QED
    BY <1>1, <1>2, <2>1, <2>4, WayLocal
<1>6. CASE TestHead(t) /\ state[c]
  <2>1. pc' = [pc EXCEPT ![t] = "search"] /\ UNCHANGED loc /\ pc[t] = "testHead"
    BY <1>6 DEF TestHead
  <2>2. Fits(t, "search", loc[t])
    BY <1>0, <2>1 DEF Fits, AtCur, AtNext
  <2> QED
    BY <1>1, <1>2, <2>1, <2>2, Facts, WayLocal
<1>7. CASE TestHead(t) /\ ~state[c]
  <2> DEFINE r == [loc[t] EXCEPT !.arg = hash[c]]
  <2>1. /\ pc' = [pc EXCEPT ![t] = "casHead"] /\ loc' = [loc EXCEPT ![t] = r]
        /\ pc[t] = "testHead"
    BY <1>7 DEF TestHead
  <2>2. c \in Locks
    BY <1>0, <1>3, <2>1 DEF Sound, AtCur
  <2>3. hash[c] = NULL \/ LeadsTo(c, hash[c])
    BY <2>2, SoundFacts
  <2>4. r.cur = c /\ r.arg = hash[c]
    BY Facts DEF Locs
  <2> HIDE DEF r
  <2>5. Fits(t, "casHead", r)
    BY <1>0, <2>1, <2>3, <2>4 DEF Fits, AtCur, AtNext
  <2> QED
    BY <1>1, <1>2, <2>1, <2>5, WayLocal
<1>8. CASE ReadNext(t) /\ hash[c] # NULL
  <2> DEFINE r == [loc[t] EXCEPT !.next = hash[c]]
  <2>1. /\ pc' = [pc EXCEPT ![t] = "testCur"] /\ loc' = [loc EXCEPT ![t] = r]
        /\ pc[t] = "search" /\ c # l
    BY <1>8 DEF ReadNext, l
  <2>2. c \in Locks
    BY <1>0, <1>3, <2>1 DEF Sound, AtCur
  <2>3. LeadsTo(c, hash[c]) /\ hash[c] \in Allocated
    BY <1>8, <2>2, SoundFacts
  <2>4. c < l
    BY <1>0, <1>2, <1>3, <2>1 DEF Fits, AtCur, l
  <2>5. hash[c] =< l
    BY <1>2, <1>3, <2>3, <2>4 DEF LeadsTo
  <2>6. r.cur = c /\ r.next = hash[c]
    BY Facts DEF Locs
  <2> HIDE DEF r
  <2>7. Fits(t, "testCur", r)
    BY <1>0, <2>1, <2>3, <2>5, <2>6 DEF Fits, AtCur, AtNext, l
  <2> QED
    BY <1>1, <1>2, <2>1, <2>7, WayLocal
<1>9. CASE (TestCur(t) /\ ~state[c]) \/ (TestNext(t) /\ state[n])
  <2> DEFINE r == [loc[t] EXCEPT !.cur = n]
  <2>1. /\ pc' = [pc EXCEPT ![t] = "search"] /\ loc' = [loc EXCEPT ![t] = r]
        /\ pc[t] \in {"testCur", "testNext"}
    BY <1>9 DEF TestCur, TestNext
  <2>2. r.cur = n
    BY Facts DEF Locs
  <2> HIDE DEF r
  <2>3. Fits(t, "search", r)
    BY <1>0, <2>1, <2>2 DEF Fits, AtCur, AtNext
  <2> QED
    BY <1>1, <1>2, <2>1, <2>3, WayLocal
<1>10. CASE (TestCur(t) /\ state[c]) \/ (TestNext(t) /\ ~state[n])
  <2>1. /\ UNCHANGED loc /\ pc[t] \in {"testCur", "testNext"}
        /\ \E label \in {"testNext", "await"} : pc' = [pc EXCEPT ![t] = label]
    BY <1>10 DEF TestCur, TestNext
  <2>2. \A label \in {"testNext", "await"} : Fits(t, label, loc[t])
    BY <1>0, <2>1 DEF Fits, AtCur, AtNext
  <2> QED
    BY <1>1, <1>2, <2>1, <2>2, Facts, WayLocal
<1>11. CASE Await(t)
  <2> DEFINE r == [loc[t] EXCEPT !.arg = hash[n]]
  <2>1. /\ pc' = [pc EXCEPT ![t] = "casNext"] /\ loc' = [loc EXCEPT ![t] = r]
        /\ pc[t] = "await" /\ (hash[n] # NULL \/ tail = n)
    BY <1>11 DEF Await
  <2>2. n \in Locks /\ ~state[n] /\ n =< l
    BY <1>0, <1>3, <2>1 DEF Sound, Fits, AtNext, Gone, l
  <2>3. tail # n
    <3>1. n # l /\ l =< created /\ tail = created
      BY <1>2, <2>2 DEF Allocated, WayInv, Linked
    <3> QED
      BY <1>2, <1>3, <2>2, <3>1 DEF Allocated, RelInv, HeapType
  <2>4. LeadsTo(n, hash[n])
    BY <2>1, <2>2, <2>3, SoundFacts
  <2>5. r.next = n /\ r.arg = hash[n] /\ r.cur = c
    BY Facts DEF Locs
  <2> HIDE DEF r
  <2>6. Fits(t, "casNext", r)
    BY <1>0, <2>1, <2>4, <2>5 DEF Fits, AtCur, AtNext
  <2> QED
    BY <1>1, <1>2, <2>1, <2>6, WayLocal
<1>12. (ReadHead(t) /\ head = NULL) \/ (ReadNext(t) /\ hash[c] = NULL)
       => UNCHANGED <<pc, loc>>
  BY DEF ReadHead, ReadNext
<1> QED
  BY <1>4, <1>5, <1>6, <1>7, <1>8, <1>9, <1>10, <1>11, <1>12

\* The steps outside a walk that leave the list alone.
LEMMA WayCollect ==
  ASSUME RelInv, WayInv, NEW t \in Trxs,
         \/ Start(t) \/ Commit(t) \/ TryCollect(t) \/ EndCollect(t)
         \/ Scan(t) \/ ReadGcTail(t) \/ ReadGcHead(t) \/ Keep(t) \/ FreeHead(t) \/ FreeMiddle(t)
  PROVE  WayInv'
<1> USE DEF At, Goto
<1>1. UNCHANGED <<head, tail, hash, state, created, trx_locks>> /\ pc[t] # "link"
  BY DEF Start, Commit, TryCollect, EndCollect, Finish, Scan, ReadGcTail, ReadGcHead,
         Keep, FreeHead, FreeMiddle, listVars, trxVars
<1>2. pc = [pc EXCEPT ![t] = pc[t]] /\ loc = [loc EXCEPT ![t] = loc[t]]
  BY Facts
<1>3. PICK label \in {"idle", "active", "head", "gc", "scan", "gcTail", "gcHead", "collect"} :
        pc' = [pc EXCEPT ![t] = label] /\ (label = "head" => trx_locks[t] # <<>>)
  BY <1>2 DEF Start, Commit, TryCollect, EndCollect, Finish, Scan, ReadGcTail, ReadGcHead,
              Keep, FreeHead, FreeMiddle
<1>4. PICK r : loc' = [loc EXCEPT ![t] = r]
  <2>1. CASE Start(t) \/ Commit(t) \/ TryCollect(t) \/ EndCollect(t)
    BY <1>2, <2>1 DEF Start, Commit, TryCollect, EndCollect, Finish
  <2>2. CASE Scan(t)
    <3>1. PICK m : m = IF FirstTrx \in Running THEN trx_timestamp[FirstTrx] ELSE MaxUlint
      OBVIOUS
    <3>2. PICK x : x = [loc[t] EXCEPT !.min = m]
      OBVIOUS
    <3>3. loc' = [loc EXCEPT ![t] = x]
      BY <2>2, <3>1, <3>2 DEF Scan
    <3> QED
      BY <3>3
  <2>3. CASE ReadGcTail(t) \/ ReadGcHead(t) \/ Keep(t) \/ FreeHead(t) \/ FreeMiddle(t)
    <3> DEFINE c == loc[t].cur
    <3>1. \/ loc' = [loc EXCEPT ![t] = [loc[t] EXCEPT !.arg = gctail]]
          \/ loc' = [loc EXCEPT ![t] = [loc[t] EXCEPT !.cur = gchead]]
          \/ loc' = [loc EXCEPT ![t] = [loc[t] EXCEPT !.next = c, !.cur = gc_hash[c]]]
          \/ loc' = [loc EXCEPT ![t] = [loc[t] EXCEPT !.cur = gchead']]
          \/ loc' = [loc EXCEPT ![t] = [loc[t] EXCEPT !.cur = gc_hash[c]]]
      BY <2>3 DEF ReadGcTail, ReadGcHead, Keep, FreeHead, FreeMiddle
    <3> QED
      BY <3>1, Zenon
  <2> QED
    BY <2>1, <2>2, <2>3
<1>5. Fits(t, label, r)
  BY <1>3 DEF Fits, AtCur, AtNext
<1> QED
  BY <1>1, <1>3, <1>4, <1>5, WayLocal DEF InDequeue

\* What was cut is put on gclist; the walk goes on from where it stood.
LEMMA WayGc ==
  ASSUME RelInv, WayInv, NEW t \in Trxs, SwapGc(t) \/ Stamp(t) \/ LinkGc(t)
  PROVE  WayInv'
<1> USE DEF At, Goto
<1>1. /\ UNCHANGED <<head, tail, hash, state, created, trx_locks>>
      /\ pc[t] \in {"swapGc", "stamp", "linkGc"}
  BY DEF SwapGc, Stamp, LinkGc, listVars, trxVars
<1>2. PICK label \in {"stamp", "linkGc", "rehead", "search"} : pc' = [pc EXCEPT ![t] = label]
  BY DEF SwapGc, Stamp, LinkGc
<1>3. PICK r : loc' = [loc EXCEPT ![t] = r] /\ r.cur = loc[t].cur
  <2> DEFINE r1 == [loc[t] EXCEPT !.arg = gctail]
             r2 == [loc[t] EXCEPT !.next = NULL, !.arg = NULL, !.victim = NULL]
  <2>1. r1.cur = loc[t].cur /\ r2.cur = loc[t].cur
    BY Facts DEF Locs
  <2>2. \/ loc' = [loc EXCEPT ![t] = r1] \/ loc' = [loc EXCEPT ![t] = r2]
        \/ loc' = [loc EXCEPT ![t] = loc[t]]
    BY Facts DEF SwapGc, Stamp, LinkGc
  <2> QED
    BY <2>1, <2>2
<1>4. Fits(t, label, r)
  BY <1>1, <1>2, <1>3, SoundFacts DEF Fits, AtCur, AtNext
<1>5. trx_locks[t] # <<>>
  BY <1>1, InLockFacts DEF InDequeue
<1> QED
  BY <1>1, <1>2, <1>3, <1>4, <1>5, WayLocal

\* The cut at the head: what the list begins with afterwards lies behind a lock that
\* is not live and was the first.
LEMMA WayCasHead ==
  ASSUME RelInv, WayInv, NEW t \in Trxs, CasHead(t)
  PROVE  WayInv'
<1> USE DEF At, Goto
<1> DEFINE c == loc[t].cur
           a == loc[t].arg
<1>0. Fits(t, pc[t], loc[t]) /\ Sound(pc[t], loc[t]) /\ pc[t] = "casHead"
  BY SoundFacts DEF CasHead
<1>1. UNCHANGED <<tail, hash, state, created, trx_locks>>
  BY DEF CasHead, trxVars
<1>2. trx_locks[t] # <<>>
  BY <1>0, InLockFacts DEF InDequeue
<1>3. CASE head = c
  <2> DEFINE r == [loc[t] EXCEPT !.victim = c]
  <2>1. pc' = [pc EXCEPT ![t] = "swapGc"] /\ loc' = [loc EXCEPT ![t] = r] /\ head' = a
    BY <1>3 DEF CasHead
  <2>2. r.cur = c
    BY Facts DEF Locs
  <2> HIDE DEF r
  <2>3. Fits(t, "swapGc", r)
    BY <1>0, <2>2 DEF Fits, AtCur, AtNext
  <2>4. a # NULL => Past(NULL, a)
    <3> SUFFICES ASSUME a # NULL PROVE Past(NULL, a)
      OBVIOUS
    <3>1. c \in Gone /\ c # NULL /\ c \in Nat /\ a \in Nat /\ NULL \in Nat
      BY <1>0, SoundFacts DEF Sound, AtCur, NULL
    <3>2. Past(NULL, c) /\ Past(c, a)
      BY <1>0, <1>3, <3>1 DEF WayInv, Linked, Fits, LeadsTo
    <3> HIDE DEF c, a
    <3> QED
      BY <3>1, <3>2, PastTrans
  <2>5. \A u \in Trxs : pc[u] = "link" => loc'[u] = loc[u] /\ pc'[u] = pc[u]
    BY <1>0, <2>1 DEF RelInv
  <2>6. \A x, y : (Past(x, y)' <=> Past(x, y)) /\ (LeadsTo(x, y)' <=> LeadsTo(x, y))
    BY <1>1 DEF Past, LeadsTo, Allocated
  <2>7. Linked'
    BY <1>1, <2>1, <2>4, <2>5, <2>6 DEF WayInv, Linked
  <2> QED
    BY <1>0, <1>1, <1>2, <2>1, <2>3, <2>7, WayWrite
<1>4. CASE head # c
  <2>1. pc' = [pc EXCEPT ![t] = "rehead"] /\ UNCHANGED <<head, loc>>
    BY <1>4 DEF CasHead
  <2>2. Fits(t, "rehead", loc[t])
    BY DEF Fits, AtCur, AtNext
  <2> QED
    BY <1>0, <1>1, <1>2, <2>1, <2>2, Facts, WayLocal
<1> QED
  BY <1>3, <1>4

\* The cut inside the list: cur_lock leads to what next_lock led to.
LEMMA WayCasNext ==
  ASSUME RelInv, WayInv, NEW t \in Trxs, CasNext(t)
  PROVE  WayInv'
<1> USE DEF At, Goto
<1> DEFINE c == loc[t].cur
           n == loc[t].next
           a == loc[t].arg
<1>0. Fits(t, pc[t], loc[t]) /\ Sound(pc[t], loc[t]) /\ pc[t] = "casNext"
  BY SoundFacts DEF CasNext
<1>1. UNCHANGED <<head, tail, state, created, trx_locks>>
  BY DEF CasNext, trxVars
<1>2. trx_locks[t] # <<>>
  BY <1>0, InLockFacts DEF InDequeue
<1>3. CASE hash[c] = n
  <2> DEFINE r == [loc[t] EXCEPT !.victim = n]
  <2>1. /\ pc' = [pc EXCEPT ![t] = "swapGc"] /\ loc' = [loc EXCEPT ![t] = r]
        /\ hash' = [hash EXCEPT ![c] = a]
    BY <1>3 DEF CasNext
  <2>2. r.cur = c
    BY Facts DEF Locs
  <2> HIDE DEF r
  <2>3. Fits(t, "swapGc", r)
    BY <1>0, <2>2 DEF Fits, AtCur, AtNext
  <2>4. LeadsTo(c, a)
    <3>1. n \in Gone /\ c \in Nat /\ n \in Nat /\ a \in Nat
      BY <1>0, SoundFacts DEF Sound
    <3>2. LeadsTo(c, n) /\ LeadsTo(n, a)
      BY <1>0 DEF Fits, AtNext
    <3> HIDE DEF c, n, a
    <3>3. Past(c, a)
      BY <3>1, <3>2, PastTrans DEF LeadsTo
    <3> QED
      BY <3>1, <3>2, <3>3 DEF LeadsTo
  <2>5. \A u \in Trxs : pc[u] = "link" => loc'[u] = loc[u] /\ pc'[u] = pc[u]
    BY <1>0, <2>1 DEF RelInv
  <2>6. \A x, y : (Past(x, y)' <=> Past(x, y)) /\ (LeadsTo(x, y)' <=> LeadsTo(x, y))
    BY <1>1 DEF Past, LeadsTo, Allocated
  <2>7. a # NULL /\ \A l \in Locks : hash'[l] = IF l = c THEN a ELSE hash[l]
    BY <2>1, <2>4, SoundFacts DEF RelInv, HeapType, LeadsTo, NULL
  <2> HIDE DEF c, a
  <2>8. Linked'
    <3>1. \A l \in Locks : hash'[l] # NULL => LeadsTo(l, hash'[l])
      BY <2>4, <2>7 DEF WayInv, Linked
    <3>2. \A l \in Locks : hash[l] # NULL => hash'[l] # NULL
      BY <2>7
    <3> QED
      BY <1>1, <2>5, <2>6, <3>1, <3>2 DEF WayInv, Linked
  <2> QED
    BY <1>0, <1>1, <1>2, <2>1, <2>3, <2>8, WayWrite
<1>4. CASE hash[c] # n
  <2>1. pc' = [pc EXCEPT ![t] = "search"] /\ UNCHANGED <<hash, loc>>
    BY <1>4 DEF CasNext
  <2>2. Fits(t, "search", loc[t])
    BY <1>0 DEF Fits, AtCur, AtNext
  <2> QED
    BY <1>0, <1>1, <1>2, <2>1, <2>2, Facts, WayLocal
<1> QED
  BY <1>3, <1>4

\* The walks of the threads other than t keep their places.
LEMMA OthersFit ==
  ASSUME RelInv, WayInv, NEW t \in Trxs,
         \A u \in Trxs : u # t => pc'[u] = pc[u] /\ loc'[u] = loc[u] /\ trx_locks'[u] = trx_locks[u],
         Allocated \subseteq Allocated', \A a, b \in Allocated : Past(a, b) => Past(a, b)',
         Fits(t, pc[t], loc[t])'
  PROVE  (\A u \in Trxs : Fits(u, pc[u], loc[u]))'
<1> SUFFICES ASSUME NEW u \in Trxs PROVE Fits(u, pc[u], loc[u])'
  OBVIOUS
<1>1. CASE u # t
  <2>1. PICK label : label = pc[u]
    OBVIOUS
  <2>2. PICK r : r = loc[u]
    OBVIOUS
  <2>3. Fits(u, label, r) /\ r.cur \in Allocated /\ r.next \in Allocated
    BY <2>1, <2>2, SoundFacts
  <2>4. Fits(u, label, r)'
    BY <1>1, <2>3, FitsStays
  <2> QED
    BY <1>1, <2>1, <2>2, <2>4
<1> QED
  BY <1>1

\* A lock whose insertion has still to be linked is live and nobody's yet.
LEMMA PendingFacts ==
  ASSUME RelInv, WayInv, NEW u \in Trxs, pc[u] = "link"
  PROVE  /\ loc[u].arg \in Nat /\ loc[u].arg \in Allocated /\ loc[u].cur = loc[u].arg + 1
         /\ loc[u].cur \in Locks /\ loc[u].cur \in Allocated /\ state[loc[u].cur]
         /\ \A v \in Trxs : \A i \in 1..Len(trx_locks[v]) : trx_locks[v][i] # loc[u].cur
         /\ \A v \in Trxs : pc[v] = "link" /\ loc[v].cur = loc[u].cur => v = u
<1>1. loc[u].cur = loc[u].arg + 1
  BY SoundFacts DEF Fits
<1>2. loc[u].arg \in Nat /\ loc[u].arg \in Allocated /\ loc[u].cur \in Allocated
  BY SoundFacts
<1>3. \A a \in Nat : a + 1 # NULL
  BY DEF NULL
<1>4. loc[u].cur \in Locks
  BY <1>1, <1>2, <1>3, SoundFacts
<1>5. Owned
  BY DEF WayInv
<1>6. \A v \in Trxs :
        /\ state[loc[u].cur]
        /\ \A i \in 1..Len(trx_locks[v]) : trx_locks[v][i] # loc[u].cur
        /\ pc[v] = "link" /\ loc[v].cur = loc[u].cur => v = u
  BY <1>5 DEF Owned
<1> QED
  BY <1>1, <1>2, <1>4, <1>6

\* A new lock is numbered after all others, so that nothing jumps over it; until it
\* is linked, its thread holds the lock before.
LEMMA WaySwap ==
  ASSUME RelInv, WayInv, NEW t \in Trxs, Swap(t)
  PROVE  WayInv'
<1>a. PICK lock : lock = created + 1
  OBVIOUS
<1>b. PICK r : r = [loc[t] EXCEPT !.cur = lock, !.arg = tail]
  OBVIOUS
<1>c. HeapType /\ created < MaxLocks /\ Linked /\ Owned
  BY DEF RelInv, Swap, WayInv
<1>0. lock \in Locks /\ lock \notin Allocated /\ Allocated \subseteq Nat /\ created \in Nat
  BY <1>a, <1>c, RecLockAssumption DEF HeapType, Locks, Allocated
<1>1. /\ created' = lock /\ state' = [state EXCEPT ![lock] = TRUE] /\ tail' = lock
      /\ pc' = [pc EXCEPT ![t] = "link"] /\ loc' = [loc EXCEPT ![t] = r]
      /\ pc[t] = "active" /\ UNCHANGED <<head, hash, trx_locks>>
  BY <1>a, <1>b DEF Swap, At, project4_lock_alloc, Goto, trxVars
<1>2. /\ \A u \in Trxs : u # t => loc'[u] = loc[u] /\ pc'[u] = pc[u]
      /\ loc'[t] = r /\ pc'[t] = "link"
  BY <1>1 DEF RelInv
<1>3. /\ Allocated' = Allocated \cup {lock}
      /\ \A l \in Locks : state'[l] = IF l = lock THEN TRUE ELSE state[l]
  BY <1>a, <1>c, <1>0, <1>1 DEF Allocated, HeapType
<1>4. r.cur = lock /\ r.arg = created
  BY <1>b, <1>c, Facts DEF Locs, Linked
<1>5. ASSUME NEW a \in Allocated, NEW b \in Allocated, Past(a, b)
      PROVE  Past(a, b)'
  <2>1. lock \notin {k \in Locks : a < k /\ k < b}
    BY <1>a, <1>0 DEF Allocated, Locks
  <2> QED
    BY <1>3, <1>5, <2>1 DEF Past
<1>6. Linked'
  <2>1. head' # NULL => Past(NULL, head)'
    <3>1. PICK x : x = head
      OBVIOUS
    <3>2. x # NULL => Past(NULL, x)'
      BY <1>c, <1>5, <3>1, Facts DEF Linked
    <3> QED
      BY <1>1, <3>1, <3>2
  <2>2. \A l \in Locks : hash[l] # NULL => LeadsTo(l, hash[l])'
    <3> SUFFICES ASSUME NEW l \in Locks, hash[l] # NULL PROVE LeadsTo(l, hash[l])'
      OBVIOUS
    <3>1. LeadsTo(l, hash[l]) /\ hash[l] \in Allocated /\ l \in Allocated
      BY <1>0, SoundFacts, RecLockAssumption DEF LeadsTo, Allocated, Locks
    <3>2. Past(l, hash[l])'
      <4>1. PICK x : x = hash[l]
        OBVIOUS
      <4>2. Past(l, x)'
        BY <1>5, <3>1, <4>1 DEF LeadsTo
      <4> QED
        BY <1>1, <4>1, <4>2
    <3> QED
      BY <1>1, <1>3, <3>1, <3>2 DEF LeadsTo
  <2>3. ASSUME NEW l \in Locks, l < lock, hash[l] = NULL
        PROVE  \E u \in Trxs : pc'[u] = "link" /\ loc'[u].arg = l /\ loc'[u].cur = l + 1
    <3>1. CASE l = created
      BY <1>a, <1>2, <1>4, <3>1
    <3>2. CASE l < created
      <4>1. PICK u \in Trxs : pc[u] = "link" /\ loc[u].arg = l /\ loc[u].cur = l + 1
        BY <1>c, <2>3, <3>2 DEF Linked
      <4> QED
        BY <1>1, <1>2, <4>1
    <3> QED
      BY <1>a, <1>0, <2>3, <3>1, <3>2 DEF Locks
  <2>4. \A l \in Locks : state'[l] => l =< lock
    <3>1. \A l \in Locks : state[l] => l =< created
      BY <1>c DEF Linked
    <3>2. \A l \in Locks : l = lock \/ l =< created => l =< lock
      BY <1>a, <1>0, RecLockAssumption DEF Locks
    <3> QED
      BY <1>3, <3>1, <3>2
  <2> QED
    BY <1>1, <2>1, <2>2, <2>3, <2>4 DEF Linked
<1>7. Owned'
  <2>1. \A u \in Trxs : \A i \in 1..Len(trx_locks[u]) :
          /\ trx_locks[u][i] \in Locks /\ trx_locks[u][i] \in Allocated
          /\ trx_locks[u][i] # lock /\ state[trx_locks[u][i]]
    BY <1>c, <1>0 DEF Owned
  <2>2. \A u \in Trxs : \A i \in 1..Len(trx_locks[u]) :
          state'[trx_locks[u][i]] /\ trx_locks[u][i] \in Allocated'
    BY <1>3, <2>1
  <2>3. \A u \in Trxs : u # t /\ pc[u] = "link" =>
          loc[u].cur # lock /\ loc[u].cur \in Locks /\ state[loc[u].cur] /\ state'[loc[u].cur]
    <3> SUFFICES ASSUME NEW u \in Trxs, pc[u] = "link"
                 PROVE  loc[u].cur # lock /\ loc[u].cur \in Locks /\ state[loc[u].cur]
      BY <1>3
    <3> QED
      BY <1>0, PendingFacts
  <2>4. \A u, v \in Trxs : pc'[u] = "link" =>
          /\ state'[loc'[u].cur]
          /\ \A i \in 1..Len(trx_locks[v]) : trx_locks[v][i] # loc'[u].cur
          /\ pc'[v] = "link" /\ loc'[v].cur = loc'[u].cur => v = u
    <3> SUFFICES ASSUME NEW u \in Trxs, NEW v \in Trxs, pc'[u] = "link"
                 PROVE  /\ state'[loc'[u].cur]
                        /\ \A i \in 1..Len(trx_locks[v]) : trx_locks[v][i] # loc'[u].cur
                        /\ pc'[v] = "link" /\ loc'[v].cur = loc'[u].cur => v = u
      OBVIOUS
    <3>1. CASE u = t
      BY <1>0, <1>2, <1>3, <1>4, <2>1, <2>3, <3>1
    <3>2. CASE u # t
      BY <1>c, <1>2, <1>4, <2>3, <3>2 DEF Owned
    <3> QED
      BY <3>1, <3>2
  <2>5. \A u \in Trxs : pc'[u] \in InDequeue => trx_locks[u] # <<>>
    BY <1>c, <1>2 DEF Owned, InDequeue
  <2> QED
    BY <1>c, <1>1, <2>2, <2>4, <2>5 DEF Owned
<1>8. Fits(t, pc[t], loc[t])'
  <2>1. pc'[t] = "link" /\ loc'[t].cur = loc'[t].arg + 1
    BY <1>a, <1>2, <1>4
  <2> QED
    BY <2>1 DEF Fits, AtCur, AtNext
<1>9. (\A u \in Trxs : Fits(u, pc[u], loc[u]))'
  BY <1>1, <1>2, <1>3, <1>5, <1>8, OthersFit
<1> QED
  BY <1>6, <1>7, <1>9 DEF WayInv

\* The new lock is linked to the one before it, and belongs to its transaction.
LEMMA WayLink ==
  ASSUME RelInv, WayInv, NEW t \in Trxs, Link(t)
  PROVE  WayInv'
<1>a. PICK c, a, q : c = loc[t].cur /\ a = loc[t].arg /\ q = trx_locks[t]
  OBVIOUS
<1>c. HeapType /\ Linked /\ Owned /\ pc[t] = "link"
  BY DEF RelInv, Link, At, WayInv
<1>0. /\ a \in Nat /\ a \in Allocated /\ c = a + 1 /\ c \in Locks /\ c \in Allocated
      /\ a # NULL => a \in Locks
  BY <1>a, <1>c, PendingFacts, SoundFacts
<1>1. /\ pc' = [pc EXCEPT ![t] = "active"] /\ loc' = [loc EXCEPT ![t] = NoLocals]
      /\ trx_locks' = [trx_locks EXCEPT ![t] = Append(q, c)]
      /\ UNCHANGED <<tail, state, created>>
      /\ a = NULL => head' = c /\ hash' = hash
      /\ a # NULL => hash' = [hash EXCEPT ![a] = c] /\ head' = head
  BY <1>a DEF Link, Goto
<1>2. /\ \A u \in Trxs : u # t => /\ loc'[u] = loc[u] /\ pc'[u] = pc[u]
                                  /\ trx_locks'[u] = trx_locks[u]
      /\ pc'[t] = "active" /\ trx_locks'[t] = Append(q, c)
  BY <1>c, <1>1 DEF RelInv, Owned
<1>3. /\ Allocated' = Allocated
      /\ \A x, y : (Past(x, y)' <=> Past(x, y)) /\ (LeadsTo(x, y)' <=> LeadsTo(x, y))
  BY <1>1 DEF Allocated, Past, LeadsTo
<1>4. LeadsTo(a, c)
  BY <1>0, RecLockAssumption DEF LeadsTo, Past, Locks
<1>5. Linked'
  <2>1. head' # NULL => Past(NULL, head')
    BY <1>c, <1>1, <1>4 DEF Linked, LeadsTo
  <2>2. \A l \in Locks : hash'[l] = IF l = a THEN c ELSE hash[l]
    BY <1>c, <1>0, <1>1, RecLockAssumption DEF HeapType, Locks, NULL
  <2>3. \A l \in Locks : hash'[l] # NULL => LeadsTo(l, hash'[l])
    BY <1>c, <1>4, <2>2 DEF Linked
  <2>4. ASSUME NEW l \in Locks, l < created, hash'[l] = NULL
        PROVE  \E u \in Trxs : pc'[u] = "link" /\ loc'[u].arg = l /\ loc'[u].cur = l + 1
    <3>1. l # a /\ hash[l] = NULL
      BY <1>0, <2>2, <2>4, RecLockAssumption DEF Locks, NULL
    <3>2. PICK u \in Trxs : pc[u] = "link" /\ loc[u].arg = l /\ loc[u].cur = l + 1
      BY <1>c, <2>4, <3>1 DEF Linked
    <3> QED
      BY <1>a, <1>2, <3>1, <3>2
  <2> QED
    BY <1>c, <1>1, <1>3, <2>1, <2>3, <2>4 DEF Linked
<1>6. Owned'
  <2>1. q \in Seq(Locks)
    BY <1>a, <1>c DEF Owned
  <2>2. /\ Append(q, c) \in Seq(Locks) /\ Len(Append(q, c)) = Len(q) + 1 /\ Len(q) \in Nat
        /\ \A i \in 1..Len(q) : Append(q, c)[i] = q[i]
        /\ Append(q, c)[Len(q) + 1] = c
    BY <1>0, <2>1
  <2>3. trx_locks' \in [Trxs -> Seq(Locks)]
    BY <1>c, <1>1, <2>2 DEF Owned
  <2>4. \A u \in Trxs : \A i \in 1..Len(trx_locks'[u]) :
          \/ i \in 1..Len(trx_locks[u]) /\ trx_locks'[u][i] = trx_locks[u][i]
          \/ u = t /\ i = Len(q) + 1 /\ trx_locks'[u][i] = c
    BY <1>a, <1>2, <2>2
  <2>5. /\ state[c] /\ c \in Allocated
        /\ \A u \in Trxs : \A i \in 1..Len(trx_locks[u]) : trx_locks[u][i] # c
        /\ \A u \in Trxs : pc[u] = "link" /\ loc[u].cur = c => u = t
    BY <1>a, <1>c, PendingFacts
  <2>6. \A u \in Trxs : \A i \in 1..Len(trx_locks'[u]) :
          state[trx_locks'[u][i]] /\ trx_locks'[u][i] \in Allocated
    BY <1>c, <2>4, <2>5 DEF Owned
  <2>7. \A u, v \in Trxs : \A i \in 1..Len(trx_locks'[u]), j \in 1..Len(trx_locks'[v]) :
          trx_locks'[u][i] = trx_locks'[v][j] => u = v /\ i = j
    <3> SUFFICES ASSUME NEW u \in Trxs, NEW v \in Trxs, NEW i \in 1..Len(trx_locks'[u]),
                        NEW j \in 1..Len(trx_locks'[v]), trx_locks'[u][i] = trx_locks'[v][j]
                 PROVE  u = v /\ i = j
      OBVIOUS
    <3>1. \/ i \in 1..Len(trx_locks[u]) /\ trx_locks'[u][i] = trx_locks[u][i]
          \/ u = t /\ i = Len(q) + 1 /\ trx_locks'[u][i] = c
      BY <2>4
    <3>2. \/ j \in 1..Len(trx_locks[v]) /\ trx_locks'[v][j] = trx_locks[v][j]
          \/ v = t /\ j = Len(q) + 1 /\ trx_locks'[v][j] = c
      BY <2>4
    <3> QED
      BY <1>c, <2>5, <3>1, <3>2 DEF Owned
  <2>8. \A u, v \in Trxs : pc'[u] = "link" =>
          /\ state[loc'[u].cur]
          /\ \A i \in 1..Len(trx_locks'[v]) : trx_locks'[v][i] # loc'[u].cur
          /\ pc'[v] = "link" /\ loc'[v].cur = loc'[u].cur => v = u
    <3> SUFFICES ASSUME NEW u \in Trxs, NEW v \in Trxs, pc'[u] = "link"
                 PROVE  /\ state[loc'[u].cur]
                        /\ \A i \in 1..Len(trx_locks'[v]) : trx_locks'[v][i] # loc'[u].cur
                        /\ pc'[v] = "link" /\ loc'[v].cur = loc'[u].cur => v = u
      OBVIOUS
    <3>1. u # t /\ pc[u] = "link" /\ loc'[u] = loc[u]
      BY <1>2
    <3>2. loc[u].cur # c /\ state[loc[u].cur]
      BY <2>5, <3>1, PendingFacts
    <3>3. \A i \in 1..Len(trx_locks'[v]) : trx_locks'[v][i] # loc'[u].cur
      BY <2>4, <3>1, <3>2, PendingFacts
    <3>4. pc'[v] = "link" /\ loc'[v].cur = loc'[u].cur => v = u
      BY <1>2, <3>1, PendingFacts
    <3> QED
      BY <3>1, <3>2, <3>3, <3>4
  <2>9. \A u \in Trxs : pc'[u] \in InDequeue => trx_locks'[u] # <<>>
    BY <1>c, <1>2 DEF Owned, InDequeue
  <2> QED
    BY <1>1, <1>3, <2>3, <2>6, <2>7, <2>8, <2>9 DEF Owned
<1>7. Fits(t, pc[t], loc[t])'
  BY <1>2 DEF Fits, AtCur, AtNext
<1>8. (\A u \in Trxs : Fits(u, pc[u], loc[u]))'
  BY <1>2, <1>3, <1>7, OthersFit
<1> QED
  BY <1>5, <1>6, <1>8 DEF WayInv

\* The lock that is released is no longer among the transaction's.
LEMMA WayMark ==
  ASSUME RelInv, WayInv, NEW t \in Trxs, Mark(t)
  PROVE  WayInv'
<1>a. PICK l, q : l = in_lock(t) /\ q = trx_locks[t]
  OBVIOUS
<1>c. HeapType /\ Linked /\ Owned /\ pc[t] = "search"
  BY DEF RelInv, Mark, At, WayInv
<1>d. PICK label : label = IF Len(q) > 1 THEN "head" ELSE "gc"
  OBVIOUS
<1>0. /\ l \in Locks /\ q \in Seq(Locks) /\ q # <<>> /\ Len(q) \in Nat \ {0} /\ l = q[Len(q)]
  BY <1>a, <1>c, InLockFacts DEF Owned, InDequeue, in_lock
<1>1. /\ pc' = [pc EXCEPT ![t] = label] /\ loc' = [loc EXCEPT ![t] = NoLocals]
      /\ state' = [state EXCEPT ![l] = FALSE]
      /\ trx_locks' = [trx_locks EXCEPT ![t] = SubSeq(q, 1, Len(q) - 1)]
      /\ UNCHANGED <<head, tail, hash, created>>
  BY <1>a, <1>d DEF Mark, Goto
<1>2. /\ \A u \in Trxs : u # t => /\ loc'[u] = loc[u] /\ pc'[u] = pc[u]
                                  /\ trx_locks'[u] = trx_locks[u]
      /\ pc'[t] = label /\ trx_locks'[t] = SubSeq(q, 1, Len(q) - 1)
      /\ pc[t] # "link" /\ label # "link" /\ label \notin AtCur /\ label \notin AtNext
  BY <1>c, <1>d, <1>1 DEF RelInv, Owned, AtCur, AtNext
<1>3. /\ Allocated' = Allocated
      /\ \A k \in Locks : state'[k] = IF k = l THEN FALSE ELSE state[k]
  BY <1>c, <1>0, <1>1 DEF Allocated, HeapType
<1>4. \A x, y : (Past(x, y) => Past(x, y)') /\ (LeadsTo(x, y) => LeadsTo(x, y)')
  BY <1>3 DEF Past, LeadsTo
<1>5. Linked'
  <2>1. head # NULL => Past(NULL, head)'
    <3>1. PICK x : x = head
      OBVIOUS
    <3>2. x # NULL => Past(NULL, x)'
      BY <1>c, <1>4, <3>1 DEF Linked
    <3> QED
      BY <1>1, <3>1, <3>2
  <2>2. \A k \in Locks : hash[k] # NULL => LeadsTo(k, hash[k])'
    <3> SUFFICES ASSUME NEW k \in Locks, hash[k] # NULL PROVE LeadsTo(k, hash[k])'
      OBVIOUS
    <3>1. PICK x : x = hash[k]
      OBVIOUS
    <3>2. LeadsTo(k, x)'
      BY <1>c, <1>4, <3>1 DEF Linked
    <3> QED
      BY <1>1, <3>1, <3>2
  <2>3. \A u \in Trxs : pc[u] = "link" => pc'[u] = "link" /\ loc'[u] = loc[u]
    BY <1>2
  <2> QED
    BY <1>c, <1>1, <2>1, <2>2, <2>3 DEF Linked
<1>6. Owned'
  <2>1. PICK s : s = SubSeq(q, 1, Len(q) - 1)
    OBVIOUS
  <2>2. /\ s \in Seq(Locks) /\ Len(s) = Len(q) - 1
        /\ \A i \in 1..Len(s) : s[i] = q[i] /\ i \in 1..Len(q) /\ i # Len(q)
    <3>1. Len(q) - 1 \in Nat /\ Len(q) - 1 =< Len(q)
      BY <1>0
    <3>2. s = [i \in 1..(Len(q) - 1) |-> q[i]]
      BY <1>0, <2>1, <3>1
    <3> QED
      BY <1>0, <3>1, <3>2
  <2>3. trx_locks' \in [Trxs -> Seq(Locks)]
    BY <1>c, <1>1, <2>1, <2>2 DEF Owned
  <2>4. \A u \in Trxs : \A i \in 1..Len(trx_locks'[u]) :
          /\ i \in 1..Len(trx_locks[u]) /\ trx_locks'[u][i] = trx_locks[u][i]
          /\ u = t => i # Len(q)
    BY <1>a, <1>2, <2>1, <2>2
  <2>5. \A u \in Trxs : \A i \in 1..Len(trx_locks[u]) :
          trx_locks[u][i] = l => u = t /\ i = Len(q)
    <3>1. Len(q) \in 1..Len(trx_locks[t]) /\ l = trx_locks[t][Len(q)]
      BY <1>a, <1>0
    <3> QED
      BY <1>c, <3>1 DEF Owned
  <2>6. \A u \in Trxs : \A i \in 1..Len(trx_locks'[u]) :
          state'[trx_locks'[u][i]] /\ trx_locks'[u][i] \in Allocated
    <3> SUFFICES ASSUME NEW u \in Trxs, NEW i \in 1..Len(trx_locks'[u])
                 PROVE  state'[trx_locks'[u][i]] /\ trx_locks'[u][i] \in Allocated
      OBVIOUS
    <3>1. /\ i \in 1..Len(trx_locks[u]) /\ trx_locks'[u][i] = trx_locks[u][i]
          /\ trx_locks[u][i] # l
      BY <2>4, <2>5
    <3>2. trx_locks[u][i] \in Locks /\ state[trx_locks[u][i]] /\ trx_locks[u][i] \in Allocated
      BY <1>c, <3>1 DEF Owned
    <3> QED
      BY <1>3, <3>1, <3>2
  <2>7. \A u, v \in Trxs : \A i \in 1..Len(trx_locks'[u]), j \in 1..Len(trx_locks'[v]) :
          trx_locks'[u][i] = trx_locks'[v][j] => u = v /\ i = j
    BY <1>c, <2>4 DEF Owned
  <2>8. \A u, v \in Trxs : pc'[u] = "link" =>
          /\ state'[loc'[u].cur]
          /\ \A i \in 1..Len(trx_locks'[v]) : trx_locks'[v][i] # loc'[u].cur
          /\ pc'[v] = "link" /\ loc'[v].cur = loc'[u].cur => v = u
    <3> SUFFICES ASSUME NEW u \in Trxs, NEW v \in Trxs, pc'[u] = "link"
                 PROVE  /\ state'[loc'[u].cur]
                        /\ \A i \in 1..Len(trx_locks'[v]) : trx_locks'[v][i] # loc'[u].cur
                        /\ pc'[v] = "link" /\ loc'[v].cur = loc'[u].cur => v = u
      OBVIOUS
    <3>1. u # t /\ pc[u] = "link" /\ loc'[u] = loc[u]
      BY <1>2
    <3>2. Len(q) \in 1..Len(trx_locks[t]) /\ l = trx_locks[t][Len(q)]
      BY <1>a, <1>0
    <3>3. state'[loc[u].cur]
      <4>1. loc[u].cur # l
        BY <3>1, <3>2, PendingFacts
      <4>2. loc[u].cur \in Locks /\ state[loc[u].cur]
        BY <3>1, PendingFacts
      <4> QED
        BY <1>3, <4>1, <4>2
    <3>4. \A i \in 1..Len(trx_locks'[v]) : trx_locks'[v][i] # loc'[u].cur
      BY <2>4, <3>1, PendingFacts
    <3>5. pc'[v] = "link" /\ loc'[v].cur = loc'[u].cur => v = u
      BY <1>2, <3>1, PendingFacts
    <3> QED
      BY <3>1, <3>3, <3>4, <3>5
  <2>9. \A u \in Trxs : pc'[u] \in InDequeue => trx_locks'[u] # <<>>
    <3>1. label \in InDequeue => s # <<>>
      <4>1. label \in InDequeue => Len(q) > 1
        BY <1>d DEF InDequeue
      <4> QED
        BY <1>0, <2>2, <4>1
    <3> QED
      BY <1>c, <1>2, <2>1, <3>1 DEF Owned
  <2> QED
    BY <1>3, <2>3, <2>6, <2>7, <2>8, <2>9 DEF Owned
<1>7. Fits(t, pc[t], loc[t])'
  BY <1>2 DEF Fits, AtCur, AtNext
<1>8. (\A u \in Trxs : Fits(u, pc[u], loc[u]))'
  BY <1>2, <1>3, <1>4, <1>7, OthersFit
<1> QED
  BY <1>5, <1>6, <1>8 DEF WayInv

\* Every step keeps the invariant.
LEMMA WayNext == RelInv /\ WayInv /\ [Next]_vars => WayInv'
<1> SUFFICES ASSUME RelInv, WayInv, [Next]_vars PROVE WayInv'
  OBVIOUS
<1>1. CASE UNCHANGED vars
  BY <1>1 DEF vars, listVars, trxVars, WayInv, Linked, Owned, Fits, LeadsTo, Past, Allocated,
              in_lock
<1>2. ASSUME NEW t \in Trxs, thread(t) PROVE WayInv'
  BY <1>2, WayWalk, WayCollect, WayGc, WayCasHead, WayCasNext, WaySwap, WayLink, WayMark
     DEF thread
<1> QED
  BY <1>1, <1>2 DEF Next, Stopped

-----------------------------------------------------------------------------
(* What Reach computes, by induction on the numbers it counts up to.       *)

\* Every set of natural numbers that is not empty has a least element.
LEMMA LeastNatural ==
  ASSUME NEW S \in SUBSET Nat, S # {}
  PROVE  \E m \in S : \A k \in S : m =< k
<1> DEFINE R == {ss \in Nat \X Nat : ss[1] < ss[2]}
<1>1. IsWellFoundedOn(R, Nat)
  BY NatLessThanWellFounded DEF OpToRel
<1>2. \A x, y \in Nat : <<y, x>> \in R <=> y < x
  OBVIOUS
<1> HIDE DEF R
<1>3. PICK x \in S : \A y \in S : ~(<<y, x>> \in R)
  BY <1>1, WFMin
<1>4. \A y \in S : ~(y < x)
  BY <1>2, <1>3
<1> QED
  BY <1>4

\* One round of Reach.
Grow(S) == S \cup ({hash[l] : l \in S} \ {NULL})

\* The recursion of Reach has a solution.
LEMMA ReachDefined ==
  ASSUME NEW base, NEW m \in Nat
  PROVE  \E f : f = [n \in 0..m |-> IF n = 0 THEN base ELSE Grow(f[n - 1])]
<1> DEFINE Ex(k) == \E f : f = [n \in 0..k |-> IF n = 0 THEN base ELSE Grow(f[n - 1])]
           Bad == {k \in Nat : ~Ex(k)}
<1> SUFFICES ASSUME Bad # {} PROVE FALSE
  OBVIOUS
<1>1. PICK k \in Bad : \A j \in Bad : k =< j
  <2>1. Bad \in SUBSET Nat
    OBVIOUS
  <2> HIDE DEF Bad
  <2> QED
    BY <2>1, LeastNatural
<1>2. Ex(0)
  <2> DEFINE f == [n \in 0..0 |-> base]
  <2>1. f = [n \in 0..0 |-> IF n = 0 THEN base ELSE Grow(f[n - 1])]
    OBVIOUS
  <2> QED
    BY <2>1
<1>3. k \in Nat \ {0} /\ k - 1 \in Nat /\ Ex(k - 1)
  <2>1. k # 0 /\ k \in Nat
    BY <1>2
  <2>2. k - 1 \in Nat /\ ~(k =< k - 1)
    BY <2>1
  <2>3. k - 1 \notin Bad
    BY <1>1, <2>2
  <2> QED
    BY <2>1, <2>2, <2>3
<1>4. PICK f : f = [n \in 0..(k - 1) |-> IF n = 0 THEN base ELSE Grow(f[n - 1])]
  BY <1>3
<1> DEFINE h == [n \in 0..k |-> IF n = k THEN Grow(f[k - 1]) ELSE f[n]]
<1>5. h = [n \in 0..k |-> IF n = 0 THEN base ELSE Grow(h[n - 1])]
  <2>1. ASSUME NEW n \in 0..k
        PROVE  h[n] = IF n = 0 THEN base ELSE Grow(h[n - 1])
    <3>1. CASE n = k
      <4>1. h[n] = Grow(f[k - 1]) /\ h[n - 1] = f[k - 1] /\ n # 0
        BY <1>3, <3>1
      <4> QED
        BY <4>1
    <3>2. CASE n # k
      <4>1. n \in 0..(k - 1)
        BY <1>3, <3>2
      <4>2. h[n] = f[n]
        BY <1>3, <3>2
      <4>3. n # 0 => h[n - 1] = f[n - 1]
        BY <1>3, <3>2
      <4>4. f[n] = IF n = 0 THEN base ELSE Grow(f[n - 1])
        BY <1>4, <4>1
      <4> QED
        BY <4>2, <4>3, <4>4
    <3> QED
      BY <3>1, <3>2
  <2> HIDE DEF h
  <2>2. h = [n \in 0..k |-> h[n]]
    BY DEF h
  <2> QED
    BY <2>1, <2>2
<1>6. Ex(k)
  BY <1>5
<1> QED
  BY <1>6

\* Reach finds its start and all that is linked to what it finds: links lead to greater
\* numbers, so MaxLocks rounds are enough.
LEMMA ReachClosed ==
  ASSUME RelInv, WayInv, NEW from \in SUBSET Pointers
  PROVE  /\ Reach(from) \subseteq Locks /\ from \ {NULL} \subseteq Reach(from)
         /\ \A x \in Reach(from) : hash[x] # NULL => hash[x] \in Reach(from)
<1> DEFINE base == from \ {NULL}
           reached == CHOOSE g : g = [n \in 0..MaxLocks |-> IF n = 0 THEN base
                        ELSE g[n - 1] \cup ({hash[l] : l \in g[n - 1]} \ {NULL})]
<1>1. Reach(from) = reached[MaxLocks]
  BY DEF Reach
<1>2. reached = [n \in 0..MaxLocks |-> IF n = 0 THEN base ELSE Grow(reached[n - 1])]
  <2>1. \E f : f = [n \in 0..MaxLocks |-> IF n = 0 THEN base ELSE Grow(f[n - 1])]
    BY ReachDefined, RecLockAssumption
  <2> QED
    BY <2>1 DEF Grow
<1> HIDE DEF reached
<1>3. \A l \in Locks : hash[l] \in Pointers /\ (hash[l] # NULL => hash[l] \in Locks /\ l < hash[l])
  <2>1. \A l \in Locks : hash[l] \in Pointers
    BY PointerFacts DEF RelInv, HeapType
  <2>2. \A l \in Locks : hash[l] # NULL => l < hash[l]
    BY DEF WayInv, Linked, LeadsTo
  <2> QED
    BY <2>1, <2>2, PointerFacts DEF RelInv, HeapType
<1>4. base \subseteq Locks /\ Locks = 1..MaxLocks /\ MaxLocks \in Nat /\ NULL = 0
  BY RecLockAssumption DEF Pointers, Locks, NULL
<1>5. /\ reached[0] = base
      /\ \A n \in 1..MaxLocks : reached[n] = Grow(reached[n - 1])
  <2> HIDE DEF base
  <2>1. \A n \in 0..MaxLocks : reached[n] = IF n = 0 THEN base ELSE Grow(reached[n - 1])
    BY <1>2
  <2> QED
    BY <1>4, <2>1
<1> DEFINE Good(n) == /\ reached[n] \subseteq Locks /\ base \subseteq reached[n]
                      /\ \A x \in reached[n] : \/ hash[x] = NULL \/ hash[x] \in reached[n]
                                               \/ n < x
           Bad == {n \in 0..MaxLocks : ~Good(n)}
<1>6. Good(0)
  BY <1>4, <1>5
<1>7. ASSUME NEW n \in 1..MaxLocks, Good(n - 1)
      PROVE  Good(n)
  <2>1. PICK S : S = reached[n - 1]
    OBVIOUS
  <2>2. reached[n] = S \cup ({hash[l] : l \in S} \ {NULL})
    BY <1>5, <2>1 DEF Grow
  <2>3. /\ S \subseteq Locks /\ base \subseteq S
        /\ \A x \in S : hash[x] = NULL \/ hash[x] \in S \/ n - 1 < x
    BY <1>7, <2>1
  <2>4. reached[n] \subseteq Locks /\ base \subseteq reached[n]
    BY <1>3, <2>2, <2>3
  <2>5. ASSUME NEW x \in reached[n], hash[x] # NULL, hash[x] \notin reached[n]
        PROVE  n < x
    <3>1. x \notin S
      BY <2>2, <2>5
    <3>2. PICK l \in S : x = hash[l] /\ x # NULL
      BY <2>2, <3>1
    <3>3. n - 1 < l /\ l < x /\ l \in Locks /\ x \in Locks
      BY <1>3, <2>3, <3>1, <3>2
    <3> QED
      BY <1>4, <3>3
  <2> QED
    BY <2>4, <2>5
<1> HIDE DEF Good
<1>8. Good(MaxLocks)
  <2>1. SUFFICES ASSUME Bad # {} PROVE FALSE
    BY <1>4
  <2>2. PICK k \in Bad : \A j \in Bad : k =< j
    <3>1. Bad \in SUBSET Nat
      OBVIOUS
    <3> HIDE DEF Bad
    <3> QED
      BY <2>1, <3>1, LeastNatural
  <2>3. k \in 1..MaxLocks /\ k - 1 \in 0..MaxLocks /\ ~(k =< k - 1)
    BY <1>4, <1>6
  <2>4. Good(k - 1)
    BY <2>2, <2>3
  <2> QED
    BY <1>7, <2>3, <2>4
<1>9. \A x \in reached[MaxLocks] : ~(MaxLocks < x)
  BY <1>4, <1>8 DEF Good
<1> QED
  BY <1>1, <1>8, <1>9 DEF Good

\* The lock before a live one that the search has got to leads on to it.
LEMMA WayImplies == RelInv /\ WayInv => LiveReachable
<1> SUFFICES ASSUME RelInv, WayInv, head # NULL, NEW l \in Locks, state[l]
             PROVE  l \in Reach({head} \cup {loc[t].cur : t \in {u \in Trxs : pc[u] = "link"}})
  BY DEF LiveReachable
<1> DEFINE from == {head} \cup {loc[t].cur : t \in {u \in Trxs : pc[u] = "link"}}
           S == Reach(from)
<1>1. from \in SUBSET Pointers
  <2>1. head \in Pointers
    BY Facts, PointerFacts DEF RelInv, HeapType
  <2>2. \A t \in Trxs : loc[t].cur \in Pointers
    BY SoundFacts
  <2> QED
    BY <2>1, <2>2
<1>2. /\ S \subseteq Locks /\ head \in S
      /\ \A t \in Trxs : pc[t] = "link" => loc[t].cur \in S
      /\ \A x \in S : hash[x] # NULL => hash[x] \in S
  <2>1. \A t \in Trxs : pc[t] = "link" => loc[t].cur # NULL /\ loc[t].cur \in from
    BY PendingFacts, RecLockAssumption DEF Locks, NULL
  <2> HIDE DEF from
  <2>2. head \in from
    BY DEF from
  <2> QED
    BY <1>1, <2>1, <2>2, ReachClosed
<1> SUFFICES ASSUME l \notin S PROVE FALSE
  OBVIOUS
<1> HIDE DEF S
<1>3. Locks \subseteq Nat /\ created \in Nat /\ l =< created
  BY RecLockAssumption DEF Locks, RelInv, HeapType, WayInv, Linked
<1>4. head =< l
  <2>1. Past(NULL, head) /\ NULL < l
    BY RecLockAssumption DEF WayInv, Linked, Locks, NULL
  <2> QED
    BY <1>2, <1>3, <2>1 DEF Past
<1> DEFINE Dist == {l - x : x \in {y \in S : y =< l}}
<1>5. Dist \in SUBSET Nat /\ l - head \in Dist
  BY <1>2, <1>3, <1>4
<1>6. PICK d \in Dist : \A e \in Dist : d =< e
  <2> HIDE DEF Dist
  <2> QED
    BY <1>5, LeastNatural
<1>7. PICK m \in S : m =< l /\ d = l - m
  OBVIOUS
<1>8. \A x \in S : x =< l => x =< m
  <2> SUFFICES ASSUME NEW x \in S, x =< l PROVE x =< m
    OBVIOUS
  <2>1. l - x \in Dist
    OBVIOUS
  <2>2. l - m =< l - x
    BY <1>6, <1>7, <2>1
  <2> QED
    BY <1>2, <1>3, <2>2
<1>9. m \in Locks /\ m < l /\ m < created
  BY <1>2, <1>3, <1>7
<1>10. CASE hash[m] # NULL
  <2>1. PICK h : h = hash[m]
    OBVIOUS
  <2>2. m < h /\ Past(m, h) /\ h \in S /\ h \in Nat
    BY <1>2, <1>3, <1>7, <1>9, <1>10, <2>1 DEF WayInv, Linked, LeadsTo
  <2>3. ~(l < h)
    BY <1>9, <2>2 DEF Past
  <2>4. h =< m
    BY <1>3, <1>8, <2>2, <2>3
  <2> QED
    BY <1>3, <1>9, <2>2, <2>4
<1>11. CASE hash[m] = NULL
  <2>1. PICK t \in Trxs : pc[t] = "link" /\ loc[t].cur = m + 1
    BY <1>9, <1>11 DEF WayInv, Linked
  <2>2. m + 1 \in S
    BY <1>2, <2>1
  <2> QED
    BY <1>3, <1>8, <1>9, <2>2
<1> QED
  BY <1>10, <1>11

\* No live lock is lost, whatever appends and cuts meet: as long as the list has a head,
\* a search from it, and from the locks still to be linked, finds every lock that is not
\* marked (lock0lock.cc:1978-1985, 3412, 3446-3449).
THEOREM LiveTheorem == Spec => []LiveReachable
<1>1. RelInv /\ WayInv /\ [Next]_vars => RelInv' /\ WayInv'
  BY RelNext, WayNext
<1> QED
  BY RelInit, WayInit, <1>1, WayImplies, PTL DEF Spec

-----------------------------------------------------------------------------
(* Type correctness.                                                       *)
(*                                                                         *)
(* The clock counts the commits.  A connection between Start and Commit    *)
(* has one to come that its budget still allows, so the clock stays below  *)
(* the sum of the budgets when a commit draws a timestamp from it.         *)

First(s) == CHOOSE x \in s : TRUE
Upto(k) == {s \in SUBSET Trxs : Cardinality(s) =< k}

\* g adds up c over the sets of connections, in the way of a fold.
Adds(c, g) ==
  g = [s \in SUBSET Trxs |-> IF s = {} THEN 0 ELSE c[First(s)] + g[s \ {First(s)}]]

Lengths == [t \in Trxs |-> Len(Budget[t])]

\* The transactions a connection has committed.
BeforeCommit == {"active", "link"}
Commits == [t \in Trxs |-> IF pc[t] \in BeforeCommit THEN started[t] - 1 ELSE started[t]]

ClockInv ==
  /\ started \in [Trxs -> Nat]
  /\ \A t \in Trxs : /\ started[t] =< Len(Budget[t])
                     /\ pc[t] \in BeforeCommit => started[t] # 0
  /\ sys_timestamp # 0
  /\ \E g : Adds(Commits, g) /\ sys_timestamp =< 1 + g[Trxs]
  /\ timestamp \in [Locks -> 0..MaxUlint] /\ trx_timestamp \in [Trxs -> 0..MaxCommits]
  /\ \A t \in Trxs : trx_timestamp[t] = 0 <=> pc[t] \in BeforeCommit \cup {"idle"}
  /\ \A t \in Trxs : loc[t].min \in 0..MaxUlint
  /\ crash \in {"no", "cur_lock", "next_lock", "null"}
  /\ gclist_state \in BOOLEAN /\ freed \subseteq Locks

\* Taking a connection out of a set of connections.
LEMMA Rest ==
  ASSUME NEW s \in SUBSET Trxs, s # {}
  PROVE  /\ First(s) \in s /\ s \ {First(s)} \in SUBSET Trxs
         /\ Cardinality(s) \in Nat \ {0}
         /\ Cardinality(s \ {First(s)}) = Cardinality(s) - 1
<1>1. First(s) \in s
  BY DEF First
<1>2. IsFiniteSet(s)
  BY RecLockAssumption, FS_Subset
<1>3. Cardinality(s) \in Nat
  BY <1>2, FS_CardinalityType
<1>4. Cardinality(s) # 0
  BY <1>2, FS_EmptySet
<1>5. Cardinality(s \ {First(s)}) = Cardinality(s) - 1
  BY <1>1, <1>2, FS_RemoveElement
<1> QED
  BY <1>1, <1>3, <1>4, <1>5

\* The recursion has a solution on the sets of up to k connections.
LEMMA SumDefined ==
  ASSUME NEW c, NEW k \in Nat
  PROVE  \E g : g = [s \in Upto(k) |->
                       IF s = {} THEN 0 ELSE c[First(s)] + g[s \ {First(s)}]]
<1> DEFINE Step(g, s) == IF s = {} THEN 0 ELSE c[First(s)] + g[s \ {First(s)}]
           Ex(m) == \E g : g = [s \in Upto(m) |-> Step(g, s)]
           Bad == {m \in Nat : ~Ex(m)}
<1> SUFFICES ASSUME Bad # {} PROVE FALSE
  OBVIOUS
<1>1. PICK m \in Bad : \A j \in Bad : m =< j
  <2>1. Bad \in SUBSET Nat
    OBVIOUS
  <2> HIDE DEF Bad
  <2> QED
    BY <2>1, LeastNatural
<1>2. Ex(0)
  <2> DEFINE g == [s \in Upto(0) |-> 0]
  <2>1. ASSUME NEW s \in Upto(0), s # {} PROVE FALSE
    <3>1. s \in SUBSET Trxs /\ Cardinality(s) =< 0
      BY DEF Upto
    <3>2. Cardinality(s) \in Nat \ {0}
      BY <2>1, <3>1, Rest
    <3> QED
      BY <3>1, <3>2
  <2>2. g = [s \in Upto(0) |-> Step(g, s)]
    BY <2>1
  <2> QED
    BY <2>2
<1>3. m \in Nat \ {0} /\ m - 1 \in Nat /\ Ex(m - 1)
  <2>1. m # 0 /\ m \in Nat
    BY <1>2
  <2>2. m - 1 \in Nat /\ ~(m =< m - 1)
    BY <2>1
  <2>3. m - 1 \notin Bad
    BY <1>1, <2>2
  <2> QED
    BY <2>1, <2>2, <2>3
<1>4. PICK f : f = [s \in Upto(m - 1) |-> Step(f, s)]
  BY <1>3
<1> DEFINE h == [s \in Upto(m) |-> Step(f, s)]
<1>5. ASSUME NEW s \in Upto(m), s # {}
      PROVE  /\ s \ {First(s)} \in Upto(m) /\ s \ {First(s)} \in Upto(m - 1)
             /\ h[s \ {First(s)}] = f[s \ {First(s)}]
  <2>1. s \ {First(s)} \in Upto(m) /\ s \ {First(s)} \in Upto(m - 1)
    BY <1>3, <1>5, Rest DEF Upto
  <2>2. PICK r : r = s \ {First(s)}
    OBVIOUS
  <2>3. h[r] = Step(f, r)
    BY <2>1, <2>2
  <2> HIDE DEF h, Step
  <2>4. f[r] = Step(f, r)
    BY <1>4, <2>1, <2>2
  <2> QED
    BY <2>1, <2>2, <2>3, <2>4
<1>6. \A s \in Upto(m) : Step(f, s) = Step(h, s)
  <2> HIDE DEF h
  <2> QED
    BY <1>5
<1>7. h = [s \in Upto(m) |-> Step(h, s)]
  <2> HIDE DEF Step
  <2>1. h = [s \in Upto(m) |-> Step(f, s)]
    OBVIOUS
  <2> HIDE DEF h
  <2> QED
    BY <1>6, <2>1
<1>8. Ex(m)
  BY <1>7
<1> QED
  BY <1>8

\* Everything can be added up.
LEMMA AddsExists == \A c : \E g : Adds(c, g)
<1> SUFFICES ASSUME NEW c PROVE \E g : Adds(c, g)
  OBVIOUS
<1> DEFINE Step(g, s) == IF s = {} THEN 0 ELSE c[First(s)] + g[s \ {First(s)}]
<1>1. PICK n \in Nat : n = Cardinality(Trxs)
  BY RecLockAssumption, FS_CardinalityType
<1>2. SUBSET Trxs = Upto(n)
  <2>1. \A s \in SUBSET Trxs : Cardinality(s) =< n
    BY <1>1, RecLockAssumption, FS_Subset
  <2> QED
    BY <2>1 DEF Upto
<1>3. PICK g : g = [s \in Upto(n) |-> Step(g, s)]
  BY SumDefined, Zenon
<1>4. g = [s \in SUBSET Trxs |-> Step(g, s)]
  <2> HIDE DEF Step
  <2> QED
    BY <1>2, <1>3
<1> QED
  BY <1>4 DEF Adds

\* A sum of natural numbers is one, it is at least each of them, and it grows with them.
LEMMA AddsCompare ==
  ASSUME NEW c \in [Trxs -> Nat], NEW d \in [Trxs -> Nat], NEW g, NEW h,
         Adds(c, g), Adds(d, h), \A t \in Trxs : c[t] =< d[t]
  PROVE  /\ g[Trxs] \in Nat /\ h[Trxs] \in Nat /\ g[Trxs] =< h[Trxs]
         /\ \A t \in Trxs : c[t] =< g[Trxs] /\ (c[t] < d[t] => g[Trxs] < h[Trxs])
<1> DEFINE Good(s) == /\ g[s] \in Nat /\ h[s] \in Nat /\ g[s] =< h[s]
                      /\ \A t \in s : c[t] =< g[s] /\ (c[t] < d[t] => g[s] < h[s])
           Bad == {k \in Nat : \E s \in SUBSET Trxs : Cardinality(s) = k /\ ~Good(s)}
<1>1. g[{}] = 0 /\ h[{}] = 0
  BY DEF Adds
<1>2. ASSUME NEW s \in SUBSET Trxs, s # {}
      PROVE  /\ g[s] = c[First(s)] + g[s \ {First(s)}]
             /\ h[s] = d[First(s)] + h[s \ {First(s)}]
  BY <1>2 DEF Adds
<1>3. Bad = {}
  <2> SUFFICES ASSUME Bad # {} PROVE FALSE
    OBVIOUS
  <2>1. PICK k \in Bad : \A j \in Bad : k =< j
    <3>1. Bad \in SUBSET Nat
      OBVIOUS
    <3> HIDE DEF Bad
    <3> QED
      BY <3>1, LeastNatural
  <2>2. PICK s \in SUBSET Trxs : Cardinality(s) = k /\ ~Good(s)
    OBVIOUS
  <2>3. s # {}
    BY <1>1, <2>2
  <2>4. PICK x, r : x = First(s) /\ r = s \ {x}
    OBVIOUS
  <2>5. /\ x \in s /\ x \in Trxs /\ r \in SUBSET Trxs
        /\ k \in Nat \ {0} /\ Cardinality(r) = k - 1
    BY <2>2, <2>3, <2>4, Rest
  <2>6. k - 1 \in Nat /\ ~(k =< k - 1)
    BY <2>5
  <2>7. Good(r)
    <3>1. k - 1 \notin Bad
      BY <2>1, <2>6
    <3> HIDE DEF Good
    <3> QED
      BY <2>5, <2>6, <3>1
  <2>8. g[s] = c[x] + g[r] /\ h[s] = d[x] + h[r]
    BY <1>2, <2>3, <2>4
  <2>9. c[x] \in Nat /\ d[x] \in Nat /\ c[x] =< d[x]
    BY <2>5
  <2>10. g[s] \in Nat /\ h[s] \in Nat /\ g[s] =< h[s]
    BY <2>7, <2>8, <2>9
  <2>11. ASSUME NEW t \in s
         PROVE  c[t] =< g[s] /\ (c[t] < d[t] => g[s] < h[s])
    <3>1. c[t] \in Nat /\ d[t] \in Nat
      OBVIOUS
    <3>2. CASE t = x
      BY <2>7, <2>8, <2>9, <3>2
    <3>3. CASE t \in r
      BY <2>7, <2>8, <2>9, <3>1, <3>3
    <3> QED
      BY <2>4, <3>2, <3>3
  <2>12. Good(s)
    BY <2>10, <2>11
  <2> QED
    BY <2>2, <2>12
<1>4. Cardinality(Trxs) \in Nat
  BY RecLockAssumption, FS_CardinalityType
<1>5. Good(Trxs)
  <2> HIDE DEF Good
  <2> QED
    BY <1>3, <1>4
<1> QED
  BY <1>5

\* MaxCommits adds up the budgets.
LEMMA MaxCommitsAdds == \E g : Adds(Lengths, g) /\ MaxCommits = g[Trxs]
<1> DEFINE Step(g, s) == IF s = {} THEN 0 ELSE Len(Budget[First(s)]) + g[s \ {First(s)}]
           Step2(g, s) == IF s = {} THEN 0 ELSE Lengths[First(s)] + g[s \ {First(s)}]
           sum == CHOOSE g : g = [s \in SUBSET Trxs |-> Step(g, s)]
<1>1. DOMAIN Budget = Trxs
  BY RecLockAssumption
<1>2. MaxCommits = sum[Trxs]
  BY <1>1 DEF MaxCommits, FoldFunction, FoldFunctionOnSet, MapThenFoldSet, First
<1>3. \A g : \A s \in SUBSET Trxs : Step(g, s) = Step2(g, s)
  BY Rest DEF Lengths
<1>4. PICK h : h = [s \in SUBSET Trxs |-> Step2(h, s)]
  BY AddsExists DEF Adds
<1>5. h = [s \in SUBSET Trxs |-> Step(h, s)]
  <2> HIDE DEF Step, Step2
  <2> QED
    BY <1>3, <1>4
<1>6. sum = [s \in SUBSET Trxs |-> Step(sum, s)]
  <2> HIDE DEF Step
  <2> QED
    BY <1>5
<1> HIDE DEF sum
<1>7. sum = [s \in SUBSET Trxs |-> Step2(sum, s)]
  <2> HIDE DEF Step, Step2
  <2> QED
    BY <1>3, <1>6
<1>8. Adds(Lengths, sum)
  BY <1>7 DEF Adds
<1> QED
  BY <1>2, <1>8

\* The bounds the clock gives.
LEMMA ClockFacts ==
  ASSUME RelInv, ClockInv
  PROVE  /\ MaxCommits \in Nat /\ sys_timestamp \in 1..(MaxCommits + 1)
         /\ \A t \in Trxs : started[t] \in 0..MaxCommits
         /\ \A t \in Trxs : pc[t] \in BeforeCommit => sys_timestamp \in 1..MaxCommits
<1>1. PICK m : Adds(Lengths, m) /\ MaxCommits = m[Trxs]
  BY MaxCommitsAdds
<1>2. PICK g : Adds(Commits, g) /\ sys_timestamp =< 1 + g[Trxs]
  BY DEF ClockInv
<1>3. Lengths \in [Trxs -> Nat] /\ \A t \in Trxs : Lengths[t] = Len(Budget[t])
  BY RecLockAssumption DEF Lengths
<1>4. /\ started \in [Trxs -> Nat] /\ sys_timestamp \in Nat \ {0}
      /\ \A t \in Trxs : /\ started[t] =< Lengths[t]
                         /\ pc[t] \in BeforeCommit => started[t] # 0
  BY <1>3 DEF ClockInv, RelInv
<1>5. PICK c : c = Commits
  OBVIOUS
<1>6. c \in [Trxs -> Nat] /\ \A t \in Trxs : c[t] =< Lengths[t]
  BY <1>3, <1>4, <1>5 DEF Commits
<1>7. \A t \in Trxs : pc[t] \in BeforeCommit => c[t] < Lengths[t]
  BY <1>3, <1>4, <1>5 DEF Commits
<1>8. /\ g[Trxs] \in Nat /\ m[Trxs] \in Nat /\ g[Trxs] =< m[Trxs]
      /\ \A t \in Trxs : c[t] < Lengths[t] => g[Trxs] < m[Trxs]
  BY <1>1, <1>2, <1>3, <1>5, <1>6, AddsCompare
<1>9. \A t \in Trxs : Lengths[t] =< m[Trxs]
  BY <1>1, <1>3, AddsCompare
<1>10. MaxCommits \in Nat /\ sys_timestamp \in 1..(MaxCommits + 1)
  BY <1>1, <1>2, <1>4, <1>8
<1>11. \A t \in Trxs : started[t] \in 0..MaxCommits
  BY <1>1, <1>3, <1>4, <1>8, <1>9
<1>12. \A t \in Trxs : pc[t] \in BeforeCommit => sys_timestamp \in 1..MaxCommits
  BY <1>1, <1>2, <1>4, <1>7, <1>8
<1> QED
  BY <1>10, <1>11, <1>12

\* At first nothing is committed.
LEMMA ClockInit == Init => ClockInv
<1> SUFFICES ASSUME Init PROVE ClockInv
  OBVIOUS
<1>1. MaxCommits \in Nat
  <2>1. PICK m : Adds(Lengths, m) /\ MaxCommits = m[Trxs]
    BY MaxCommitsAdds
  <2>2. Lengths \in [Trxs -> Nat] /\ \A t \in Trxs : Lengths[t] =< Lengths[t]
    BY RecLockAssumption DEF Lengths
  <2> QED
    BY <2>1, <2>2, AddsCompare
<1>2. PICK c : c = Commits
  OBVIOUS
<1>3. c \in [Trxs -> Nat] /\ \A t \in Trxs : c[t] =< c[t]
  BY <1>2 DEF Init, Commits, BeforeCommit
<1>4. PICK g : Adds(Commits, g)
  BY AddsExists
<1>5. g[Trxs] \in Nat
  BY <1>2, <1>3, <1>4, AddsCompare
<1>6. \E h : Adds(Commits, h) /\ sys_timestamp =< 1 + h[Trxs]
  BY <1>4, <1>5 DEF Init
<1>7. \A t \in Trxs : Budget[t] \in Seq(Nat) /\ 0 =< Len(Budget[t])
  BY RecLockAssumption
<1>8. \A t \in Trxs : loc[t].min \in 0..MaxUlint
  BY <1>1 DEF Init, NoLocals, MaxUlint
<1>9. /\ started \in [Trxs -> Nat] /\ \A t \in Trxs : started[t] = 0 /\ pc[t] = "idle"
      /\ sys_timestamp # 0 /\ crash = "no" /\ gclist_state = FALSE /\ freed = {}
  BY DEF Init
<1>10. /\ timestamp \in [Locks -> 0..MaxUlint] /\ trx_timestamp \in [Trxs -> 0..MaxCommits]
       /\ \A t \in Trxs : trx_timestamp[t] = 0
  BY <1>1 DEF Init, MaxUlint
<1> QED
  BY <1>6, <1>7, <1>8, <1>9, <1>10 DEF ClockInv, BeforeCommit

\* A step that draws no timestamp and begins or ends no transaction.
LEMMA ClockMove ==
  ASSUME RelInv, ClockInv, NEW t \in Trxs, NEW label,
         pc' = [pc EXCEPT ![t] = label],
         label \in BeforeCommit <=> pc[t] \in BeforeCommit, label # "idle", pc[t] # "idle",
         UNCHANGED <<started, sys_timestamp, trx_timestamp>>,
         timestamp' \in [Locks -> 0..MaxUlint], \A u \in Trxs : loc'[u].min \in 0..MaxUlint,
         crash' \in {"no", "cur_lock", "next_lock", "null"},
         gclist_state' \in BOOLEAN, freed' \subseteq Locks
  PROVE  ClockInv'
<1>1. \A u \in Trxs : /\ pc'[u] \in BeforeCommit <=> pc[u] \in BeforeCommit
                      /\ pc'[u] = "idle" <=> pc[u] = "idle"
  BY DEF RelInv
<1>2. Commits' = Commits
  BY <1>1 DEF Commits
<1>3. \A c, g : Adds(c, g)' <=> Adds(c, g)
  BY DEF Adds
<1>4. \E g : Adds(Commits', g) /\ sys_timestamp' =< 1 + g[Trxs]
  BY <1>2 DEF ClockInv
<1>5. (\E g : Adds(Commits, g) /\ sys_timestamp =< 1 + g[Trxs])'
  BY <1>3, <1>4
<1>6. \A u \in Trxs : trx_timestamp'[u] = 0 <=> pc'[u] \in BeforeCommit \cup {"idle"}
  BY <1>1 DEF ClockInv
<1> QED
  BY <1>1, <1>5, <1>6 DEF ClockInv

\* The steps that move no clock.
LEMMA ClockSteps ==
  ASSUME RelInv, ClockInv, NEW t \in Trxs,
         \/ Link(t) \/ ReadHead(t) \/ TestHead(t) \/ CasHead(t)
         \/ ReadNext(t) \/ TestCur(t) \/ TestNext(t) \/ Await(t) \/ CasNext(t)
         \/ SwapGc(t) \/ LinkGc(t) \/ Mark(t) \/ ReadGcTail(t) \/ ReadGcHead(t)
         \/ FreeHead(t) \/ FreeMiddle(t) \/ Keep(t)
  PROVE  ClockInv'
<1> USE DEF At, Goto
<1>1. UNCHANGED <<started, sys_timestamp, trx_timestamp, timestamp>>
  BY DEF Link, ReadHead, TestHead, CasHead, ReadNext, TestCur, TestNext, Await, CasNext,
         SwapGc, LinkGc, Mark, ReadGcTail, ReadGcHead, FreeHead, FreeMiddle, Keep,
         trxVars, gcVars
<1>2. crash' \in {"no", "cur_lock", "next_lock", "null"}
  BY DEF Link, ReadHead, TestHead, CasHead, ReadNext, TestCur, TestNext, Await, CasNext,
         SwapGc, LinkGc, Mark, ReadGcTail, ReadGcHead, FreeHead, FreeMiddle, Keep, ClockInv
<1>3. PICK label \in Labels :
        /\ pc' = [pc EXCEPT ![t] = label]
        /\ label \in BeforeCommit <=> pc[t] \in BeforeCommit
        /\ label # "idle" /\ pc[t] # "idle"
  <2>1. pc[t] \in Labels /\ pc = [pc EXCEPT ![t] = pc[t]]
    BY Facts
  <2>2. CASE Link(t)
    BY <2>2 DEF Link, Labels, BeforeCommit
  <2>3. CASE ReadHead(t) \/ TestHead(t) \/ CasHead(t)
    BY <2>1, <2>3 DEF ReadHead, TestHead, CasHead, Labels, InDequeue, BeforeCommit
  <2>4. CASE ReadNext(t) \/ TestCur(t) \/ TestNext(t) \/ Await(t) \/ CasNext(t)
    BY <2>1, <2>4 DEF ReadNext, TestCur, TestNext, Await, CasNext, Labels, InDequeue, BeforeCommit
  <2>5. CASE SwapGc(t) \/ LinkGc(t) \/ Mark(t)
    BY <2>5 DEF SwapGc, LinkGc, Mark, Labels, InDequeue, BeforeCommit
  <2>6. CASE ReadGcTail(t) \/ ReadGcHead(t) \/ FreeHead(t) \/ FreeMiddle(t) \/ Keep(t)
    BY <2>1, <2>6 DEF ReadGcTail, ReadGcHead, FreeHead, FreeMiddle, Keep, Labels, BeforeCommit
  <2> QED
    BY <2>2, <2>3, <2>4, <2>5, <2>6
<1>4. \A u \in Trxs : loc'[u].min = loc[u].min \/ loc'[u].min = 0
  <2> DEFINE c == loc[t].cur
             n == loc[t].next
             r1 == [NoLocals EXCEPT !.cur = head]
             r2 == [loc[t] EXCEPT !.arg = hash[c]]
             r3 == [loc[t] EXCEPT !.victim = c]
             r4 == [loc[t] EXCEPT !.next = hash[c]]
             r5 == [loc[t] EXCEPT !.cur = n]
             r6 == [loc[t] EXCEPT !.arg = hash[n]]
             r7 == [loc[t] EXCEPT !.victim = n]
             r8 == [loc[t] EXCEPT !.arg = gctail]
             r9 == [loc[t] EXCEPT !.next = NULL, !.arg = NULL, !.victim = NULL]
             r10 == [loc[t] EXCEPT !.cur = gchead]
             r11 == [loc[t] EXCEPT !.cur = gchead']
             r12 == [loc[t] EXCEPT !.cur = gc_hash[c]]
             r13 == [loc[t] EXCEPT !.next = c, !.cur = gc_hash[c]]
             Kept(r) == r.min = loc[t].min \/ r.min = 0
  <2>1. loc[t] \in Locs
    BY Facts
  <2>2. /\ Kept(NoLocals) /\ Kept(loc[t]) /\ Kept(r1) /\ Kept(r2) /\ Kept(r3) /\ Kept(r4)
        /\ Kept(r5) /\ Kept(r6) /\ Kept(r7) /\ Kept(r8) /\ Kept(r9) /\ Kept(r10)
        /\ Kept(r11) /\ Kept(r12) /\ Kept(r13)
    BY <2>1 DEF Locs, NoLocals
  <2>3. \E r : loc' = [loc EXCEPT ![t] = r] /\ Kept(r)
    <3> HIDE DEF Kept
    <3>1. loc = [loc EXCEPT ![t] = loc[t]]
      BY Facts
    <3>2. CASE Link(t) \/ Mark(t)
      BY <2>2, <3>2 DEF Link, Mark
    <3>3. CASE ReadHead(t) \/ TestHead(t) \/ CasHead(t)
      BY <2>2, <3>1, <3>3 DEF ReadHead, TestHead, CasHead
    <3>4. CASE ReadNext(t) \/ TestCur(t) \/ TestNext(t)
      BY <2>2, <3>1, <3>4 DEF ReadNext, TestCur, TestNext
    <3>5. CASE Await(t) \/ CasNext(t)
      BY <2>2, <3>1, <3>5 DEF Await, CasNext
    <3>6. CASE SwapGc(t) \/ LinkGc(t)
      <4>1. loc' = [loc EXCEPT ![t] = r8] \/ loc' = [loc EXCEPT ![t] = r9]
        BY <3>6 DEF SwapGc, LinkGc
      <4> QED
        BY <2>2, <4>1, Zenon
    <3>7. CASE ReadGcTail(t) \/ ReadGcHead(t) \/ FreeHead(t)
      BY <2>2, <3>7 DEF ReadGcTail, ReadGcHead, FreeHead
    <3>8. CASE FreeMiddle(t) \/ Keep(t)
      <4>1. loc' = [loc EXCEPT ![t] = r12] \/ loc' = [loc EXCEPT ![t] = r13]
        BY <3>8 DEF FreeMiddle, Keep
      <4> QED
        BY <2>2, <4>1, Zenon
    <3> QED
      BY <3>2, <3>3, <3>4, <3>5, <3>6, <3>7, <3>8
  <2> HIDE DEF Kept
  <2>4. PICK r : loc' = [loc EXCEPT ![t] = r] /\ Kept(r)
    BY <2>3
  <2>5. \A u \in Trxs : u # t => loc'[u] = loc[u]
    BY <2>4 DEF RelInv
  <2>6. loc'[t] = r
    BY <2>4 DEF RelInv
  <2> QED
    BY <2>4, <2>5, <2>6 DEF Kept
<1>5. \A u \in Trxs : loc'[u].min \in 0..MaxUlint
  BY <1>4, ClockFacts DEF ClockInv, MaxUlint
<1>6. timestamp' \in [Locks -> 0..MaxUlint]
  BY <1>1 DEF ClockInv
<1>7. gclist_state' \in BOOLEAN
  BY DEF Link, ReadHead, TestHead, CasHead, ReadNext, TestCur, TestNext, Await, CasNext,
         SwapGc, LinkGc, Mark, ReadGcTail, ReadGcHead, FreeHead, FreeMiddle, Keep,
         collectVars, ClockInv
<1>8. freed' \subseteq Locks
  <2>1. CASE FreeHead(t) \/ FreeMiddle(t)
    <3>1. loc[t].cur \in Locks
      BY <2>1, Facts DEF FreeHead, FreeMiddle, AtEnd, Locs
    <3>2. freed' = freed \cup {loc[t].cur}
      BY <2>1 DEF FreeHead, FreeMiddle
    <3> QED
      BY <3>1, <3>2 DEF ClockInv
  <2>2. CASE ~FreeHead(t) /\ ~FreeMiddle(t)
    BY <2>2 DEF Link, ReadHead, TestHead, CasHead, ReadNext, TestCur, TestNext, Await, CasNext,
                SwapGc, LinkGc, Mark, ReadGcTail, ReadGcHead, Keep, collectVars, ClockInv
  <2> QED
    BY <2>1, <2>2
<1> QED
  BY <1>1, <1>2, <1>3, <1>5, <1>6, <1>7, <1>8, ClockMove

\* A lock is created, or cut out: its timestamp comes from a clock.
LEMMA ClockStamps ==
  ASSUME RelInv, ClockInv, NEW t \in Trxs, Swap(t) \/ Stamp(t) \/ Scan(t)
  PROVE  ClockInv'
<1> USE DEF At, Goto
<1>1. UNCHANGED <<started, sys_timestamp, trx_timestamp, crash, gclist_state, freed>>
  BY DEF Swap, Stamp, Scan, trxVars, collectVars
<1>2. PICK label \in Labels :
        /\ pc' = [pc EXCEPT ![t] = label]
        /\ label \in BeforeCommit <=> pc[t] \in BeforeCommit
        /\ label # "idle" /\ pc[t] # "idle"
  BY DEF Swap, Stamp, Scan, Labels, InDequeue, BeforeCommit
<1>3. MaxCommits \in Nat /\ MaxUlint \in Nat /\ MaxCommits =< MaxUlint
      /\ sys_timestamp \in 0..MaxUlint
  BY ClockFacts DEF MaxUlint
<1>4. timestamp \in [Locks -> 0..MaxUlint] /\ trx_timestamp \in [Trxs -> 0..MaxCommits]
  BY DEF ClockInv
<1>5. timestamp' \in [Locks -> 0..MaxUlint]
  <2>1. trx_timestamp[t] \in 0..MaxUlint
    BY <1>3, <1>4
  <2>2. CASE Swap(t)
    BY <1>4, <2>1, <2>2 DEF Swap, project4_lock_alloc
  <2>3. CASE Stamp(t)
    BY <1>3, <1>4, <2>3 DEF Stamp
  <2>4. CASE Scan(t)
    BY <1>4, <2>4 DEF Scan, gcVars
  <2> QED
    BY <2>2, <2>3, <2>4
<1>6. \A u \in Trxs : loc'[u].min \in 0..MaxUlint
  <2>1. PICK m \in 0..MaxUlint :
          m = IF FirstTrx \in Running THEN trx_timestamp[FirstTrx] ELSE MaxUlint
    <3>1. trx_timestamp[FirstTrx] \in 0..MaxUlint /\ MaxUlint \in 0..MaxUlint
      BY <1>3, <1>4, RecLockAssumption
    <3> QED
      BY <3>1
  <2> DEFINE r1 == [loc[t] EXCEPT !.cur = created + 1, !.arg = tail]
             r2 == [loc[t] EXCEPT !.min = m]
  <2>2. loc[t] \in Locs /\ loc = [loc EXCEPT ![t] = loc[t]] /\ loc[t].min \in 0..MaxUlint
    BY Facts DEF ClockInv
  <2>3. r1.min \in 0..MaxUlint /\ r2.min \in 0..MaxUlint
    BY <2>2 DEF Locs
  <2>4. \/ loc' = [loc EXCEPT ![t] = r1] \/ loc' = [loc EXCEPT ![t] = r2]
        \/ loc' = [loc EXCEPT ![t] = loc[t]]
    BY <2>1, <2>2 DEF Swap, Stamp, Scan
  <2> HIDE DEF r1, r2
  <2>5. PICK r : loc' = [loc EXCEPT ![t] = r] /\ r.min \in 0..MaxUlint
    BY <2>2, <2>3, <2>4, Zenon
  <2>6. \A u \in Trxs : u # t => loc'[u] = loc[u]
    BY <2>5 DEF RelInv
  <2>7. loc'[t] = r
    BY <2>5 DEF RelInv
  <2> QED
    BY <2>5, <2>6, <2>7 DEF ClockInv
<1> QED
  BY <1>1, <1>2, <1>5, <1>6, ClockMove DEF ClockInv

\* A transaction begins, draws its timestamp, and ends.
LEMMA ClockTrx ==
  ASSUME RelInv, ClockInv, NEW t \in Trxs,
         Start(t) \/ Commit(t) \/ TryCollect(t) \/ EndCollect(t)
  PROVE  ClockInv'
<1> USE DEF At, Goto
<1>1. PICK label \in {"idle", "active", "head", "scan"} : pc' = [pc EXCEPT ![t] = label]
  BY DEF Start, Commit, TryCollect, EndCollect, Finish
<1>2. /\ \A u \in Trxs : u # t => pc'[u] = pc[u]
      /\ pc'[t] = label
  BY <1>1 DEF RelInv
<1>3. UNCHANGED <<timestamp, crash>>
  BY DEF Start, Commit, TryCollect, EndCollect, gcVars
<1>4. MaxCommits \in Nat /\ MaxUlint \in Nat
  BY ClockFacts DEF MaxUlint
<1>5. \A u \in Trxs : loc'[u].min \in 0..MaxUlint
  <2>1. loc' = loc \/ loc' = [loc EXCEPT ![t] = NoLocals]
    BY DEF Start, Commit, TryCollect, EndCollect, Finish
  <2>2. NoLocals.min = 0
    BY DEF NoLocals
  <2>3. \A u \in Trxs : loc'[u] = loc[u] \/ loc'[u] = NoLocals
    BY <2>1 DEF RelInv
  <2>4. 0 \in 0..MaxUlint /\ \A u \in Trxs : loc[u].min \in 0..MaxUlint
    BY <1>4 DEF ClockInv
  <2>5. \A u \in Trxs : loc'[u].min = loc[u].min \/ loc'[u].min = 0
    BY <2>2, <2>3, Zenon
  <2> QED
    BY <2>4, <2>5
<1>6. started \in [Trxs -> Nat] /\ sys_timestamp \in Nat \ {0}
      /\ trx_timestamp \in [Trxs -> 0..MaxCommits]
  BY DEF ClockInv, RelInv
<1>7. /\ started' \in [Trxs -> Nat]
      /\ \A u \in Trxs : /\ started'[u] =< Len(Budget[u])
                         /\ pc'[u] \in BeforeCommit => started'[u] # 0
  <2>1. CASE Start(t)
    <3>1. started[t] + 1 =< Len(Budget[t]) /\ started[t] + 1 \in Nat \ {0}
      BY <1>6, <2>1, RecLockAssumption DEF Start
    <3>2. started' = [started EXCEPT ![t] = started[t] + 1]
      BY <2>1 DEF Start
    <3> QED
      BY <1>2, <1>6, <3>1, <3>2 DEF ClockInv
  <2>2. CASE ~Start(t)
    <3>1. started' = started /\ label \notin BeforeCommit
      BY <1>2, <2>2, <1>1 DEF Commit, TryCollect, EndCollect, Finish, BeforeCommit, RelInv
    <3> QED
      BY <1>2, <3>1 DEF ClockInv
  <2> QED
    BY <2>1, <2>2
<1>8. /\ trx_timestamp' \in [Trxs -> 0..MaxCommits]
      /\ \A u \in Trxs : trx_timestamp'[u] = 0 <=> pc'[u] \in BeforeCommit \cup {"idle"}
  <2>1. CASE Start(t) \/ (Commit(t) /\ trx_locks[t] = <<>>)
    <3>1. trx_timestamp' = trx_timestamp /\ pc[t] \in BeforeCommit \cup {"idle"}
          /\ pc'[t] \in BeforeCommit \cup {"idle"}
      BY <1>2, <2>1 DEF Start, Commit, BeforeCommit, RelInv
    <3> QED
      BY <1>2, <1>6, <3>1 DEF ClockInv
  <2>2. CASE Commit(t) /\ trx_locks[t] # <<>>
    <3>1. trx_timestamp' = [trx_timestamp EXCEPT ![t] = sys_timestamp] /\ pc'[t] = "head"
          /\ pc[t] \in BeforeCommit
      BY <2>2 DEF Commit, BeforeCommit, RelInv
    <3>2. sys_timestamp \in 0..MaxCommits /\ sys_timestamp # 0
      BY <1>6, <3>1, ClockFacts
    <3>3. "head" \notin BeforeCommit \cup {"idle"}
      BY DEF BeforeCommit
    <3> QED
      BY <1>2, <1>6, <3>1, <3>2, <3>3 DEF ClockInv
  <2>3. CASE TryCollect(t) /\ ~gclist_state
    <3>1. trx_timestamp' = trx_timestamp /\ pc'[t] = "scan" /\ pc[t] = "gc"
      BY <2>3 DEF TryCollect, RelInv
    <3>2. "scan" \notin BeforeCommit \cup {"idle"} /\ "gc" \notin BeforeCommit \cup {"idle"}
      BY DEF BeforeCommit
    <3> QED
      BY <1>2, <1>6, <3>1, <3>2 DEF ClockInv
  <2>4. CASE (TryCollect(t) /\ gclist_state) \/ EndCollect(t)
    <3>1. trx_timestamp' = [trx_timestamp EXCEPT ![t] = 0] /\ pc'[t] = "idle"
      BY <2>4 DEF TryCollect, EndCollect, Finish, RelInv
    <3> QED
      BY <1>2, <1>4, <1>6, <3>1 DEF ClockInv
  <2> QED
    BY <2>1, <2>2, <2>3, <2>4
<1>9. PICK g : Adds(Commits, g) /\ sys_timestamp =< 1 + g[Trxs]
  BY DEF ClockInv
<1>10. \E h : Adds(Commits', h) /\ sys_timestamp' =< 1 + h[Trxs]
  <2>1. PICK c, d : c = Commits /\ d = Commits'
    OBVIOUS
  <2>2. c \in [Trxs -> Nat] /\ d \in [Trxs -> Nat]
    BY <1>6, <1>7, <2>1 DEF Commits, ClockInv
  <2>3. \A u \in Trxs \ {t} : c[u] = d[u]
    <3>1. \A u \in Trxs \ {t} : started'[u] = started[u]
      BY <1>6 DEF Start, Commit, TryCollect, EndCollect
    <3> QED
      BY <1>2, <2>1, <3>1 DEF Commits
  <2>4. CASE Commit(t)
    <3>1. sys_timestamp' = sys_timestamp + 1 /\ started' = started
          /\ pc[t] \in BeforeCommit /\ pc'[t] \notin BeforeCommit
      BY <1>2, <2>4 DEF Commit, BeforeCommit, RelInv
    <3>2. c[t] < d[t]
      BY <1>6, <2>1, <3>1 DEF Commits
    <3>3. PICK h : Adds(d, h)
      BY AddsExists
    <3>4. \A u \in Trxs : c[u] =< d[u]
      BY <2>2, <2>3, <3>2
    <3>5. Adds(c, g)
      BY <1>9, <2>1
    <3>6. g[Trxs] \in Nat /\ h[Trxs] \in Nat /\ g[Trxs] < h[Trxs]
      BY <2>2, <3>2, <3>3, <3>4, <3>5, AddsCompare
    <3>7. sys_timestamp' =< 1 + h[Trxs]
      BY <1>6, <1>9, <3>1, <3>6
    <3> QED
      BY <2>1, <3>3, <3>7
  <2>5. CASE ~Commit(t)
    <3>1. sys_timestamp' = sys_timestamp
      BY <2>5 DEF Start, TryCollect, EndCollect
    <3>2. c[t] = d[t]
      <4>1. CASE Start(t)
        BY <1>2, <1>6, <2>1, <4>1 DEF Start, Commits, BeforeCommit, RelInv
      <4>2. CASE TryCollect(t) \/ EndCollect(t)
        BY <1>2, <2>1, <4>2 DEF TryCollect, EndCollect, Finish, Commits, BeforeCommit, RelInv
      <4> QED
        BY <2>5, <4>1, <4>2
    <3>3. c = d
      BY <2>2, <2>3, <3>2
    <3> QED
      BY <1>9, <2>1, <3>1, <3>3
  <2> QED
    BY <2>4, <2>5
<1>11. (\E h : Adds(Commits, h) /\ sys_timestamp =< 1 + h[Trxs])'
  BY <1>10 DEF Adds
<1>12. sys_timestamp' # 0
  BY <1>6 DEF Start, Commit, TryCollect, EndCollect
<1>13. freed' = freed /\ gclist_state' \in BOOLEAN
  BY DEF Start, Commit, TryCollect, EndCollect, collectVars, ClockInv
<1> QED
  BY <1>3, <1>5, <1>7, <1>8, <1>11, <1>12, <1>13 DEF ClockInv

\* Every step keeps the clocks.
LEMMA ClockNext == RelInv /\ ClockInv /\ [Next]_vars => ClockInv'
<1> SUFFICES ASSUME RelInv, ClockInv, [Next]_vars PROVE ClockInv'
  OBVIOUS
<1>1. CASE UNCHANGED vars
  <2>1. UNCHANGED <<started, pc, loc, sys_timestamp, trx_timestamp, timestamp, crash,
                    gclist_state, freed>>
    BY <1>1 DEF vars, listVars, gcVars, trxVars, collectVars
  <2>2. Commits' = Commits
    BY <2>1 DEF Commits
  <2> QED
    BY <2>1, <2>2 DEF ClockInv, Adds
<1>2. ASSUME NEW t \in Trxs, thread(t) PROVE ClockInv'
  BY <1>2, ClockSteps, ClockStamps, ClockTrx DEF thread
<1> QED
  BY <1>1, <1>2 DEF Next, Stopped

\* Type correctness.  In particular no transaction draws a timestamp greater than the
\* number of commits the connections may make, the timestamps of locks stay below the
\* maximum that stands for no running transaction, and an object has a timestamp exactly
\* while its transaction is committing (lock0lock.cc, trx_sys->timestamp).
THEOREM RecLockTypeCorrect == Spec => []RecLockTypeOK
<1>1. RelInv /\ WayInv /\ ClockInv => RecLockTypeOK
  <2> SUFFICES ASSUME RelInv, WayInv, ClockInv PROVE RecLockTypeOK
    OBVIOUS
  <2>1. /\ created \in 0..MaxLocks /\ Allocated \subseteq Pointers
        /\ head \in Pointers /\ tail \in Pointers /\ gchead \in Pointers /\ gctail \in Pointers
        /\ hash \in [Locks -> Pointers] /\ gc_hash \in [Locks -> Pointers]
        /\ state \in [Locks -> BOOLEAN]
    BY PointerFacts DEF RelInv, HeapType
  <2>3. freed \subseteq Locks /\ gclist_state \in BOOLEAN
    BY DEF ClockInv
  <2>4. sys_timestamp \in 1..(MaxCommits + 1) /\ started \in [Trxs -> 0..MaxCommits]
    BY ClockFacts DEF ClockInv
  <2>5. loc \in [Trxs -> Locals]
    <3>1. \A u \in Trxs : loc[u] \in Locs /\ loc[u].min \in 0..MaxUlint
      BY DEF RelInv, ClockInv
    <3>2. \A u \in Trxs : loc[u] \in Locals
      BY <3>1 DEF Locs, Locals
    <3> QED
      BY <3>2 DEF RelInv
  <2> QED
    BY <2>1, <2>3, <2>4, <2>5 DEF RecLockTypeOK, RelInv, WayInv, Owned, ClockInv,
                                        BeforeCommit, Labels
<1> QED
  BY <1>1, RelInit, WayInit, ClockInit, RelNext, WayNext, ClockNext, PTL DEF Spec
=============================================================================
