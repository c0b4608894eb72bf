-------------------------- MODULE PrimeConds_proofs --------------------------
(***************************************************************************)
(* Proofs about the two prime counters, for any number of workers, any     *)
(* input and any number of waits that return unsignalled: which query the  *)
(* results are of that main adds up, and how far a racing counter may be   *)
(* off.                                                                    *)
(*                                                                         *)
(* prime_cond_err: thread_ret is polled and reset without the mutex.  What *)
(* keeps the rounds apart is that a worker that has set its thread_ret     *)
(* holds the mutex until it sleeps, and that main broadcasts under the     *)
(* mutex.  So the invariant says, for every place of main, which workers   *)
(* are resting (asleep, or on the way with the mutex) and which are at     *)
(* work with a negative thread_ret (Places), and of what range their       *)
(* results are (Results), for each worker that has only been woken by      *)
(* broadcasts.  If all of them are such, what a worker has still to count  *)
(* is the part of its slice that has not been counted, and cnt_prime is    *)
(* ahead of where the query found it by no more than the primes counted    *)
(* since, and by at least one if there are any (Counts).                   *)
(*                                                                         *)
(* prime_cond: the rounds are apart for the first one only, and only if    *)
(* every worker was asleep when main first broadcast (FirstRound).         *)
(***************************************************************************)
EXTENDS PrimeConds, FiniteSetTheorems, TLAPS

Labels == {"unborn", "top", "topWait", "topWake", "count", "report", "wait", "wake",
           "first", "firstWait", "test", "loop", "store", "exit"}
Result == [of : Int \X Int, cnt : Int]

PrimeType ==
  /\ pc \in [Workers -> Labels]
  /\ thread_ret \in [Workers -> Result]
  /\ job \in [Workers -> Int \X Int] /\ range_start \in Int /\ range_end \in Int
  /\ left \in [Workers -> SUBSET Int] /\ \A t \in Workers : IsFiniteSet(left[t])
  /\ idx \in Workers /\ round \in Nat /\ sum \in Seq(Result)
  /\ cnt_prime \in Nat /\ reg \in [Workers -> Nat] /\ base \in Nat

\* The workers whose waits have returned only when main had signalled.
Signalled == Workers \ early

-----------------------------------------------------------------------------
(* prime_cond_err.                                                         *)

\* t sleeps, or is about to and holds the mutex until then.
Resting(t) ==
  \/ pc[t] \in {"firstWait", "wait"} /\ mutex = t
  \/ pc[t] = "wake" /\ t \in asleep

\* t has been woken and has not reported.
Working(t) ==
  \/ pc[t] = "wake" /\ t \notin asleep
  \/ pc[t] \in {"test", "count", "loop", "store"}

Places ==
  /\ main \in {"create", "await"} => \A t \in Signalled :
       /\ t < idx => Resting(t)
       /\ t > idx => pc[t] = "unborn"
       /\ t = idx => IF main = "create" THEN pc[t] = "unborn"
                     ELSE pc[t] = "first" \/ Resting(t)
  /\ main \in {"start", "end", "reset", "broadcast", "collect", "finish", "broadcastEnd"} =>
       \A t \in Signalled : Resting(t)
  /\ main = "poll" => \A t \in Signalled : Resting(t) \/ Working(t)
  /\ main \in {"join", "exit"} => \A t \in Signalled : pc[t] \in {"wake", "test", "exit"}
  /\ is_done <=> main \in {"broadcastEnd", "join", "exit"}
  /\ main \in {"create", "await", "start", "end", "reset", "broadcast", "poll", "collect",
               "finish", "broadcastEnd", "join", "exit"}

Results ==
  /\ \A t \in Signalled : pc[t] \in {"unborn", "first"} => thread_ret[t].cnt = 0
  /\ main = "end" => idx = 0
  /\ main = "reset" => \A t \in Signalled : t < idx => thread_ret[t].cnt < 0
  /\ main = "broadcast" => \A t \in Signalled : thread_ret[t].cnt < 0
  /\ main = "poll" => \A t \in Signalled :
       /\ Working(t) => thread_ret[t].cnt < 0
       /\ Resting(t) => thread_ret[t].of = <<round, round>>
       /\ t < idx => thread_ret[t].cnt >= 0
       /\ pc[t] \in {"loop", "store"} => job[t] = <<round, round>>
  /\ main = "collect" => \A t \in Signalled : thread_ret[t].of = <<round, round>>
  /\ main \in {"end", "reset", "broadcast", "poll"} => range_start = round
  /\ main \in {"reset", "broadcast", "poll"} => range_end = round

\* The i-th result added up is that of worker i - 1.
Sums ==
  /\ OfThisRound
  /\ main = "collect" => Len(sum) = idx
  /\ main \notin {"start", "collect"} => sum = <<>>

\* The primes of this query that t has still to count.
Todo(t) ==
  IF Resting(t) THEN {}
  ELSE IF pc[t] \in {"loop", "store"} THEN left[t] ELSE SlicePrimes(round, round, t)

\* What cnt_prime, or a copy of it, may hold.
Between(v) == base =< v /\ v =< base + Cardinality(counted)

InRange(t, r) == r.cnt \in (base + Least(t))..(base + Cardinality(RangePrimes(round)))

Counting ==
  /\ counted \subseteq RangePrimes(round)
  /\ Between(cnt_prime)
  /\ counted # {} => base < cnt_prime
  /\ \A t \in Workers : /\ pc[t] = "store" => Between(reg[t])
                        /\ Todo(t) = SlicePrimes(round, round, t) \ counted
                        /\ Resting(t) => InRange(t, thread_ret[t])

Counts ==
  early = {} =>
    /\ main = "poll" => Counting
    /\ main = "collect" => \A t \in Workers : InRange(t, thread_ret[t])
    /\ \A i \in 1..Len(sum) : InRange(i - 1, sum[i])

ErrInv ==
  program = "prime_cond_err" => PrimeType /\ Places /\ Results /\ Sums /\ Counts

-----------------------------------------------------------------------------
(* prime_cond.                                                             *)

\* t has not been woken yet.
Fresh(t) ==
  /\ pc[t] \in {"unborn", "top", "topWait", "topWake"}
  /\ t \in asleep <=> pc[t] = "topWake"
  /\ pc[t] \in {"topWait", "topWake"} => thread_ret[t].cnt < 0

\* t was woken by the first broadcast and is at work on the first range ...
AtWork(t) ==
  /\ pc[t] \in {"topWake", "count", "report"} /\ thread_ret[t].cnt < 0
  /\ pc[t] = "report" => job[t] = <<1, 1>>

\* ... or has reported and waits for the next broadcast.
Reported(t) ==
  /\ pc[t] = "wait" \/ (pc[t] = "wake" /\ t \in asleep)
  /\ thread_ret[t].of = <<1, 1>>

BeforeFirst ==
  \/ main \in {"create", "start"} /\ round = 0
  \/ main \in {"end", "broadcast"} /\ round = 1

CondMain ==
  /\ main \in {"create", "start", "end", "broadcast", "poll", "collect", "broadcastEnd", "exit"}
  /\ main = "create" => round = 0 /\ \A t \in Workers : t >= idx => pc[t] = "unborn"
  /\ main \in {"end", "broadcast", "poll", "collect"} => round > 0
  /\ main \in {"end", "broadcast", "poll"} => range_start = round
  /\ main \in {"broadcast", "poll"} => range_end = round
  /\ main = "collect" => Len(sum) = idx
  /\ main \notin {"start", "collect"} => sum = <<>>
  /\ round = 0 => ~ready

\* The first round, if everybody was asleep at the first broadcast.
FirstRound ==
  /\ BeforeFirst => ~ready /\ \A t \in Signalled : Fresh(t)
  /\ ready /\ round = 1 /\ main = "poll" =>
       \A t \in Signalled : /\ AtWork(t) \/ Reported(t)
                            /\ t < idx => thread_ret[t].cnt >= 0
  /\ ready /\ round = 1 /\ main \in {"collect", "start"} =>
       OfThisRound /\ \A t \in Signalled : Reported(t)

CondInv == program = "prime_cond" => PrimeType /\ CondMain /\ FirstRound

-----------------------------------------------------------------------------
(* The slices.                                                             *)

\* What the integer division of two natural numbers leaves over.
LEMMA Division ==
  ASSUME NEW x \in Nat, NEW n \in Nat \ {0}
  PROVE  x \div n \in Nat /\ (x \div n) * n =< x
OBVIOUS

\* Multiplication with a natural number keeps the order.
LEMMA Monotone ==
  ASSUME NEW d \in Nat, NEW i \in Int, NEW j \in Int, i =< j
  PROVE  d * i =< d * j /\ d * i \in Int /\ d * j \in Int
OBVIOUS

\* The slices lie within the range and do not meet; a range that ends before it starts has
\* none.
LEMMA SlicesApart ==
  ASSUME NEW a \in Int, NEW b \in Int, NEW t \in Workers
  PROVE  /\ Slice(a, b, t) \subseteq a..b
         /\ \A u \in Workers : u # t => Slice(a, b, t) \cap Slice(a, b, u) = {}
<1>0. NUM_THREAD \in Nat \ {0} /\ \A u \in Workers : u \in Nat /\ u =< NUM_THREAD - 1
  BY WorkersAssumption DEF Workers
<1>1. CASE a =< b
  <2>1. PICK d \in Nat : d = Share(a, b) /\ d * NUM_THREAD =< b - a
    BY <1>0, <1>1, Division DEF Share
  <2>2. ASSUME NEW u \in Workers
        PROVE  /\ 0 =< d * u /\ d * u \in Int /\ d * (u + 1) \in Int
               /\ d * (u + 1) =< b - a
               /\ \A n \in Slice(a, b, u) :
                    /\ n \in Int /\ a + d * u =< n
                    /\ IF u = NUM_THREAD - 1 THEN n =< b ELSE n < a + d * (u + 1)
    <3>1. d * 0 =< d * u /\ d * u \in Int /\ d * 0 = 0
      BY <1>0, <2>1, Monotone
    <3>2. d * (u + 1) =< d * NUM_THREAD /\ d * (u + 1) \in Int /\ d * NUM_THREAD \in Int
      BY <1>0, <2>1, Monotone
    <3>3. Slice(a, b, u) = (a + d * u)..(IF u = NUM_THREAD - 1 THEN b ELSE a + d * (u + 1) - 1)
      BY <2>1 DEF Slice
    <3>4. d * (u + 1) =< b - a
      BY <2>1, <3>2
    <3>5. ASSUME NEW n \in Slice(a, b, u)
          PROVE  /\ n \in Int /\ a + d * u =< n
                 /\ IF u = NUM_THREAD - 1 THEN n =< b ELSE n < a + d * (u + 1)
      <4>1. CASE u = NUM_THREAD - 1
        <5>1. n \in (a + d * u)..b
          BY <3>3, <3>5, <4>1
        <5> QED
          BY <3>1, <4>1, <5>1
      <4>2. CASE u # NUM_THREAD - 1
        <5>1. n \in (a + d * u)..(a + d * (u + 1) - 1)
          BY <3>3, <3>5, <4>2
        <5> QED
          BY <3>1, <3>2, <4>2, <5>1
      <4> QED
        BY <4>1, <4>2
    <3> QED
      BY <3>1, <3>2, <3>4, <3>5
  <2>3. Slice(a, b, t) \subseteq a..b
    BY <1>0, <2>2
  <2>4. ASSUME NEW u \in Workers, NEW v \in Workers, u < v,
               NEW n \in Slice(a, b, u), n \in Slice(a, b, v)
        PROVE  FALSE
    <3>1. n < a + d * (u + 1) /\ a + d * v =< n /\ n \in Int
      BY <1>0, <2>2, <2>4
    <3>2. d * (u + 1) =< d * v /\ d * (u + 1) \in Int /\ d * v \in Int
      BY <1>0, <2>4, Monotone
    <3> QED
      BY <3>1, <3>2
  <2>5. \A u \in Workers : u # t => u < t \/ t < u
    BY <1>0
  <2> QED
    BY <2>3, <2>4, <2>5
<1>2. CASE ~(a =< b)
  <2>1. PICK d \in Nat : Share(a, b) = -d /\ d * NUM_THREAD =< a - b
    <3>1. a - b \in Nat
      BY <1>2
    <3>2. (a - b) \div NUM_THREAD \in Nat /\ ((a - b) \div NUM_THREAD) * NUM_THREAD =< a - b
      BY <1>0, <3>1, Division
    <3>3. Share(a, b) = -((a - b) \div NUM_THREAD)
      BY <1>2 DEF Share
    <3> QED
      BY <3>2, <3>3
  <2>2. ASSUME NEW u \in Workers PROVE Slice(a, b, u) = {}
    <3>1. Slice(a, b, u) =
            (a + (-d) * u)..(IF u = NUM_THREAD - 1 THEN b ELSE a + (-d) * (u + 1) - 1)
      BY <2>1 DEF Slice
    <3>2. /\ (-d) * u = -(d * u) /\ d * u \in Int
          /\ (-d) * (u + 1) = -(d * u) - d
      BY <1>0, <2>1
    <3>3. u # NUM_THREAD - 1 => a + (-d) * (u + 1) - 1 < a + (-d) * u
      BY <1>0, <2>1, <3>2
    <3>4. u = NUM_THREAD - 1 => b < a + (-d) * u
      <4>1. d * (NUM_THREAD - 1) = d * NUM_THREAD - d /\ d * NUM_THREAD \in Int
        BY <1>0, <2>1
      <4>2. CASE d = 0
        BY <1>0, <1>2, <3>2, <4>2
      <4>3. CASE d # 0
        BY <1>0, <1>2, <2>1, <3>2, <4>1, <4>3
      <4> QED
        BY <4>2, <4>3
    <3>5. a + (-d) * u \in Int /\ a + (-d) * (u + 1) - 1 \in Int
      BY <1>0, <2>1, <3>2
    <3> QED
      BY <3>1, <3>3, <3>4, <3>5
  <2> QED
    BY <2>2
<1> QED
  BY <1>1, <1>2

\* The three modules speak of the same workers and the same slices.
LEMMA SameWorkers ==
  /\ Cond!Workers = Workers /\ CondErr!Workers = Workers
  /\ \A s, e, t : /\ Cond!SlicePrimes(s, e, t) = SlicePrimes(s, e, t)
                  /\ CondErr!SlicePrimes(s, e, t) = SlicePrimes(s, e, t)
BY DEF Workers, Cond!Workers, CondErr!Workers, SlicePrimes, Cond!SlicePrimes,
   CondErr!SlicePrimes, Slice, Cond!Slice, CondErr!Slice, Share, Cond!Share, CondErr!Share,
   First, Cond!First, CondErr!First, Last, Cond!Last, CondErr!Last, IsPrime, Cond!IsPrime,
   CondErr!IsPrime

\* The ends of a range are numbers.
LEMMA EndsType ==
  ASSUME NEW q \in Int
  PROVE  First(q) \in Int /\ Last(q) \in Int
BY WorkersAssumption DEF First, Last

\* A slice holds finitely many primes.
LEMMA SliceType ==
  ASSUME NEW s \in Int, NEW e \in Int, NEW t \in Workers
  PROVE  SlicePrimes(s, e, t) \subseteq Int /\ IsFiniteSet(SlicePrimes(s, e, t))
<1>1. First(s) \in Int /\ Last(e) \in Int
  BY EndsType
<1>2. /\ SlicePrimes(s, e, t) \subseteq First(s)..Last(e)
      /\ IsFiniteSet(First(s)..Last(e))
  BY <1>1, SlicesApart, FS_Interval DEF SlicePrimes
<1>3. First(s)..Last(e) \subseteq Int
  BY <1>1
<1> QED
  BY <1>2, <1>3, FS_Subset

\* The primes of the slices of a query are primes of its range, and none is in two slices.
LEMMA QueryPrimes ==
  ASSUME NEW q \in Int
  PROVE  /\ IsFiniteSet(RangePrimes(q)) /\ Cardinality(RangePrimes(q)) \in Nat
         /\ \A t \in Workers :
              /\ SlicePrimes(q, q, t) \subseteq RangePrimes(q)
              /\ \A u \in Workers :
                   u # t => SlicePrimes(q, q, t) \cap SlicePrimes(q, q, u) = {}
<1>1. First(q) \in Int /\ Last(q) \in Int
  BY EndsType
<1>2. IsFiniteSet(First(q)..Last(q)) /\ RangePrimes(q) \subseteq First(q)..Last(q)
  BY <1>1, FS_Interval DEF RangePrimes
<1>3. IsFiniteSet(RangePrimes(q)) /\ Cardinality(RangePrimes(q)) \in Nat
  BY <1>2, FS_Subset, FS_CardinalityType
<1> QED
  BY <1>1, <1>3, SlicesApart DEF SlicePrimes, RangePrimes

-----------------------------------------------------------------------------
(* The steps of a worker of prime_cond_err.                                *)

\* The mutex has one holder, so what one worker does to it leaves the others resting.
LEMMA OthersRest ==
  ASSUME NEW t \in Workers, NEW u \in Workers, u # t, pc'[u] = pc[u],
         \/ mutex = NoThread /\ mutex' = t /\ asleep' = asleep
         \/ mutex = t /\ mutex' = NoThread /\ asleep' = asleep \cup {t}
         \/ mutex' = mutex /\ asleep' \in {asleep, asleep \ {t}}
  PROVE  (Resting(u)' <=> Resting(u)) /\ (Working(u)' <=> Working(u))
BY WorkersAssumption DEF Resting, Working, Workers

\* What t itself does: set its -1 and rest, go on resting, report and rest, or go on.
ErrMove(t) ==
  \/ /\ pc[t] = "first" /\ pc'[t] = "firstWait" /\ mutex' = t
     /\ thread_ret'[t] = Negative /\ UNCHANGED <<job, left, cnt_prime, reg, counted>>
  \/ /\ pc[t] \in {"firstWait", "wait"} /\ mutex = t /\ pc'[t] = "wake" /\ t \in asleep'
     /\ UNCHANGED <<thread_ret, job, left, cnt_prime, reg, counted>>
  \/ /\ pc[t] = "loop" /\ left[t] = {} /\ pc'[t] = "wait" /\ mutex' = t
     /\ thread_ret'[t] = [of |-> job[t], cnt |-> cnt_prime]
     /\ UNCHANGED <<job, left, cnt_prime, reg, counted>>
  \/ /\ pc[t] = "wake" /\ t \notin asleep /\ pc'[t] = "test" /\ UNCHANGED asleep
     /\ UNCHANGED <<thread_ret, job, left, cnt_prime, reg, counted>>
  \/ /\ pc[t] = "test" /\ pc'[t] = IF is_done THEN "exit" ELSE "count"
     /\ UNCHANGED <<thread_ret, job, left, cnt_prime, reg, counted>>
  \/ /\ pc[t] = "count" /\ pc'[t] = "loop" /\ job'[t] = <<range_start, range_end>>
     /\ left'[t] = SlicePrimes(range_start, range_end, t)
     /\ UNCHANGED <<thread_ret, cnt_prime, reg, counted>>
  \/ /\ pc[t] = "loop" /\ pc'[t] = "store" /\ reg'[t] = cnt_prime
     /\ UNCHANGED <<thread_ret, job, left, cnt_prime, counted>>
  \/ /\ pc[t] = "store" /\ pc'[t] = "loop" /\ cnt_prime' = reg[t] + 1
     /\ \E n \in left[t] : left'[t] = left[t] \ {n} /\ counted' = counted \cup {n}
     /\ UNCHANGED <<thread_ret, job>>

\* A step of a worker is one of these, and leaves the other workers as they are.
LEMMA ErrWorker ==
  ASSUME PrimeType, NEW t \in Workers, CondErr!ThreadFunc(t)
  PROVE  /\ UNCHANGED <<main, idx, round, sum, is_done, range_start, range_end, base>>
         /\ ErrMove(t)
         /\ PrimeType'
         /\ \A u \in Workers : u # t =>
              /\ pc'[u] = pc[u] /\ thread_ret'[u] = thread_ret[u] /\ job'[u] = job[u]
              /\ reg'[u] = reg[u] /\ left'[u] = left[u]
              /\ Resting(u)' <=> Resting(u)
              /\ Working(u)' <=> Working(u)
<1> USE DEF PrimeType, CondErr!Goto
<1>0. UNCHANGED <<main, idx, round, sum, is_done>>
  BY DEF CondErr!ThreadFunc
<1> DEFINE Rest == \A u \in Workers : u # t =>
              /\ pc'[u] = pc[u] /\ thread_ret'[u] = thread_ret[u] /\ job'[u] = job[u]
              /\ reg'[u] = reg[u] /\ left'[u] = left[u]
              /\ Resting(u)' <=> Resting(u)
              /\ Working(u)' <=> Working(u)
<1>1. CASE /\ \/ CondErr!SetRet(t, "first", CondErr!Negative, "firstWait")
              \/ CondErr!Report(t)
           /\ UNCHANGED CondErr!countVars
  <2>1. PICK from, to, value :
          /\ \/ from = "first" /\ to = "firstWait" /\ value = CondErr!Negative
             \/ /\ from = "loop" /\ left[t] = {} /\ to = "wait"
                /\ value = [of |-> job[t], cnt |-> cnt_prime]
          /\ CondErr!SetRet(t, from, value, to)
    BY <1>1 DEF CondErr!Report
  <2>2. value \in Result /\ to \in Labels
    <3>1. CondErr!Negative \in Result
      BY DEF CondErr!Negative, CondErr!NoRange, Result
    <3>2. [of |-> job[t], cnt |-> cnt_prime] \in Result
      BY DEF Result
    <3> QED
      BY <2>1, <3>1, <3>2 DEF Labels
  <2>3. /\ pc[t] = from /\ mutex = NoThread /\ mutex' = t /\ asleep' = asleep
        /\ thread_ret' = [thread_ret EXCEPT ![t] = value] /\ pc' = [pc EXCEPT ![t] = to]
        /\ UNCHANGED <<range_start, range_end, job, left, cnt_prime, reg, base, counted>>
    BY <1>1, <2>1 DEF CondErr!SetRet, CondErr!rangeVars, CondErr!countVars, CondErr!jobVars
  <2>4. PrimeType'
    BY <1>0, <2>2, <2>3
  <2>5. \A u \in Workers : u # t => pc'[u] = pc[u] /\ thread_ret'[u] = thread_ret[u]
    BY <2>3
  <2>6. Rest
    BY <2>3, <2>5, OthersRest
  <2>7. pc'[t] = to /\ thread_ret'[t] = value
    BY <2>3
  <2>8. ErrMove(t)
    BY <2>1, <2>3, <2>7 DEF ErrMove, CondErr!Negative, CondErr!NoRange, Negative, NoRange
  <2> QED
    BY <1>0, <2>3, <2>4, <2>6, <2>8
<1>2. CASE /\ \/ CondErr!Sleep(t, "firstWait", "wake") \/ CondErr!Sleep(t, "wait", "wake")
           /\ UNCHANGED CondErr!countVars
  <2>1. /\ pc[t] \in {"firstWait", "wait"} /\ mutex = t /\ mutex' = NoThread
        /\ asleep' = asleep \cup {t} /\ pc' = [pc EXCEPT ![t] = "wake"]
        /\ UNCHANGED <<thread_ret, range_start, range_end, job, left, cnt_prime, reg, base,
                       counted>>
    BY <1>2 DEF CondErr!Sleep, CondErr!rangeVars, CondErr!countVars, CondErr!jobVars
  <2>2. PrimeType'
    BY <1>0, <2>1 DEF Labels
  <2>3. \A u \in Workers : u # t => pc'[u] = pc[u]
    BY <2>1
  <2>4. Rest
    BY <2>1, <2>3, OthersRest
  <2>5. ErrMove(t)
    BY <2>1 DEF ErrMove
  <2> QED
    BY <1>0, <2>1, <2>2, <2>4, <2>5
<1>3. CASE /\ CondErr!Wake(t, "wake", "test") \/ CondErr!Test(t)
              \/ CondErr!CountPrimes(t, "count", "loop")
           /\ UNCHANGED CondErr!countVars
  <2>1. /\ UNCHANGED <<mutex, asleep, thread_ret, range_start, range_end, cnt_prime, reg, base,
                       counted>>
        /\ \/ /\ pc[t] = "wake" /\ t \notin asleep /\ pc' = [pc EXCEPT ![t] = "test"]
              /\ job' = job /\ left' = left
           \/ /\ pc[t] = "test" /\ job' = job /\ left' = left
              /\ pc' = [pc EXCEPT ![t] = IF is_done THEN "exit" ELSE "count"]
           \/ /\ pc[t] = "count" /\ pc' = [pc EXCEPT ![t] = "loop"]
              /\ job' = [job EXCEPT ![t] = <<range_start, range_end>>]
              /\ left' = [left EXCEPT ![t] = SlicePrimes(range_start, range_end, t)]
    BY <1>3, SameWorkers DEF CondErr!Wake, CondErr!Test, CondErr!CountPrimes,
       CondErr!rangeVars, CondErr!countVars, CondErr!jobVars
  <2>2. PrimeType'
    <3>1. pc' \in [Workers -> Labels]
      BY <2>1 DEF Labels
    <3>0. /\ <<range_start, range_end>> \in Int \X Int
          /\ SlicePrimes(range_start, range_end, t) \in SUBSET Int
          /\ IsFiniteSet(SlicePrimes(range_start, range_end, t))
      BY SliceType
    <3>2. CASE job' = job /\ left' = left
      BY <1>0, <2>1, <3>1, <3>2
    <3>3. CASE /\ job' = [job EXCEPT ![t] = <<range_start, range_end>>]
               /\ left' = [left EXCEPT ![t] = SlicePrimes(range_start, range_end, t)]
      <4>1. job' \in [Workers -> Int \X Int]
        BY <3>0, <3>3
      <4>2. left' \in [Workers -> SUBSET Int]
        BY <3>0, <3>3
      <4>3. \A u \in Workers : IsFiniteSet(left'[u])
        BY <3>0, <3>3
      <4> QED
        BY <1>0, <2>1, <3>1, <4>1, <4>2, <4>3
    <3> QED
      BY <2>1, <3>2, <3>3
  <2>3. \A u \in Workers : u # t => pc'[u] = pc[u] /\ job'[u] = job[u] /\ left'[u] = left[u]
    BY <2>1
  <2>4. Rest
    BY <2>1, <2>3, OthersRest
  <2>5. ErrMove(t)
    BY <2>1 DEF ErrMove
  <2> QED
    BY <1>0, <2>1, <2>2, <2>4, <2>5
<1>4. CASE CondErr!Load(t)
  <2>1. /\ UNCHANGED <<mutex, asleep, thread_ret, range_start, range_end, job, left, cnt_prime,
                       base, counted>>
        /\ pc[t] = "loop" /\ pc' = [pc EXCEPT ![t] = "store"]
        /\ reg' = [reg EXCEPT ![t] = cnt_prime]
    BY <1>4 DEF CondErr!Load, CondErr!rangeVars, CondErr!jobVars
  <2>2. PrimeType'
    <3>1. pc' \in [Workers -> Labels]
      BY <2>1 DEF Labels
    <3>2. reg' \in [Workers -> Nat]
      BY <2>1
    <3> QED
      BY <1>0, <2>1, <3>1, <3>2
  <2>3. \A u \in Workers : u # t => pc'[u] = pc[u] /\ reg'[u] = reg[u]
    BY <2>1
  <2>4. Rest
    BY <2>1, <2>3, OthersRest
  <2>5. ErrMove(t)
    BY <2>1 DEF ErrMove
  <2> QED
    BY <1>0, <2>1, <2>2, <2>4, <2>5
<1>5. CASE CondErr!Store(t)
  <2>1. /\ UNCHANGED <<mutex, asleep, thread_ret, range_start, range_end, job, base>>
        /\ pc[t] = "store" /\ pc' = [pc EXCEPT ![t] = "loop"]
        /\ cnt_prime' = reg[t] + 1 /\ reg' = [reg EXCEPT ![t] = 0]
    BY <1>5 DEF CondErr!Store, CondErr!rangeVars
  <2>2. PICK n \in left[t] : /\ left' = [left EXCEPT ![t] = left[t] \ {n}]
                             /\ counted' = counted \cup {n}
    BY <1>5 DEF CondErr!Store
  <2>3. PrimeType'
    <3>1. pc' \in [Workers -> Labels]
      BY <2>1 DEF Labels
    <3>2. reg' \in [Workers -> Nat] /\ cnt_prime' \in Nat
      BY <2>1
    <3>3. IsFiniteSet(left[t] \ {n}) /\ left[t] \ {n} \in SUBSET Int
      BY FS_Subset
    <3>4. left' \in [Workers -> SUBSET Int] /\ \A u \in Workers : IsFiniteSet(left'[u])
      BY <2>2, <3>3
    <3> QED
      BY <1>0, <2>1, <3>1, <3>2, <3>4
  <2>4. \A u \in Workers : u # t => pc'[u] = pc[u] /\ reg'[u] = reg[u] /\ left'[u] = left[u]
    BY <2>1, <2>2
  <2>5. Rest
    BY <2>1, <2>4, OthersRest
  <2>6. pc'[t] = "loop" /\ left'[t] = left[t] \ {n}
    BY <2>1, <2>2
  <2>7. ErrMove(t)
    BY <2>1, <2>2, <2>6 DEF ErrMove
  <2> QED
    BY <1>0, <2>1, <2>3, <2>5, <2>7
<1> QED
  BY <1>1, <1>2, <1>3, <1>4, <1>5 DEF CondErr!ThreadFunc

\* Where a step takes t.
LEMMA OwnPlace ==
  ASSUME NEW t \in Workers, ErrMove(t)
  PROVE  /\ pc[t] # "unborn"
         /\ Resting(t) => /\ Resting(t)'
                          /\ UNCHANGED <<thread_ret, cnt_prime, reg, job, left, counted>>
         /\ pc[t] = "first" => Resting(t)'
         /\ Working(t) => \/ Working(t)' /\ UNCHANGED thread_ret
                          \/ /\ pc[t] = "loop" /\ left[t] = {} /\ pc'[t] = "wait" /\ Resting(t)'
                             /\ thread_ret'[t] = [of |-> job[t], cnt |-> cnt_prime]
                             /\ UNCHANGED <<cnt_prime, reg, job, left, counted>>
                          \/ is_done /\ pc'[t] = "exit"
         /\ is_done /\ pc[t] \in {"wake", "test", "exit"} => pc'[t] \in {"wake", "test", "exit"}
         /\ pc'[t] \notin {"unborn", "first"}
         /\ ~(Resting(t)' /\ Working(t)')
<1> USE DEF ErrMove, Resting, Working
<1>1. pc[t] # "unborn" /\ pc'[t] \notin {"unborn", "first"} /\ ~(Resting(t)' /\ Working(t)')
  OBVIOUS
<1>2. Resting(t) => /\ Resting(t)'
                    /\ UNCHANGED <<thread_ret, cnt_prime, reg, job, left, counted>>
  OBVIOUS
<1>3. pc[t] = "first" => Resting(t)'
  OBVIOUS
<1>4. Working(t) => \/ Working(t)' /\ UNCHANGED thread_ret
                    \/ /\ pc[t] = "loop" /\ left[t] = {} /\ pc'[t] = "wait" /\ Resting(t)'
                       /\ thread_ret'[t] = [of |-> job[t], cnt |-> cnt_prime]
                       /\ UNCHANGED <<cnt_prime, reg, job, left, counted>>
                    \/ is_done /\ pc'[t] = "exit"
  OBVIOUS
<1>5. is_done /\ pc[t] \in {"wake", "test", "exit"} => pc'[t] \in {"wake", "test", "exit"}
  OBVIOUS
<1> QED
  BY <1>1, <1>2, <1>3, <1>4, <1>5

\* The workers are numbered from 0.
LEMMA WorkersCount ==
  Workers \subseteq Int /\ 0 \in Workers /\ \A t \in Workers : ~(t < 0)
BY WorkersAssumption DEF Workers

\* A worker of prime_cond_err keeps the rounds apart.
LEMMA ErrWorkerInv ==
  ASSUME PrimeType, Places, Results, Sums, NEW t \in Workers, CondErr!ThreadFunc(t),
         UNCHANGED early
  PROVE  Places' /\ Results' /\ Sums'
<1>1. /\ UNCHANGED <<main, idx, round, sum, is_done, range_start, range_end>>
      /\ ErrMove(t)
  BY ErrWorker
<1>2. \A u \in Workers : u # t =>
        /\ pc'[u] = pc[u] /\ thread_ret'[u] = thread_ret[u] /\ job'[u] = job[u]
        /\ Resting(u)' <=> Resting(u)
        /\ Working(u)' <=> Working(u)
  BY ErrWorker
<1>3. /\ pc[t] # "unborn"
      /\ Resting(t) => Resting(t)' /\ UNCHANGED <<thread_ret, job>>
      /\ pc[t] = "first" => Resting(t)'
      /\ Working(t) => \/ Working(t)' /\ UNCHANGED thread_ret
                       \/ /\ pc[t] = "loop" /\ pc'[t] = "wait" /\ Resting(t)'
                          /\ thread_ret'[t] = [of |-> job[t], cnt |-> cnt_prime]
                       \/ is_done /\ pc'[t] = "exit"
      /\ is_done /\ pc[t] \in {"wake", "test", "exit"} => pc'[t] \in {"wake", "test", "exit"}
      /\ pc'[t] \notin {"unborn", "first"}
      /\ ~(Resting(t)' /\ Working(t)')
  BY <1>1, OwnPlace
<1>4. /\ Workers \subseteq Int /\ idx \in Int /\ round \in Nat /\ cnt_prime \in Nat
      /\ Signalled \subseteq Workers /\ Signalled' = Signalled
  BY WorkersCount DEF PrimeType, Signalled
<1>5. Places'
  <2>1. ASSUME main \in {"create", "await"}, NEW u \in Signalled
        PROVE  /\ u < idx => Resting(u)'
               /\ u > idx => pc'[u] = "unborn"
               /\ u = idx => IF main = "create" THEN pc'[u] = "unborn"
                             ELSE pc'[u] = "first" \/ Resting(u)'
    BY <1>2, <1>3, <1>4, <2>1 DEF Places
  <2>2. ASSUME main \in {"start", "end", "reset", "broadcast", "collect", "finish",
                         "broadcastEnd"}, NEW u \in Signalled
        PROVE  Resting(u)'
    BY <1>2, <1>3, <1>4, <2>2 DEF Places
  <2>3. ASSUME main = "poll", NEW u \in Signalled PROVE Resting(u)' \/ Working(u)'
    <3>1. ~is_done
      BY <2>3 DEF Places
    <3> QED
      BY <1>2, <1>3, <1>4, <2>3, <3>1 DEF Places
  <2>4. ASSUME main \in {"join", "exit"}, NEW u \in Signalled
        PROVE  pc'[u] \in {"wake", "test", "exit"}
    <3>1. is_done
      BY <2>4 DEF Places
    <3> QED
      BY <1>2, <1>3, <1>4, <2>4, <3>1 DEF Places
  <2> QED
    BY <1>1, <1>4, <2>1, <2>2, <2>3, <2>4 DEF Places
<1>6. Results'
  <2>1. ASSUME NEW u \in Signalled, pc'[u] \in {"unborn", "first"}
        PROVE  thread_ret'[u].cnt = 0
    BY <1>2, <1>3, <1>4, <2>1 DEF Results
  <2>2. ASSUME main \in {"reset", "broadcast", "collect"}, NEW u \in Signalled
        PROVE  thread_ret'[u] = thread_ret[u]
    BY <1>2, <1>3, <1>4, <2>2 DEF Places
  <2>3. ASSUME main = "poll", NEW u \in Signalled
        PROVE  /\ Working(u)' => thread_ret'[u].cnt < 0
               /\ Resting(u)' => thread_ret'[u].of = <<round, round>>
               /\ u < idx => thread_ret'[u].cnt >= 0
               /\ pc'[u] \in {"loop", "store"} => job'[u] = <<round, round>>
    <3>0. ~is_done /\ (Resting(u) \/ Working(u)) /\ range_start = round /\ range_end = round
      BY <2>3 DEF Places, Results
    <3>1. CASE u # t
      BY <1>2, <1>4, <2>3, <3>1 DEF Results
    <3>2. CASE u = t /\ Resting(t)
      <4>1. pc'[t] \notin {"loop", "store"}
        BY <1>3, <3>2 DEF Resting
      <4> QED
        BY <1>3, <2>3, <3>2, <4>1 DEF Results
    <3>3. CASE /\ u = t /\ pc[t] = "loop" /\ pc'[t] = "wait" /\ Resting(t)'
               /\ thread_ret'[t] = [of |-> job[t], cnt |-> cnt_prime]
      <4>1. job[t] = <<round, round>>
        BY <2>3, <3>3 DEF Results
      <4>2. thread_ret'[t].of = <<round, round>> /\ thread_ret'[t].cnt >= 0
        BY <1>4, <3>3, <4>1
      <4> QED
        BY <3>3, <4>2 DEF Working
    <3>4. CASE u = t /\ Working(t) /\ Working(t)' /\ thread_ret' = thread_ret
      <4>1. ~Resting(t)'
        BY <1>3, <3>4
      <4>2. pc'[t] \in {"loop", "store"} => job'[t] = <<round, round>>
        BY <1>1, <2>3, <3>0, <3>4 DEF ErrMove, Results
      <4> QED
        BY <2>3, <3>4, <4>1, <4>2 DEF Results
    <3> QED
      BY <1>3, <3>0, <3>1, <3>2, <3>3, <3>4
  <2> QED
    BY <1>1, <1>4, <2>1, <2>2, <2>3 DEF Results
<1>7. Sums'
  BY <1>1 DEF Sums, OfThisRound
<1> QED
  BY <1>5, <1>6, <1>7

\* Whatever the workers do, cnt_prime stays within its bounds if no wait has returned
\* unsignalled.
LEMMA ErrWorkerCounts ==
  ASSUME PrimeType, Places, Results, Sums, Counts, NEW t \in Workers, CondErr!ThreadFunc(t),
         UNCHANGED early
  PROVE  Counts'
<1>1. /\ UNCHANGED <<main, idx, round, sum, is_done, range_start, range_end, base>>
      /\ ErrMove(t)
  BY ErrWorker
<1>2. \A u \in Workers : u # t =>
        /\ pc'[u] = pc[u] /\ thread_ret'[u] = thread_ret[u] /\ reg'[u] = reg[u]
        /\ left'[u] = left[u]
        /\ Resting(u)' <=> Resting(u)
        /\ Working(u)' <=> Working(u)
  BY ErrWorker
<1>3. /\ Resting(t) => /\ Resting(t)'
                       /\ UNCHANGED <<thread_ret, cnt_prime, reg, left, counted>>
      /\ Working(t) => \/ Working(t)' /\ UNCHANGED thread_ret
                       \/ /\ pc[t] = "loop" /\ left[t] = {} /\ pc'[t] = "wait" /\ Resting(t)'
                          /\ thread_ret'[t] = [of |-> job[t], cnt |-> cnt_prime]
                          /\ UNCHANGED <<cnt_prime, reg, left, counted>>
                       \/ is_done /\ pc'[t] = "exit"
      /\ ~(Resting(t)' /\ Working(t)')
  BY <1>1, OwnPlace
<1> SUFFICES ASSUME early = {}
             PROVE  /\ main = "poll" => Counting'
                    /\ main = "collect" => \A u \in Workers : InRange(u, thread_ret[u])'
                    /\ \A i \in 1..Len(sum) : InRange(i - 1, sum[i])'
  BY <1>1 DEF Counts
<1>4. /\ Signalled = Workers /\ round \in Nat /\ round \in Int /\ base \in Nat
      /\ cnt_prime \in Nat /\ reg \in [Workers -> Nat]
  BY DEF Signalled, PrimeType
<1>6. \A i \in 1..Len(sum) : InRange(i - 1, sum[i])'
  BY <1>1 DEF Counts, InRange, Least
<1>7. ASSUME main = "collect", NEW u \in Workers PROVE InRange(u, thread_ret[u])'
  <2>1. thread_ret'[u] = thread_ret[u]
    BY <1>2, <1>3, <1>4, <1>7 DEF Places
  <2> QED
    BY <1>1, <1>7, <2>1 DEF Counts, InRange, Least
<1>8. ASSUME main = "poll" PROVE Counting'
  <2>0. /\ ~is_done /\ (Resting(t) \/ Working(t)) /\ range_start = round /\ range_end = round
        /\ Counting
    BY <1>4, <1>8 DEF Places, Results, Counts
  <2>1. /\ IsFiniteSet(RangePrimes(round)) /\ Cardinality(RangePrimes(round)) \in Nat
        /\ \A u \in Workers :
             /\ SlicePrimes(round, round, u) \subseteq RangePrimes(round)
             /\ \A v \in Workers :
                  v # u => SlicePrimes(round, round, u) \cap SlicePrimes(round, round, v) = {}
    BY <1>4, QueryPrimes
  <2>2. /\ IsFiniteSet(counted) /\ Cardinality(counted) \in Nat
        /\ Cardinality(counted) =< Cardinality(RangePrimes(round))
    BY <2>0, <2>1, FS_Subset, FS_CardinalityType DEF Counting
  <2>3. CASE pc[t] = "store"
    <3>1. PICK n \in left[t] : left'[t] = left[t] \ {n} /\ counted' = counted \cup {n}
      BY <1>1, <2>3 DEF ErrMove
    <3>2. pc'[t] = "loop" /\ cnt_prime' = reg[t] + 1 /\ UNCHANGED thread_ret
      BY <1>1, <2>3 DEF ErrMove
    <3>3. /\ ~Resting(t) /\ ~Resting(t)' /\ Todo(t) = left[t] /\ Todo(t)' = left[t] \ {n}
      BY <2>3, <3>1, <3>2 DEF Todo, Resting
    <3>4. left[t] = SlicePrimes(round, round, t) \ counted /\ Between(reg[t])
      BY <2>0, <2>3, <3>3 DEF Counting
    <3>5. n \in SlicePrimes(round, round, t) /\ n \notin counted
      BY <3>1, <3>4
    <3>6. Cardinality(counted') = Cardinality(counted) + 1
      BY <2>2, <3>1, <3>5, FS_AddElement
    <3>7. counted' \subseteq RangePrimes(round)
      BY <2>0, <2>1, <3>1, <3>5 DEF Counting
    <3>8. reg[t] \in Nat /\ \A u \in Workers : reg[u] \in Nat
      BY <1>4
    <3>9. Between(cnt_prime)' /\ base < cnt_prime'
      BY <1>1, <1>4, <2>2, <3>2, <3>4, <3>6, <3>8 DEF Between
    <3>10. ASSUME NEW u \in Workers
           PROVE  /\ pc'[u] = "store" => Between(reg[u])'
                  /\ Todo(u)' = SlicePrimes(round, round, u) \ counted'
                  /\ Resting(u)' => InRange(u, thread_ret[u])'
      <4>1. CASE u = t
        BY <3>1, <3>2, <3>3, <3>4, <4>1
      <4>2. CASE u # t
        <5>1. /\ pc'[u] = pc[u] /\ reg'[u] = reg[u] /\ left'[u] = left[u]
              /\ Resting(u)' <=> Resting(u)
          BY <1>2, <4>2
        <5>2. pc'[u] = "store" => Between(reg[u])'
          <6> SUFFICES ASSUME pc'[u] = "store" PROVE Between(reg[u])'
            OBVIOUS
          <6>1. Between(reg[u]) /\ reg[u] \in Nat
            BY <2>0, <3>8, <5>1 DEF Counting
          <6> QED
            BY <1>1, <1>4, <2>2, <3>6, <5>1, <6>1 DEF Between
        <5>3. n \notin SlicePrimes(round, round, u)
          BY <2>1, <3>5, <4>2
        <5>4. Todo(u)' = Todo(u)
          BY <1>1, <5>1 DEF Todo
        <5>5. Todo(u) = SlicePrimes(round, round, u) \ counted
          BY <2>0 DEF Counting
        <5>6. Todo(u)' = SlicePrimes(round, round, u) \ counted'
          BY <3>1, <5>3, <5>4, <5>5
        <5>7. Resting(u)' => InRange(u, thread_ret[u])'
          BY <1>1, <2>0, <3>2, <5>1 DEF Counting, InRange, Least
        <5> QED
          BY <5>2, <5>6, <5>7
      <4> QED
        BY <4>1, <4>2
    <3> QED
      BY <1>1, <3>7, <3>9, <3>10 DEF Counting
  <2>4. CASE pc[t] # "store"
    <3>1. cnt_prime' = cnt_prime /\ counted' = counted
      BY <1>1, <2>4 DEF ErrMove
    <3>3. ASSUME NEW u \in Workers, pc'[u] = "store" PROVE Between(reg[u])'
      <4>1. CASE u = t
        <5>1. reg'[t] = cnt_prime
          BY <1>1, <2>4, <3>3, <4>1 DEF ErrMove
        <5> QED
          BY <1>1, <2>0, <3>1, <4>1, <5>1 DEF Counting, Between
      <4>2. CASE u # t
        BY <1>1, <1>2, <2>0, <3>1, <3>3, <4>2 DEF Counting, Between
      <4> QED
        BY <4>1, <4>2
    <3>4. Todo(t)' = SlicePrimes(round, round, t) \ counted
      <4>1. Todo(t) = SlicePrimes(round, round, t) \ counted
        BY <2>0 DEF Counting
      <4>2. CASE Resting(t)
        BY <1>3, <4>1, <4>2 DEF Todo
      <4>3. CASE pc[t] = "loop" /\ left[t] = {} /\ Resting(t)'
        BY <4>1, <4>3 DEF Todo, Resting
      <4>4. CASE Working(t) /\ Working(t)'
        <5>1. ~Resting(t) /\ ~Resting(t)'
          BY <4>4 DEF Working, Resting
        <5>2. Todo(t)' = Todo(t)
          BY <1>1, <2>0, <2>4, <4>4, <5>1 DEF Todo, ErrMove, Working
        <5> QED
          BY <4>1, <5>2
      <4> QED
        BY <1>3, <2>0, <4>2, <4>3, <4>4
    <3>5. Resting(t)' => InRange(t, thread_ret[t])'
      <4>1. CASE Resting(t)
        BY <1>1, <1>3, <2>0, <4>1 DEF Counting, InRange, Least
      <4>2. CASE /\ pc[t] = "loop" /\ left[t] = {}
                 /\ thread_ret'[t] = [of |-> job[t], cnt |-> cnt_prime]
        <5>1. SlicePrimes(round, round, t) \ counted = {}
          BY <2>0, <4>2 DEF Counting, Todo, Resting
        <5>2. base + Least(t) =< cnt_prime
          BY <1>4, <2>0, <5>1 DEF Counting, Between, Least
        <5>3. cnt_prime =< base + Cardinality(RangePrimes(round))
          BY <1>4, <2>0, <2>1, <2>2 DEF Counting, Between
        <5>4. Least(t) \in Int
          BY DEF Least
        <5>5. InRange(t, thread_ret'[t])
          BY <1>4, <2>1, <4>2, <5>2, <5>3, <5>4 DEF InRange
        <5> QED
          BY <1>1, <5>5 DEF InRange, Least
      <4>3. CASE Working(t)'
        BY <1>3, <4>3
      <4> QED
        BY <1>3, <2>0, <4>1, <4>2, <4>3
    <3>6. ASSUME NEW u \in Workers, u # t
          PROVE  /\ Todo(u)' = SlicePrimes(round, round, u) \ counted
                 /\ Resting(u)' => InRange(u, thread_ret[u])'
      <4>1. Todo(u)' = Todo(u)
        BY <1>1, <1>2, <3>6 DEF Todo
      <4> QED
        BY <1>1, <1>2, <2>0, <3>6, <4>1 DEF Counting, InRange, Least
    <3>7. Between(cnt_prime)'
      BY <1>1, <2>0, <3>1 DEF Between, Counting
    <3> QED
      BY <1>1, <2>0, <3>1, <3>3, <3>4, <3>5, <3>6, <3>7 DEF Counting
  <2> QED
    BY <2>3, <2>4
<1> QED
  BY <1>6, <1>7, <1>8

-----------------------------------------------------------------------------
(* The steps of main of prime_cond_err, and unsignalled returns.           *)

\* What is after the worker `idx'.
LEMMA NextIdx ==
  ASSUME idx \in Workers
  PROVE  /\ (idx + 1) % NUM_THREAD = IF idx + 1 = NUM_THREAD THEN 0 ELSE idx + 1
         /\ (idx + 1) % NUM_THREAD \in Workers /\ 0 \in Workers
<1>1. NUM_THREAD \in Nat \ {0} /\ idx \in 0..(NUM_THREAD - 1)
  BY WorkersAssumption DEF Workers
<1> QED
  BY <1>1 DEF Workers

\* The workers are where they were if main leaves pc, the mutex and the sleepers alone.
LEMMA QuietMain ==
  ASSUME UNCHANGED <<pc, mutex, asleep, early>>
  PROVE  /\ \A t \in Workers : (Resting(t)' <=> Resting(t)) /\ (Working(t)' <=> Working(t))
         /\ Signalled' = Signalled /\ Signalled \subseteq Workers
BY DEF Resting, Working, Signalled

\* Before the first result is added up there is nothing to say of the sums, and nothing to
\* say of the counts when nobody counts.
LEMMA NothingAdded ==
  ASSUME sum' = <<>>
  PROVE  OfThisRound' /\ (main' \notin {"poll", "collect"} => Counts')
BY DEF OfThisRound, Counts

\* Creating the workers one by one.
LEMMA ErrCreate ==
  ASSUME PrimeType, Places, Results, Sums, Counts,
         CondErr!Create \/ CondErr!AwaitSleep, UNCHANGED early
  PROVE  PrimeType' /\ Places' /\ Results' /\ Sums' /\ Counts'
<1>0. /\ Workers \subseteq Int /\ idx \in Workers /\ idx \in Int
      /\ Signalled' = Signalled /\ Signalled \subseteq Workers
  BY WorkersCount DEF PrimeType, Signalled
<1>1. CASE CondErr!Create
  <2>1. /\ main = "create" /\ pc' = [pc EXCEPT ![idx] = "first"] /\ main' = "await"
        /\ UNCHANGED <<mutex, asleep, thread_ret, range_start, range_end, job, left, idx, round,
                       sum, is_done, cnt_prime, reg, base, counted>>
    BY <1>1 DEF CondErr!Create, CondErr!Goto, CondErr!rangeVars, CondErr!errVars,
       CondErr!countVars, CondErr!jobVars
  <2>2. PrimeType'
    BY <2>1 DEF PrimeType, Labels
  <2>3. pc'[idx] = "first" /\ \A t \in Workers : t # idx => pc'[t] = pc[t]
    BY <1>0, <2>1 DEF PrimeType
  <2>4. \A t \in Workers : t # idx => (Resting(t)' <=> Resting(t))
    BY <2>1, <2>3 DEF Resting
  <2>5. Places'
    BY <1>0, <2>1, <2>3, <2>4 DEF Places
  <2>6. Results'
    BY <1>0, <2>1, <2>3 DEF Results, Places
  <2>7. Sums' /\ Counts'
    BY <2>1, NothingAdded DEF Sums
  <2> QED
    BY <2>2, <2>5, <2>6, <2>7
<1>2. CASE CondErr!AwaitSleep /\ ~(thread_ret[idx].cnt = -1)
  <2>1. UNCHANGED <<mutex, asleep, thread_ret, range_start, range_end, pc, job, left, main, idx,
                    round, sum, is_done, cnt_prime, reg, base, counted>>
    BY <1>2 DEF CondErr!AwaitSleep, CondErr!rangeVars, CondErr!errVars, CondErr!countVars,
       CondErr!workerVars, CondErr!jobVars
  <2>2. main = "await"
    BY <1>2 DEF CondErr!AwaitSleep
  <2>3. Places' /\ Results'
    BY <1>0, <2>1, <2>2, QuietMain DEF Places, Results
  <2>4. Sums' /\ Counts'
    BY <2>1, <2>2, NothingAdded DEF Sums
  <2> QED
    BY <2>1, <2>3, <2>4 DEF PrimeType
<1>3. CASE CondErr!AwaitSleep /\ thread_ret[idx].cnt = -1
  <2>1. /\ main = "await" /\ thread_ret[idx].cnt = -1 /\ idx' = (idx + 1) % NUM_THREAD
        /\ main' = IF idx + 1 = NUM_THREAD THEN "start" ELSE "create"
        /\ UNCHANGED <<mutex, asleep, thread_ret, range_start, range_end, pc, job, left, round,
                       sum, is_done, cnt_prime, reg, base, counted>>
    BY <1>3 DEF CondErr!AwaitSleep, CondErr!rangeVars, CondErr!errVars,
       CondErr!countVars, CondErr!workerVars, CondErr!jobVars
  <2>2. /\ idx' = IF idx + 1 = NUM_THREAD THEN 0 ELSE idx + 1
        /\ idx' \in Workers
    BY <1>0, <2>1, NextIdx
  <2>3. PrimeType'
    BY <2>1, <2>2 DEF PrimeType
  <2>4. \A t \in Workers : Resting(t)' <=> Resting(t)
    BY <2>1, QuietMain
  <2>5. idx \in Signalled => Resting(idx)
    BY <1>0, <2>1 DEF Places, Results
  <2>6. ASSUME NEW t \in Signalled
        PROVE  /\ t =< idx => Resting(t)'
               /\ t > idx => pc'[t] = "unborn"
    BY <1>0, <2>1, <2>4, <2>5 DEF Places
  <2>7. idx + 1 = NUM_THREAD => \A t \in Workers : t =< idx
    BY <1>0, WorkersAssumption DEF Workers
  <2>8. Places'
    <3>1. CASE idx + 1 = NUM_THREAD
      <4>1. main' = "start" /\ \A t \in Signalled : Resting(t)'
        BY <1>0, <2>1, <2>6, <2>7, <3>1
      <4> QED
        BY <1>0, <2>1, <4>1 DEF Places
    <3>2. CASE idx + 1 # NUM_THREAD
      <4>1. main' = "create" /\ idx' = idx + 1
        BY <2>1, <2>2, <3>2
      <4>2. \A t \in Signalled : t < idx' => Resting(t)'
        BY <1>0, <2>6, <4>1
      <4>3. \A t \in Signalled : t > idx' \/ t = idx' => pc'[t] = "unborn"
        BY <1>0, <2>6, <4>1
      <4>4. ~is_done'
        BY <2>1 DEF Places
      <4> QED
        BY <1>0, <4>1, <4>2, <4>3, <4>4 DEF Places
    <3> QED
      BY <3>1, <3>2
  <2>9. Results'
    BY <1>0, <2>1 DEF Results
  <2>10. Sums' /\ Counts'
    BY <2>1, NothingAdded DEF Sums
  <2> QED
    BY <2>3, <2>8, <2>9, <2>10
<1> QED
  BY <1>1, <1>2, <1>3

\* Reading a query and resetting thread_ret.
LEMMA ErrRead ==
  ASSUME PrimeType, Places, Results, Sums, Counts,
         \/ /\ CondErr!ReadStart("end", "finish") \/ CondErr!ReadEnd("reset")
            /\ UNCHANGED CondErr!errVars
         \/ CondErr!Reset,
         UNCHANGED early
  PROVE  PrimeType' /\ Places' /\ Results' /\ Sums' /\ Counts'
<1>0. /\ Workers \subseteq Int /\ idx \in Workers /\ idx \in Int /\ round \in Nat
      /\ Signalled' = Signalled /\ Signalled \subseteq Workers
  BY WorkersCount DEF PrimeType, Signalled
<1>1. CASE CondErr!ReadStart("end", "finish") /\ UNCHANGED CondErr!errVars
  <2>1. /\ main = "start" /\ idx' = 0 /\ sum' = <<>>
        /\ \/ round' = round + 1 /\ range_start' = round + 1 /\ main' = "end"
           \/ range_start' = -1 /\ main' = "finish" /\ round' = round
        /\ UNCHANGED <<mutex, asleep, thread_ret, range_end, pc, job, left,
                       is_done, cnt_prime, reg, base, counted>>
    BY <1>1 DEF CondErr!ReadStart, CondErr!workerVars, CondErr!errVars, CondErr!countVars,
       CondErr!jobVars
  <2>2. PrimeType'
    <3>1. round' \in Nat /\ range_start' \in Int
      BY <1>0, <2>1
    <3>2. sum' \in Seq(Result) /\ idx' \in Workers
      BY <1>0, <2>1, NextIdx
    <3> QED
      BY <2>1, <3>1, <3>2 DEF PrimeType
  <2>3. Places'
    BY <1>0, <2>1, QuietMain DEF Places
  <2>4. Results'
    BY <1>0, <2>1 DEF Results
  <2>5. Sums' /\ Counts'
    BY <2>1, NothingAdded DEF Sums
  <2> QED
    BY <2>2, <2>3, <2>4, <2>5
<1>2. CASE CondErr!ReadEnd("reset") /\ UNCHANGED CondErr!errVars
  <2>1. /\ main = "end" /\ main' = "reset" /\ range_end' = round
        /\ UNCHANGED <<mutex, asleep, thread_ret, range_start, pc, job, left, idx, round, sum,
                       is_done, cnt_prime, reg, base, counted>>
    BY <1>2 DEF CondErr!ReadEnd, CondErr!workerVars, CondErr!errVars, CondErr!countVars,
       CondErr!jobVars
  <2>2. PrimeType'
    BY <1>0, <2>1 DEF PrimeType
  <2>3. Places'
    BY <1>0, <2>1, QuietMain DEF Places
  <2>4. Results'
    BY <1>0, <2>1, WorkersCount DEF Results
  <2>5. Sums' /\ Counts'
    BY <2>1, NothingAdded DEF Sums
  <2> QED
    BY <2>2, <2>3, <2>4, <2>5
<1>3. CASE CondErr!Reset
  <2>1. /\ main = "reset" /\ thread_ret' = [thread_ret EXCEPT ![idx] = Negative]
        /\ idx' = (idx + 1) % NUM_THREAD
        /\ main' = IF idx + 1 = NUM_THREAD THEN "broadcast" ELSE "reset"
        /\ UNCHANGED <<mutex, asleep, range_start, range_end, pc, job, left, round, sum,
                       is_done, cnt_prime, reg, base, counted>>
    BY <1>3 DEF CondErr!Reset, CondErr!Negative, CondErr!NoRange, Negative, NoRange,
       CondErr!rangeVars, CondErr!workerVars, CondErr!errVars, CondErr!countVars,
       CondErr!jobVars
  <2>2. /\ idx' = IF idx + 1 = NUM_THREAD THEN 0 ELSE idx + 1
        /\ idx' \in Workers
    BY <1>0, <2>1, NextIdx
  <2>3. Negative \in Result /\ Negative.cnt = -1
    BY DEF Negative, NoRange, Result
  <2>4. PrimeType'
    BY <2>1, <2>2, <2>3 DEF PrimeType
  <2>5. Places'
    BY <1>0, <2>1, QuietMain DEF Places
  <2>6. ASSUME NEW t \in Signalled, t =< idx PROVE thread_ret'[t].cnt < 0
    <3>1. t \in Workers /\ t \in Int
      BY <1>0
    <3>2. CASE t = idx
      <4>1. thread_ret'[t] = Negative
        BY <2>1, <3>1, <3>2 DEF PrimeType
      <4> QED
        BY <2>3, <4>1
    <3>3. CASE t # idx
      <4>1. t < idx
        BY <1>0, <2>6, <3>1, <3>3
      <4>2. thread_ret[t].cnt < 0
        BY <2>1, <4>1 DEF Results
      <4>3. thread_ret'[t] = thread_ret[t]
        BY <2>1, <3>1, <3>3 DEF PrimeType
      <4> QED
        BY <4>2, <4>3
    <3> QED
      BY <3>2, <3>3
  <2>7. idx + 1 = NUM_THREAD => \A t \in Workers : t =< idx
    BY <1>0, WorkersAssumption DEF Workers
  <2>8. \A t \in Signalled : pc'[t] \notin {"unborn", "first"}
    BY <2>1 DEF Places, Resting
  <2>9. Results'
    BY <1>0, <2>1, <2>2, <2>6, <2>7, <2>8 DEF Results
  <2>10. Sums' /\ Counts'
    BY <2>1, NothingAdded DEF Sums
  <2> QED
    BY <2>4, <2>5, <2>9, <2>10
<1> QED
  BY <1>1, <1>2, <1>3

\* Waking the workers: the mutex is free, so those that rest are asleep, every one.
LEMMA ErrBroadcast ==
  ASSUME PrimeType, Places, Results, Sums, Counts,
         \/ CondErr!WakeUp
         \/ CondErr!Broadcast("broadcastEnd", "join") /\ UNCHANGED CondErr!errVars,
         UNCHANGED early
  PROVE  PrimeType' /\ Places' /\ Results' /\ Sums' /\ Counts'
<1>1. /\ mutex = NoThread /\ asleep' = {} /\ idx' = 0
      /\ \/ main = "broadcast" /\ main' = "poll" /\ base' = cnt_prime /\ counted' = {}
         \/ main = "broadcastEnd" /\ main' = "join" /\ base' = base
      /\ UNCHANGED <<mutex, thread_ret, range_start, range_end, pc, job, left, round, sum,
                     is_done, cnt_prime, reg>>
  BY DEF CondErr!WakeUp, CondErr!Broadcast, CondErr!rangeVars, CondErr!workerVars,
     CondErr!errVars, CondErr!countVars, CondErr!jobVars
<1>2. /\ Signalled' = Signalled /\ Signalled \subseteq Workers
      /\ \A t \in Signalled : Resting(t)
  BY <1>1 DEF Places, Signalled
<1>3. \A t \in Signalled : pc[t] = "wake" /\ Working(t)' /\ ~Resting(t)'
  BY <1>1, <1>2, WorkersAssumption DEF Resting, Working, Workers
<1>4. PrimeType'
  BY <1>1, WorkersCount DEF PrimeType
<1>5. Places'
  BY <1>1, <1>2, <1>3 DEF Places
<1>6. Results'
  BY <1>1, <1>2, <1>3, WorkersCount DEF Results
<1>7. Sums'
  BY <1>1, NothingAdded DEF Sums
<1>8. Counts'
  <2>1. CASE main' = "join"
    BY <1>1, <2>1, NothingAdded DEF Sums
  <2>2. CASE main' = "poll" /\ early = {}
    <3>1. Signalled = Workers
      BY <2>2 DEF Signalled
    <3>2. /\ cnt_prime \in Nat /\ base' = cnt_prime /\ cnt_prime' = cnt_prime
          /\ counted' = {} /\ Cardinality(counted') = 0 /\ round' = round
      BY <1>1, <2>2, FS_EmptySet DEF PrimeType
    <3>3. Between(cnt_prime)'
      BY <3>2 DEF Between
    <3>4. ASSUME NEW t \in Workers
          PROVE  pc'[t] = "wake" /\ ~Resting(t)' /\ Todo(t)' = SlicePrimes(round', round', t)
      <4>1. pc'[t] = "wake" /\ ~Resting(t)'
        BY <1>1, <1>3, <3>1
      <4> QED
        BY <4>1 DEF Todo
    <3>5. Counting'
      BY <3>2, <3>3, <3>4 DEF Counting
    <3>6. sum' = <<>> /\ main' # "collect"
      BY <1>1, <2>2 DEF Sums
    <3> QED
      BY <3>5, <3>6 DEF Counts
  <2>3. CASE main' = "poll" /\ early # {}
    BY <2>3 DEF Counts
  <2> QED
    BY <1>1, <2>1, <2>2, <2>3
<1> QED
  BY <1>4, <1>5, <1>6, <1>7, <1>8

\* Polling: when no result is negative any more, no worker is at work.
LEMMA ErrPoll ==
  ASSUME PrimeType, Places, Results, Sums, Counts, CondErr!Poll, UNCHANGED CondErr!errVars,
         UNCHANGED early
  PROVE  PrimeType' /\ Places' /\ Results' /\ Sums' /\ Counts'
<1>0. /\ Workers \subseteq Int /\ idx \in Workers /\ idx \in Int /\ round \in Nat
      /\ Signalled' = Signalled /\ Signalled \subseteq Workers
  BY WorkersCount DEF PrimeType, Signalled
<1>1. /\ main = "poll"
      /\ idx' = IF thread_ret[idx].cnt < 0 THEN 0 ELSE (idx + 1) % NUM_THREAD
      /\ main' = IF thread_ret[idx].cnt >= 0 /\ idx + 1 = NUM_THREAD
                 THEN "collect" ELSE "poll"
      /\ UNCHANGED <<mutex, asleep, thread_ret, range_start, range_end, pc, job, left, round,
                     sum, is_done, cnt_prime, reg, base, counted>>
  BY DEF CondErr!Poll, CondErr!rangeVars, CondErr!workerVars, CondErr!errVars,
     CondErr!countVars, CondErr!jobVars
<1>2. idx' \in Workers /\ 0 \in Workers
  BY <1>0, <1>1, NextIdx
<1>3. PrimeType'
  BY <1>1, <1>2 DEF PrimeType
<1>4. \A t \in Workers : (Resting(t)' <=> Resting(t)) /\ (Working(t)' <=> Working(t))
  BY <1>1, QuietMain
<1>5. \A t \in Signalled : /\ Resting(t) \/ Working(t)
                           /\ Working(t) => thread_ret[t].cnt < 0
                           /\ Resting(t) => thread_ret[t].of = <<round, round>>
                           /\ t < idx => thread_ret[t].cnt >= 0
  BY <1>1 DEF Places, Results
<1>6. thread_ret \in [Workers -> Result] /\ \A t \in Workers : thread_ret[t].cnt \in Int
  BY DEF PrimeType, Result
<1>7. CASE thread_ret[idx].cnt >= 0 /\ idx + 1 = NUM_THREAD
  <2>1. main' = "collect" /\ sum = <<>> /\ sum' = <<>>
    BY <1>1, <1>7 DEF Sums
  <2>2. ASSUME NEW t \in Signalled PROVE thread_ret[t].cnt >= 0
    <3>1. t < idx \/ t = idx
      BY <1>0, <1>7, WorkersAssumption DEF Workers
    <3> QED
      BY <1>5, <1>7, <3>1
  <2>3. \A t \in Signalled : Resting(t) /\ thread_ret[t].of = <<round, round>>
    BY <1>0, <1>5, <1>6, <2>2
  <2>4. Places'
    BY <1>0, <1>1, <1>4, <2>1, <2>3 DEF Places
  <2>5. Results'
    BY <1>0, <1>1, <2>1, <2>3 DEF Results
  <2>6. idx' = 0
    BY <1>0, <1>1, <1>6, <1>7, NextIdx
  <2>7. Sums'
    BY <2>1, <2>6, NothingAdded DEF Sums
  <2>8. ASSUME early = {}, NEW t \in Workers PROVE InRange(t, thread_ret[t])
    BY <1>1, <2>3, <2>8 DEF Counts, Counting, Signalled
  <2>9. Counts'
    BY <1>1, <2>1, <2>8 DEF Counts, InRange, Least
  <2> QED
    BY <1>3, <2>4, <2>5, <2>7, <2>9
<1>8. CASE ~(thread_ret[idx].cnt >= 0 /\ idx + 1 = NUM_THREAD)
  <2>1. main' = "poll"
    BY <1>1, <1>8
  <2>2. ASSUME NEW t \in Signalled, t < idx' PROVE thread_ret[t].cnt >= 0
    <3>1. CASE thread_ret[idx].cnt < 0
      BY <1>0, <1>1, <2>2, <3>1, WorkersCount
    <3>2. CASE ~(thread_ret[idx].cnt < 0)
      <4>1. idx' = idx + 1 /\ thread_ret[idx].cnt >= 0
        BY <1>0, <1>1, <1>6, <1>8, <3>2, NextIdx
      <4>2. t < idx \/ t = idx
        BY <1>0, <2>2, <4>1
      <4> QED
        BY <1>5, <4>1, <4>2
    <3> QED
      BY <3>1, <3>2
  <2>3. Places'
    BY <1>0, <1>1, <1>4, <1>5, <2>1 DEF Places
  <2>4. Results'
    BY <1>0, <1>1, <1>4, <1>5, <2>1, <2>2 DEF Results
  <2>5. Sums'
    BY <1>1, <2>1, NothingAdded DEF Sums
  <2>6. \A t \in Workers : Todo(t)' = Todo(t)
    BY <1>1, <1>4 DEF Todo
  <2>7. Counting => Counting'
    BY <1>1, <1>4, <2>6 DEF Counting, Between, InRange, Least
  <2>8. Counts'
    BY <1>1, <2>1, <2>5, <2>7 DEF Counts, Sums
  <2> QED
    BY <1>3, <2>3, <2>4, <2>5, <2>8
<1> QED
  BY <1>7, <1>8

\* Adding up, and ending.
LEMMA ErrTotal ==
  ASSUME PrimeType, Places, Results, Sums, Counts,
         CondErr!Total \/ CondErr!Finish("broadcastEnd") \/ CondErr!Join, UNCHANGED early
  PROVE  PrimeType' /\ Places' /\ Results' /\ Sums' /\ Counts'
<1>0. /\ Workers \subseteq Int /\ idx \in Workers /\ idx \in Int /\ round \in Nat
      /\ Signalled' = Signalled /\ Signalled \subseteq Workers
  BY WorkersCount DEF PrimeType, Signalled
<1>1. CASE CondErr!Total
  <2>1. /\ main = "collect" /\ sum' = Append(sum, thread_ret[idx])
        /\ idx' = (idx + 1) % NUM_THREAD
        /\ main' = IF idx + 1 = NUM_THREAD THEN "start" ELSE "collect"
        /\ UNCHANGED <<mutex, asleep, thread_ret, range_start, range_end, pc, job, left, round,
                       is_done, cnt_prime, reg, base, counted>>
    BY <1>1 DEF CondErr!Total, CondErr!Collect, CondErr!rangeVars, CondErr!workerVars,
       CondErr!countVars, CondErr!jobVars
  <2>2. idx' \in Workers /\ idx' = IF idx + 1 = NUM_THREAD THEN 0 ELSE idx + 1
    BY <1>0, <2>1, NextIdx
  <2>3. sum \in Seq(Result) /\ thread_ret[idx] \in Result /\ Len(sum) = idx
    BY <1>0, <2>1 DEF PrimeType, Sums
  <2>4. sum' \in Seq(Result) /\ Len(sum') = idx + 1
    BY <2>1, <2>3
  <2>5. PrimeType'
    BY <2>1, <2>2, <2>4 DEF PrimeType
  <2>6. Places'
    BY <1>0, <2>1, QuietMain DEF Places
  <2>7. Results'
    BY <1>0, <2>1 DEF Results
  <2>8. ASSUME NEW i \in 1..Len(sum')
        PROVE  \/ i \in 1..Len(sum) /\ sum'[i] = sum[i]
               \/ i - 1 = idx /\ sum'[i] = thread_ret[idx]
    BY <1>0, <2>1, <2>3, <2>4
  <2>9. ASSUME NEW i \in 1..Len(sum'), i - 1 \notin early PROVE sum'[i].of = <<round, round>>
    BY <1>0, <2>1, <2>8, <2>9 DEF Sums, OfThisRound, Results, Signalled
  <2>10. Sums'
    BY <2>1, <2>2, <2>4, <2>9 DEF Sums, OfThisRound
  <2>11. ASSUME early = {}, NEW i \in 1..Len(sum') PROVE InRange(i - 1, sum'[i])
    BY <1>0, <2>1, <2>8, <2>11 DEF Counts
  <2>12. Counts'
    BY <2>1, <2>11 DEF Counts, InRange, Least
  <2> QED
    BY <2>5, <2>6, <2>7, <2>10, <2>12
<1>2. CASE CondErr!Finish("broadcastEnd")
  <2>1. /\ main = "finish" /\ is_done' = TRUE /\ main' = "broadcastEnd"
        /\ UNCHANGED <<mutex, asleep, thread_ret, range_start, range_end, pc, job, left, idx,
                       round, sum, cnt_prime, reg, base>>
    BY <1>2 DEF CondErr!Finish, CondErr!rangeVars, CondErr!workerVars, CondErr!countVars,
       CondErr!jobVars
  <2>2. Places'
    BY <1>0, <2>1, QuietMain DEF Places
  <2>3. Sums' /\ Counts'
    BY <2>1, NothingAdded DEF Sums
  <2> QED
    BY <1>0, <2>1, <2>2, <2>3 DEF PrimeType, Results
<1>3. CASE CondErr!Join
  <2>1. /\ main = "join" /\ main' = "exit" /\ \A t \in Workers : pc[t] = "exit"
        /\ UNCHANGED <<mutex, asleep, thread_ret, range_start, range_end, pc, job, left, idx,
                       round, sum, is_done, cnt_prime, reg, base>>
    BY <1>3, SameWorkers DEF CondErr!Join, CondErr!rangeVars, CondErr!workerVars,
       CondErr!errVars, CondErr!countVars, CondErr!jobVars
  <2>2. Places'
    BY <1>0, <2>1 DEF Places
  <2>3. Sums' /\ Counts'
    BY <2>1, NothingAdded DEF Sums
  <2> QED
    BY <1>0, <2>1, <2>2, <2>3 DEF PrimeType, Results
<1> QED
  BY <1>1, <1>2, <1>3

\* A wait returns unsignalled: nothing is claimed of its worker any more, nor of the counts.
LEMMA ErrEarly ==
  ASSUME PrimeType, Places, Results, Sums, NEW t \in Workers, EarlyReturn(t)
  PROVE  PrimeType' /\ Places' /\ Results' /\ Sums' /\ Counts'
<1>1. /\ asleep' = asleep \ {t} /\ early' = early \cup {t}
      /\ UNCHANGED <<mutex, thread_ret, range_start, range_end, pc, job, left, main, idx, round,
                     sum, is_done, cnt_prime, reg, base>>
  BY DEF EarlyReturn, rangeVars, workerVars, jobVars, errVars
<1>2. /\ Signalled' \subseteq Signalled /\ Signalled' \subseteq Workers /\ t \notin Signalled'
      /\ \A u \in Signalled' : u # t
  BY <1>1 DEF Signalled
<1>3. \A u \in Signalled' : (Resting(u)' <=> Resting(u)) /\ (Working(u)' <=> Working(u))
  BY <1>1, <1>2, OthersRest
<1>4. PrimeType'
  BY <1>1 DEF PrimeType
<1>5. Places'
  BY <1>1, <1>2, <1>3 DEF Places
<1>6. Results'
  BY <1>1, <1>2, <1>3 DEF Results
<1>7. Sums'
  BY <1>1 DEF Sums, OfThisRound
<1>8. Counts'
  BY <1>1 DEF Counts
<1> QED
  BY <1>4, <1>5, <1>6, <1>7, <1>8

-----------------------------------------------------------------------------
(* The two theorems about prime_cond_err.                                  *)

\* No step of main or of a worker leaves the invariant of prime_cond_err.
THEOREM ErrInvariant == Spec => []ErrInv
<1>1. Init => ErrInv
  <2> SUFFICES ASSUME Init PROVE PrimeType /\ Places /\ Results /\ Sums /\ Counts
    BY DEF ErrInv
  <2>1. /\ pc = [t \in Workers |-> "unborn"] /\ main = "create" /\ is_done = FALSE
        /\ cnt_prime = 0 /\ reg = [t \in Workers |-> 0]
        /\ mutex = NoThread /\ asleep = {} /\ thread_ret = [t \in Workers |-> Untouched]
        /\ range_start = 0 /\ range_end = 0 /\ job = [t \in Workers |-> NoRange]
        /\ left = [t \in Workers |-> {}] /\ base = 0
        /\ idx = 0 /\ round = 0 /\ sum = <<>>
    BY SameWorkers DEF Init, CondErr!Init, CondErr!WorkersInit, CondErr!Untouched, Untouched,
       CondErr!NoRange, NoRange
  <2>2. 0 \in Workers /\ \A t \in Workers : ~(t < 0)
    BY WorkersAssumption DEF Workers
  <2>3. Untouched \in Result /\ Untouched.cnt = 0 /\ NoRange \in Int \X Int
    BY DEF Untouched, NoRange, Result
  <2>4. PrimeType
    BY <2>1, <2>2, <2>3, FS_EmptySet DEF PrimeType, Labels
  <2>5. Signalled \subseteq Workers
    BY DEF Signalled
  <2> QED
    BY <2>1, <2>2, <2>3, <2>4, <2>5 DEF Places, Results, Sums, OfThisRound, Counts
<1>2. ErrInv /\ [Next]_vars => ErrInv'
  <2> SUFFICES ASSUME ErrInv, [Next]_vars, program' = "prime_cond_err"
               PROVE  PrimeType' /\ Places' /\ Results' /\ Sums' /\ Counts'
    BY DEF ErrInv
  <2>0. program' = program
    BY DEF Next, vars, ThreadFunc, EarlyReturn, MainFunc, Exited
  <2>1. PrimeType /\ Places /\ Results /\ Sums /\ Counts
    BY <2>0 DEF ErrInv
  <2>2. CASE \E t \in Workers : ThreadFunc(t)
    <3>1. PICK t \in Workers : CondErr!ThreadFunc(t) /\ UNCHANGED early
      BY <2>0, <2>2 DEF ThreadFunc
    <3> QED
      BY <2>1, <3>1, ErrWorker, ErrWorkerInv, ErrWorkerCounts
  <2>3. CASE MainFunc
    <3>1. CondErr!MainFunc /\ UNCHANGED early
      BY <2>0, <2>3 DEF MainFunc
    <3> QED
      BY <2>1, <3>1, ErrCreate, ErrRead, ErrBroadcast, ErrPoll, ErrTotal DEF CondErr!MainFunc
  <2>4. CASE UNCHANGED vars
    <3>1. UNCHANGED <<mutex, asleep, thread_ret, range_start, range_end, pc, job, left, main, idx,
                      round, sum, is_done, cnt_prime, reg, base, counted, early>>
      BY <2>4 DEF vars, sharedVars, rangeVars, workerVars, jobVars, errVars
    <3>2. Places' /\ Results' /\ Sums'
      BY <2>1, <3>1, QuietMain DEF Places, Results, Sums, OfThisRound
    <3>3. \A t \in Workers : Todo(t)' = Todo(t)
      BY <3>1, QuietMain DEF Todo
    <3>4. Counting => Counting'
      BY <3>1, <3>3, QuietMain DEF Counting, Between, InRange, Least
    <3>5. Counts'
      BY <2>1, <3>1, <3>4 DEF Counts, InRange, Least
    <3> QED
      BY <2>1, <3>1, <3>2, <3>5 DEF PrimeType
  <2>5. CASE \E t \in Workers : EarlyReturn(t)
    BY <2>1, <2>5, ErrEarly
  <2> QED
    BY <2>2, <2>3, <2>4, <2>5 DEF Next, Exited
<1> QED
  BY <1>1, <1>2, PTL DEF Spec

\* Unlocked polling and unlocked resets never let main of prime_cond_err add up a result of
\* another query, however many workers and queries there are, and however often waits
\* return unsignalled, but for the workers whose waits do.
THEOREM RoundTheorem == Spec => []RoundTogether
<1>1. ErrInv => RoundTogether
  BY DEF ErrInv, Sums, RoundTogether
<1> QED
  BY <1>1, ErrInvariant, PTL

\* Whatever increments are lost, a report main of prime_cond_err adds up is ahead of the
\* cnt_prime the query began with by no more than the primes of the range, and by at least
\* one if the slice of its worker holds a prime, for any ranges and number of workers.
THEOREM CountTheorem == Spec => []CountInRange
<1>1. ErrInv => CountInRange
  BY DEF ErrInv, Counts, InRange, CountInRange
<1> QED
  BY <1>1, ErrInvariant, PTL

-----------------------------------------------------------------------------
(* The steps of prime_cond.                                                *)

\* What a step of t does to t.
CondMove(t) ==
  \/ /\ pc[t] = "top" /\ pc'[t] = "topWait" /\ thread_ret'[t].cnt = -1
     /\ asleep' = asleep /\ job' = job
  \/ /\ \/ pc[t] = "topWait" /\ pc'[t] = "topWake"
        \/ pc[t] = "wait" /\ pc'[t] = "wake"
     /\ asleep' = asleep \cup {t} /\ UNCHANGED <<thread_ret, job>>
  \/ /\ \/ pc[t] = "topWake" /\ pc'[t] = "count"
        \/ pc[t] = "wake" /\ pc'[t] = "top"
     /\ t \notin asleep /\ UNCHANGED <<asleep, thread_ret, job>>
  \/ /\ pc[t] = "count" /\ pc'[t] = "report" /\ job'[t] = <<range_start, range_end>>
     /\ UNCHANGED <<asleep, thread_ret>>
  \/ /\ pc[t] = "report" /\ pc'[t] = "wait" /\ thread_ret'[t].of = job[t]
     /\ thread_ret'[t].cnt >= 0 /\ UNCHANGED <<asleep, job>>

\* A step of a worker is one of these, and leaves the other workers as they are.
LEMMA CondWorker ==
  ASSUME PrimeType, NEW t \in Workers, Cond!ThreadFunc(t), UNCHANGED errVars
  PROVE  /\ UNCHANGED <<main, idx, round, sum, ready, range_start, range_end>>
         /\ CondMove(t)
         /\ PrimeType'
         /\ \A u \in Workers : u # t =>
              /\ pc'[u] = pc[u] /\ thread_ret'[u] = thread_ret[u] /\ job'[u] = job[u]
              /\ u \in asleep' <=> u \in asleep
<1> USE DEF PrimeType, Cond!Goto
<1>0. UNCHANGED <<main, idx, round, sum, ready, cnt_prime, reg, base>>
  BY DEF Cond!ThreadFunc, errVars
<1>1. CASE Cond!SetRet(t, "top", Cond!Negative, "topWait") \/ Cond!Report(t)
  <2>0. /\ Cond!Cardinality(left[t]) = Cardinality(left[t])
        /\ Cardinality(left[t]) \in Nat
    <3>1. Cond!Cardinality(left[t]) = Cardinality(left[t])
      BY DEF Cardinality, Cond!Cardinality
    <3> QED
      BY <3>1, FS_CardinalityType
  <2>1. PICK from, to, value :
          /\ \/ from = "top" /\ to = "topWait" /\ value = Cond!Negative
             \/ /\ from = "report" /\ to = "wait"
                /\ value = [of |-> job[t], cnt |-> Cardinality(left[t])]
          /\ Cond!SetRet(t, from, value, to)
    BY <1>1, <2>0 DEF Cond!Report
  <2>2. value \in Result /\ to \in Labels
    <3>1. Cond!Negative \in Result
      BY DEF Cond!Negative, Cond!NoRange, Result
    <3>2. [of |-> job[t], cnt |-> Cardinality(left[t])] \in Result
      BY <2>0 DEF Result
    <3> QED
      BY <2>1, <3>1, <3>2 DEF Labels
  <2>3. /\ pc[t] = from /\ asleep' = asleep
        /\ thread_ret' = [thread_ret EXCEPT ![t] = value] /\ pc' = [pc EXCEPT ![t] = to]
        /\ UNCHANGED <<range_start, range_end, job, left>>
    BY <2>1 DEF Cond!SetRet, Cond!rangeVars, Cond!jobVars
  <2>4. PrimeType'
    BY <1>0, <2>2, <2>3
  <2>5. pc'[t] = to /\ thread_ret'[t] = value
    BY <2>3
  <2>6. CondMove(t)
    BY <2>0, <2>1, <2>3, <2>5 DEF CondMove, Cond!Negative
  <2> QED
    BY <1>0, <2>3, <2>4, <2>6
<1>2. CASE Cond!Sleep(t, "topWait", "topWake") \/ Cond!Sleep(t, "wait", "wake")
  <2>1. /\ \/ pc[t] = "topWait" /\ pc' = [pc EXCEPT ![t] = "topWake"]
           \/ pc[t] = "wait" /\ pc' = [pc EXCEPT ![t] = "wake"]
        /\ asleep' = asleep \cup {t}
        /\ UNCHANGED <<thread_ret, range_start, range_end, job, left>>
    BY <1>2 DEF Cond!Sleep, Cond!rangeVars, Cond!jobVars
  <2>2. PrimeType'
    BY <1>0, <2>1 DEF Labels
  <2>3. CondMove(t)
    BY <2>1 DEF CondMove
  <2> QED
    BY <1>0, <2>1, <2>2, <2>3
<1>3. CASE Cond!Wake(t, "topWake", "count") \/ Cond!Wake(t, "wake", "top")
  <2>1. /\ \/ pc[t] = "topWake" /\ pc' = [pc EXCEPT ![t] = "count"]
           \/ pc[t] = "wake" /\ pc' = [pc EXCEPT ![t] = "top"]
        /\ t \notin asleep
        /\ UNCHANGED <<asleep, thread_ret, range_start, range_end, job, left>>
    BY <1>3 DEF Cond!Wake, Cond!rangeVars, Cond!jobVars
  <2>2. PrimeType'
    BY <1>0, <2>1 DEF Labels
  <2>3. CondMove(t)
    BY <2>1 DEF CondMove
  <2> QED
    BY <1>0, <2>1, <2>2, <2>3
<1>4. CASE Cond!CountPrimes(t, "count", "report")
  <2>1. /\ pc[t] = "count" /\ pc' = [pc EXCEPT ![t] = "report"]
        /\ job' = [job EXCEPT ![t] = <<range_start, range_end>>]
        /\ left' = [left EXCEPT ![t] = SlicePrimes(range_start, range_end, t)]
        /\ UNCHANGED <<asleep, thread_ret, range_start, range_end>>
    BY <1>4, SameWorkers DEF Cond!CountPrimes, Cond!rangeVars
  <2>2. PrimeType'
    <3>1. /\ SlicePrimes(range_start, range_end, t) \in SUBSET Int
          /\ IsFiniteSet(SlicePrimes(range_start, range_end, t))
      BY SliceType
    <3>2. left' \in [Workers -> SUBSET Int] /\ \A u \in Workers : IsFiniteSet(left'[u])
      BY <2>1, <3>1
    <3>3. job' \in [Workers -> Int \X Int]
      BY <2>1
    <3>4. pc' \in [Workers -> Labels]
      BY <2>1 DEF Labels
    <3> QED
      BY <1>0, <2>1, <3>2, <3>3, <3>4
  <2>3. CondMove(t)
    BY <2>1 DEF CondMove
  <2> QED
    BY <1>0, <2>1, <2>2, <2>3
<1> QED
  BY <1>1, <1>2, <1>3, <1>4 DEF Cond!ThreadFunc

\* A worker of prime_cond keeps the invariant.
LEMMA CondWorkerInv ==
  ASSUME PrimeType, CondMain, FirstRound,
         NEW t \in Workers, Cond!ThreadFunc(t), UNCHANGED <<errVars, early>>
  PROVE  CondMain' /\ FirstRound'
<1>1. /\ UNCHANGED <<main, idx, round, sum, ready, range_start, range_end>>
      /\ CondMove(t)
      /\ \A u \in Workers : u # t =>
           /\ pc'[u] = pc[u] /\ thread_ret'[u] = thread_ret[u] /\ job'[u] = job[u]
           /\ u \in asleep' <=> u \in asleep
  BY CondWorker
<1>2. /\ pc[t] # "unborn" /\ Workers \subseteq Int /\ idx \in Int
      /\ Signalled' = Signalled /\ Signalled \subseteq Workers
  BY <1>1, WorkersCount DEF CondMove, PrimeType, Signalled
<1>3. CondMain'
  BY <1>1, <1>2 DEF CondMain
<1>4. ASSUME BeforeFirst, NEW u \in Signalled PROVE Fresh(u)'
  <2>1. Fresh(u)
    BY <1>4 DEF FirstRound
  <2>2. CASE u # t
    BY <1>1, <1>2, <2>1, <2>2 DEF Fresh
  <2>3. CASE u = t
    BY <1>1, <2>1, <2>3 DEF Fresh, CondMove
  <2> QED
    BY <2>2, <2>3
<1>5. ASSUME NEW u \in Workers, Reported(u) PROVE Reported(u)'
  <2>1. CASE u # t
    BY <1>1, <1>5, <2>1 DEF Reported
  <2>2. CASE u = t
    BY <1>1, <1>5, <2>2 DEF Reported, CondMove
  <2> QED
    BY <2>1, <2>2
<1>6. ASSUME ready, round = 1, main = "poll", NEW u \in Signalled
      PROVE  /\ AtWork(u)' \/ Reported(u)'
             /\ u < idx => thread_ret'[u].cnt >= 0
  <2>1. /\ AtWork(u) \/ Reported(u)
        /\ u < idx => thread_ret[u].cnt >= 0
        /\ range_start = 1 /\ range_end = 1
    BY <1>6 DEF FirstRound, CondMain
  <2>2. CASE u # t
    <3>1. AtWork(u) => AtWork(u)'
      BY <1>1, <1>2, <2>2 DEF AtWork
    <3> QED
      BY <1>1, <1>2, <1>5, <2>1, <2>2, <3>1
  <2>3. CASE u = t /\ AtWork(t)
    BY <1>1, <2>1, <2>3 DEF AtWork, Reported, CondMove
  <2>4. CASE u = t /\ Reported(t)
    <3>1. thread_ret' = thread_ret
      BY <1>1, <2>4 DEF Reported, CondMove
    <3> QED
      BY <1>5, <2>1, <2>4, <3>1
  <2> QED
    BY <2>1, <2>2, <2>3, <2>4
<1>7. FirstRound'
  <2>1. (BeforeFirst' <=> BeforeFirst) /\ (OfThisRound' <=> OfThisRound)
    BY <1>1 DEF BeforeFirst, OfThisRound
  <2> QED
    BY <1>1, <1>2, <1>4, <1>5, <1>6, <2>1 DEF FirstRound
<1> QED
  BY <1>3, <1>7

\* main of prime_cond keeps the invariant.
LEMMA CondMainInv ==
  ASSUME PrimeType, CondMain, FirstRound, Cond!MainFunc, UNCHANGED <<errVars, early>>
  PROVE  PrimeType' /\ CondMain' /\ FirstRound'
<1>0. /\ Workers \subseteq Int /\ idx \in Workers /\ idx \in Int /\ round \in Nat
      /\ 0 \in Workers /\ \A t \in Workers : ~(t < 0)
      /\ Signalled' = Signalled /\ Signalled \subseteq Workers
      /\ UNCHANGED <<cnt_prime, reg, base>>
  BY WorkersCount DEF PrimeType, errVars, Signalled
<1>1. CASE Cond!Create
  <2>1. /\ main = "create" /\ pc' = [pc EXCEPT ![idx] = "top"]
        /\ idx' = (idx + 1) % NUM_THREAD
        /\ main' = IF idx + 1 = NUM_THREAD THEN "start" ELSE "create"
        /\ UNCHANGED <<mutex, asleep, thread_ret, range_start, range_end, job, left, round, sum,
                       ready>>
    BY <1>1 DEF Cond!Create, Cond!Goto, Cond!rangeVars, Cond!jobVars
  <2>2. /\ idx' = IF idx + 1 = NUM_THREAD THEN 0 ELSE idx + 1
        /\ idx' \in Workers
    BY <1>0, <2>1, NextIdx
  <2>3. PrimeType'
    BY <1>0, <2>1, <2>2 DEF PrimeType, Labels
  <2>4. pc'[idx] = "top" /\ \A t \in Workers : t # idx => pc'[t] = pc[t]
    BY <1>0, <2>1 DEF PrimeType
  <2>5. /\ round = 0 /\ ~ready /\ sum = <<>>
        /\ \A t \in Workers : t >= idx => pc[t] = "unborn"
    BY <2>1 DEF CondMain
  <2>6. CondMain'
    <3>1. main' = "create" => \A t \in Workers : t >= idx' => pc'[t] = "unborn"
      BY <1>0, <2>1, <2>2, <2>4, <2>5
    <3>2. main' \in {"create", "start"}
      BY <2>1
    <3> QED
      BY <2>1, <2>5, <3>1, <3>2 DEF CondMain
  <2>7. ASSUME NEW t \in Signalled PROVE Fresh(t)'
    <3>1. Fresh(t)
      BY <2>1, <2>5 DEF FirstRound, BeforeFirst
    <3>2. CASE t # idx
      BY <1>0, <2>1, <2>4, <3>1, <3>2 DEF Fresh
    <3>3. CASE t = idx
      <4>1. pc[t] = "unborn"
        BY <1>0, <2>5, <3>3
      <4> QED
        BY <2>1, <2>4, <3>1, <3>3, <4>1 DEF Fresh
    <3> QED
      BY <3>2, <3>3
  <2>8. FirstRound'
    BY <1>0, <2>1, <2>5, <2>7 DEF FirstRound
  <2> QED
    BY <2>3, <2>6, <2>8
<1>2. CASE Cond!ReadStart("end", "broadcastEnd") /\ UNCHANGED ready
  <2>1. /\ main = "start" /\ idx' = 0 /\ sum' = <<>>
        /\ \/ round' = round + 1 /\ range_start' = round + 1 /\ main' = "end"
           \/ range_start' = -1 /\ main' = "broadcastEnd" /\ round' = round
        /\ UNCHANGED <<mutex, asleep, thread_ret, range_end, pc, job, left, ready>>
    BY <1>2 DEF Cond!ReadStart, Cond!workerVars,
       Cond!jobVars
  <2>2. PrimeType'
    <3>1. round' \in Nat /\ range_start' \in Int
      BY <1>0, <2>1
    <3>2. sum' \in Seq(Result) /\ idx' \in Workers
      BY <1>0, <2>1
    <3> QED
      BY <1>0, <2>1, <3>1, <3>2 DEF PrimeType
  <2>3. CondMain'
    BY <1>0, <2>1 DEF CondMain
  <2>4. BeforeFirst' => ~ready /\ \A t \in Signalled : Fresh(t)
    BY <1>0, <2>1 DEF FirstRound, BeforeFirst
  <2>5. BeforeFirst' => ~ready' /\ \A t \in Signalled : Fresh(t)'
    BY <2>1, <2>4 DEF Fresh
  <2>6. main' \in {"end", "broadcastEnd"}
    BY <2>1
  <2> QED
    BY <1>0, <2>1, <2>2, <2>3, <2>5, <2>6 DEF FirstRound
<1>3. CASE Cond!ReadEnd("broadcast") /\ UNCHANGED ready
  <2>1. /\ main = "end" /\ main' = "broadcast" /\ range_end' = round
        /\ UNCHANGED <<mutex, asleep, thread_ret, range_start, pc, job, left, idx, round, sum,
                       ready>>
    BY <1>3 DEF Cond!ReadEnd, Cond!workerVars,
       Cond!jobVars
  <2>2. PrimeType' /\ CondMain'
    BY <1>0, <2>1 DEF PrimeType, CondMain
  <2>3. FirstRound'
    BY <1>0, <2>1 DEF FirstRound, BeforeFirst, Fresh
  <2> QED
    BY <2>2, <2>3
<1>4. CASE \/ Cond!Broadcast("broadcastEnd", "exit") /\ UNCHANGED ready
           \/ /\ Cond!Broadcast("broadcast", "poll")
              /\ ready' = IF round = 1 THEN asleep = Workers ELSE ready
  <2>1. /\ asleep' = {} /\ idx' = 0
        /\ \/ main = "broadcastEnd" /\ main' = "exit" /\ ready' = ready
           \/ /\ main = "broadcast" /\ main' = "poll"
              /\ ready' = IF round = 1 THEN asleep = Workers ELSE ready
        /\ UNCHANGED <<mutex, thread_ret, range_start, range_end, pc, job, left, round, sum>>
    BY <1>4, SameWorkers DEF Cond!Broadcast, Cond!rangeVars, Cond!workerVars,
       Cond!jobVars
  <2>2. PrimeType'
    BY <1>0, <2>1 DEF PrimeType
  <2>3. CondMain'
    <3>1. CASE main = "broadcastEnd"
      BY <2>1, <3>1 DEF CondMain
    <3>2. CASE main = "broadcast"
      BY <2>1, <3>2 DEF CondMain
    <3> QED
      BY <2>1, <3>1, <3>2
  <2>4. ASSUME ready', round = 1, main = "broadcast", NEW t \in Signalled
        PROVE  AtWork(t)'
    <3>1. Fresh(t) /\ t \in asleep
      BY <1>0, <2>1, <2>4 DEF FirstRound, BeforeFirst
    <3> QED
      BY <2>1, <3>1 DEF Fresh, AtWork
  <2>5. FirstRound'
    BY <1>0, <2>1, <2>4 DEF FirstRound, BeforeFirst
  <2> QED
    BY <2>2, <2>3, <2>5
<1>5. CASE Cond!Poll /\ UNCHANGED ready
  <2>1. /\ main = "poll"
        /\ idx' = IF thread_ret[idx].cnt < 0 THEN 0 ELSE (idx + 1) % NUM_THREAD
        /\ main' = IF thread_ret[idx].cnt >= 0 /\ idx + 1 = NUM_THREAD
                   THEN "collect" ELSE "poll"
        /\ UNCHANGED <<mutex, asleep, thread_ret, range_start, range_end, pc, job, left, round, sum,
                       ready>>
    BY <1>5 DEF Cond!Poll, Cond!rangeVars, Cond!workerVars,
       Cond!jobVars
  <2>2. idx' \in Workers
    BY <1>0, <2>1, NextIdx
  <2>3. PrimeType'
    BY <1>0, <2>1, <2>2 DEF PrimeType
  <2>4. CondMain'
    <3>1. sum = <<>> /\ Len(sum) = 0
      BY <2>1 DEF CondMain
    <3>2. main' = "collect" => idx' = 0
      BY <1>0, <2>1, NextIdx
    <3> QED
      BY <2>1, <3>1, <3>2 DEF CondMain
  <2>5. \A t \in Workers : (AtWork(t)' <=> AtWork(t)) /\ (Reported(t)' <=> Reported(t))
    BY <2>1 DEF AtWork, Reported
  <2>6. \A t \in Workers : thread_ret[t].cnt \in Int
    BY DEF PrimeType, Result
  <2>7. ASSUME ready, round = 1, main' = "poll", NEW t \in Signalled, t < idx'
        PROVE  thread_ret[t].cnt >= 0
    <3>1. CASE thread_ret[idx].cnt < 0
      BY <1>0, <2>1, <2>7, <3>1
    <3>2. CASE ~(thread_ret[idx].cnt < 0)
      <4>1. thread_ret[idx].cnt >= 0 /\ idx + 1 # NUM_THREAD
        BY <1>0, <2>1, <2>6, <2>7, <3>2
      <4>2. idx' = idx + 1
        BY <1>0, <2>1, <3>2, <4>1, NextIdx
      <4>3. t < idx \/ t = idx
        BY <1>0, <2>7, <4>2
      <4> QED
        BY <1>0, <2>1, <2>7, <4>1, <4>3 DEF FirstRound
    <3> QED
      BY <3>1, <3>2
  <2>8. ASSUME ready, round = 1, main' = "collect", NEW t \in Signalled
        PROVE  Reported(t)
    <3>1. thread_ret[idx].cnt >= 0 /\ idx + 1 = NUM_THREAD
      BY <2>1, <2>8
    <3>2. t < idx \/ t = idx
      BY <1>0, <3>1, WorkersAssumption DEF Workers
    <3>3. thread_ret[t].cnt >= 0 /\ (AtWork(t) \/ Reported(t))
      BY <1>0, <2>1, <2>8, <3>1, <3>2 DEF FirstRound
    <3> QED
      BY <1>0, <2>6, <3>3 DEF AtWork
  <2>9. sum' = <<>> /\ OfThisRound'
    BY <2>1 DEF CondMain, OfThisRound
  <2>10. main' \in {"poll", "collect"} /\ ~BeforeFirst'
    BY <2>1 DEF BeforeFirst
  <2>11. FirstRound'
    <3>1. ready' /\ round' = 1 /\ main' = "poll" =>
            \A t \in Signalled : /\ AtWork(t)' \/ Reported(t)'
                                 /\ t < idx' => thread_ret'[t].cnt >= 0
      BY <1>0, <2>1, <2>5, <2>7 DEF FirstRound
    <3>2. ready' /\ round' = 1 /\ main' = "collect" => \A t \in Signalled : Reported(t)'
      BY <1>0, <2>1, <2>5, <2>8
    <3> QED
      BY <1>0, <2>9, <2>10, <3>1, <3>2 DEF FirstRound
  <2> QED
    BY <2>3, <2>4, <2>11
<1>6. CASE Cond!Collect /\ UNCHANGED ready
  <2>1. /\ main = "collect" /\ sum' = Append(sum, thread_ret[idx])
        /\ idx' = (idx + 1) % NUM_THREAD
        /\ main' = IF idx + 1 = NUM_THREAD THEN "start" ELSE "collect"
        /\ UNCHANGED <<mutex, asleep, thread_ret, range_start, range_end, pc, job, left, round,
                       ready>>
    BY <1>6 DEF Cond!Collect, Cond!rangeVars, Cond!workerVars,
       Cond!jobVars
  <2>2. idx' \in Workers /\ idx' = IF idx + 1 = NUM_THREAD THEN 0 ELSE idx + 1
    BY <1>0, <2>1, NextIdx
  <2>3. sum \in Seq(Result) /\ thread_ret[idx] \in Result /\ Len(sum) = idx
    BY <1>0, <2>1 DEF PrimeType, CondMain
  <2>4. sum' \in Seq(Result) /\ Len(sum') = idx + 1
    BY <2>1, <2>3
  <2>5. PrimeType'
    BY <1>0, <2>1, <2>2, <2>4 DEF PrimeType
  <2>6. round > 0
    BY <2>1 DEF CondMain
  <2>7. CondMain'
    BY <1>0, <2>1, <2>2, <2>4, <2>6 DEF CondMain
  <2>8. ASSUME ready, round = 1
        PROVE  OfThisRound' /\ \A t \in Signalled : Reported(t)'
    <3>1. OfThisRound /\ \A t \in Signalled : Reported(t)
      BY <2>1, <2>8 DEF FirstRound
    <3>2. ASSUME NEW i \in 1..Len(sum'), i - 1 \notin early PROVE sum'[i].of = <<1, 1>>
      <4>1. \/ i \in 1..Len(sum) /\ sum'[i] = sum[i]
            \/ i - 1 = idx /\ sum'[i] = thread_ret[idx]
        BY <1>0, <2>1, <2>3, <2>4
      <4> QED
        BY <1>0, <2>8, <3>1, <3>2, <4>1 DEF OfThisRound, Reported, Signalled
    <3> QED
      BY <2>1, <2>8, <3>1, <3>2 DEF OfThisRound, Reported
  <2>9. main' \in {"start", "collect"} /\ ~BeforeFirst'
    BY <1>0, <2>1, <2>6 DEF BeforeFirst
  <2>10. FirstRound'
    BY <1>0, <2>1, <2>8, <2>9 DEF FirstRound
  <2> QED
    BY <2>5, <2>7, <2>10
<1>7. \/ Cond!Create
      \/ Cond!ReadStart("end", "broadcastEnd") /\ UNCHANGED ready
      \/ Cond!ReadEnd("broadcast") /\ UNCHANGED ready
      \/ Cond!Broadcast("broadcastEnd", "exit") /\ UNCHANGED ready
      \/ /\ Cond!Broadcast("broadcast", "poll")
         /\ ready' = IF round = 1 THEN asleep = Workers ELSE ready
      \/ Cond!Poll /\ UNCHANGED ready
      \/ Cond!Collect /\ UNCHANGED ready
  BY SameWorkers DEF Cond!MainFunc
<1> QED
  BY <1>1, <1>2, <1>3, <1>4, <1>5, <1>6, <1>7

\* A wait of prime_cond returns unsignalled: nothing is claimed of its worker any more.
LEMMA CondEarly ==
  ASSUME PrimeType, CondMain, FirstRound, NEW t \in Workers, EarlyReturn(t)
  PROVE  PrimeType' /\ CondMain' /\ FirstRound'
<1>1. /\ asleep' = asleep \ {t} /\ early' = early \cup {t}
      /\ UNCHANGED <<thread_ret, range_start, range_end, pc, job, left, main, idx, round,
                     sum, ready, cnt_prime, reg, base>>
  BY DEF EarlyReturn, rangeVars, workerVars, jobVars, errVars
<1>2. /\ Signalled' \subseteq Signalled
      /\ \A u \in Signalled' : u # t
  BY <1>1 DEF Signalled
<1>3. \A u \in Signalled' : /\ Fresh(u)' <=> Fresh(u)
                            /\ AtWork(u)' <=> AtWork(u)
                            /\ Reported(u)' <=> Reported(u)
  BY <1>1, <1>2 DEF Fresh, AtWork, Reported
<1>4. (BeforeFirst' <=> BeforeFirst) /\ (OfThisRound => OfThisRound')
  BY <1>1 DEF BeforeFirst, OfThisRound
<1>5. PrimeType' /\ CondMain'
  BY <1>1 DEF PrimeType, CondMain
<1>6. FirstRound'
  BY <1>1, <1>2, <1>3, <1>4 DEF FirstRound
<1> QED
  BY <1>5, <1>6

\* If every worker of prime_cond was asleep when main first broadcast, the first answer
\* takes nothing but results of the first range, however many workers there are.
THEOREM FirstRoundTheorem == Spec => []FirstRoundRight
<1>1. Init => CondInv
  <2> SUFFICES ASSUME Init PROVE PrimeType /\ CondMain /\ FirstRound
    BY DEF CondInv
  <2>1. /\ pc = [t \in Workers |-> "unborn"] /\ main = "create" /\ ready = FALSE
        /\ cnt_prime = 0 /\ reg = [t \in Workers |-> 0]
        /\ mutex = NoThread /\ asleep = {} /\ thread_ret = [t \in Workers |-> Untouched]
        /\ range_start = 0 /\ range_end = 0 /\ job = [t \in Workers |-> NoRange]
        /\ left = [t \in Workers |-> {}] /\ base = 0
        /\ idx = 0 /\ round = 0 /\ sum = <<>>
    BY SameWorkers DEF Init, Cond!Init, CondErr!Init, CondErr!WorkersInit, CondErr!Untouched,
       Untouched, CondErr!NoRange, NoRange
  <2>2. 0 \in Workers
    BY WorkersAssumption DEF Workers
  <2>3. Untouched \in Result /\ NoRange \in Int \X Int
    BY DEF Untouched, NoRange, Result
  <2>4. PrimeType
    BY <2>1, <2>2, <2>3, FS_EmptySet DEF PrimeType, Labels
  <2>5. CondMain
    BY <2>1 DEF CondMain
  <2>6. \A t \in Signalled : Fresh(t)
    BY <2>1 DEF Fresh, Signalled
  <2> QED
    BY <2>1, <2>4, <2>5, <2>6 DEF FirstRound
<1>2. CondInv /\ [Next]_vars => CondInv'
  <2> SUFFICES ASSUME CondInv, [Next]_vars, program' = "prime_cond"
               PROVE  PrimeType' /\ CondMain' /\ FirstRound'
    BY DEF CondInv
  <2>0. program' = program
    BY DEF Next, vars, ThreadFunc, EarlyReturn, MainFunc, Exited
  <2>1. PrimeType /\ CondMain /\ FirstRound
    BY <2>0 DEF CondInv
  <2>2. CASE \E t \in Workers : ThreadFunc(t)
    <3>1. PICK t \in Workers : Cond!ThreadFunc(t) /\ UNCHANGED <<errVars, early>>
      BY <2>0, <2>2 DEF ThreadFunc
    <3> QED
      BY <2>1, <3>1, CondWorker, CondWorkerInv
  <2>3. CASE MainFunc
    <3>1. Cond!MainFunc /\ UNCHANGED <<errVars, early>>
      BY <2>0, <2>3 DEF MainFunc
    <3> QED
      BY <2>1, <3>1, CondMainInv
  <2>4. CASE UNCHANGED vars
    <3>1. UNCHANGED <<asleep, thread_ret, range_start, range_end, pc, job, left, main, idx,
                      round, sum, ready, cnt_prime, reg, base, early>>
      BY <2>4 DEF vars, sharedVars, rangeVars, workerVars, jobVars, errVars
    <3>2. PrimeType' /\ CondMain'
      BY <2>1, <3>1 DEF PrimeType, CondMain
    <3>3. FirstRound'
      BY <2>1, <3>1 DEF FirstRound, BeforeFirst, OfThisRound, Fresh, AtWork, Reported, Signalled
    <3> QED
      BY <3>2, <3>3
  <2>5. CASE \E t \in Workers : EarlyReturn(t)
    BY <2>1, <2>5, CondEarly
  <2> QED
    BY <2>2, <2>3, <2>4, <2>5 DEF Next, Exited
<1>3. CondInv => FirstRoundRight
  <2> SUFFICES ASSUME PrimeType, CondMain, FirstRound, ready, round = 1
               PROVE  OfThisRound
    BY DEF CondInv, FirstRoundRight
  <2>1. CASE main \in {"start", "collect"}
    BY <2>1 DEF FirstRound
  <2>2. CASE main \notin {"start", "collect"}
    BY <2>2 DEF CondMain, OfThisRound
  <2> QED
    BY <2>1, <2>2
<1> QED
  BY <1>1, <1>2, <1>3, PTL DEF Spec
=============================================================================
