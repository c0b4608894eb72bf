---------------------------- MODULE PrimeWorkers ----------------------------
(***************************************************************************)
(* What lab04/prime_cond.cpp and lab05/prime_cond_err.cpp share: worker    *)
(* threads that sleep on a condition variable between queries, and a main  *)
(* thread that reads a range, broadcasts, polls thread_ret without the     *)
(* mutex and adds up the results.                                          *)
(*                                                                         *)
(* range_start and range_end hold the number of the query they were read   *)
(* for, from which First and Last get the numbers.  A result carries,      *)
(* beside the count, the range ends its worker went by (history).          *)
(***************************************************************************)
EXTENDS Integers, Sequences, FiniteSets

CONSTANTS NUM_THREAD,
          Input,          \* the ranges before the -1 that ends the input
          NoThread

ASSUME WorkersAssumption ==
  /\ NUM_THREAD \in Nat \ {0}
  /\ Input \in Seq(Int \X Int) /\ \A q \in 1..Len(Input) : Input[q][1] # -1
  /\ NoThread \notin 0..(NUM_THREAD - 1)

Workers == 0..(NUM_THREAD - 1)
Main == NUM_THREAD

VARIABLES mutex,                     \* its holder
          asleep,                    \* threads in pthread_cond_wait
          thread_ret,
          range_start, range_end,    \* the query they were read for
          pc, job, left,             \* of the workers; job: the range being counted,
                                     \* left: the primes of the slice still to come
          main, idx, round, sum      \* of the main thread: where, loop index, query,
                                     \* results added up so far

jobVars == <<job, left>>
workerVars == <<pc, jobVars>>
rangeVars == <<range_start, range_end>>

NoRange == <<0, 0>>
Untouched == [of |-> NoRange, cnt |-> 0]     \* the zero of static memory
Negative == [of |-> NoRange, cnt |-> -1]

WorkersInit ==
  /\ mutex = NoThread /\ asleep = {}
  /\ thread_ret = [t \in Workers |-> Untouched]
  /\ range_start = 0 /\ range_end = 0
  /\ job = [t \in Workers |-> NoRange] /\ left = [t \in Workers |-> {}]
  /\ idx = 0 /\ round = 0 /\ sum = <<>>

Goto(t, label) == pc' = [pc EXCEPT ![t] = label]

\* Under the mutex: thread_ret[tid] = value.  The mutex is kept for the wait.
SetRet(t, from, value, to) ==
  /\ pc[t] = from /\ mutex = NoThread
  /\ mutex' = t
  /\ thread_ret' = [thread_ret EXCEPT ![t] = value]
  /\ Goto(t, to)
  /\ UNCHANGED <<asleep, rangeVars, jobVars>>

\* pthread_cond_wait: sleep and release the mutex at once.
Sleep(t, from, to) ==
  /\ pc[t] = from /\ mutex = t
  /\ mutex' = NoThread
  /\ asleep' = asleep \cup {t}
  /\ Goto(t, to)
  /\ UNCHANGED <<thread_ret, rangeVars, jobVars>>

\* Awake again: pthread_cond_wait takes the mutex back, the code releases it.
Wake(t, from, to) ==
  /\ pc[t] = from /\ t \notin asleep /\ mutex = NoThread
  /\ Goto(t, to)
  /\ UNCHANGED <<mutex, asleep, thread_ret, rangeVars, jobVars>>

\* The values of range_start and range_end: those of a query, the zero of static
\* memory, or the -1.
First(q) == IF q \in 1..Len(Input) THEN Input[q][1] ELSE q
Last(q) == IF q \in 1..Len(Input) THEN Input[q][2] ELSE q

IsPrime(n) == n >= 2 /\ \A i \in 2..n : i < n /\ i * i =< n => n % i # 0

\* Integer division rounds towards zero.
Share(a, b) == IF a =< b THEN (b - a) \div NUM_THREAD ELSE -((a - b) \div NUM_THREAD)

\* What worker t counts of the range; the last one takes the rest.
Slice(a, b, t) ==
  (a + Share(a, b) * t) ..
  (IF t = NUM_THREAD - 1 THEN b ELSE a + Share(a, b) * (t + 1) - 1)

SlicePrimes(s, e, t) == {n \in Slice(First(s), Last(e), t) : IsPrime(n)}

\* The range is read without the mutex.
CountPrimes(t, from, to) ==
  /\ pc[t] = from
  /\ job' = [job EXCEPT ![t] = <<range_start, range_end>>]
  /\ left' = [left EXCEPT ![t] = SlicePrimes(range_start, range_end, t)]
  /\ Goto(t, to)
  /\ UNCHANGED <<mutex, asleep, thread_ret, rangeVars>>

\* scanf of range_start: the next query, or -1.
ReadStart(next, last) ==
  /\ main = "start"
  /\ \/ /\ round < Len(Input)
        /\ round' = round + 1 /\ range_start' = round + 1
        /\ main' = next
     \/ /\ range_start' = -1 /\ main' = last
        /\ UNCHANGED round
  /\ idx' = 0 /\ sum' = <<>>
  /\ UNCHANGED <<mutex, asleep, thread_ret, range_end, workerVars>>

ReadEnd(next) ==
  /\ main = "end"
  /\ range_end' = round
  /\ main' = next
  /\ UNCHANGED <<mutex, asleep, thread_ret, range_start, workerVars, idx, round, sum>>

\* pthread_cond_broadcast under the mutex.
Broadcast(from, to) ==
  /\ main = from /\ mutex = NoThread
  /\ asleep' = {} /\ idx' = 0
  /\ main' = to
  /\ UNCHANGED <<mutex, thread_ret, rangeVars, workerVars, round, sum>>

\* One look at thread_ret[idx]; a negative one starts the scan over.
Poll ==
  /\ main = "poll"
  /\ idx' = IF thread_ret[idx].cnt < 0 THEN 0 ELSE (idx + 1) % NUM_THREAD
  /\ main' = IF thread_ret[idx].cnt >= 0 /\ idx + 1 = NUM_THREAD
             THEN "collect" ELSE "poll"
  /\ UNCHANGED <<mutex, asleep, thread_ret, rangeVars, workerVars, round, sum>>

Collect ==
  /\ main = "collect"
  /\ sum' = Append(sum, thread_ret[idx])
  /\ idx' = (idx + 1) % NUM_THREAD
  /\ main' = IF idx + 1 = NUM_THREAD THEN "start" ELSE "collect"
  /\ UNCHANGED <<mutex, asleep, thread_ret, rangeVars, workerVars, round>>
=============================================================================
