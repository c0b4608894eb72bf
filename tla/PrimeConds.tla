----------------------------- MODULE PrimeConds -----------------------------
(***************************************************************************)
(* The two prime counters with a condition variable side by side:          *)
(* `program' says which of them runs.                                      *)
(***************************************************************************)
EXTENDS PrimeWorkers

CONSTANTS Garbage,         \* what an uninitialised int may hold
          MaxEarly         \* bound: unsignalled returns from waits

ASSUME PrimeAssumption ==
  Garbage \subseteq Int /\ Garbage # {} /\ MaxEarly \in Nat

VARIABLES program,
          early, returns,    \* history: the workers whose wait has returned unsignalled,
                             \* and how often that has happened
          ready,                                        \* of PrimeCond
          is_done, cnt_prime, reg, number_of_prime, base, counted    \* of PrimeCondErr

sharedVars == <<mutex, asleep, thread_ret, rangeVars, workerVars, main, idx, round, sum>>
errVars == <<is_done, cnt_prime, reg, number_of_prime, base, counted>>
vars == <<program, early, returns, sharedVars, ready, errVars>>

Cond == INSTANCE PrimeCond
CondErr == INSTANCE PrimeCondErr

Init ==
  /\ program \in {"prime_cond", "prime_cond_err"}
  /\ Cond!Init /\ CondErr!Init
  /\ early = {} /\ returns = 0

ThreadFunc(t) ==
  /\ \/ program = "prime_cond" /\ Cond!ThreadFunc(t) /\ UNCHANGED errVars
     \/ program = "prime_cond_err" /\ CondErr!ThreadFunc(t) /\ UNCHANGED ready
  /\ UNCHANGED <<program, early, returns>>

MainFunc ==
  /\ \/ program = "prime_cond" /\ Cond!MainFunc /\ UNCHANGED errVars
     \/ program = "prime_cond_err" /\ CondErr!MainFunc /\ UNCHANGED ready
  /\ UNCHANGED <<program, early, returns>>

\* pthread_cond_wait may return although nobody has signalled; both programs wait without
\* testing a condition.
EarlyReturn(t) ==
  /\ main # "exit" /\ t \in asleep /\ returns < MaxEarly
  /\ asleep' = asleep \ {t}
  /\ early' = early \cup {t} /\ returns' = returns + 1
  /\ UNCHANGED <<program, mutex, thread_ret, rangeVars, workerVars, main, idx, round, sum,
                 ready, errVars>>

Exited == main = "exit" /\ UNCHANGED vars

Next == (\E t \in Workers : ThreadFunc(t) \/ EarlyReturn(t)) \/ MainFunc \/ Exited

Spec == Init /\ [][Next]_vars

\* The scheduler runs every thread that can run, and the input ends.  Nothing makes a wait
\* return early.
FairSpec ==
  /\ Spec
  /\ WF_vars(MainFunc) /\ \A t \in Workers : WF_vars(ThreadFunc(t))

-----------------------------------------------------------------------------
(* Properties.                                                             *)

\* Every result main has added up so far was reported by a worker that has gone through
\* its slice of this very query, with both ends of its range; the one of worker i - 1 is
\* the i-th.  Nothing is said of a worker whose wait has returned unsignalled.
OfThisRound ==
  \A i \in 1..Len(sum) : i - 1 \notin early => sum[i].of = <<round, round>>

\* prime_cond_err.cpp: unlocked polling and unlocked resets never let main take a result
\* of another query ("Wait for all threads to finish work", "Collect the results"), and an
\* unsignalled return of one worker does not spoil the results of the others.
RoundTogether == program = "prime_cond_err" => OfThisRound

\* The primes of the range of query q, and the least number worker t must see of them.
RangePrimes(q) == {n \in First(q)..Last(q) : IsPrime(n)}
Least(t) == IF SlicePrimes(round, round, t) = {} THEN 0 ELSE 1

\* prime_cond_err.cpp: the racing increments lose counts, but not all of them, and count no
\* prime twice: a report exceeds what cnt_prime held at the broadcast by no more than the
\* primes of the range, and by at least one if its worker's slice holds a prime
\* (prime_cond_err.cpp:46-60).  A slice may be empty, and so may the whole range.
CountInRange ==
  program = "prime_cond_err" /\ early = {} =>
    \A i \in 1..Len(sum) :
      sum[i].cnt \in (base + Least(i - 1))..(base + Cardinality(RangePrimes(round)))

\* prime_cond_err.cpp: no broadcast is missed: after the -1 every worker ends and main
\* joins them ("Wake up all threads to terminate", "Wait threads end").  Only an unsignalled
\* return can undo this: of a worker whose -1 main then never sees, or of one that main then
\* joins for ever.
JoinsAll ==
  program = "prime_cond_err" =>
    \/ <>(main = "exit")
    \/ <>[](main = "await" /\ idx \in early)
    \/ <>[](main = "join" /\ \E t \in early : pc[t] # "exit")

\* prime_cond.cpp: if every worker was asleep when main first broadcast, the first
\* answer is right: all results are of the first range.
FirstRoundRight == program = "prime_cond" /\ ready /\ round = 1 => OfThisRound

\* prime_cond.cpp: what is added up is what each worker has counted in its slice of the
\* range just read ("Collect results", prime_cond.cpp:113; result_cond.txt has one answer
\* for each range), if every worker was asleep when main first broadcast and no wait has
\* returned unsignalled.
AnswersRight ==
  program = "prime_cond" /\ ready /\ early = {} =>
    \A i \in 1..Len(sum) : sum[i].cnt = Cardinality(SlicePrimes(round, round, i - 1))

\* prime_cond.cpp: main either returns or polls for ever because a worker went to the
\* wait at the top of its loop after the last broadcast; there is no other way to hang,
\* unsignalled returns or not (prime_cond.cpp:35-59, 95-111).
HangsOnlyAsleep ==
  program = "prime_cond" =>
    \/ <>(main = "exit")
    \/ <>[](main = "poll" /\ asleep = Workers /\ \E t \in Workers : pc[t] = "topWake")
=============================================================================
