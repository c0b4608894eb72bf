----------------------------- MODULE PrimeCond -----------------------------
(***************************************************************************)
(* lab04/prime_cond.cpp.  main neither waits for the workers to sleep nor  *)
(* resets thread_ret; a worker waits twice for every range it counts.      *)
(***************************************************************************)
EXTENDS PrimeWorkers

VARIABLE ready     \* history: did all workers sleep at the first broadcast?

Init ==
  /\ WorkersInit
  /\ pc = [t \in Workers |-> "unborn"]
  /\ main = "create" /\ ready = FALSE

\* Mutant: the result is not stored.
ReportNothing(t) == SetRet(t, "report", Negative, "wait")

\* thread_ret[tid] = cnt_prime, which is counted in a local variable.
Report(t) == SetRet(t, "report", [of |-> job[t], cnt |-> Cardinality(left[t])], "wait")

\* is_done is set at the end of the input and never read.
ThreadFunc(t) ==
  /\ main # "exit"
  /\ \/ SetRet(t, "top", Negative, "topWait")
     \/ Sleep(t, "topWait", "topWake")
     \/ Wake(t, "topWake", "count")
     \/ CountPrimes(t, "count", "report")
     \/ Report(t)
     \/ Sleep(t, "wait", "wake")
     \/ Wake(t, "wake", "top")
  /\ UNCHANGED <<main, idx, round, sum, ready>>

Create ==
  /\ main = "create"
  /\ Goto(idx, "top")
  /\ idx' = (idx + 1) % NUM_THREAD
  /\ main' = IF idx + 1 = NUM_THREAD THEN "start" ELSE "create"
  /\ UNCHANGED <<mutex, asleep, thread_ret, rangeVars, jobVars, round, sum, ready>>

\* Mutant: the workers are woken before range_end is read.
MainFuncEager ==
  \/ Create
  \/ /\ ReadStart("broadcast", "broadcastEnd") \/ ReadEnd("poll")
        \/ Broadcast("broadcastEnd", "exit") \/ Poll \/ Collect
     /\ UNCHANGED ready
  \/ /\ Broadcast("broadcast", "end")
     /\ ready' = IF round = 1 THEN asleep = Workers ELSE ready

\* main returns after the last broadcast, and the process ends.
MainFunc ==
  \/ Create
  \/ /\ ReadStart("end", "broadcastEnd") \/ ReadEnd("broadcast")
        \/ Broadcast("broadcastEnd", "exit") \/ Poll \/ Collect
     /\ UNCHANGED ready
  \/ /\ Broadcast("broadcast", "poll")
     /\ ready' = IF round = 1 THEN asleep = Workers ELSE ready
=============================================================================
