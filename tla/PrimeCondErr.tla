---------------------------- MODULE PrimeCondErr ----------------------------
(***************************************************************************)
(* lab05/prime_cond_err.cpp.  main waits for each worker to sleep before   *)
(* the first query and resets thread_ret before each broadcast.  All       *)
(* workers count in one global cnt_prime, without the mutex and without    *)
(* ever starting from zero again, and main adds up their reports from an   *)
(* uninitialised number_of_prime.                                          *)
(***************************************************************************)
EXTENDS PrimeWorkers

CONSTANT Garbage          \* what an uninitialised int may hold

VARIABLES is_done,
          cnt_prime, reg,       \* the global counter; what a cnt_prime++ has loaded
          number_of_prime,
          base, counted         \* history: cnt_prime when the workers were woken for this
                                \* query; the primes stored since

countVars == <<cnt_prime, reg, base, counted>>
errVars == <<is_done, countVars, number_of_prime>>

Init ==
  /\ WorkersInit
  /\ pc = [t \in Workers |-> "unborn"]
  /\ main = "create" /\ is_done = FALSE
  /\ cnt_prime = 0 /\ reg = [t \in Workers |-> 0]
  /\ number_of_prime \in Garbage
  /\ base = 0 /\ counted = {}

Test(t) ==
  /\ pc[t] = "test"
  /\ Goto(t, IF is_done THEN "exit" ELSE "count")
  /\ UNCHANGED <<mutex, asleep, thread_ret, rangeVars, jobVars>>

\* Mutant: cnt_prime is reported before the slice has been counted.
ReportEarly(t) ==
  SetRet(t, "loop", [of |-> job[t], cnt |-> cnt_prime], "wait")

\* After the loop: thread_ret[tid] = cnt_prime.
Report(t) ==
  /\ left[t] = {}
  /\ SetRet(t, "loop", [of |-> job[t], cnt |-> cnt_prime], "wait")

\* cnt_prime++ for the next prime of the slice: a load and a store.
Load(t) ==
  /\ pc[t] = "loop" /\ left[t] # {}
  /\ reg' = [reg EXCEPT ![t] = cnt_prime]
  /\ Goto(t, "store")
  /\ UNCHANGED <<mutex, asleep, thread_ret, rangeVars, jobVars, cnt_prime, base, counted>>

Store(t) ==
  /\ pc[t] = "store"
  /\ cnt_prime' = reg[t] + 1 /\ reg' = [reg EXCEPT ![t] = 0]
  /\ \E n \in left[t] :
       /\ \A m \in left[t] : n =< m
       /\ left' = [left EXCEPT ![t] = @ \ {n}]
       /\ counted' = counted \cup {n}
  /\ Goto(t, "loop")
  /\ UNCHANGED <<mutex, asleep, thread_ret, rangeVars, job, base>>

ThreadFunc(t) ==
  /\ \/ /\ \/ SetRet(t, "first", Negative, "firstWait")
           \/ Sleep(t, "firstWait", "wake")
           \/ Report(t)
           \/ Sleep(t, "wait", "wake")
           \/ Wake(t, "wake", "test")
           \/ Test(t)
           \/ CountPrimes(t, "count", "loop")
        /\ UNCHANGED countVars
     \/ Load(t) \/ Store(t)
  /\ UNCHANGED <<main, idx, round, sum, is_done, number_of_prime>>

\* pthread_create, then poll until the new worker's -1 is seen.
Create ==
  /\ main = "create"
  /\ Goto(idx, "first")
  /\ main' = "await"
  /\ UNCHANGED <<mutex, asleep, thread_ret, rangeVars, jobVars, idx, round, sum, errVars>>

AwaitSleep ==
  /\ main = "await"
  /\ IF thread_ret[idx].cnt = -1
     THEN /\ idx' = (idx + 1) % NUM_THREAD
          /\ main' = IF idx + 1 = NUM_THREAD THEN "start" ELSE "create"
     ELSE UNCHANGED <<idx, main>>
  /\ UNCHANGED <<mutex, asleep, thread_ret, rangeVars, workerVars, round, sum, errVars>>

\* Mutant: thread_ret is not reset before the broadcast.
ResetNothing ==
  /\ main = "reset" /\ main' = "broadcast"
  /\ UNCHANGED <<mutex, asleep, thread_ret, rangeVars, workerVars, idx, round, sum, errVars>>

\* thread_ret[i] = -1, one after the other and without the mutex.
Reset ==
  /\ main = "reset"
  /\ thread_ret' = [thread_ret EXCEPT ![idx] = Negative]
  /\ idx' = (idx + 1) % NUM_THREAD
  /\ main' = IF idx + 1 = NUM_THREAD THEN "broadcast" ELSE "reset"
  /\ UNCHANGED <<mutex, asleep, rangeVars, workerVars, round, sum, errVars>>

WakeUp ==
  /\ Broadcast("broadcast", "poll")
  /\ base' = cnt_prime /\ counted' = {}
  /\ UNCHANGED <<is_done, cnt_prime, reg, number_of_prime>>

\* int number_of_prime; then the results one by one.
Total ==
  /\ Collect
  /\ \E start \in IF idx = 0 THEN Garbage ELSE {number_of_prime} :
       number_of_prime' = start + thread_ret[idx].cnt
  /\ UNCHANGED <<is_done, countVars>>

Finish(next) ==
  /\ main = "finish"
  /\ is_done' = TRUE /\ main' = next
  /\ UNCHANGED <<mutex, asleep, thread_ret, rangeVars, workerVars, idx, round, sum,
                 countVars, number_of_prime>>

Join ==
  /\ main = "join" /\ \A t \in Workers : pc[t] = "exit"
  /\ main' = "exit"
  /\ UNCHANGED <<mutex, asleep, thread_ret, rangeVars, workerVars, idx, round, sum, errVars>>

\* Mutant: the workers are woken before is_done is set.
MainFuncLateDone ==
  \/ Create \/ AwaitSleep \/ Reset \/ Finish("join") \/ Join \/ Total \/ WakeUp
  \/ /\ \/ ReadStart("end", "broadcastEnd") \/ ReadEnd("reset")
        \/ Broadcast("broadcastEnd", "finish") \/ Poll
     /\ UNCHANGED errVars

MainFunc ==
  \/ Create \/ AwaitSleep \/ Reset \/ Finish("broadcastEnd") \/ Join \/ Total \/ WakeUp
  \/ /\ \/ ReadStart("end", "finish") \/ ReadEnd("reset")
        \/ Broadcast("broadcastEnd", "join") \/ Poll
     /\ UNCHANGED errVars
=============================================================================
