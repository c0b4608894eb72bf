------------------------------ MODULE ListSet -------------------------------
(***************************************************************************)
(* What the lists of lab11 promise: a set of keys whose three operations   *)
(* each take effect at one moment between call and return.                 *)
(***************************************************************************)
CONSTANTS Threads, Keys

VARIABLES set,     \* the keys in the list
          job,     \* job[t]: the call of t, or Idle
          ret      \* ret[t]: its answer, "pending" before it takes effect

setVars == <<set, job, ret>>

Ops == {"A", "R", "C"}       \* list_add, list_remove, list_contains
Calls == [op : Ops, key : Keys]
Idle == [op |-> "none"]

SetInit ==
  /\ set = {}
  /\ job = [t \in Threads |-> Idle]
  /\ ret = [t \in Threads |-> "pending"]

SetCall(t) ==
  /\ job[t] = Idle
  /\ \E c \in Calls : job' = [job EXCEPT ![t] = c]
  /\ UNCHANGED <<set, ret>>

\* An add succeeds on a key that is absent, the others on one that is present.
Effect(t) ==
  LET k == job[t].key
      holds == IF job[t].op = "A" THEN k \notin set ELSE k \in set
  IN  /\ job[t] # Idle /\ ret[t] = "pending"
      /\ ret' = [ret EXCEPT ![t] = IF holds THEN "true" ELSE "false"]
      /\ set' = CASE job[t].op = "A" -> set \cup {k}
                  [] job[t].op = "R" -> set \ {k}
                  [] OTHER -> set
      /\ UNCHANGED job

SetReturn(t) ==
  /\ job[t] # Idle /\ ret[t] # "pending"
  /\ job' = [job EXCEPT ![t] = Idle]
  /\ ret' = [ret EXCEPT ![t] = "pending"]
  /\ UNCHANGED set

SetNext == \E t \in Threads : SetCall(t) \/ Effect(t) \/ SetReturn(t)

SetSpec == SetInit /\ [][SetNext]_setVars
=============================================================================
