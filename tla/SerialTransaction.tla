-------------------------- MODULE SerialTransaction --------------------------
(***************************************************************************)
(* What project2 promises, and what its checker test.py replays: the lines *)
(* of the output files, in order of commit id, are transactions executed   *)
(* one after the other on records that start at InitialValue.  There are   *)
(* no threads and no locks here: a commit reads i, updates j and k and     *)
(* writes its line in one step.  Ids past E leave no trace but the id.     *)
(***************************************************************************)
EXTENDS Integers, Sequences

CONSTANTS Records, E, InitialValue, IntSpan

VARIABLES db,         \* the committed value of every record
          order,      \* the last commit id given out
          outFile     \* the committed lines, in order of commit id

serialVars == <<db, order, outFile>>

Wrap(v) == ((v + IntSpan \div 2) % IntSpan) - IntSpan \div 2

SerialInit ==
  /\ db = [x \in Records |-> InitialValue]
  /\ order = 0
  /\ outFile = <<>>

\* One line of test.py's replay loop.
Replay(i, j, k) ==
  /\ i # j /\ j # k /\ i # k
  /\ order < E
  /\ order' = order + 1
  /\ db' = [db EXCEPT ![j] = Wrap(@ + db[i] + 1), ![k] = Wrap(@ - db[i])]
  /\ outFile' = Append(outFile, <<i, j, k, db'[i], db'[j], db'[k]>>)

SkipId ==
  /\ order >= E
  /\ order' = order + 1
  /\ UNCHANGED <<db, outFile>>

SerialNext == (\E i, j, k \in Records : Replay(i, j, k)) \/ SkipId

SerialSpec == SerialInit /\ [][SerialNext]_serialVars

-----------------------------------------------------------------------------
\* The replay of test.py itself, in the unbounded integers of Python: the
\* records after the first n lines.
records[n \in 0..Len(outFile)] ==
  IF n = 0 THEN [x \in Records |-> InitialValue]
  ELSE LET line == outFile[n]
           read == records[n - 1][line[1]]
       IN  [records[n - 1] EXCEPT ![line[2]] = @ + read + 1, ![line[3]] = @ - read]

\* "commit result is successful!" for every line.
AllSuccessful ==
  \A n \in 1..Len(outFile), m \in 1..3 :
    outFile[n][m + 3] = records[n][outFile[n][m]]
=============================================================================
