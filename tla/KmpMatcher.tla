----------------------------- MODULE KmpMatcher -----------------------------
(***************************************************************************)
(* project1/kmp_solution/ref_solution.cpp: a query starts one thread per   *)
(* word, in batches of 47; each runs Knuth-Morris-Pratt and stores the     *)
(* first occurrence of its word in result under a mutex.  main joins the   *)
(* batch, sorts result and prints what was found.                          *)
(*                                                                         *)
(* Positions count from 1 here, and 0 stands for the code's -1.            *)
(***************************************************************************)
EXTENDS Matcher

CONSTANTS BatchSize,      \* the 47 of main
          MaxWords        \* bound on the dictionary

VARIABLES main, input,
          todo,           \* words the loop over word_list has not reached
          batch,          \* words whose threads have been started since the last join
          running,        \* the ones that have not ended
          result          \* pairs of a word and where it was found

queryVars == <<input, todo, batch, running, result>>

Idle ==
  /\ main = "read" /\ input = <<>>
  /\ todo = {} /\ batch = {} /\ running = {} /\ result = {}

\* The N words at the start of the input.
Init ==
  /\ \E n \in 0..MaxWords : \E buf \in [1..n -> Words] : word_list = ToSet(buf)
  /\ answer = NoAnswer /\ Idle

\* The inner while of getPi and kmp: from j matched letters of p, the longest border
\* that the letter c extends, or none.
Fallback(p, pi, c, k) ==
  LET back[j \in 0..Len(p)] == IF j > 0 /\ c # p[j + 1] THEN back[pi[j]] ELSE j
  IN  back[k]

getPi(p) ==
  LET step(acc, i) ==
        LET j == Fallback(p, acc.pi, p[i], acc.j)
            k == IF p[i] = p[j + 1] THEN j + 1 ELSE j
        IN  [pi |-> IF k > j THEN [acc.pi EXCEPT ![i] = k] ELSE acc.pi, j |-> k]
      start == [pi |-> [i \in 1..Len(p) |-> 0], j |-> 0]
  IN  FoldLeft(step, start, [i \in 1..(Len(p) - 1) |-> i + 1]).pi

\* The thread's scan: the place of the first occurrence, or 0.
kmp(word, text) ==
  LET pi == getPi(word)
      step(acc, i) ==
        LET j == Fallback(word, pi, text[i], acc.j)
            hit == text[i] = word[j + 1]
            full == j + 1 = Len(word)
        IN  IF acc.at # 0 THEN acc
            ELSE [j |-> IF hit /\ ~full THEN j + 1 ELSE j,
                  at |-> IF hit /\ full THEN i - Len(word) + 1 ELSE 0]
  IN  FoldLeft(step, [j |-> 0, at |-> 0], [i \in 1..Len(text) |-> i]).at

\* The order main sorts by.
cmp(a, b) == a[2] < b[2] \/ (a[2] = b[2] /\ Before(a[1], b[1]))

Add ==
  /\ main = "read" /\ Cardinality(word_list) < MaxWords
  /\ \E w \in Words : word_list' = word_list \cup {w}
  /\ answer' = NoAnswer /\ UNCHANGED <<main, queryVars>>

Delete ==
  /\ main = "read"
  /\ \E w \in Words : word_list' = word_list \ {w}
  /\ answer' = NoAnswer /\ UNCHANGED <<main, queryVars>>

Query ==
  /\ main = "read"
  /\ input' \in Inputs
  /\ answer' = NoAnswer
  /\ todo' = word_list /\ main' = "start"
  /\ UNCHANGED <<word_list, batch, running, result>>

\* The loop over word_list takes its words in their order.
StartThread ==
  /\ main = "start" /\ todo # {} /\ Cardinality(batch) < BatchSize
  /\ \E w \in todo :
       /\ \A v \in todo \ {w} : Before(w, v)
       /\ todo' = todo \ {w} /\ batch' = batch \cup {w} /\ running' = running \cup {w}
  /\ UNCHANGED <<word_list, answer, main, input, result>>

\* A thread ends with result[word] = its place, under the mutex.
Thread(w) ==
  /\ w \in running
  /\ result' = result \cup {<<w, kmp(w, input)>>}
  /\ running' = running \ {w}
  /\ UNCHANGED <<word_list, answer, main, input, todo, batch>>

\* The batch is full or the list is done: join, and go on.
JoinBatch ==
  /\ main = "start" /\ (todo = {} \/ Cardinality(batch) = BatchSize) /\ running = {}
  /\ batch' = {}
  /\ main' = IF todo = {} THEN "print" ELSE "start"
  /\ UNCHANGED <<word_list, answer, input, todo, running, result>>

\* Mutant: result is not cleared for the next query.
PrintAnswerKeeps ==
  /\ main = "print"
  /\ LET found == Sorted({pair \in result : pair[2] # 0}, cmp)
     IN  answer' = [input |-> input, found |-> [i \in DOMAIN found |-> found[i][1]]]
  /\ main' = "read"
  /\ UNCHANGED <<word_list, input, todo, batch, running, result>>

\* sort, the words found, and result.clear().
PrintAnswer ==
  /\ main = "print"
  /\ LET found == Sorted({pair \in result : pair[2] # 0}, cmp)
     IN  answer' = [input |-> input, found |-> [i \in DOMAIN found |-> found[i][1]]]
  /\ result' = {} /\ main' = "read"
  /\ UNCHANGED <<word_list, input, todo, batch, running>>

Next == \/ Add \/ Delete \/ Query \/ StartThread \/ JoinBatch \/ PrintAnswer
        \/ \E w \in Words : Thread(w)
=============================================================================
