------------------------------ MODULE Matchers ------------------------------
(***************************************************************************)
(* The two matchers of project1 side by side: `solution' says which of     *)
(* them reads the commands.  Both are held against Matcher.                *)
(***************************************************************************)
EXTENDS Matcher

CONSTANTS Alphabet, BatchSize, MaxWords

ASSUME MatchersAssumption ==
  /\ BatchSize \in Nat \ {0} /\ MaxWords \in Nat
  /\ \A w \in Words \cup Inputs : w \in Seq(Alphabet)

VARIABLES solution,
          main, input, todo, batch, running, result,     \* of KmpMatcher
          words, FSA, dropped                            \* of FsaMatcher

kmpVars == <<main, input, todo, batch, running, result>>
fsaVars == <<words, FSA, dropped>>
vars == <<word_list, answer, solution, kmpVars, fsaVars>>

Kmp == INSTANCE KmpMatcher
Fsa == INSTANCE FsaMatcher

Init ==
  \/ /\ solution = "kmp" /\ Kmp!Init
     /\ words = <<>> /\ FSA = Fsa!NewMatcher(0, 0) /\ dropped = {}
  \/ /\ solution = "fsa" /\ Fsa!Init
     /\ Kmp!Idle

Next ==
  /\ \/ solution = "kmp" /\ Kmp!Next /\ UNCHANGED fsaVars
     \/ solution = "fsa" /\ Fsa!Next /\ UNCHANGED kmpVars
  /\ UNCHANGED solution

Spec == Init /\ [][Next]_vars

-----------------------------------------------------------------------------
(* Properties.                                                             *)

\* makeGraph never runs past the rows it has: the size the constructor and the
\* resize choose covers the final rows, the others and the initial one
\* (ahocorasick.cpp:16-24, 54-58).
GraphFits == solution = "fsa" => FSA.state_num <= FSA.cur_size

\* The thread-per-word solution gives the replies of the abstract matcher for the
\* dictionary at the time of the query, whatever the words and in whatever order the
\* threads of a batch end (kmp_solution/ref_solution.cpp).
KmpImplements == MInit /\ [][solution = "kmp" => MNext]_<<word_list, answer>>

\* The automaton answers as the abstract matcher would whose dictionary also keeps the
\* words deleted while they were in the buffer: the swapped rows, the marks and the
\* late rebuild miss nothing, bring back nothing else and keep the order, however often
\* words are deleted and added again (ref_solution.cpp:47-83, ahocorasick.cpp:42-161).
Survivors == INSTANCE Matcher WITH word_list <- word_list \cup dropped
FsaImplements ==
  Survivors!MInit /\ [][solution = "fsa" => Survivors!MNext]_<<word_list, dropped, answer>>
=============================================================================
