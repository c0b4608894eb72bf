----------------------------- MODULE FsaMatcher -----------------------------
(***************************************************************************)
(* project1/ref_solution.cpp: the command loop over an AhoCorasick.  A new *)
(* word is put into a buffer, and the graph is rebuilt at the next query.  *)
(***************************************************************************)
EXTENDS Matcher, AhoCorasick

CONSTANT MaxWords       \* bound on the words ever added

VARIABLES words,        \* the buffer
          FSA,
          dropped       \* history: words deleted while they were in the buffer

\* The N words at the start of the input: repeated ones count in the size only.
Init ==
  \E n \in 0..MaxWords : \E buf \in [1..n -> Words] :
    /\ word_list = ToSet(buf) /\ words = <<>> /\ answer = NoAnswer
    /\ FSA = addWord(NewMatcher(n, TotalLen(buf)), Sorted(ToSet(buf), Before))
    /\ dropped = {}

\* Only a word that is not in word_list is new.
Add ==
  /\ Len(FSA.words) + Len(words) < MaxWords
  /\ \E w \in Words :
       /\ words' = IF w \in word_list THEN words ELSE Append(words, w)
       /\ word_list' = word_list \cup {w}
  /\ answer' = NoAnswer /\ UNCHANGED <<FSA, dropped>>

\* The automaton and word_list forget the word; the buffer does not.
Delete ==
  /\ \E w \in Words :
       /\ FSA' = deleteWord(FSA, w)
       /\ word_list' = word_list \ {w}
       /\ dropped' = IF w \in ToSet(words) THEN dropped \cup {w} ELSE dropped \ {w}
  /\ answer' = NoAnswer /\ UNCHANGED words

\* Only a query empties the buffer into the automaton.
Query ==
  /\ FSA' = IF words = <<>> THEN FSA ELSE addWord(FSA, words)
  /\ words' = <<>>
  /\ \E s \in Inputs : answer' = [input |-> s, found |-> search(FSA', s)]
  /\ UNCHANGED <<word_list, dropped>>

Next == Add \/ Delete \/ Query
=============================================================================
