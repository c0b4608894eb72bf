------------------------------ MODULE Matcher ------------------------------
(***************************************************************************)
(* What both matchers of project1 promise: a dictionary that A and D       *)
(* change, and for a Q the words of the dictionary that occur in the       *)
(* input, by the place of their first occurrence and by length.            *)
(***************************************************************************)
EXTENDS Integers, SequencesExt

CONSTANTS Words,       \* what A and D may name: sequences of letters, not empty
          Inputs       \* the texts of queries

ASSUME MatcherAssumption ==
  /\ \A w \in Words : w \in Seq(Nat) /\ w # <<>>
  /\ \A s \in Inputs : s \in Seq(Nat)

VARIABLES word_list,   \* the dictionary
          answer       \* the reply, once the last command has one, or NoAnswer

NoAnswer == [input |-> <<0>>, found |-> <<>>]

\* The order of std::string.
Before(v, w) ==
  \E n \in 0..Len(v) :
    /\ n < Len(w) /\ SubSeq(v, 1, n) = SubSeq(w, 1, n)
    /\ n < Len(v) => v[n + 1] < w[n + 1]

\* Does w stand at position i of s, and where does it first?
OccursAt(w, s, i) == i + Len(w) - 1 <= Len(s) /\ SubSeq(s, i, i + Len(w) - 1) = w
Occurs(w, s) == \E i \in 1..Len(s) : OccursAt(w, s, i)
FirstAt(w, s) == CHOOSE i \in 1..Len(s) :
                   OccursAt(w, s, i) /\ \A j \in 1..(i - 1) : ~OccursAt(w, s, j)

\* The elements of S in the order op.  (SetToSortSeq rests on TLC's SortSeq, which the
\* provers do not know.)
Sorted(S, op(_, _)) ==
  CHOOSE seq \in [1..Cardinality(S) -> S] :
    \A i, j \in 1..Cardinality(S) : i < j => op(seq[i], seq[j])

\* The words of dict found in s, in the order of the reply.
Found(dict, s) ==
  Sorted({w \in dict : Occurs(w, s)},
         LAMBDA v, w : \/ FirstAt(v, s) < FirstAt(w, s)
                       \/ FirstAt(v, s) = FirstAt(w, s) /\ Len(v) < Len(w))

Reply(dict, s) == [input |-> s, found |-> Found(dict, s)]

MInit == word_list \in SUBSET Words /\ answer = NoAnswer

MAdd == \E w \in Words : word_list' = word_list \cup {w} /\ answer' = NoAnswer
MDelete == \E w \in Words : word_list' = word_list \ {w} /\ answer' = NoAnswer
\* A query is read, and answered.
MQuery == answer' = NoAnswer /\ UNCHANGED word_list
MReply == \E s \in Inputs : answer' = Reply(word_list, s) /\ UNCHANGED word_list

MNext == MAdd \/ MDelete \/ MQuery \/ MReply

MSpec == MInit /\ [][MNext]_<<word_list, answer>>
=============================================================================
