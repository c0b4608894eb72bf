---------------------------- MODULE AhoCorasick ----------------------------
(***************************************************************************)
(* project1/ahocorasick.cpp: a trie of words in rows of an array.  Rows    *)
(* below init_state are final, one per entry of words and in that order;   *)
(* a row becomes final by being swapped with the next final row.  A word   *)
(* is never taken out: its indices go into del.                            *)
(*                                                                         *)
(* A matcher is a record of the class's fields.  Rows and indices of words *)
(* count from 0 as in the code, and -1 is no edge.  graph has the rows a   *)
(* trie of the words may need, cur_size says how many are really there.    *)
(***************************************************************************)
EXTENDS Integers, SequencesExt

CONSTANT Alphabet       \* MAX_ALPHA letters

None == -1
Empty(size) == [row \in 0..(size - 1) |-> [c \in Alphabet |-> None]]

\* The constructor with the number and the total length of the first words.
NewMatcher(patternNum, patternLen) ==
  [graph |-> Empty(1), cur_size |-> patternNum + patternLen * 2 + 1,
   words |-> <<>>, del |-> {}, init_state |-> 0, state_num |-> 1, patternLen |-> 0]

Swap(graph, i, j) == [graph EXCEPT ![i] = graph[j], ![j] = graph[i]]

\* Mutant: following a route to the end of a word keeps the row where it is.
FollowUnswapped(g, cur, c, last) ==
  IF ~last THEN [g EXCEPT !.cur = g.graph[cur][c]]
  ELSE [g EXCEPT !.graph = [@ EXCEPT ![cur][c] = g.final_state],
                 !.final_state = @ + 1, !.cur = g.final_state]

\* One letter along an existing edge.  At the end of the word the row there trades
\* places with the next final row.
Follow(g, cur, c, last) ==
  IF ~last THEN [g EXCEPT !.cur = g.graph[cur][c]]
  ELSE [g EXCEPT !.graph = [Swap(@, g.graph[cur][c], g.final_state)
                              EXCEPT ![cur][c] = g.final_state],
                 !.final_state = @ + 1, !.cur = g.final_state]

\* One letter without an edge: a new row, final at the end of the word.
Extend(g, cur, c, last) ==
  IF ~last THEN [g EXCEPT !.graph[cur][c] = g.state_num,
                          !.cur = g.state_num, !.state_num = @ + 1]
  ELSE [g EXCEPT !.graph = Swap([@ EXCEPT ![cur][c] = g.final_state],
                                g.state_num, g.final_state),
                 !.final_state = @ + 1, !.cur = g.state_num, !.state_num = @ + 1]

Insert(g, word, init_state) ==
  LET letter(acc, i) ==
        IF acc.graph[acc.cur][word[i]] = None
        THEN Extend(acc, acc.cur, word[i], i = Len(word))
        ELSE Follow(acc, acc.cur, word[i], i = Len(word))
  IN  FoldLeft(letter, [g EXCEPT !.cur = init_state], [i \in 1..Len(word) |-> i])

\* Mutant: the check for room counts the letters and not the words.
NeedsRoomLoose(m) == m.cur_size < m.patternLen + 1

NeedsRoom(m) == m.cur_size < Len(m.words) + m.patternLen + 1

\* The graph is built anew from all words ever added.
makeGraph(m) ==
  LET init == Len(m.words)
      size == IF NeedsRoom(m) THEN init + m.patternLen * 2 + 1 ELSE m.cur_size
      built == FoldLeft(LAMBDA g, word : Insert(g, word, init),
                        [graph |-> Empty(init + m.patternLen + 1), final_state |-> 0, cur |-> init,
                         state_num |-> init + 1],
                        m.words)
  IN  [m EXCEPT !.graph = built.graph, !.init_state = init,
                !.state_num = built.state_num, !.cur_size = size]

TotalLen(ws) == FoldLeft(LAMBDA n, w : n + Len(w), 0, ws)

addWord(m, ws) ==
  makeGraph([m EXCEPT !.words = @ \o ws, !.patternLen = @ + TotalLen(ws)])

\* A final row whose word is not deleted.
Matches(m, state) == state # None /\ state < m.init_state /\ state \notin m.del

\* Follow the trie from every position of the text; the words of final rows that are
\* not deleted, each once.
search(m, text) ==
  LET letter(acc, i) ==
        LET to == IF acc.cur = None THEN None ELSE m.graph[acc.cur][text[i]]
            s == SubSeq(text, acc.start, i)
            hit == Matches(m, to) /\ s \notin ToSet(acc.result)
        IN  [acc EXCEPT !.cur = to, !.result = IF hit THEN Append(@, s) ELSE @]
      from(acc, start) ==
        FoldLeft(letter, [acc EXCEPT !.cur = m.init_state, !.start = start],
                 [k \in 1..(Len(text) - start + 1) |-> start + k - 1])
  IN  FoldLeft(from, [cur |-> None, start |-> 0, result |-> <<>>],
               [i \in 1..Len(text) |-> i]).result

\* Every entry of the word is marked.
deleteWord(m, word) ==
  [m EXCEPT !.del = @ \cup {i - 1 : i \in {j \in 1..Len(m.words) : m.words[j] = word}}]
=============================================================================
