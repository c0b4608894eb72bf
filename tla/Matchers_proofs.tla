--------------------------- MODULE Matchers_proofs ---------------------------
(***************************************************************************)
(* Theorems about the matchers of project1, for any dictionary, any words  *)
(* and any texts.                                                          *)
(*                                                                         *)
(* First what both need: induction by least counterexample, the folds of   *)
(* the model one step at a time (FoldStep), and sorted replies.  Then the  *)
(* KMP solution: borders, getPi, kmp, and QueryInv over the threads of a   *)
(* batch.  Then the automaton: the rows as a trie of routes that grows     *)
(* letter by letter and entry by entry, search over it, what adding and    *)
(* deleting make of LiveWords, and FsaInv over the commands.               *)
(***************************************************************************)
EXTENDS Matchers, FiniteSetTheorems, SequenceTheorems, WellFoundedInduction, TLAPS

\* Every set of natural numbers that is not empty has a least element.
LEMMA LeastNatural ==
  ASSUME NEW S \in SUBSET Nat, S # {}
  PROVE  \E m \in S : \A k \in S : m =< k
<1> DEFINE R == {ss \in Nat \X Nat : ss[1] < ss[2]}
<1>1. IsWellFoundedOn(R, Nat)
  BY NatLessThanWellFounded DEF OpToRel
<1>2. \A x, y \in Nat : <<y, x>> \in R <=> y < x
  OBVIOUS
<1> HIDE DEF R
<1>3. PICK x \in S : \A y \in S : ~(<<y, x>> \in R)
  BY <1>1, WFMin
<1>4. \A y \in S : ~(y < x)
  BY <1>2, <1>3
<1> QED
  BY <1>4

-----------------------------------------------------------------------------
(* Borders.                                                                *)

\* The first k letters of p are the last k of the first i letters of s.
Ends(p, s, i, k) == k =< i /\ \A x \in 1..k : p[x] = s[i - k + x]

\* pi leads to shorter prefixes; up to m it has the longest borders.
Falls(p, pi) == pi \in [1..Len(p) -> Nat] /\ \A j \in 1..Len(p) : pi[j] < j
PiTo(p, pi, m) ==
  /\ Falls(p, pi)
  /\ \A j \in 1..m : /\ Ends(p, p, j, pi[j])
                     /\ \A k \in 0..(j - 1) : Ends(p, p, j, k) => k =< pi[j]

\* A border of a prefix that ends the text ends it too.
LEMMA EndsTrans ==
  ASSUME NEW p, NEW s, NEW i \in Nat, NEW j \in Nat, NEW k \in Nat, k =< j,
         Ends(p, s, i, j), Ends(p, p, j, k)
  PROVE  Ends(p, s, i, k)
<1>1. j =< i /\ k =< i
  BY DEF Ends
<1>2. ASSUME NEW x \in 1..k PROVE p[x] = s[i - k + x]
  <2>1. j - k + x \in 1..j /\ i - j + (j - k + x) = i - k + x
    BY <1>1
  <2>2. p[x] = p[j - k + x]
    BY DEF Ends
  <2>3. p[j - k + x] = s[i - j + (j - k + x)]
    BY <2>1 DEF Ends
  <2> QED
    BY <2>1, <2>2, <2>3
<1> QED
  BY <1>1, <1>2 DEF Ends

\* Of two prefixes that end the text the shorter one is a border of the longer one.
LEMMA EndsBetween ==
  ASSUME NEW p, NEW s, NEW i \in Nat, NEW j \in Nat, NEW k \in Nat, k =< j,
         Ends(p, s, i, j), Ends(p, s, i, k)
  PROVE  Ends(p, p, j, k)
<1>1. j =< i
  BY DEF Ends
<1>2. ASSUME NEW x \in 1..k PROVE p[x] = p[j - k + x]
  <2>1. j - k + x \in 1..j /\ i - j + (j - k + x) = i - k + x
    BY <1>1
  <2>2. p[x] = s[i - k + x]
    BY DEF Ends
  <2>3. p[j - k + x] = s[i - j + (j - k + x)]
    BY <2>1 DEF Ends
  <2> QED
    BY <2>1, <2>2, <2>3
<1> QED
  BY <1>2 DEF Ends

\* One more letter.
LEMMA EndsStep ==
  ASSUME NEW p, NEW s, NEW i \in Nat, NEW k \in Nat
  PROVE  Ends(p, s, i + 1, k + 1) <=> Ends(p, s, i, k) /\ p[k + 1] = s[i + 1]
<1>1. ASSUME Ends(p, s, i + 1, k + 1) PROVE Ends(p, s, i, k) /\ p[k + 1] = s[i + 1]
  <2>1. k =< i
    BY <1>1 DEF Ends
  <2>2. ASSUME NEW x \in 1..(k + 1) PROVE p[x] = s[i - k + x]
    <3>1. (i + 1) - (k + 1) + x = i - k + x
      BY <2>1
    <3>2. p[x] = s[(i + 1) - (k + 1) + x]
      BY <1>1 DEF Ends
    <3> QED
      BY <3>1, <3>2
  <2>3. p[k + 1] = s[i - k + (k + 1)]
    BY <2>2
  <2>4. i - k + (k + 1) = i + 1
    BY <2>1
  <2>5. \A x \in 1..k : p[x] = s[i - k + x]
    BY <2>2
  <2> QED
    BY <2>1, <2>3, <2>4, <2>5 DEF Ends
<1>2. ASSUME Ends(p, s, i, k), p[k + 1] = s[i + 1] PROVE Ends(p, s, i + 1, k + 1)
  <2>1. k =< i
    BY <1>2 DEF Ends
  <2>2. ASSUME NEW x \in 1..(k + 1) PROVE p[x] = s[(i + 1) - (k + 1) + x]
    <3>1. (i + 1) - (k + 1) + x = i - k + x
      BY <2>1
    <3>2. CASE x \in 1..k
      <4>1. p[x] = s[i - k + x]
        BY <1>2, <3>2 DEF Ends
      <4> QED
        BY <3>1, <4>1
    <3>3. CASE x = k + 1
      <4>1. i - k + x = i + 1
        BY <2>1, <3>3
      <4> QED
        BY <1>2, <3>1, <3>3, <4>1
    <3> QED
      BY <3>2, <3>3
  <2> QED
    BY <2>1, <2>2 DEF Ends
<1> QED
  BY <1>1, <1>2

\* One letter less.
LEMMA EndsLess ==
  ASSUME NEW p, NEW s, NEW i \in Nat, NEW k \in Nat, Ends(p, s, i + 1, k + 1)
  PROVE  Ends(p, s, i, k) /\ p[k + 1] = s[i + 1]
BY EndsStep

-----------------------------------------------------------------------------
(* Fallback.                                                               *)

\* One step of the inner while.
Back(p, pi, c, f, j) == IF j > 0 /\ c # p[j + 1] THEN f[pi[j]] ELSE j

\* The loop ends, as every round leads to a shorter prefix.
LEMMA BackDefined ==
  ASSUME NEW p \in Seq(Nat), NEW pi, Falls(p, pi), NEW c, NEW n \in 0..Len(p)
  PROVE  \E f : f = [j \in 0..n |-> Back(p, pi, c, f, j)]
<1> DEFINE Ex(m) == \E f : f = [j \in 0..m |-> Back(p, pi, c, f, j)]
           Bad == {m \in 0..Len(p) : ~Ex(m)}
<1> SUFFICES ASSUME Bad # {} PROVE FALSE
  OBVIOUS
<1>1. PICK m \in Bad : \A j \in Bad : m =< j
  <2>1. Bad \in SUBSET Nat
    OBVIOUS
  <2> HIDE DEF Bad
  <2> QED
    BY <2>1, LeastNatural
<1>2. Ex(0)
  <2> DEFINE f == [j \in 0..0 |-> 0]
  <2>1. f = [j \in 0..0 |-> Back(p, pi, c, f, j)]
    BY DEF Back
  <2> QED
    BY <2>1
<1>3. m \in 1..Len(p) /\ m - 1 \in 0..Len(p) /\ Ex(m - 1)
  <2>1. m # 0 /\ m \in 0..Len(p)
    BY <1>2
  <2>2. m - 1 \in 0..Len(p) /\ ~(m =< m - 1)
    BY <2>1
  <2>3. m - 1 \notin Bad
    BY <1>1, <2>2
  <2> QED
    BY <2>1, <2>2, <2>3
<1>4. PICK f : f = [j \in 0..(m - 1) |-> Back(p, pi, c, f, j)]
  BY <1>3
<1> DEFINE h == [j \in 0..m |-> Back(p, pi, c, f, j)]
<1>5. \A j \in 0..(m - 1) : h[j] = f[j]
  <2>1. \A j \in 0..(m - 1) : j \in 0..m
    BY <1>3
  <2> QED
    BY <1>4, <2>1
<1>6. ASSUME NEW j \in 1..m PROVE pi[j] \in 0..(m - 1)
  <2>1. j \in 1..Len(p) /\ m \in Nat
    BY <1>3
  <2>2. pi[j] \in Nat /\ pi[j] < j
    BY <2>1 DEF Falls
  <2> QED
    BY <2>1, <2>2
<1>7. ASSUME NEW j \in 0..m PROVE Back(p, pi, c, f, j) = Back(p, pi, c, h, j)
  <2> HIDE DEF h
  <2>1. CASE j > 0
    <3>1. j \in 1..m
      BY <1>3, <2>1
    <3>2. f[pi[j]] = h[pi[j]]
      BY <1>5, <1>6, <3>1
    <3> QED
      BY <3>2 DEF Back
  <2>2. CASE ~(j > 0)
    BY <2>2 DEF Back
  <2> QED
    BY <2>1, <2>2
<1>8. h = [j \in 0..m |-> Back(p, pi, c, h, j)]
  <2>1. h = [j \in 0..m |-> Back(p, pi, c, f, j)]
    OBVIOUS
  <2> HIDE DEF h
  <2> QED
    BY <1>7, <2>1
<1>9. Ex(m)
  BY <1>8
<1> QED
  BY <1>9

\* What the loop returns.
LEMMA FallbackUnfolds ==
  ASSUME NEW p \in Seq(Nat), NEW pi, Falls(p, pi), NEW c, NEW k \in 0..Len(p)
  PROVE  Kmp!Fallback(p, pi, c, k) =
           IF k > 0 /\ c # p[k + 1] THEN Kmp!Fallback(p, pi, c, pi[k]) ELSE k
<1> DEFINE back == CHOOSE f : f = [j \in 0..Len(p) |-> Back(p, pi, c, f, j)]
<1>1. \A j : Kmp!Fallback(p, pi, c, j) = back[j]
  BY DEF Kmp!Fallback, Back
<1>2. \E f : f = [j \in 0..Len(p) |-> Back(p, pi, c, f, j)]
  <2>1. Len(p) \in 0..Len(p)
    OBVIOUS
  <2> QED
    BY <2>1, BackDefined
<1>3. back = [j \in 0..Len(p) |-> Back(p, pi, c, back, j)]
  BY <1>2
<1> HIDE DEF back
<1>4. back[k] = Back(p, pi, c, back, k)
  BY <1>3
<1> QED
  BY <1>1, <1>4 DEF Back

\* From k letters that end the text the loop goes to the longest prefix that ends it
\* and goes on with c, or to the empty one.
LEMMA FallbackLongest ==
  ASSUME NEW p \in Seq(Nat), NEW pi, NEW c, NEW m \in 0..Len(p), PiTo(p, pi, m),
         NEW s, NEW i \in Nat, NEW n \in 0..m, Ends(p, s, i, n)
  PROVE  LET f == Kmp!Fallback(p, pi, c, n)
         IN  /\ f \in 0..n /\ Ends(p, s, i, f) /\ (f = 0 \/ p[f + 1] = c)
             /\ \A l \in 0..n : Ends(p, s, i, l) /\ p[l + 1] = c => l =< f
<1> DEFINE Fb(k) == Kmp!Fallback(p, pi, c, k)
           Good(k, f) == /\ f \in 0..k /\ Ends(p, s, i, f) /\ (f = 0 \/ p[f + 1] = c)
                         /\ \A l \in 0..k : Ends(p, s, i, l) /\ p[l + 1] = c => l =< f
           Bad == {k \in 0..m : Ends(p, s, i, k) /\ ~Good(k, Fb(k))}
<1> SUFFICES ASSUME Bad # {} PROVE FALSE
  OBVIOUS
<1>1. PICK k \in Bad : \A j \in Bad : k =< j
  <2>1. Bad \in SUBSET Nat
    OBVIOUS
  <2> HIDE DEF Bad
  <2> QED
    BY <2>1, LeastNatural
<1>2. k \in 0..m /\ k \in 0..Len(p) /\ Ends(p, s, i, k) /\ ~Good(k, Fb(k))
  <2> HIDE DEF Good, Fb
  <2> QED
    OBVIOUS
<1>3. Falls(p, pi)
  BY DEF PiTo
<1> HIDE DEF Bad
<1>4. CASE k = 0 \/ c = p[k + 1]
  <2>1. Fb(k) = k
    BY <1>2, <1>3, <1>4, FallbackUnfolds
  <2>2. Good(k, k)
    BY <1>2, <1>4
  <2> QED
    BY <1>2, <2>1, <2>2
<1>5. CASE k > 0 /\ c # p[k + 1]
  <2>1. Fb(k) = Fb(pi[k])
    BY <1>2, <1>3, <1>5, FallbackUnfolds
  <2>2. pi[k] \in Nat /\ pi[k] < k
    <3>1. k \in 1..Len(p)
      BY <1>2, <1>5
    <3> QED
      BY <1>3, <3>1 DEF Falls
  <2>3. Ends(p, p, k, pi[k]) /\ \A l \in 0..(k - 1) : Ends(p, p, k, l) => l =< pi[k]
    BY <1>2, <1>5 DEF PiTo
  <2>4. Ends(p, s, i, pi[k])
    BY <1>2, <2>2, <2>3, EndsTrans
  <2>5. pi[k] \notin Bad
    BY <1>1, <1>2, <2>2
  <2>6. Good(pi[k], Fb(pi[k]))
    <3> HIDE DEF Good, Fb
    <3> QED
      BY <1>2, <2>2, <2>4, <2>5 DEF Bad
  <2>7. ASSUME NEW l \in 0..k, Ends(p, s, i, l), p[l + 1] = c PROVE l =< Fb(k)
    <3>1. l # k /\ l \in 0..(k - 1)
      BY <1>2, <1>5, <2>7
    <3>2. Ends(p, p, k, l)
      BY <1>2, <2>7, <3>1, EndsBetween
    <3>3. l \in 0..pi[k]
      BY <2>2, <2>3, <3>1, <3>2
    <3> HIDE DEF Fb
    <3> QED
      BY <2>1, <2>6, <2>7, <3>3
  <2>8. Good(k, Fb(k))
    <3> HIDE DEF Fb
    <3> QED
      BY <1>2, <2>1, <2>2, <2>6, <2>7
  <2> QED
    BY <1>2, <2>8
<1> QED
  BY <1>2, <1>4, <1>5

-----------------------------------------------------------------------------
(* Folds.  FoldLeft takes its step as an operator, which a lemma cannot be *)
(* instantiated with: FoldStep gathers the steps of the folds of project1, *)
(* and the lemmas are about it.                                            *)

\* A round of getPi at letter i of p.
PiStep(p, acc, i) ==
  LET j == Kmp!Fallback(p, acc.pi, p[i], acc.j)
      k == IF p[i] = p[j + 1] THEN j + 1 ELSE j
  IN  [pi |-> IF k > j THEN [acc.pi EXCEPT ![i] = k] ELSE acc.pi, j |-> k]

\* A round of kmp at letter i of the text.
ScanStep(word, pi, text, acc, i) ==
  LET j == Kmp!Fallback(word, pi, text[i], acc.j)
      hit == text[i] = word[j + 1]
      full == j + 1 = Len(word)
  IN  IF acc.at # 0 THEN acc
      ELSE [j |-> IF hit /\ ~full THEN j + 1 ELSE j,
            at |-> IF hit /\ full THEN i - Len(word) + 1 ELSE 0]

\* A letter of a word that makeGraph puts into the graph.
LetterStep(word, acc, i) ==
  IF acc.graph[acc.cur][word[i]] = Fsa!None
  THEN Fsa!Extend(acc, acc.cur, word[i], i = Len(word))
  ELSE Fsa!Follow(acc, acc.cur, word[i], i = Len(word))

\* A letter of the text that search follows, and all letters from a position on.
SearchLetter(m, text, acc, i) ==
  LET to == IF acc.cur = Fsa!None THEN Fsa!None ELSE m.graph[acc.cur][text[i]]
      s == SubSeq(text, acc.start, i)
      hit == Fsa!Matches(m, to) /\ s \notin Fsa!ToSet(acc.result)
  IN  [acc EXCEPT !.cur = to, !.result = IF hit THEN Append(@, s) ELSE @]
SearchFrom(m, text, acc, start) ==
  Fsa!FoldLeft(LAMBDA a, i : SearchLetter(m, text, a, i),
               [acc EXCEPT !.cur = m.init_state, !.start = start],
               [k \in 1..(Len(text) - start + 1) |-> start + k - 1])

FoldStep(kind, e, acc, x) ==
  CASE kind = "getPi" -> PiStep(e[1], acc, x)
    [] kind = "kmp" -> ScanStep(e[1], e[2], e[3], acc, x)
    [] kind = "TotalLen" -> acc + Len(x)
    [] kind = "Insert" -> LetterStep(e[1], acc, x)
    [] kind = "makeGraph" -> Fsa!Insert(acc, x, e[1])
    [] kind = "letter" -> SearchLetter(e[1], e[2], acc, x)
    [] kind = "from" -> SearchFrom(e[1], e[2], acc, x)

\* g folds seq up to n, over sets of places as FoldLeft does.
MaxOf(s) == CHOOSE x \in s : \A y \in s : x >= y
Folded(kind, e, base, seq, g, s) ==
  IF s = {} THEN base ELSE FoldStep(kind, e, g[s \ {MaxOf(s)}], seq[MaxOf(s)])
IsFold(kind, e, base, seq, n, g) ==
  g = [s \in SUBSET (1..n) |-> Folded(kind, e, base, seq, g, s)]

\* The greatest of the numbers up to n is n, if it is among them.
LEMMA MaxIs ==
  ASSUME NEW n \in Nat, NEW s \in SUBSET (1..n), n \in s
  PROVE  MaxOf(s) = n
<1>1. \A y \in s : n >= y
  OBVIOUS
<1>2. PICK x : x = MaxOf(s)
  OBVIOUS
<1>3. x \in s /\ \A y \in s : x >= y
  BY <1>1, <1>2 DEF MaxOf
<1>4. x \in 1..n /\ x >= n
  BY <1>3
<1> QED
  BY <1>2, <1>4

\* The recursion of a fold has a solution.
LEMMA FoldDefined ==
  ASSUME NEW kind, NEW e, NEW base, NEW seq, NEW n \in Nat
  PROVE  \E g : IsFold(kind, e, base, seq, n, g)
<1> DEFINE Step(g, s) == Folded(kind, e, base, seq, g, s)
           Ex(m) == \E g : g = [s \in SUBSET (1..m) |-> Step(g, s)]
           Bad == {m \in Nat : ~Ex(m)}
<1> SUFFICES ASSUME Bad # {} PROVE FALSE
  BY DEF IsFold
<1>1. PICK m \in Bad : \A j \in Bad : m =< j
  <2>1. Bad \in SUBSET Nat
    OBVIOUS
  <2> HIDE DEF Bad
  <2> QED
    BY <2>1, LeastNatural
<1>2. Ex(0)
  <2> DEFINE g == [s \in SUBSET (1..0) |-> base]
  <2>1. \A s \in SUBSET (1..0) : s = {}
    OBVIOUS
  <2>2. g = [s \in SUBSET (1..0) |-> Step(g, s)]
    BY <2>1 DEF Folded
  <2> QED
    BY <2>2
<1>3. m \in Nat \ {0} /\ m - 1 \in Nat /\ Ex(m - 1)
  <2>1. m # 0 /\ m \in Nat
    BY <1>2
  <2>2. m - 1 \in Nat /\ ~(m =< m - 1)
    BY <2>1
  <2>3. m - 1 \notin Bad
    BY <1>1, <2>2
  <2> QED
    BY <2>1, <2>2, <2>3
<1>4. PICK f : f = [s \in SUBSET (1..(m - 1)) |-> Step(f, s)]
  BY <1>3
<1> DEFINE h == [s \in SUBSET (1..m) |-> Step(f, s)]
<1>5. \A s \in SUBSET (1..(m - 1)) : s \in SUBSET (1..m)
  BY <1>3
<1>6. ASSUME NEW s \in SUBSET (1..m), s # {}
      PROVE  s \ {MaxOf(s)} \in SUBSET (1..(m - 1))
  <2>1. CASE m \in s
    <3>1. MaxOf(s) = m
      BY <1>3, <2>1, MaxIs
    <3> QED
      BY <1>3, <3>1
  <2>2. CASE m \notin s
    <3>1. \A x \in s : x \in 1..(m - 1)
      BY <1>3, <2>2
    <3> QED
      BY <3>1
  <2> QED
    BY <2>1, <2>2
<1>7. \A s \in SUBSET (1..(m - 1)) : h[s] = f[s]
  <2> HIDE DEF Step
  <2> QED
    BY <1>4, <1>5
<1>8. \A s \in SUBSET (1..m) : Step(f, s) = Step(h, s)
  <2> HIDE DEF h
  <2> QED
    BY <1>6, <1>7 DEF Folded
<1>9. h = [s \in SUBSET (1..m) |-> Step(h, s)]
  <2> HIDE DEF Step
  <2>1. h = [s \in SUBSET (1..m) |-> Step(f, s)]
    OBVIOUS
  <2> HIDE DEF h
  <2> QED
    BY <1>8, <2>1
<1>10. Ex(m)
  BY <1>9
<1> QED
  BY <1>10

Steps(kind, e, base, seq, n, g) ==
  /\ g[1..0] = base
  /\ \A i \in 1..n : g[1..i] = FoldStep(kind, e, g[1..(i - 1)], seq[i])

\* A fold takes the elements one after the other.
LEMMA FoldSteps ==
  ASSUME NEW kind, NEW e, NEW base, NEW seq, NEW n \in Nat, NEW g,
         IsFold(kind, e, base, seq, n, g)
  PROVE  Steps(kind, e, base, seq, n, g)
<1>1. g[1..0] = base
  <2>1. 1..0 = {} /\ {} \in SUBSET (1..n)
    OBVIOUS
  <2>2. g[{}] = base
    BY <2>1 DEF IsFold, Folded
  <2> QED
    BY <2>1, <2>2
<1>2. ASSUME NEW i \in 1..n PROVE g[1..i] = FoldStep(kind, e, g[1..(i - 1)], seq[i])
  <2>1. PICK s : s = 1..i
    OBVIOUS
  <2>2. s \in SUBSET (1..n) /\ s # {} /\ s \ {i} = 1..(i - 1)
    BY <2>1
  <2>3. MaxOf(s) = i
    BY <2>1, MaxIs
  <2>4. g[s] = Folded(kind, e, base, seq, g, s)
    BY <2>2 DEF IsFold
  <2> QED
    BY <2>1, <2>2, <2>3, <2>4 DEF Folded
<1> QED
  BY <1>1, <1>2 DEF Steps

\* The fold that FoldLeft chooses.
FoldOf(kind, e, base, seq, n) ==
  CHOOSE g : g = [s \in SUBSET (1..n) |-> Folded(kind, e, base, seq, g, s)]

\* It takes the elements one after the other as well.
LEMMA FoldOfSteps ==
  ASSUME NEW kind, NEW e, NEW base, NEW seq, NEW n \in Nat,
         NEW g, g = FoldOf(kind, e, base, seq, n)
  PROVE  Steps(kind, e, base, seq, n, g)
<1> DEFINE Step(f, s) == Folded(kind, e, base, seq, f, s)
<1>1. \E f : f = [s \in SUBSET (1..n) |-> Step(f, s)]
  <2>1. \E f : IsFold(kind, e, base, seq, n, f)
    BY FoldDefined, Zenon
  <2> QED
    BY <2>1 DEF IsFold
<1>2. g = CHOOSE f : f = [s \in SUBSET (1..n) |-> Step(f, s)]
  BY DEF FoldOf
<1>3. g = [s \in SUBSET (1..n) |-> Step(g, s)]
  <2> HIDE DEF Step
  <2> QED
    BY <1>1, <1>2
<1>4. IsFold(kind, e, base, seq, n, g)
  BY <1>3 DEF IsFold
<1> QED
  BY <1>4, FoldSteps, Zenon

-----------------------------------------------------------------------------
(* getPi.                                                                  *)

PiStart(p) == [pi |-> [i \in 1..Len(p) |-> 0], j |-> 0]
Later(n) == [i \in 1..(n - 1) |-> i + 1]

\* getPi is a fold.
LEMMA GetPiFold ==
  ASSUME NEW p \in Seq(Nat), p # <<>>
  PROVE  \E g : /\ IsFold("getPi", <<p>>, PiStart(p), Later(Len(p)), Len(p) - 1, g)
                /\ Kmp!getPi(p) = g[1..(Len(p) - 1)].pi
<1> DEFINE n == Len(p) - 1
           q == Later(Len(p))
           Step(g, s) == IF s = {} THEN PiStart(p)
                         ELSE PiStep(p, g[s \ {MaxOf(s)}], q[MaxOf(s)])
           Step2(g, s) == Folded("getPi", <<p>>, PiStart(p), q, g, s)
           fold == CHOOSE g : g = [s \in SUBSET (1..n) |-> Step(g, s)]
<1>1. n \in Nat
  OBVIOUS
<1>2. Kmp!getPi(p) = fold[1..n].pi
  BY DEF Kmp!getPi, Kmp!FoldLeft, Kmp!MapThenFoldSet, Kmp!Max, PiStep, PiStart, Later, MaxOf
<1>3. \A g, s : Step(g, s) = Step2(g, s)
  BY DEF Folded, FoldStep
<1>4. PICK h : h = [s \in SUBSET (1..n) |-> Step2(h, s)]
  <2>1. \E h : IsFold("getPi", <<p>>, PiStart(p), q, n, h)
    BY <1>1, FoldDefined, Zenon
  <2> QED
    BY <2>1 DEF IsFold
<1>5. h = [s \in SUBSET (1..n) |-> Step(h, s)]
  <2> HIDE DEF Step, Step2
  <2> QED
    BY <1>3, <1>4
<1>6. fold = [s \in SUBSET (1..n) |-> Step(fold, s)]
  <2> HIDE DEF Step
  <2> QED
    BY <1>5
<1> HIDE DEF fold
<1>7. fold = [s \in SUBSET (1..n) |-> Step2(fold, s)]
  <2> HIDE DEF Step, Step2
  <2> QED
    BY <1>3, <1>6
<1> QED
  BY <1>2, <1>7 DEF IsFold

\* acc after letter i: the borders up to i, and j is the last of them.
PiSo(p, i, acc) ==
  /\ PiTo(p, acc.pi, i) /\ acc.j = acc.pi[i]
  /\ \A j \in (i + 1)..Len(p) : acc.pi[j] = 0

\* The round goes from n letters by way of f to the k that end the text of one letter more.
Round(p, pi, c, n, f, k) ==
  f = Kmp!Fallback(p, pi, c, n) /\ k = IF c = p[f + 1] THEN f + 1 ELSE f
Longer(p, s, i, n, f, k) ==
  /\ f \in 0..n /\ k \in Nat /\ k =< f + 1 /\ (k = f => k = 0)
  /\ Ends(p, s, i + 1, k)
  /\ \A l \in 1..(n + 1) : Ends(p, s, i + 1, l) => l =< k

\* It finds the longest of them.
LEMMA LongerBorder ==
  ASSUME NEW p \in Seq(Nat), NEW pi, NEW s, NEW i \in Nat, NEW m \in 0..Len(p),
         PiTo(p, pi, m), NEW n \in 0..m, Ends(p, s, i, n), NEW c, c = s[i + 1],
         NEW f, NEW k, Round(p, pi, c, n, f, k)
  PROVE  Longer(p, s, i, n, f, k)
<1>0. f = Kmp!Fallback(p, pi, c, n) /\ k = IF c = p[f + 1] THEN f + 1 ELSE f
  BY DEF Round
<1>1. /\ f \in 0..n /\ Ends(p, s, i, f) /\ (f = 0 \/ p[f + 1] = s[i + 1])
      /\ \A l \in 0..n : Ends(p, s, i, l) /\ p[l + 1] = s[i + 1] => l =< f
  <2>1. /\ f \in 0..n /\ Ends(p, s, i, f) /\ (f = 0 \/ p[f + 1] = c)
        /\ \A l \in 0..n : Ends(p, s, i, l) /\ p[l + 1] = c => l =< f
    BY <1>0, FallbackLongest
  <2> QED
    BY <2>1
<1>2. k \in Nat /\ k =< f + 1 /\ (k = f => k = 0) /\ f \in Nat
  BY <1>0, <1>1
<1>3. Ends(p, s, i + 1, k)
  <2>1. CASE s[i + 1] = p[f + 1]
    <3>1. k = f + 1 /\ p[f + 1] = s[i + 1] /\ f \in Nat /\ Ends(p, s, i, f)
      BY <1>0, <1>1, <1>2, <2>1
    <3>2. Ends(p, s, i + 1, f + 1)
      BY <3>1, EndsStep, Zenon
    <3> QED
      BY <3>1, <3>2
  <2>2. CASE s[i + 1] # p[f + 1]
    <3>1. k = 0
      BY <1>0, <1>1, <2>2
    <3> QED
      BY <3>1 DEF Ends
  <2> QED
    BY <2>1, <2>2
<1>4. ASSUME NEW l \in 1..(n + 1), Ends(p, s, i + 1, l) PROVE l =< k
  <2>1. PICK h \in 0..n : l = h + 1
    <3>1. l - 1 \in 0..n /\ l = (l - 1) + 1
      OBVIOUS
    <3> QED
      BY <3>1
  <2>2. h \in Nat /\ Ends(p, s, i + 1, h + 1)
    BY <1>4, <2>1
  <2>3. Ends(p, s, i, h) /\ p[h + 1] = s[i + 1]
    <3>1. Ends(p, s, i, h)
      BY <2>2, EndsLess, Zenon
    <3>2. h + 1 \in 1..(h + 1) /\ (i + 1) - (h + 1) + (h + 1) = i + 1
      BY <2>2
    <3>3. p[h + 1] = s[(i + 1) - (h + 1) + (h + 1)]
      BY <2>2, <3>2 DEF Ends
    <3> QED
      BY <3>1, <3>2, <3>3
  <2>4. h =< f
    BY <1>1, <2>3
  <2>5. CASE s[i + 1] = p[f + 1]
    BY <1>0, <1>2, <2>1, <2>2, <2>4, <2>5
  <2>6. CASE s[i + 1] # p[f + 1]
    <3>1. f = 0 /\ h = 0
      BY <1>1, <2>2, <2>4, <2>6
    <3> QED
      BY <2>3, <2>6, <3>1
  <2> QED
    BY <2>5, <2>6
<1> QED
  BY <1>1, <1>2, <1>3, <1>4 DEF Longer

\* A round of getPi.
LEMMA PiStepRight ==
  ASSUME NEW p \in Seq(Nat), NEW i \in 1..(Len(p) - 1), NEW acc, PiSo(p, i, acc)
  PROVE  PiSo(p, i + 1, PiStep(p, acc, i + 1))
<1>1. PICK pi, n : pi = acc.pi /\ n = acc.j
  OBVIOUS
<1>2. /\ PiTo(p, pi, i) /\ n = pi[i] /\ \A j \in (i + 1)..Len(p) : pi[j] = 0
      /\ pi \in [1..Len(p) -> Nat] /\ \A j \in 1..Len(p) : pi[j] < j
  BY <1>1 DEF PiSo, PiTo, Falls
<1>3. i \in Nat /\ i \in 0..Len(p) /\ i \in 1..Len(p) /\ i + 1 \in 1..Len(p) /\ Len(p) \in Nat
  OBVIOUS
<1>4. n \in 0..i /\ n < i /\ Ends(p, p, i, n)
      /\ \A l \in 0..(i - 1) : Ends(p, p, i, l) => l =< n
  BY <1>2, <1>3 DEF PiTo
<1>5. PICK c : c = p[i + 1]
  OBVIOUS
<1>6. PICK f, k : Round(p, pi, c, n, f, k)
  BY DEF Round
<1>7. /\ f \in 0..n /\ k \in Nat /\ k =< f + 1 /\ (k = f => k = 0)
      /\ Ends(p, p, i + 1, k)
      /\ \A l \in 1..(n + 1) : Ends(p, p, i + 1, l) => l =< k
  <2>1. Longer(p, p, i, n, f, k)
    BY <1>2, <1>3, <1>4, <1>5, <1>6, LongerBorder
  <2> QED
    BY <2>1 DEF Longer
<1>8. PICK rho : rho = IF k > f THEN [pi EXCEPT ![i + 1] = k] ELSE pi
  OBVIOUS
<1>9. PiStep(p, acc, i + 1) = [pi |-> rho, j |-> k]
  BY <1>1, <1>5, <1>6, <1>8 DEF PiStep, Round
<1>10. f \in Nat /\ k < i + 1
  BY <1>3, <1>4, <1>7
<1>11. rho \in [1..Len(p) -> Nat] /\ rho[i + 1] = k
  <2>1. CASE k > f
    BY <1>2, <1>3, <1>7, <1>8, <2>1
  <2>2. CASE ~(k > f)
    <3>1. k = f
      BY <1>6, <1>10, <2>2 DEF Round
    <3>2. pi[i + 1] = 0
      BY <1>2, <1>3
    <3> QED
      BY <1>2, <1>7, <1>8, <2>2, <3>1, <3>2
  <2> QED
    BY <2>1, <2>2
<1>12. \A j \in 1..Len(p) : j # i + 1 => rho[j] = pi[j]
  BY <1>2, <1>8
<1>13. \A j \in 1..Len(p) : rho[j] < j
  BY <1>2, <1>10, <1>11, <1>12
<1>14. ASSUME NEW j \in 1..(i + 1)
       PROVE  /\ Ends(p, p, j, rho[j])
              /\ \A l \in 0..(j - 1) : Ends(p, p, j, l) => l =< rho[j]
  <2>1. CASE j \in 1..i
    <3>1. j \in 1..Len(p) /\ j # i + 1
      BY <1>3, <2>1
    <3> QED
      BY <1>2, <1>12, <2>1, <3>1 DEF PiTo
  <2>2. CASE j = i + 1
    <3>1. ASSUME NEW l \in 0..i, Ends(p, p, i + 1, l) PROVE l =< k
      <4>1. CASE l = 0
        BY <1>7, <4>1
      <4>2. CASE l # 0
        <5>1. PICK h \in 0..(i - 1) : l = h + 1
          <6>1. l - 1 \in 0..(i - 1) /\ l = (l - 1) + 1
            BY <4>2
          <6> QED
            BY <6>1
        <5>2. h \in Nat /\ Ends(p, p, i + 1, h + 1)
          BY <3>1, <5>1
        <5>3. Ends(p, p, i, h)
          BY <1>3, <5>2, EndsLess, Zenon
        <5>4. h =< n
          BY <1>4, <5>3
        <5>5. l \in 1..(n + 1)
          BY <1>4, <5>1, <5>2, <5>4
        <5> QED
          BY <1>7, <3>1, <5>5
      <4> QED
        BY <4>1, <4>2
    <3>2. (i + 1) - 1 = i
      BY <1>3
    <3> QED
      BY <1>7, <1>11, <2>2, <3>1, <3>2
  <2> QED
    BY <2>1, <2>2
<1>15. \A j \in (i + 2)..Len(p) : rho[j] = 0
  BY <1>2, <1>3, <1>12
<1>16. PiTo(p, rho, i + 1)
  BY <1>11, <1>13, <1>14 DEF PiTo, Falls
<1>17. (i + 1) + 1 = i + 2
  BY <1>3
<1> QED
  BY <1>9, <1>11, <1>15, <1>16, <1>17 DEF PiSo

\* getPi computes the longest border of every prefix of the word
\* (kmp_solution/ref_solution.cpp).
THEOREM GetPiBorders ==
  ASSUME NEW p \in Seq(Nat), p # <<>>
  PROVE  PiTo(p, Kmp!getPi(p), Len(p))
<1>1. PICK g : /\ IsFold("getPi", <<p>>, PiStart(p), Later(Len(p)), Len(p) - 1, g)
               /\ Kmp!getPi(p) = g[1..(Len(p) - 1)].pi
  BY GetPiFold
<1>2. PICK n \in Nat : Len(p) = n + 1
  <2>1. Len(p) - 1 \in Nat /\ Len(p) = (Len(p) - 1) + 1
    OBVIOUS
  <2> QED
    BY <2>1
<1>3. Len(p) - 1 = n
  BY <1>2
<1>4. /\ g[1..0] = PiStart(p)
      /\ \A i \in 1..n : g[1..i] = FoldStep("getPi", <<p>>, g[1..(i - 1)], Later(Len(p))[i])
  <2>1. IsFold("getPi", <<p>>, PiStart(p), Later(Len(p)), n, g)
    BY <1>1, <1>3
  <2>2. Steps("getPi", <<p>>, PiStart(p), Later(Len(p)), n, g)
    BY <2>1, FoldSteps, Zenon
  <2> QED
    BY <2>2 DEF Steps
<1>5. ASSUME NEW i \in 1..n PROVE g[1..i] = PiStep(p, g[1..(i - 1)], i + 1)
  <2>1. Later(Len(p))[i] = i + 1
    BY <1>3 DEF Later
  <2> QED
    BY <1>4, <2>1 DEF FoldStep
<1> DEFINE Bad == {m \in 0..n : ~PiSo(p, m + 1, g[1..m])}
<1>6. Bad = {}
  <2> SUFFICES ASSUME Bad # {} PROVE FALSE
    OBVIOUS
  <2>1. PICK m \in Bad : \A j \in Bad : m =< j
    <3>1. Bad \in SUBSET Nat
      OBVIOUS
    <3> HIDE DEF Bad
    <3> QED
      BY <3>1, LeastNatural
  <2>2. m \in 0..n /\ ~PiSo(p, m + 1, g[1..m])
    OBVIOUS
  <2>3. PiSo(p, 1, g[1..0])
    <3>1. PiStart(p).pi = [i \in 1..Len(p) |-> 0] /\ PiStart(p).j = 0
      BY DEF PiStart
    <3>2. PICK z : z = [i \in 1..Len(p) |-> 0]
      OBVIOUS
    <3>3. \A j \in 1..Len(p) : z[j] = 0
      BY <3>2
    <3>4. Falls(p, z)
      BY <3>2, <3>3 DEF Falls
    <3>5. 1 \in 1..Len(p) /\ z[1] = 0 /\ 1..1 = {1} /\ 0..(1 - 1) = {0}
      BY <1>2, <3>3
    <3>6. Ends(p, p, 1, 0)
      BY DEF Ends
    <3>7. PiTo(p, z, 1)
      BY <3>4, <3>5, <3>6 DEF PiTo
    <3>8. \A j \in (1 + 1)..Len(p) : z[j] = 0
      BY <3>3
    <3> QED
      BY <1>4, <3>1, <3>2, <3>5, <3>7, <3>8 DEF PiSo
  <2>4. m # 0
    BY <2>2, <2>3
  <2>5. m \in 1..n /\ m - 1 \in 0..n /\ ~(m =< m - 1) /\ (m - 1) + 1 = m
    BY <2>2, <2>4
  <2>6. m - 1 \notin Bad
    BY <2>1, <2>5
  <2>7. PiSo(p, m, g[1..(m - 1)])
    BY <2>5, <2>6
  <2>8. g[1..m] = PiStep(p, g[1..(m - 1)], m + 1)
    BY <1>5, <2>5
  <2>9. m \in 1..(Len(p) - 1)
    BY <1>3, <2>5
  <2>10. PiSo(p, m + 1, g[1..m])
    BY <2>7, <2>8, <2>9, PiStepRight
  <2> QED
    BY <2>2, <2>10
<1>7. PiSo(p, n + 1, g[1..n])
  BY <1>6
<1> QED
  BY <1>1, <1>2, <1>3, <1>7 DEF PiSo

-----------------------------------------------------------------------------
(* kmp.                                                                    *)

ScanStart == [j |-> 0, at |-> 0]
Places(n) == [i \in 1..n |-> i]

\* The scan is a fold.
LEMMA KmpFold ==
  ASSUME NEW w \in Seq(Nat), NEW t \in Seq(Nat), NEW e, e = <<w, Kmp!getPi(w), t>>
  PROVE  \E g : /\ IsFold("kmp", e, ScanStart, Places(Len(t)), Len(t), g)
                /\ Kmp!kmp(w, t) = g[1..Len(t)].at
<1> DEFINE n == Len(t)
           q == Places(Len(t))
           Step(g, s) == IF s = {} THEN ScanStart
                         ELSE ScanStep(w, Kmp!getPi(w), t, g[s \ {MaxOf(s)}], q[MaxOf(s)])
           Step2(g, s) == Folded("kmp", e, ScanStart, q, g, s)
           fold == CHOOSE g : g = [s \in SUBSET (1..n) |-> Step(g, s)]
<1>1. n \in Nat
  OBVIOUS
<1>2. Kmp!kmp(w, t) = fold[1..n].at
  BY DEF Kmp!kmp, Kmp!FoldLeft, Kmp!MapThenFoldSet, Kmp!Max, ScanStep, ScanStart, Places, MaxOf
<1>3. \A g, s : Step(g, s) = Step2(g, s)
  <2>1. e[1] = w /\ e[2] = Kmp!getPi(w) /\ e[3] = t
    OBVIOUS
  <2> QED
    BY <2>1 DEF Folded, FoldStep
<1>4. PICK h : h = [s \in SUBSET (1..n) |-> Step2(h, s)]
  <2>1. \E h : IsFold("kmp", e, ScanStart, q, n, h)
    BY <1>1, FoldDefined, Zenon
  <2> QED
    BY <2>1 DEF IsFold
<1>5. h = [s \in SUBSET (1..n) |-> Step(h, s)]
  <2> HIDE DEF Step, Step2
  <2> QED
    BY <1>3, <1>4
<1>6. fold = [s \in SUBSET (1..n) |-> Step(fold, s)]
  <2> HIDE DEF Step
  <2> QED
    BY <1>5
<1> HIDE DEF fold
<1>7. fold = [s \in SUBSET (1..n) |-> Step2(fold, s)]
  <2> HIDE DEF Step, Step2
  <2> QED
    BY <1>3, <1>6
<1> QED
  BY <1>2, <1>7 DEF IsFold

\* w stands in t with its last letter at q, and nowhere before.
FirstEnd(w, t, q) == Ends(w, t, q, Len(w)) /\ \A r \in 0..(q - 1) : ~Ends(w, t, r, Len(w))

\* acc after letter i of the text: j letters of the word end it and no more, or the
\* word has been found.
Scanning(w, t, i, acc) ==
  /\ acc.at = 0 /\ acc.j \in 0..(Len(w) - 1) /\ Ends(w, t, i, acc.j)
  /\ \A l \in 0..(Len(w) - 1) : Ends(w, t, i, l) => l =< acc.j
  /\ \A r \in 0..i : ~Ends(w, t, r, Len(w))
Scanned(w, t, i, acc) ==
  \/ Scanning(w, t, i, acc)
  \/ \E q \in 0..i : acc.at = q - Len(w) + 1 /\ acc.at # 0 /\ FirstEnd(w, t, q)

\* A round of kmp.
LEMMA ScanStepRight ==
  ASSUME NEW w \in Seq(Nat), w # <<>>, NEW t, NEW pi, PiTo(w, pi, Len(w)),
         NEW i \in Nat, NEW acc, Scanned(w, t, i, acc)
  PROVE  Scanned(w, t, i + 1, ScanStep(w, pi, t, acc, i + 1))
<1>1. CASE ~Scanning(w, t, i, acc)
  <2>1. PICK q \in 0..i : acc.at = q - Len(w) + 1 /\ acc.at # 0 /\ FirstEnd(w, t, q)
    BY <1>1 DEF Scanned
  <2>2. ScanStep(w, pi, t, acc, i + 1) = acc
    BY <2>1 DEF ScanStep
  <2>3. q \in 0..(i + 1)
    OBVIOUS
  <2> QED
    BY <2>1, <2>2, <2>3 DEF Scanned
<1>2. CASE Scanning(w, t, i, acc)
  <2>1. PICK z \in Nat : Len(w) = z + 1
    <3>1. Len(w) \in Nat /\ Len(w) # 0
      OBVIOUS
    <3>2. Len(w) - 1 \in Nat /\ Len(w) = (Len(w) - 1) + 1
      BY <3>1
    <3> QED
      BY <3>2, Zenon
  <2>2. PICK n : n = acc.j
    OBVIOUS
  <2>3. /\ n \in 0..z /\ acc.at = 0 /\ Ends(w, t, i, n)
        /\ \A l \in 0..z : Ends(w, t, i, l) => l =< n
        /\ \A r \in 0..i : ~Ends(w, t, r, Len(w))
    BY <1>2, <2>1, <2>2 DEF Scanning
  <2>4. PICK c : c = t[i + 1]
    OBVIOUS
  <2>5. PICK f, k : Round(w, pi, c, n, f, k)
    BY DEF Round
  <2>6. n \in 0..Len(w) /\ Len(w) \in 0..Len(w)
    BY <2>1, <2>3
  <2>7. Longer(w, t, i, n, f, k)
    BY <2>3, <2>4, <2>5, <2>6, LongerBorder
  <2>8. /\ f \in 0..n /\ k \in Nat /\ k =< f + 1 /\ Ends(w, t, i + 1, k)
        /\ \A l \in 1..(n + 1) : Ends(w, t, i + 1, l) => l =< k
    BY <2>7 DEF Longer
  <2>9. /\ f = Kmp!Fallback(w, pi, t[i + 1], acc.j)
        /\ k = IF t[i + 1] = w[f + 1] THEN f + 1 ELSE f
    BY <2>2, <2>4, <2>5 DEF Round
  <2>10. ASSUME NEW l \in Nat, l =< z + 1, Ends(w, t, i + 1, l) PROVE l =< k
    <3>1. CASE l = 0
      BY <2>8, <3>1
    <3>2. CASE l # 0
      <4>1. PICK h \in 0..z : l = h + 1
        <5>1. l - 1 \in 0..z /\ l = (l - 1) + 1
          BY <2>1, <2>10, <3>2
        <5> QED
          BY <5>1
      <4>2. h \in Nat /\ Ends(w, t, i + 1, h + 1)
        BY <2>1, <2>10, <4>1
      <4>3. Ends(w, t, i, h)
        BY <4>2, EndsLess, Zenon
      <4>4. h =< n
        BY <2>3, <4>3
      <4>5. l \in 1..(n + 1)
        BY <2>1, <2>3, <4>1, <4>2, <4>4
      <4> QED
        BY <2>8, <2>10, <4>5
    <3> QED
      BY <3>1, <3>2
  <2>11. CASE k = z + 1
    <3>1. t[i + 1] = w[f + 1] /\ f + 1 = Len(w)
      BY <2>1, <2>3, <2>8, <2>9, <2>11
    <3>2. ScanStep(w, pi, t, acc, i + 1) = [j |-> f, at |-> (i + 1) - Len(w) + 1]
      BY <2>3, <2>9, <3>1 DEF ScanStep
    <3>3. Ends(w, t, i + 1, Len(w)) /\ Len(w) =< i + 1
      BY <2>1, <2>8, <2>11 DEF Ends
    <3>4. (i + 1) - 1 = i /\ i + 1 \in 0..(i + 1)
      OBVIOUS
    <3>5. FirstEnd(w, t, i + 1)
      BY <2>3, <3>3, <3>4 DEF FirstEnd
    <3>6. (i + 1) - Len(w) + 1 # 0
      BY <2>1, <3>3
    <3> QED
      BY <3>2, <3>4, <3>5, <3>6 DEF Scanned
  <2>12. CASE k # z + 1
    <3>1. k \in 0..z
      BY <2>1, <2>3, <2>8, <2>12
    <3>2. ~Ends(w, t, i + 1, Len(w))
      <4>1. z + 1 \in Nat /\ z + 1 =< z + 1 /\ ~(z + 1 =< k)
        BY <2>1, <3>1
      <4> QED
        BY <2>1, <2>10, <4>1
    <3>3. ScanStep(w, pi, t, acc, i + 1) = [j |-> k, at |-> 0]
      <4>1. CASE t[i + 1] = w[f + 1]
        <5>1. k = f + 1 /\ f + 1 # Len(w)
          BY <2>1, <2>9, <2>12, <4>1
        <5> QED
          BY <2>3, <2>9, <4>1, <5>1 DEF ScanStep
      <4>2. CASE t[i + 1] # w[f + 1]
        BY <2>3, <2>9, <4>2 DEF ScanStep
      <4> QED
        BY <4>1, <4>2
    <3>4. \A l \in 0..z : Ends(w, t, i + 1, l) => l =< k
      BY <2>1, <2>10
    <3>5. \A r \in 0..(i + 1) : ~Ends(w, t, r, Len(w))
      BY <2>3, <3>2
    <3>6. Len(w) - 1 = z
      BY <2>1
    <3>7. Scanning(w, t, i + 1, [j |-> k, at |-> 0])
      BY <2>8, <3>1, <3>4, <3>5, <3>6 DEF Scanning
    <3> QED
      BY <3>3, <3>7 DEF Scanned
  <2> QED
    BY <2>11, <2>12
<1> QED
  BY <1>1, <1>2

\* What the whole scan finds.
LEMMA KmpScans ==
  ASSUME NEW w \in Seq(Nat), w # <<>>, NEW t \in Seq(Nat)
  PROVE  LET at == Kmp!kmp(w, t)
         IN  \/ at = 0 /\ \A r \in 0..Len(t) : ~Ends(w, t, r, Len(w))
             \/ \E q \in 0..Len(t) : at = q - Len(w) + 1 /\ at # 0 /\ FirstEnd(w, t, q)
<1>1. PICK e : e = <<w, Kmp!getPi(w), t>>
  OBVIOUS
<1>2. PICK g : /\ IsFold("kmp", e, ScanStart, Places(Len(t)), Len(t), g)
               /\ Kmp!kmp(w, t) = g[1..Len(t)].at
  BY <1>1, KmpFold
<1>3. PICK n \in Nat : n = Len(t)
  OBVIOUS
<1>4. Steps("kmp", e, ScanStart, Places(n), n, g)
  <2>1. IsFold("kmp", e, ScanStart, Places(n), n, g)
    BY <1>2, <1>3
  <2> QED
    BY <2>1, FoldSteps, Zenon
<1>5. PICK pi : pi = Kmp!getPi(w)
  OBVIOUS
<1>6. PiTo(w, pi, Len(w))
  BY <1>5, GetPiBorders
<1>7. ASSUME NEW i \in 1..n PROVE g[1..i] = ScanStep(w, pi, t, g[1..(i - 1)], i)
  <2>1. Places(n)[i] = i
    BY DEF Places
  <2>2. e[1] = w /\ e[2] = pi /\ e[3] = t
    BY <1>1, <1>5
  <2>3. g[1..i] = FoldStep("kmp", e, g[1..(i - 1)], Places(n)[i])
    BY <1>4 DEF Steps
  <2> QED
    BY <2>1, <2>2, <2>3 DEF FoldStep
<1> DEFINE Bad == {m \in 0..n : ~Scanned(w, t, m, g[1..m])}
<1>8. Bad = {}
  <2> SUFFICES ASSUME Bad # {} PROVE FALSE
    OBVIOUS
  <2>1. PICK m \in Bad : \A j \in Bad : m =< j
    <3>1. Bad \in SUBSET Nat
      OBVIOUS
    <3> HIDE DEF Bad
    <3> QED
      BY <3>1, LeastNatural
  <2>2. m \in 0..n /\ ~Scanned(w, t, m, g[1..m])
    OBVIOUS
  <2>3. Scanned(w, t, 0, g[1..0])
    <3>1. g[1..0] = ScanStart /\ ScanStart.at = 0 /\ ScanStart.j = 0
      BY <1>4 DEF Steps, ScanStart
    <3>2. Len(w) \in Nat /\ Len(w) # 0 /\ 0..0 = {0}
      OBVIOUS
    <3>3. Ends(w, t, 0, 0) /\ ~Ends(w, t, 0, Len(w))
      BY <3>2 DEF Ends
    <3>4. \A l \in 0..(Len(w) - 1) : Ends(w, t, 0, l) => l =< 0
      BY <3>2 DEF Ends
    <3> QED
      BY <3>1, <3>2, <3>3, <3>4 DEF Scanned, Scanning
  <2>4. m # 0
    BY <2>2, <2>3
  <2>5. m \in 1..n /\ m - 1 \in 0..n /\ ~(m =< m - 1) /\ (m - 1) + 1 = m /\ m - 1 \in Nat
    BY <2>2, <2>4
  <2>6. m - 1 \notin Bad
    BY <2>1, <2>5
  <2>7. PICK k \in Nat : k = m - 1
    BY <2>5
  <2>8. Scanned(w, t, k, g[1..k]) /\ k + 1 = m
    BY <2>5, <2>6, <2>7
  <2>9. g[1..m] = ScanStep(w, pi, t, g[1..k], m)
    BY <1>7, <2>5, <2>7
  <2>10. Scanned(w, t, k + 1, ScanStep(w, pi, t, g[1..k], k + 1))
    BY <1>6, <2>8, ScanStepRight
  <2> QED
    BY <2>2, <2>8, <2>9, <2>10
<1>9. Scanned(w, t, n, g[1..n])
  BY <1>8
<1> QED
  BY <1>2, <1>3, <1>9 DEF Scanned, Scanning

\* Occurrences, letter by letter.
LEMMA OccursEnds ==
  ASSUME NEW w \in Seq(Nat), w # <<>>, NEW t \in Seq(Nat), NEW i \in 1..Len(t)
  PROVE  OccursAt(w, t, i) <=>
           i + Len(w) - 1 =< Len(t) /\ Ends(w, t, i + Len(w) - 1, Len(w))
<1>1. PICK n : n = Len(w) /\ n \in Nat /\ n # 0
  OBVIOUS
<1>2. CASE i + n - 1 =< Len(t)
  <2>1. PICK u : u = SubSeq(t, i, i + n - 1)
    OBVIOUS
  <2>2. u \in Seq(Nat) /\ Len(u) = n /\ \A x \in 1..n : u[x] = t[i + x - 1]
    <3>1. PICK m : m = i + n - 1 /\ m \in Int /\ i \in Int /\ i =< m /\ m - i + 1 = n
      BY <1>1
    <3>2. \A x \in i..m : t[x] \in Nat
      <4>1. \A x \in i..m : x \in 1..Len(t)
        BY <1>2, <3>1
      <4> QED
        BY <4>1, ElementOfSeq
    <3>3. SubSeq(t, i, m) \in Seq(Nat) /\ Len(SubSeq(t, i, m)) = m - i + 1
      BY <3>1, <3>2, SubSeqProperties
    <3>4. \A x \in 1..(m - i + 1) : SubSeq(t, i, m)[x] = t[i + x - 1]
      BY <3>1, <3>2, SubSeqProperties
    <3>5. u = SubSeq(t, i, m)
      BY <2>1, <3>1
    <3> QED
      BY <3>1, <3>3, <3>4, <3>5
  <2>3. u = w <=> \A x \in 1..n : u[x] = w[x]
    <3>1. u \in [1..n -> Nat] /\ w \in [1..n -> Nat]
      BY <1>1, <2>2, LenProperties
    <3>2. ASSUME \A x \in 1..n : u[x] = w[x] PROVE u = w
      <4>1. u = [x \in 1..n |-> u[x]] /\ w = [x \in 1..n |-> w[x]]
        BY <3>1
      <4>2. [x \in 1..n |-> u[x]] = [x \in 1..n |-> w[x]]
        BY <3>2
      <4> QED
        BY <4>1, <4>2, Zenon
    <3> QED
      BY <3>2
  <2>4. \A x \in 1..n : (i + n - 1) - n + x = i + x - 1
    BY <1>1
  <2>5. Ends(w, t, i + n - 1, n) <=> \A x \in 1..n : w[x] = t[i + x - 1]
    BY <1>1, <2>4 DEF Ends
  <2> QED
    BY <1>1, <1>2, <2>1, <2>2, <2>3, <2>5 DEF OccursAt
<1>3. CASE ~(i + n - 1 =< Len(t))
  BY <1>1, <1>3 DEF OccursAt
<1> QED
  BY <1>2, <1>3

\* The scan finds the first occurrence of the word, or says that there is none, for
\* every word and every text (kmp_solution/ref_solution.cpp).
THEOREM KmpCorrect ==
  ASSUME NEW w \in Seq(Nat), w # <<>>, NEW t \in Seq(Nat)
  PROVE  /\ Occurs(w, t) => /\ Kmp!kmp(w, t) = FirstAt(w, t) /\ FirstAt(w, t) \in 1..Len(t)
                            /\ OccursAt(w, t, FirstAt(w, t))
         /\ ~Occurs(w, t) => Kmp!kmp(w, t) = 0
<1>1. PICK at : at = Kmp!kmp(w, t)
  OBVIOUS
<1>2. \/ at = 0 /\ \A r \in 0..Len(t) : ~Ends(w, t, r, Len(w))
      \/ \E q \in 0..Len(t) : at = q - Len(w) + 1 /\ at # 0 /\ FirstEnd(w, t, q)
  BY <1>1, KmpScans
<1>3. PICK n : n = Len(w) /\ n \in Nat /\ n # 0
  OBVIOUS
<1>4. Len(t) \in Nat
  OBVIOUS
<1>5. ASSUME NEW i \in 1..Len(t), OccursAt(w, t, i)
      PROVE  i + n - 1 \in 0..Len(t) /\ Ends(w, t, i + n - 1, Len(w))
  BY <1>3, <1>4, <1>5, OccursEnds
<1>6. CASE \A r \in 0..Len(t) : ~Ends(w, t, r, Len(w))
  <2>1. ~Occurs(w, t)
    BY <1>5, <1>6 DEF Occurs
  <2>2. at = 0
    BY <1>2, <1>6 DEF FirstEnd
  <2> QED
    BY <1>1, <2>1, <2>2
<1>7. CASE ~(\A r \in 0..Len(t) : ~Ends(w, t, r, Len(w)))
  <2>1. PICK q \in 0..Len(t) : at = q - n + 1 /\ at # 0 /\ FirstEnd(w, t, q)
    BY <1>2, <1>3, <1>7
  <2>2. n =< q /\ Ends(w, t, q, Len(w)) /\ \A r \in 0..(q - 1) : ~Ends(w, t, r, Len(w))
    BY <1>3, <2>1 DEF FirstEnd, Ends
  <2>3. at \in 1..Len(t) /\ at + n - 1 = q
    BY <1>3, <1>4, <2>1, <2>2
  <2>4. OccursAt(w, t, at)
    <3>1. at + Len(w) - 1 = q /\ q =< Len(t)
      BY <1>3, <1>4, <2>3
    <3>2. Ends(w, t, at + Len(w) - 1, Len(w)) /\ at + Len(w) - 1 =< Len(t)
      BY <2>2, <3>1, Zenon
    <3> QED
      BY <2>3, <3>2, OccursEnds
  <2>5. ASSUME NEW i \in 1..Len(t), OccursAt(w, t, i) PROVE at =< i
    <3>1. i + n - 1 \in 0..Len(t) /\ Ends(w, t, i + n - 1, Len(w))
      BY <1>5, <2>5
    <3>2. ~(i + n - 1 \in 0..(q - 1))
      BY <2>2, <3>1
    <3> QED
      BY <1>3, <1>4, <2>3, <3>1, <3>2
  <2>6. \A j \in 1..(at - 1) : ~OccursAt(w, t, j)
    <3>1. \A j \in 1..(at - 1) : j \in 1..Len(t) /\ ~(at =< j)
      BY <2>3
    <3> QED
      BY <2>5, <3>1
  <2>7. PICK i : i = FirstAt(w, t)
    OBVIOUS
  <2>8. i \in 1..Len(t) /\ OccursAt(w, t, i) /\ \A j \in 1..(i - 1) : ~OccursAt(w, t, j)
    BY <2>3, <2>4, <2>6, <2>7 DEF FirstAt
  <2>9. i = at
    <3>1. at =< i
      BY <2>5, <2>8
    <3>2. ~(at \in 1..(i - 1))
      BY <2>4, <2>8
    <3> QED
      BY <1>4, <2>3, <2>8, <3>1, <3>2
  <2>10. Occurs(w, t)
    BY <2>3, <2>4 DEF Occurs
  <2> QED
    BY <1>1, <2>7, <2>8, <2>9, <2>10
<1> QED
  BY <1>6, <1>7

-----------------------------------------------------------------------------
(* Sorting.  An order is a set of pairs here, for the reason FoldStep has  *)
(* been defined.                                                           *)

Orders(R, D) ==
  /\ \A x \in D : <<x, x>> \notin R
  /\ \A x, y, z \in D : <<x, y>> \in R /\ <<y, z>> \in R => <<x, z>> \in R
  /\ \A x, y \in D : x = y \/ <<x, y>> \in R \/ <<y, x>> \in R

Increases(R, n, f) == \A i, j \in 1..n : i < j => <<f[i], f[j]>> \in R
Sorts(R, S, f) == f \in [1..Cardinality(S) -> S] /\ Increases(R, Cardinality(S), f)

\* A finite set has a greatest element.
LEMMA Greatest ==
  ASSUME NEW D, NEW R, Orders(R, D), IsFiniteSet(D),
         NEW T \in SUBSET D, T # {}
  PROVE  \E m \in T : \A x \in T : x = m \/ <<x, m>> \in R
<1> DEFINE Has(S) == \E m \in S : \A x \in S : x = m \/ <<x, m>> \in R
           Bad == {k \in Nat : \E S \in SUBSET D : S # {} /\ Cardinality(S) = k /\ ~Has(S)}
<1>1. ASSUME NEW S \in SUBSET D
      PROVE  IsFiniteSet(S) /\ Cardinality(S) \in Nat
  BY FS_Subset, FS_CardinalityType
<1>2. Bad = {}
  <2> SUFFICES ASSUME Bad # {} PROVE FALSE
    OBVIOUS
  <2>1. PICK k \in Bad : \A j \in Bad : k =< j
    <3>1. Bad \in SUBSET Nat
      OBVIOUS
    <3> HIDE DEF Bad
    <3> QED
      BY <3>1, LeastNatural
  <2>2. PICK S \in SUBSET D : S # {} /\ Cardinality(S) = k /\ ~Has(S)
    <3> HIDE DEF Has
    <3> QED
      OBVIOUS
  <2>3. PICK x \in S : TRUE
    BY <2>2
  <2>4. PICK U : U = S \ {x}
    OBVIOUS
  <2>5. U \in SUBSET D /\ x \in D /\ Cardinality(U) = k - 1 /\ k \in Nat
    BY <1>1, <2>2, <2>4, FS_RemoveElement
  <2>6. CASE U = {}
    <3>1. \A y \in S : y = x
      BY <2>4, <2>6
    <3> QED
      BY <2>2, <2>3, <3>1
  <2>7. CASE U # {}
    <3>1. Cardinality(U) \in Nat /\ ~(k =< k - 1)
      BY <1>1, <2>5
    <3>2. Has(U)
      <4>1. k - 1 \notin Bad
        BY <2>1, <3>1
      <4> HIDE DEF Has
      <4> QED
        BY <2>5, <2>7, <3>1, <4>1
    <3>3. PICK m \in U : \A y \in U : y = m \/ <<y, m>> \in R
      BY <3>2
    <3>4. m \in D /\ m \in S
      BY <2>4, <2>5, <3>3
    <3>5. CASE <<x, m>> \in R
      <4>1. \A y \in S : y = m \/ <<y, m>> \in R
        BY <2>4, <3>3, <3>5
      <4> QED
        BY <2>2, <3>4, <4>1
    <3>6. CASE <<m, x>> \in R \/ m = x
      <4>1. \A y \in S : y = x \/ <<y, x>> \in R
        BY <2>4, <2>5, <3>3, <3>4, <3>6 DEF Orders
      <4> QED
        BY <2>2, <2>3, <4>1
    <3> QED
      BY <2>5, <3>4, <3>5, <3>6 DEF Orders
  <2> QED
    BY <2>6, <2>7
<1>3. Cardinality(T) \in Nat
  BY <1>1
<1>4. Has(T)
  <2> HIDE DEF Has
  <2> QED
    BY <1>2, <1>3
<1> QED
  BY <1>4

\* A finite set can be sorted.
LEMMA SortExists ==
  ASSUME NEW D, NEW R, Orders(R, D), IsFiniteSet(D)
  PROVE  \E f : Sorts(R, D, f)
<1> DEFINE Has(S) == \E f : Sorts(R, S, f)
           Bad == {k \in Nat : \E S \in SUBSET D : Cardinality(S) = k /\ ~Has(S)}
<1>1. ASSUME NEW S \in SUBSET D
      PROVE  IsFiniteSet(S) /\ Cardinality(S) \in Nat
  BY FS_Subset, FS_CardinalityType
<1>2. Bad = {}
  <2> SUFFICES ASSUME Bad # {} PROVE FALSE
    OBVIOUS
  <2>1. PICK k \in Bad : \A j \in Bad : k =< j
    <3>1. Bad \in SUBSET Nat
      OBVIOUS
    <3> HIDE DEF Bad
    <3> QED
      BY <3>1, LeastNatural
  <2>2. PICK S \in SUBSET D : Cardinality(S) = k /\ ~Has(S)
    <3> HIDE DEF Has
    <3> QED
      OBVIOUS
  <2>3. CASE S = {}
    <3>1. k = 0
      BY <2>2, <2>3, FS_EmptySet
    <3> DEFINE f == [i \in 1..0 |-> 0]
    <3>2. f \in [1..0 -> S] /\ Increases(R, 0, f)
      BY DEF Increases
    <3> HIDE DEF f
    <3>3. Sorts(R, S, f)
      BY <2>2, <3>1, <3>2 DEF Sorts
    <3> QED
      BY <2>2, <3>3
  <2>4. CASE S # {}
    <3>1. PICK m \in S : \A x \in S : x = m \/ <<x, m>> \in R
      BY <2>4, Greatest
    <3>2. PICK U : U = S \ {m}
      OBVIOUS
    <3>3. U \in SUBSET D /\ m \in D /\ Cardinality(U) = k - 1 /\ k \in Nat
      BY <1>1, <2>2, <3>1, <3>2, FS_RemoveElement
    <3>4. k - 1 \in Nat /\ ~(k =< k - 1)
      BY <1>1, <3>3
    <3>5. Has(U)
      <4>1. k - 1 \notin Bad
        BY <2>1, <3>4
      <4> HIDE DEF Has
      <4> QED
        BY <3>3, <3>4, <4>1
    <3>6. PICK f : f \in [1..(k - 1) -> U] /\ Increases(R, k - 1, f)
      BY <3>3, <3>5 DEF Sorts
    <3> DEFINE g == [i \in 1..k |-> IF i = k THEN m ELSE f[i]]
    <3>7. \A i \in 1..k : i # k => i \in 1..(k - 1)
      BY <3>3
    <3>8. g \in [1..k -> S]
      BY <3>1, <3>2, <3>6, <3>7
    <3>9. ASSUME NEW i \in 1..k, NEW j \in 1..k, i < j PROVE <<g[i], g[j]>> \in R
      <4>1. i # k /\ i \in 1..(k - 1) /\ g[i] = f[i] /\ f[i] \in U
        BY <3>3, <3>6, <3>7, <3>9
      <4>2. CASE j = k
        BY <3>1, <3>2, <4>1, <4>2
      <4>3. CASE j # k
        <5>1. j \in 1..(k - 1) /\ g[j] = f[j]
          BY <3>7, <4>3
        <5> HIDE DEF g
        <5> QED
          BY <3>6, <3>9, <4>1, <5>1 DEF Increases
      <4> QED
        BY <4>2, <4>3
    <3> HIDE DEF g
    <3>10. Sorts(R, S, g)
      BY <2>2, <3>8, <3>9 DEF Sorts, Increases
    <3> QED
      BY <2>2, <3>10
  <2> QED
    BY <2>3, <2>4
<1>3. Cardinality(D) \in Nat
  BY <1>1
<1>4. Has(D)
  <2> HIDE DEF Has
  <2> QED
    BY <1>2, <1>3
<1> QED
  BY <1>4

\* What has been sorted has every element.
LEMMA SortCovers ==
  ASSUME NEW D, NEW R, Orders(R, D), IsFiniteSet(D), NEW f, Sorts(R, D, f)
  PROVE  /\ \A i, j \in 1..Cardinality(D) : f[i] = f[j] => i = j
         /\ \A x \in D : \E i \in 1..Cardinality(D) : f[i] = x
<1>1. PICK n \in Nat : n = Cardinality(D)
  BY FS_CardinalityType
<1>2. f \in [1..n -> D] /\ Increases(R, n, f)
  BY <1>1 DEF Sorts
<1>3. ASSUME NEW i \in 1..n, NEW j \in 1..n, f[i] = f[j] PROVE i = j
  <2>1. f[i] \in D /\ f[j] \in D
    BY <1>2
  <2>2. ~(i < j) /\ ~(j < i)
    BY <1>2, <1>3, <2>1 DEF Increases, Orders
  <2> QED
    BY <2>2
<1>4. f \in Injection(1..n, D)
  BY <1>2, <1>3 DEF Injection, IsInjective
<1>5. Cardinality(1..n) = Cardinality(D)
  BY <1>1, FS_Interval
<1>6. f \in Surjection(1..n, D)
  BY <1>4, <1>5, FS_Injection
<1> QED
  BY <1>1, <1>3, <1>6 DEF Surjection

\* A set can be sorted in one way only.
LEMMA SortUnique ==
  ASSUME NEW D, NEW R, Orders(R, D), IsFiniteSet(D),
         NEW f, Sorts(R, D, f), NEW g, Sorts(R, D, g)
  PROVE  f = g
<1>1. PICK n \in Nat : n = Cardinality(D)
  BY FS_CardinalityType
<1>2. /\ f \in [1..n -> D] /\ Increases(R, n, f)
      /\ g \in [1..n -> D] /\ Increases(R, n, g)
  BY <1>1 DEF Sorts
<1>3. /\ \A i, j \in 1..n : f[i] = f[j] => i = j
      /\ \A x \in D : \E i \in 1..n : f[i] = x
      /\ \A i, j \in 1..n : g[i] = g[j] => i = j
      /\ \A x \in D : \E i \in 1..n : g[i] = x
  BY <1>1, SortCovers
<1> DEFINE Bad == {i \in 1..n : f[i] # g[i]}
<1>4. Bad = {}
  <2> SUFFICES ASSUME Bad # {} PROVE FALSE
    OBVIOUS
  <2>1. PICK i \in Bad : \A j \in Bad : i =< j
    <3>1. Bad \in SUBSET Nat
      OBVIOUS
    <3> HIDE DEF Bad
    <3> QED
      BY <3>1, LeastNatural
  <2>2. i \in 1..n /\ f[i] # g[i] /\ f[i] \in D /\ g[i] \in D
    BY <1>2
  <2>3. \A j \in 1..n : j < i => f[j] = g[j]
    BY <2>1
  <2>4. PICK a \in 1..n : f[a] = g[i]
    BY <1>3, <2>2
  <2>5. PICK b \in 1..n : g[b] = f[i]
    BY <1>3, <2>2
  <2>6. ~(a < i) /\ ~(b < i) /\ a # i /\ b # i
    BY <1>3, <2>2, <2>3, <2>4, <2>5
  <2>7. i < a /\ i < b
    BY <2>6
  <2>8. <<f[i], g[i]>> \in R /\ <<g[i], f[i]>> \in R
    BY <1>2, <2>2, <2>4, <2>5, <2>7 DEF Increases
  <2> QED
    BY <2>2, <2>8 DEF Orders
<1>5. \A i \in 1..n : f[i] = g[i]
  BY <1>4
<1>6. f = [i \in 1..n |-> f[i]] /\ g = [i \in 1..n |-> g[i]]
  BY <1>2
<1>7. [i \in 1..n |-> f[i]] = [i \in 1..n |-> g[i]]
  BY <1>5
<1> QED
  BY <1>6, <1>7, Zenon

-----------------------------------------------------------------------------
(* The replies of the thread-per-word solution.                            *)

\* Of two words that stand at the same place the shorter one is the one that the order
\* of std::string puts first, and words of the same length are the same.
LEMMA SamePlace ==
  ASSUME NEW v \in Seq(Nat), NEW w \in Seq(Nat), NEW s \in Seq(Nat), NEW i \in 1..Len(s),
         OccursAt(v, s, i), OccursAt(w, s, i)
  PROVE  /\ Kmp!Before(v, w) <=> Len(v) < Len(w)
         /\ Len(v) = Len(w) => v = w
<1>1. PICK m \in Nat : m = Len(v)
  OBVIOUS
<1>2. PICK n \in Nat : n = Len(w)
  OBVIOUS
<1>3. ASSUME NEW u \in Seq(Nat), OccursAt(u, s, i), NEW k \in 1..Len(u)
      PROVE  u[k] = s[i + k - 1]
  <2>1. PICK l \in Nat : l = Len(u)
    OBVIOUS
  <2>2. SubSeq(s, i, i + l - 1) = u /\ i + l - 1 =< Len(s)
    BY <1>3, <2>1 DEF OccursAt
  <2>3. SubSeq(s, i, i + l - 1)[k] = s[i + k - 1]
    BY <2>1, <2>2
  <2> QED
    BY <2>2, <2>3
<1>4. v = [k \in 1..m |-> v[k]] /\ w = [k \in 1..n |-> w[k]]
  BY <1>1, <1>2
<1>5. /\ \A k \in 1..m : v[k] = s[i + k - 1] /\ v[k] \in Nat
      /\ \A k \in 1..n : w[k] = s[i + k - 1] /\ w[k] \in Nat
  <2>1. ASSUME NEW u \in Seq(Nat), OccursAt(u, s, i), NEW l \in Nat, l = Len(u)
        PROVE  \A k \in 1..l : u[k] = s[i + k - 1] /\ u[k] \in Nat
    <3>1. \A k \in 1..l : u[k] \in Nat
      BY <2>1
    <3>2. \A k \in 1..l : u[k] = s[i + k - 1]
      BY <1>3, <2>1, Zenon
    <3> QED
      BY <3>1, <3>2, Zenon
  <2> QED
    BY <1>1, <1>2, <2>1, Zenon
<1>6. m = n => v = w
  <2> SUFFICES ASSUME m = n PROVE v = w
    OBVIOUS
  <2>1. \A k \in 1..m : v[k] = w[k]
    BY <1>5
  <2>2. [k \in 1..m |-> v[k]] = [k \in 1..n |-> w[k]]
    BY <2>1
  <2> QED
    BY <1>4, <2>2, Zenon
<1>7. ASSUME Kmp!Before(v, w) PROVE m < n
  <2>1. PICK k \in 0..m : k < n /\ (k < m => v[k + 1] < w[k + 1])
    BY <1>1, <1>2, <1>7 DEF Kmp!Before
  <2>2. ~(k < m)
    <3> SUFFICES ASSUME k < m PROVE FALSE
      OBVIOUS
    <3>1. k + 1 \in 1..m /\ k + 1 \in 1..n
      BY <2>1
    <3>2. PICK a \in Nat : a = v[k + 1] /\ a = w[k + 1]
      BY <1>5, <3>1
    <3>3. a < a
      BY <2>1, <3>2
    <3> QED
      BY <3>2, <3>3
  <2> QED
    BY <2>1, <2>2
<1>8. ASSUME m < n PROVE Kmp!Before(v, w)
  <2>1. \A k \in 1..m : k \in 1..n /\ v[k] = w[k]
    BY <1>5, <1>8
  <2>2. SubSeq(v, 1, m) = [k \in 1..m |-> v[k]]
    BY <1>1
  <2>3. SubSeq(w, 1, m) = [k \in 1..m |-> w[k]]
    BY <1>2, <1>8
  <2>4. SubSeq(v, 1, m) = SubSeq(w, 1, m)
    BY <2>1, <2>2, <2>3
  <2>5. m \in 0..Len(v) /\ m < Len(w) /\ ~(m < Len(v))
    BY <1>1, <1>2, <1>8
  <2> QED
    BY <2>4, <2>5, Zenon DEF Kmp!Before
<1> QED
  BY <1>1, <1>2, <1>6, <1>7, <1>8

\* The first occurrence.
LEMMA FirstAtIs ==
  ASSUME NEW w, NEW t \in Seq(Nat), Occurs(w, t)
  PROVE  /\ FirstAt(w, t) \in 1..Len(t) /\ OccursAt(w, t, FirstAt(w, t))
         /\ \A j \in 1..Len(t) : OccursAt(w, t, j) => FirstAt(w, t) =< j
<1> DEFINE S == {i \in 1..Len(t) : OccursAt(w, t, i)}
<1>1. S # {} /\ S \in SUBSET Nat
  BY DEF Occurs
<1>2. PICK i \in S : \A j \in S : i =< j
  <2> HIDE DEF S
  <2> QED
    BY <1>1, LeastNatural
<1>3. i \in 1..Len(t) /\ OccursAt(w, t, i) /\ \A j \in 1..(i - 1) : ~OccursAt(w, t, j)
  <2>1. \A j \in 1..(i - 1) : j \in 1..Len(t) /\ ~(i =< j)
    OBVIOUS
  <2> QED
    BY <1>2, <2>1
<1>4. PICK k : k = FirstAt(w, t)
  OBVIOUS
<1>5. k \in 1..Len(t) /\ OccursAt(w, t, k) /\ \A j \in 1..(k - 1) : ~OccursAt(w, t, j)
  BY <1>3, <1>4 DEF FirstAt
<1>6. ASSUME NEW j \in 1..Len(t), OccursAt(w, t, j) PROVE k =< j
  <2>1. j \notin 1..(k - 1)
    BY <1>5, <1>6
  <2> QED
    BY <1>5, <2>1
<1> QED
  BY <1>4, <1>5, <1>6

\* The order of a reply.
Prec(s, v, w) ==
  FirstAt(v, s) < FirstAt(w, s) \/ (FirstAt(v, s) = FirstAt(w, s) /\ Len(v) < Len(w))

\* It is an order of the words that occur, and the reply has them in this order.
LEMMA FoundSorted ==
  ASSUME NEW dict \in SUBSET Words, IsFiniteSet(dict), NEW s \in Inputs,
         NEW W, W = {w \in dict : Occurs(w, s)},
         NEW R, R = {x \in W \X W : Prec(s, x[1], x[2])}
  PROVE  IsFiniteSet(W) /\ Orders(R, W) /\ Sorts(R, W, Found(dict, s))
<1>1. s \in Seq(Nat) /\ \A w \in W : w \in Seq(Nat) /\ Occurs(w, s)
  BY MatcherAssumption
<1>2. IsFiniteSet(W)
  BY FS_Subset
<1>3. PICK at : at = [w \in W |-> FirstAt(w, s)]
  OBVIOUS
<1>4. PICK len : len = [w \in W |-> Len(w)]
  OBVIOUS
<1>5. ASSUME NEW w \in W
      PROVE  /\ w \in Seq(Nat) /\ at[w] = FirstAt(w, s) /\ len[w] = Len(w) /\ len[w] \in Nat
             /\ at[w] \in 1..Len(s) /\ OccursAt(w, s, at[w])
  BY <1>1, <1>3, <1>4, FirstAtIs
<1>6. \A w \in W : at[w] \in Nat /\ len[w] \in Nat
  <2>1. \A x \in 1..Len(s) : x \in Nat
    OBVIOUS
  <2> QED
    BY <1>5, <2>1
<1>7. ASSUME NEW v \in W, NEW w \in W, at[v] = at[w], len[v] = len[w] PROVE v = w
  <2>1. /\ v \in Seq(Nat) /\ w \in Seq(Nat) /\ s \in Seq(Nat) /\ at[v] \in 1..Len(s)
        /\ OccursAt(v, s, at[v]) /\ OccursAt(w, s, at[v]) /\ Len(v) = Len(w)
    BY <1>1, <1>5, <1>7
  <2> QED
    BY <2>1, SamePlace, Zenon
<1> DEFINE P(v, w) == at[v] < at[w] \/ (at[v] = at[w] /\ len[v] < len[w])
<1>8. \A v, w \in W : (<<v, w>> \in R <=> P(v, w)) /\ (Prec(s, v, w) <=> P(v, w))
  <2>1. \A v, w \in W : Prec(s, v, w) <=> P(v, w)
    BY <1>5 DEF Prec
  <2>2. \A v, w \in W : <<v, w>> \in R <=> Prec(s, v, w)
    <3> HIDE DEF Prec
    <3> QED
      OBVIOUS
  <2> QED
    BY <2>1, <2>2, Zenon
<1>9. Orders(R, W)
  <2>1. \A x \in W : ~P(x, x)
    BY <1>6
  <2>2. \A x, y, z \in W : P(x, y) /\ P(y, z) => P(x, z)
    BY <1>6
  <2>3. \A x, y \in W : x = y \/ P(x, y) \/ P(y, x)
    BY <1>6, <1>7
  <2> HIDE DEF P
  <2> QED
    BY <1>8, <2>1, <2>2, <2>3 DEF Orders
<1>10. PICK F : Sorts(R, W, F)
  BY <1>2, <1>9, SortExists
<1>11. Sorts(R, W, Found(dict, s))
  <2> DEFINE Good(f) == \A i, j \in 1..Cardinality(W) : i < j => Prec(s, f[i], f[j])
  <2>1. Found(dict, s) = CHOOSE f \in [1..Cardinality(W) -> W] : Good(f)
    BY DEF Found, Sorted, Prec
  <2>2. ASSUME NEW f \in [1..Cardinality(W) -> W] PROVE Good(f) <=> Sorts(R, W, f)
    <3> HIDE DEF P
    <3> QED
      BY <1>8 DEF Sorts, Increases
  <2>3. F \in [1..Cardinality(W) -> W] /\ Good(F)
    BY <1>10, <2>2 DEF Sorts
  <2> HIDE DEF Good
  <2> QED
    BY <2>1, <2>2, <2>3
<1> QED
  BY <1>2, <1>9, <1>11

\* Sorting the pairs of result by main's cmp gives the words in the order of the reply:
\* of the words found at one place the shorter come first.
LEMMA KmpReply ==
  ASSUME NEW dict \in SUBSET Words, IsFiniteSet(dict), NEW s \in Inputs,
         NEW P, P = {pair \in {<<w, Kmp!kmp(w, s)>> : w \in dict} : pair[2] # 0},
         NEW found, found = Kmp!Sorted(P, Kmp!cmp)
  PROVE  [i \in DOMAIN found |-> found[i][1]] = Found(dict, s)
<1>1. s \in Seq(Nat) /\ \A w \in dict : w \in Seq(Nat) /\ w # <<>>
  BY MatcherAssumption
<1>2. PICK W : W = {w \in dict : Occurs(w, s)}
  OBVIOUS
<1>3. W \subseteq dict /\ IsFiniteSet(W)
  BY <1>2, FS_Subset
<1>4. PICK n \in Nat : n = Cardinality(W)
  BY <1>3, FS_CardinalityType
<1>5. PICK at : at = [w \in W |-> FirstAt(w, s)]
  OBVIOUS
<1>6. PICK len : len = [w \in W |-> Len(w)]
  OBVIOUS
<1>7. ASSUME NEW w \in W
      PROVE  /\ w \in Seq(Nat) /\ at[w] = FirstAt(w, s) /\ len[w] = Len(w) /\ len[w] \in Nat
             /\ Kmp!kmp(w, s) = at[w] /\ at[w] \in 1..Len(s) /\ OccursAt(w, s, at[w])
  BY <1>1, <1>2, <1>5, <1>6, KmpCorrect
<1>8. \A w \in W : at[w] \in Nat /\ len[w] \in Nat
  <2>1. \A x \in 1..Len(s) : x \in Nat
    OBVIOUS
  <2> QED
    BY <1>7, <2>1
<1>9. ASSUME NEW v \in W, NEW w \in W, at[v] = at[w]
      PROVE  (Kmp!Before(v, w) <=> len[v] < len[w]) /\ (len[v] = len[w] => v = w)
  <2>1. /\ v \in Seq(Nat) /\ w \in Seq(Nat) /\ s \in Seq(Nat) /\ at[v] \in 1..Len(s)
        /\ OccursAt(v, s, at[v]) /\ OccursAt(w, s, at[v])
    BY <1>1, <1>7, <1>9
  <2>2. (Kmp!Before(v, w) <=> Len(v) < Len(w)) /\ (Len(v) = Len(w) => v = w)
    BY <2>1, SamePlace, Zenon
  <2> QED
    BY <1>7, <2>2
<1>10. PICK R : R = {x \in W \X W : Prec(s, x[1], x[2])}
  OBVIOUS
<1>11. \A v, w \in W :
         <<v, w>> \in R <=> at[v] < at[w] \/ (at[v] = at[w] /\ len[v] < len[w])
  <2>1. \A v, w \in W : <<v, w>> \in R <=> Prec(s, v, w)
    <3> HIDE DEF Prec
    <3> QED
      BY <1>10
  <2>2. \A w \in W : FirstAt(w, s) = at[w] /\ Len(w) = len[w]
    BY <1>7
  <2>3. \A v, w \in W :
          Prec(s, v, w) <=> at[v] < at[w] \/ (at[v] = at[w] /\ len[v] < len[w])
    BY <2>2 DEF Prec
  <2> QED
    BY <2>1, <2>3, Zenon
<1>12. Orders(R, W) /\ Sorts(R, W, Found(dict, s))
  BY <1>2, <1>10, FoundSorted
<1>13. PICK F : Sorts(R, W, F)
  BY <1>12
<1>14. P = {<<w, at[w]>> : w \in W} /\ P \in SUBSET (W \X Nat)
  <2>1. ASSUME NEW w \in dict, w \notin W PROVE Kmp!kmp(w, s) = 0
    BY <1>1, <1>2, <2>1, KmpCorrect
  <2>2. \A w \in W : Kmp!kmp(w, s) = at[w] /\ at[w] # 0
    BY <1>7
  <2> QED
    BY <1>3, <1>8, <2>1, <2>2
<1>15. Cardinality(P) = n
  <2> DEFINE pair == [w \in W |-> <<w, at[w]>>]
  <2>1. pair \in [W -> P]
    BY <1>14
  <2>2. \A v, w \in W : pair[v] = pair[w] => v = w
    OBVIOUS
  <2>3. \A x \in P : \E w \in W : pair[w] = x
    BY <1>14
  <2> HIDE DEF pair
  <2>4. pair \in Bijection(W, P)
    BY <2>1, <2>2, <2>3, Zenon DEF Bijection, Injection, Surjection, IsInjective
  <2>5. Cardinality(W) = Cardinality(P)
    BY <1>3, <2>4, FS_Bijection DEF ExistsBijection
  <2> QED
    BY <1>4, <2>5
<1>16. \A v, w \in W : Kmp!cmp(<<v, at[v]>>, <<w, at[w]>>) <=> <<v, w>> \in R
  BY <1>9, <1>11 DEF Kmp!cmp
<1>17. found \in [1..n -> P] /\ \A i, j \in 1..n : i < j => Kmp!cmp(found[i], found[j])
  <2> DEFINE Good(f) == \A i, j \in 1..n : i < j => Kmp!cmp(f[i], f[j])
             g == [i \in 1..n |-> <<F[i], at[F[i]]>>]
  <2>1. found = CHOOSE f \in [1..n -> P] : Good(f)
    <3>1. Kmp!Cardinality(P) = n
      BY <1>15 DEF Kmp!Cardinality, Cardinality
    <3> QED
      BY <3>1 DEF Kmp!Sorted
  <2>2. F \in [1..n -> W] /\ \A i, j \in 1..n : i < j => <<F[i], F[j]>> \in R
    BY <1>4, <1>13 DEF Sorts, Increases
  <2>3. g \in [1..n -> P]
    BY <1>14, <2>2
  <2>4. Good(g)
    BY <1>16, <2>2
  <2> HIDE DEF Good, g
  <2>5. Good(found) /\ found \in [1..n -> P]
    BY <2>1, <2>3, <2>4
  <2> QED
    BY <2>5 DEF Good
<1> DEFINE h == [i \in 1..n |-> found[i][1]]
<1>18. ASSUME NEW i \in 1..n PROVE h[i] \in W /\ found[i] = <<h[i], at[h[i]]>>
  <2>1. found[i] \in P
    BY <1>17
  <2>2. PICK w \in W : found[i] = <<w, at[w]>>
    BY <1>14, <2>1
  <2>3. h[i] = w
    BY <2>2
  <2> QED
    BY <2>2, <2>3
<1>19. h \in [1..n -> W]
  BY <1>18
<1>20. DOMAIN found = 1..n
  BY <1>17
<1>21. [i \in DOMAIN found |-> found[i][1]] = h
  BY <1>20
<1> HIDE DEF h
<1>22. Sorts(R, W, h)
  <2>1. ASSUME NEW i \in 1..n, NEW j \in 1..n, i < j PROVE <<h[i], h[j]>> \in R
    <3>1. Kmp!cmp(<<h[i], at[h[i]]>>, <<h[j], at[h[j]]>>)
      BY <1>17, <1>18, <2>1, Zenon
    <3> QED
      BY <1>16, <1>18, <3>1, Zenon
  <2> QED
    BY <1>4, <1>19, <2>1 DEF Sorts, Increases
<1>23. h = Found(dict, s)
  BY <1>3, <1>12, <1>22, SortUnique
<1> QED
  BY <1>21, <1>23

\* The words whose threads have ended, and what they have stored.
Ended(d, t, r) == (d \ t) \ r
Stored(S, s) == {<<w, Kmp!kmp(w, s)>> : w \in S}

\* Between two queries nothing is left of the last one; during a query result has the
\* places of the words whose threads have ended, and main prints once all have.
QueryInv ==
  /\ word_list \in SUBSET Words /\ IsFiniteSet(word_list)
  /\ main \in {"read", "start", "print"}
  /\ main = "read" => todo = {} /\ running = {} /\ result = {}
  /\ main # "read" => /\ input \in Inputs
                      /\ todo \in SUBSET word_list /\ running \in SUBSET (word_list \ todo)
                      /\ result = Stored(Ended(word_list, todo, running), input)
  /\ main = "print" => todo = {} /\ running = {}

KmpInv == solution = "kmp" => QueryInv

\* The words at the start of the input are finitely many.
LEMMA FirstWords ==
  ASSUME NEW n \in Nat, NEW buf \in [1..n -> Words], NEW S, S = {buf[i] : i \in DOMAIN buf}
  PROVE  S \in SUBSET Words /\ IsFiniteSet(S)
<1>1. S \in SUBSET Words
  OBVIOUS
<1>2. buf \in Surjection(1..n, S)
  BY DEF Surjection
<1>3. IsFiniteSet(1..n)
  BY FS_Interval
<1> QED
  BY <1>1, <1>2, <1>3, FS_Surjection

\* Init establishes the invariant, and is an initial state of the abstract matcher.
LEMMA KmpStarts == Init => KmpInv /\ MInit
<1> SUFFICES ASSUME Init PROVE KmpInv /\ MInit
  OBVIOUS
<1>1. MaxWords \in Nat
  BY MatchersAssumption
<1>2. CASE solution = "kmp" /\ Kmp!Init
  <2>1. word_list \in SUBSET Words /\ IsFiniteSet(word_list)
    BY <1>1, <1>2, FirstWords DEF Kmp!Init, Kmp!ToSet
  <2>2. answer = NoAnswer
    BY <1>2 DEF Kmp!Init, Kmp!NoAnswer, NoAnswer
  <2>3. main = "read" /\ todo = {} /\ running = {} /\ result = {}
    BY <1>2 DEF Kmp!Init, Kmp!Idle
  <2> QED
    BY <2>1, <2>2, <2>3 DEF KmpInv, QueryInv, MInit
<1>3. CASE solution = "fsa" /\ Fsa!Init
  <2>1. word_list \in SUBSET Words /\ IsFiniteSet(word_list)
    BY <1>1, <1>3, FirstWords DEF Fsa!Init, Fsa!ToSet
  <2>2. answer = NoAnswer
    BY <1>3 DEF Fsa!Init, Fsa!NoAnswer, NoAnswer
  <2> QED
    BY <1>3, <2>1, <2>2 DEF KmpInv, MInit
<1> QED
  BY <1>2, <1>3 DEF Init

\* The reply of a query whose threads have all ended.
LEMMA KmpPrints ==
  ASSUME QueryInv, Kmp!PrintAnswer
  PROVE  \E s \in Inputs : answer' = Reply(word_list, s)
<1>1. main = "print"
  BY DEF Kmp!PrintAnswer
<1>2. /\ word_list \in SUBSET Words /\ IsFiniteSet(word_list) /\ input \in Inputs
      /\ result = {<<w, Kmp!kmp(w, input)>> : w \in word_list}
  BY <1>1 DEF QueryInv, Ended, Stored
<1>3. PICK s \in Inputs : s = input
  BY <1>2
<1>4. PICK P : P = {pair \in {<<w, Kmp!kmp(w, s)>> : w \in word_list} : pair[2] # 0}
  OBVIOUS
<1>5. PICK found : found = Kmp!Sorted(P, Kmp!cmp)
  OBVIOUS
<1>6. P = {pair \in result : pair[2] # 0}
  BY <1>2, <1>3, <1>4
<1>7. answer' = [input |-> s, found |-> [i \in DOMAIN found |-> found[i][1]]]
  BY <1>3, <1>5, <1>6 DEF Kmp!PrintAnswer
<1>8. [i \in DOMAIN found |-> found[i][1]] = Found(word_list, s)
  BY <1>2, <1>4, <1>5, KmpReply
<1> QED
  BY <1>7, <1>8 DEF Reply

\* Every step of the thread-per-word solution keeps the invariant, and is a step of the
\* abstract matcher or changes neither the dictionary nor the answer.
LEMMA KmpSteps ==
  ASSUME QueryInv, Kmp!Next
  PROVE  QueryInv' /\ (MNext \/ UNCHANGED <<word_list, answer>>)
<1> USE DEF QueryInv
<1>1. CASE Kmp!Add
  <2>1. PICK w \in Words : word_list' = word_list \cup {w}
    BY <1>1 DEF Kmp!Add
  <2>2. answer' = NoAnswer
    BY <1>1 DEF Kmp!Add, Kmp!NoAnswer, NoAnswer
  <2>3. main = "read" /\ UNCHANGED <<main, input, todo, running, result>>
    BY <1>1 DEF Kmp!Add, Kmp!queryVars
  <2>4. word_list' \in SUBSET Words /\ IsFiniteSet(word_list')
    BY <2>1, FS_AddElement
  <2> QED
    BY <2>1, <2>2, <2>3, <2>4 DEF MNext, MAdd
<1>2. CASE Kmp!Delete
  <2>1. PICK w \in Words : word_list' = word_list \ {w}
    BY <1>2 DEF Kmp!Delete
  <2>2. answer' = NoAnswer
    BY <1>2 DEF Kmp!Delete, Kmp!NoAnswer, NoAnswer
  <2>3. main = "read" /\ UNCHANGED <<main, input, todo, running, result>>
    BY <1>2 DEF Kmp!Delete, Kmp!queryVars
  <2>4. word_list' \in SUBSET Words /\ IsFiniteSet(word_list')
    BY <2>1, FS_Subset
  <2> QED
    BY <2>1, <2>2, <2>3, <2>4 DEF MNext, MDelete
<1>3. CASE Kmp!Query
  <2>1. /\ main = "read" /\ input' \in Inputs /\ todo' = word_list /\ main' = "start"
        /\ UNCHANGED <<word_list, running, result>>
    BY <1>3 DEF Kmp!Query
  <2>2. answer' = NoAnswer
    BY <1>3 DEF Kmp!Query, Kmp!NoAnswer, NoAnswer
  <2>3. Ended(word_list', todo', running') = {}
    BY <2>1 DEF Ended
  <2>4. result' = Stored(Ended(word_list', todo', running'), input')
    BY <2>1, <2>3 DEF Stored
  <2>5. QueryInv'
    BY <2>1, <2>4
  <2> QED
    BY <2>1, <2>2, <2>5 DEF MNext, MQuery
<1>4. CASE Kmp!StartThread
  <2>1. PICK w \in todo : todo' = todo \ {w} /\ running' = running \cup {w}
    BY <1>4 DEF Kmp!StartThread
  <2>2. main = "start" /\ UNCHANGED <<word_list, answer, main, input, result>>
    BY <1>4 DEF Kmp!StartThread
  <2>3. Ended(word_list', todo', running') = Ended(word_list, todo, running)
    BY <2>1, <2>2 DEF Ended
  <2>4. result' = Stored(Ended(word_list', todo', running'), input')
    BY <2>2, <2>3
  <2> QED
    BY <2>1, <2>2, <2>4
<1>5. CASE \E w \in Words : Kmp!Thread(w)
  <2>1. PICK w \in Words : Kmp!Thread(w)
    BY <1>5
  <2>2. /\ w \in running /\ running' = running \ {w}
        /\ result' = result \cup {<<w, Kmp!kmp(w, input)>>}
        /\ UNCHANGED <<word_list, answer, main, input, todo>>
    BY <2>1 DEF Kmp!Thread
  <2>3. main # "read" /\ main # "print"
    BY <2>2
  <2>4. Ended(word_list', todo', running') = Ended(word_list, todo, running) \cup {w}
    BY <2>2, <2>3 DEF Ended
  <2>5. result' = Stored(Ended(word_list', todo', running'), input')
    BY <2>2, <2>3, <2>4 DEF Stored
  <2> QED
    BY <2>2, <2>3, <2>5
<1>6. CASE Kmp!JoinBatch
  <2>1. /\ main = "start" /\ running = {} /\ main' = IF todo = {} THEN "print" ELSE "start"
        /\ UNCHANGED <<word_list, answer, input, todo, running, result>>
    BY <1>6 DEF Kmp!JoinBatch
  <2> QED
    BY <2>1
<1>7. CASE Kmp!PrintAnswer
  <2>1. /\ main = "print" /\ result' = {} /\ main' = "read"
        /\ UNCHANGED <<word_list, input, todo, running>>
    BY <1>7 DEF Kmp!PrintAnswer
  <2>2. \E s \in Inputs : answer' = Reply(word_list, s)
    BY <1>7, KmpPrints
  <2> QED
    BY <2>1, <2>2 DEF MNext, MReply
<1> QED
  BY <1>1, <1>2, <1>3, <1>4, <1>5, <1>6, <1>7 DEF Kmp!Next

\* Where the thread-per-word solution reads the commands, every behaviour is one of the
\* abstract matcher: whatever the words and the texts, whatever the size of a batch, and
\* in whatever order the threads of a batch end (kmp_solution/ref_solution.cpp).
THEOREM KmpTheorem == Spec => KmpImplements
<1>1. Init => KmpInv /\ MInit
  BY KmpStarts
<1>2. KmpInv /\ [Next]_vars =>
        KmpInv' /\ [solution = "kmp" => MNext]_<<word_list, answer>>
  <2> SUFFICES ASSUME KmpInv, [Next]_vars
               PROVE  KmpInv' /\ [solution = "kmp" => MNext]_<<word_list, answer>>
    OBVIOUS
  <2>1. CASE solution = "kmp" /\ Kmp!Next /\ solution' = solution
    BY <2>1, KmpSteps DEF KmpInv
  <2>2. CASE solution = "fsa" /\ solution' = solution
    BY <2>2 DEF KmpInv
  <2>3. CASE UNCHANGED vars
    BY <2>3 DEF KmpInv, QueryInv, vars, kmpVars
  <2> QED
    BY <2>1, <2>2, <2>3 DEF Next
<1> QED
  BY <1>1, <1>2, PTL DEF Spec, KmpImplements

-----------------------------------------------------------------------------
(* The trie of the automaton.  Q has the texts the trie has a route for,   *)
(* row the row at the end of each; rows in U are or were in use, those in  *)
(* F are not yet.                                                          *)

Grown(q, c) == Append(q, c)

Tree(graph, D, Q, row, root, U, F) ==
  /\ graph \in [D -> [Alphabet -> Int]] /\ D \in SUBSET Nat
  /\ U \in SUBSET D /\ F \in SUBSET (D \ U)
  /\ Q \in SUBSET Seq(Alphabet) /\ <<>> \in Q
  /\ \A q \in Seq(Alphabet), c \in Alphabet : Grown(q, c) \in Q => q \in Q
  /\ row \in [Q -> U] /\ row[<<>>] = root
  /\ \A p, q \in Q : row[p] = row[q] => p = q
  /\ \A q \in Q, c \in Alphabet :
       graph[row[q]][c] = IF Grown(q, c) \in Q THEN row[Grown(q, c)] ELSE Fsa!None
  /\ \A r \in F, c \in Alphabet : graph[r][c] = Fsa!None

\* Row r is taken out of F, an edge leads to it, and the route of s ends there.
Takes(D, U, F, r, U2, F2) ==
  /\ r \in F /\ U2 \in SUBSET D /\ F2 \in SUBSET (D \ U2)
  /\ U \cup {r} \subseteq U2 /\ F2 \subseteq F
Edge(graph, d, c, r) == [graph EXCEPT ![d][c] = r]
Placing(Q, row, s, r) == [p \in Q \cup {s} |-> IF p = s THEN r ELSE row[p]]

\* A text with one letter more is another one, and says which it has been made from.
LEMMA GrownFacts ==
  /\ \A q \in Seq(Alphabet), c \in Alphabet :
       Grown(q, c) \in Seq(Alphabet) /\ Grown(q, c) # q /\ Grown(q, c) # <<>>
  /\ \A p, q \in Seq(Alphabet), b, c \in Alphabet : Grown(p, b) = Grown(q, c) => p = q /\ b = c
<1>1. ASSUME NEW q \in Seq(Alphabet), NEW c \in Alphabet
      PROVE  Grown(q, c) \in Seq(Alphabet) /\ Grown(q, c) # q /\ Grown(q, c) # <<>>
  <2>1. /\ Append(q, c) \in Seq(Alphabet) /\ Append(q, c) # <<>>
        /\ Len(Append(q, c)) = Len(q) + 1
    BY AppendProperties
  <2>2. Len(q) \in Nat
    OBVIOUS
  <2> QED
    BY <2>1, <2>2 DEF Grown
<1>2. ASSUME NEW p \in Seq(Alphabet), NEW q \in Seq(Alphabet), NEW b \in Alphabet,
             NEW c \in Alphabet, Grown(p, b) = Grown(q, c)
      PROVE  p = q /\ b = c
  BY <1>2, AppendInjective DEF Grown
<1> QED
  BY <1>1, <1>2

\* A row that has not been in use becomes the end of a new route.
LEMMA TreeGrows ==
  ASSUME NEW graph, NEW D, NEW Q, NEW row, NEW root, NEW U, NEW F,
         Tree(graph, D, Q, row, root, U, F),
         NEW q \in Q, NEW c \in Alphabet, NEW s, s = Grown(q, c), s \notin Q,
         NEW r, NEW U2, NEW F2, Takes(D, U, F, r, U2, F2)
  PROVE  Tree(Edge(graph, row[q], c, r), D, Q \cup {s}, Placing(Q, row, s, r), root, U2, F2)
<1> SUFFICES ASSUME r \in F, U2 \in SUBSET D, F2 \in SUBSET (D \ U2),
                    U \cup {r} \subseteq U2, F2 \subseteq F,
                    NEW graph2, graph2 = [graph EXCEPT ![row[q]][c] = r],
                    NEW row2, row2 = [p \in Q \cup {s} |-> IF p = s THEN r ELSE row[p]]
             PROVE  Tree(graph2, D, Q \cup {s}, row2, root, U2, F2)
  BY DEF Takes, Edge, Placing
<1>1. /\ graph \in [D -> [Alphabet -> Int]] /\ D \in SUBSET Nat
      /\ U \in SUBSET D /\ F \in SUBSET (D \ U)
      /\ Q \in SUBSET Seq(Alphabet) /\ <<>> \in Q
      /\ row \in [Q -> U] /\ row[<<>>] = root
  BY DEF Tree
<1>2. \A p \in Seq(Alphabet), b \in Alphabet : Grown(p, b) \in Q => p \in Q
  BY DEF Tree
<1>3. \A o, p \in Q : row[o] = row[p] => o = p
  BY DEF Tree
<1>4. \A p \in Q, b \in Alphabet :
        graph[row[p]][b] = IF Grown(p, b) \in Q THEN row[Grown(p, b)] ELSE Fsa!None
  BY DEF Tree
<1>5. \A f \in F, b \in Alphabet : graph[f][b] = Fsa!None
  BY DEF Tree
<1>6. s \in Seq(Alphabet) /\ s # q /\ s # <<>>
  BY <1>1, GrownFacts
<1>7. PICK k : k = row[q]
  OBVIOUS
<1>8. k \in U /\ k \in D /\ r \in D /\ k # r /\ r \in Int /\ r \notin U
  BY <1>1, <1>7
<1>9. \A d \in D, b \in Alphabet :
        graph2[d][b] = IF d = k /\ b = c THEN r ELSE graph[d][b]
  BY <1>1, <1>7, <1>8
<1>10. graph2 \in [D -> [Alphabet -> Int]]
  BY <1>1, <1>7, <1>8
<1>11. row2 \in [Q \cup {s} -> U2] /\ row2[<<>>] = root /\ row2[s] = r
  BY <1>1, <1>6
<1>12. \A p \in Q : row2[p] = row[p] /\ p # s /\ row[p] \in U
  BY <1>1
<1> HIDE DEF Grown
<1>13. \A p \in Seq(Alphabet), b \in Alphabet : Grown(p, b) \in Q \cup {s} => p \in Q \cup {s}
  BY <1>1, <1>2, GrownFacts
<1>14. \A o, p \in Q \cup {s} : row2[o] = row2[p] => o = p
  BY <1>3, <1>8, <1>11, <1>12
<1>15. ASSUME NEW p \in Q \cup {s}, NEW b \in Alphabet
       PROVE  graph2[row2[p]][b] =
                IF Grown(p, b) \in Q \cup {s} THEN row2[Grown(p, b)] ELSE Fsa!None
  <2>1. CASE p = s
    <3>1. Grown(s, b) \notin Q \cup {s}
      BY <1>2, <1>6, GrownFacts
    <3>2. graph2[r][b] = Fsa!None
      BY <1>5, <1>8, <1>9
    <3> QED
      BY <1>11, <2>1, <3>1, <3>2
  <2>2. CASE p = q /\ b = c
    BY <1>7, <1>8, <1>9, <1>11, <1>12, <2>2
  <2>3. CASE p \in Q /\ ~(p = q /\ b = c)
    <3>1. Grown(p, b) # s
      BY <1>1, <2>3, GrownFacts
    <3>2. row2[p] = row[p] /\ row[p] \in D /\ ~(row[p] = k /\ b = c)
      BY <1>1, <1>3, <1>7, <1>12, <2>3
    <3>3. graph2[row[p]][b] = graph[row[p]][b]
      BY <1>9, <3>2
    <3>4. Grown(p, b) \in Q \cup {s} <=> Grown(p, b) \in Q
      BY <3>1
    <3>5. Grown(p, b) \in Q => row2[Grown(p, b)] = row[Grown(p, b)]
      BY <1>12
    <3> QED
      BY <1>4, <2>3, <3>2, <3>3, <3>4, <3>5
  <2> QED
    BY <2>1, <2>2, <2>3
<1>16. \A f \in F2, b \in Alphabet : graph2[f][b] = Fsa!None
  BY <1>1, <1>5, <1>8, <1>9
<1> QED
  BY <1>1, <1>6, <1>10, <1>11, <1>13, <1>14, <1>15, <1>16 DEF Tree

\* The row at the end of a route trades places with one that has not been in use.
LEMMA TreeMoves ==
  ASSUME NEW graph, NEW D, NEW Q, NEW row, NEW root, NEW U, NEW F,
         Tree(graph, D, Q, row, root, U, F),
         NEW q \in Q, NEW c \in Alphabet, NEW s \in Q, s = Grown(q, c),
         NEW r, NEW U2, NEW F2, Takes(D, U, F, r, U2, F2)
  PROVE  Tree(Edge(Fsa!Swap(graph, row[s], r), row[q], c, r), D, Q \cup {s},
              Placing(Q, row, s, r), root, U2, F2)
<1> SUFFICES ASSUME r \in F, U2 \in SUBSET D, F2 \in SUBSET (D \ U2),
                    U \cup {r} \subseteq U2, F2 \subseteq F,
                    NEW graph2, graph2 = [Fsa!Swap(graph, row[s], r) EXCEPT ![row[q]][c] = r],
                    NEW row2, row2 = [p \in Q |-> IF p = s THEN r ELSE row[p]]
             PROVE  Tree(graph2, D, Q, row2, root, U2, F2)
  <2>1. Q \cup {s} = Q
    OBVIOUS
  <2> QED
    BY <2>1 DEF Takes, Edge, Placing
<1>1. /\ graph \in [D -> [Alphabet -> Int]] /\ D \in SUBSET Nat
      /\ U \in SUBSET D /\ F \in SUBSET (D \ U)
      /\ Q \in SUBSET Seq(Alphabet) /\ <<>> \in Q
      /\ row \in [Q -> U] /\ row[<<>>] = root
  BY DEF Tree
<1>2. \A p \in Seq(Alphabet), b \in Alphabet : Grown(p, b) \in Q => p \in Q
  BY DEF Tree
<1>3. \A o, p \in Q : row[o] = row[p] => o = p
  BY DEF Tree
<1>4. \A p \in Q, b \in Alphabet :
        graph[row[p]][b] = IF Grown(p, b) \in Q THEN row[Grown(p, b)] ELSE Fsa!None
  BY DEF Tree
<1>5. \A f \in F, b \in Alphabet : graph[f][b] = Fsa!None
  BY DEF Tree
<1>6. s # q /\ s # <<>>
  BY <1>1, GrownFacts
<1>7. PICK k : k = row[q]
  OBVIOUS
<1>8. PICK l : l = row[s]
  OBVIOUS
<1>9. /\ k \in U /\ k \in D /\ l \in U /\ l \in D /\ r \in D /\ r \in Int /\ r \notin U
      /\ k # r /\ l # r /\ k # l
  <2>1. k \in U /\ l \in U /\ r \in D /\ r \notin U
    BY <1>1, <1>7, <1>8
  <2>2. k # l
    BY <1>3, <1>6, <1>7, <1>8
  <2>3. k \in D /\ l \in D /\ r \in Int
    BY <1>1, <2>1
  <2> QED
    BY <2>1, <2>2, <2>3
<1>10. PICK graph1 : graph1 = [graph EXCEPT ![l] = graph[r], ![r] = graph[l]]
  OBVIOUS
<1>11. /\ graph1 \in [D -> [Alphabet -> Int]]
       /\ graph1[r] = graph[l] /\ \A d \in D : d # l /\ d # r => graph1[d] = graph[d]
  BY <1>1, <1>9, <1>10
<1>12. graph2 = [graph1 EXCEPT ![k][c] = r]
  BY <1>7, <1>8, <1>10 DEF Fsa!Swap
<1>13. graph2 \in [D -> [Alphabet -> Int]]
  <2>1. PICK f : f = [graph1[k] EXCEPT ![c] = r]
    OBVIOUS
  <2>2. f \in [Alphabet -> Int]
    BY <1>9, <1>11, <2>1
  <2>3. graph2 = [graph1 EXCEPT ![k] = f]
    BY <1>12, <2>1
  <2> QED
    BY <1>9, <1>11, <2>2, <2>3
<1>14. /\ \A b \in Alphabet : graph2[r][b] = graph[l][b]
       /\ \A d \in D, b \in Alphabet : d # l /\ d # r => 
            graph2[d][b] = IF d = k /\ b = c THEN r ELSE graph[d][b]
  BY <1>9, <1>11, <1>12
<1>15. row2 \in [Q -> U2] /\ row2[<<>>] = root /\ row2[s] = r
  BY <1>1, <1>6
<1>16. \A p \in Q : row[p] \in U /\ row[p] \in D /\ (p # s => row2[p] = row[p])
  BY <1>1
<1>17. \A o, p \in Q : row2[o] = row2[p] => o = p
  BY <1>3, <1>9, <1>15, <1>16
<1>18. ASSUME NEW p \in Q, NEW b \in Alphabet
       PROVE  graph2[row2[p]][b] = IF Grown(p, b) \in Q THEN row2[Grown(p, b)] ELSE Fsa!None
  <2>1. CASE p = s
    <3>1. Grown(s, b) # s
      BY <1>1, GrownFacts
    <3>2. Grown(s, b) \in Q => row2[Grown(s, b)] = row[Grown(s, b)]
      BY <1>16, <3>1
    <3>3. graph2[r][b] = graph[row[s]][b]
      BY <1>8, <1>14
    <3> QED
      BY <1>4, <1>15, <2>1, <3>2, <3>3
  <2>2. CASE p = q /\ b = c
    <3>1. graph2[k][c] = r
      BY <1>9, <1>14
    <3> QED
      BY <1>6, <1>7, <1>15, <1>16, <2>2, <3>1
  <2>3. CASE p # s /\ ~(p = q /\ b = c)
    <3>1. Grown(p, b) # s
      BY <1>1, <2>3, GrownFacts
    <3>2. row2[p] = row[p] /\ row[p] # l /\ row[p] # r /\ ~(row[p] = k /\ b = c)
      BY <1>3, <1>7, <1>8, <1>9, <1>16, <2>3
    <3>3. graph2[row[p]][b] = graph[row[p]][b]
      BY <1>14, <1>16, <3>2
    <3>4. Grown(p, b) \in Q => row2[Grown(p, b)] = row[Grown(p, b)]
      BY <1>16, <3>1
    <3> QED
      BY <1>4, <3>2, <3>3, <3>4
  <2> QED
    BY <2>1, <2>2, <2>3
<1>19. ASSUME NEW f \in F2, NEW b \in Alphabet PROVE graph2[f][b] = Fsa!None
  <2>1. f \in D /\ f \in F /\ f # l /\ f # k /\ f # r
    BY <1>1, <1>9
  <2>2. graph2[f][b] = graph[f][b]
    BY <1>14, <2>1
  <2> QED
    BY <1>5, <2>1, <2>2
<1> QED
  BY <1>1, <1>2, <1>13, <1>15, <1>17, <1>18, <1>19 DEF Tree

\* A part of a text grows by the next letter.
LEMMA PartGrows ==
  ASSUME NEW t \in Seq(Alphabet), NEW a \in 1..Len(t), NEW i \in a..Len(t)
  PROVE  /\ SubSeq(t, a, i - 1) \in Seq(Alphabet) /\ t[i] \in Alphabet
         /\ SubSeq(t, a, i) = Grown(SubSeq(t, a, i - 1), t[i])
<1>1. i \in Nat /\ a \in Nat /\ i \in 1..Len(t) /\ i - 1 \in (a - 1)..Len(t) /\ Len(t) \in Nat
  OBVIOUS
<1>2. PICK u : u = SubSeq(t, a, i - 1)
  OBVIOUS
<1>3. PICK v : v = SubSeq(t, a, i)
  OBVIOUS
<1>4. PICK n \in Nat : n = i - a
  BY <1>1
<1>5. t[i] \in Alphabet
  BY <1>1
<1>6. u \in Seq(Alphabet) /\ Len(u) = n /\ \A x \in 1..n : u[x] = t[a + x - 1]
  BY <1>1, <1>2, <1>4
<1>7. v \in Seq(Alphabet) /\ Len(v) = n + 1 /\ \A x \in 1..(n + 1) : v[x] = t[a + x - 1]
  BY <1>1, <1>3, <1>4
<1>8. PICK w : w = Append(u, t[i])
  OBVIOUS
<1>9. /\ w \in Seq(Alphabet) /\ Len(w) = n + 1
      /\ \A x \in 1..n : w[x] = u[x]
      /\ w[n + 1] = t[i]
  BY <1>5, <1>6, <1>8, AppendProperties
<1>10. a + (n + 1) - 1 = i
  BY <1>1, <1>4
<1>11. ASSUME NEW x \in 1..(n + 1) PROVE v[x] = w[x]
  <2>1. CASE x = n + 1
    <3>1. v[n + 1] = t[a + (n + 1) - 1]
      BY <1>7
    <3> QED
      BY <1>9, <1>10, <2>1, <3>1
  <2>2. CASE x # n + 1
    <3>1. x \in 1..n
      BY <2>2
    <3> QED
      BY <1>6, <1>7, <1>9, <3>1
  <2> QED
    BY <2>1, <2>2
<1>12. v = [x \in 1..(n + 1) |-> v[x]] /\ w = [x \in 1..(n + 1) |-> w[x]]
  BY <1>7, <1>9
<1>13. [x \in 1..(n + 1) |-> v[x]] = [x \in 1..(n + 1) |-> w[x]]
  BY <1>11
<1>14. v = w
  BY <1>12, <1>13, Zenon
<1> QED
  BY <1>2, <1>3, <1>5, <1>6, <1>8, <1>14 DEF Grown

\* Entry j is the last of the first k that is q.
LastOf(ws, k, q, j) == j \in 1..k /\ ws[j] = q /\ \A x \in (j + 1)..k : ws[x] # q

\* The first k entries have routes; those of other texts end at rows that are not final,
\* that of a word at the row of its last entry.
Finals(ws, k, Q, row, init) ==
  /\ \A j \in 1..k : ws[j] \in Q
  /\ \A q \in Q : \/ row[q] >= init /\ \A j \in 1..k : ws[j] # q
                  \/ LastOf(ws, k, q, row[q] + 1)

\* The next entry gets the next final row.
LEMMA FinalsEnd ==
  ASSUME NEW ws, NEW k \in Nat, NEW Q, NEW row, NEW init, Finals(ws, k, Q, row, init),
         NEW w, w = ws[k + 1]
  PROVE  Finals(ws, k + 1, Q \cup {w}, Placing(Q, row, w, k), init)
<1> SUFFICES ASSUME NEW Q2, Q2 = Q \cup {w},
                    NEW row2, row2 = [p \in Q2 |-> IF p = w THEN k ELSE row[p]]
             PROVE  Finals(ws, k + 1, Q2, row2, init)
  BY DEF Placing
<1>1. \A j \in 1..(k + 1) : j = k + 1 \/ j \in 1..k
  OBVIOUS
<1>2. \A j \in 1..(k + 1) : ws[j] \in Q2
  BY <1>1 DEF Finals
<1>3. ASSUME NEW q \in Q2
      PROVE  \/ row2[q] >= init /\ \A j \in 1..(k + 1) : ws[j] # q
             \/ LastOf(ws, k + 1, q, row2[q] + 1)
  <2>1. CASE q = w
    <3>1. row2[q] = k
      BY <2>1
    <3>2. LastOf(ws, k + 1, w, k + 1)
      BY DEF LastOf
    <3> QED
      BY <2>1, <3>1, <3>2
  <2>2. CASE q # w
    <3>1. q \in Q /\ row2[q] = row[q]
      BY <2>2
    <3>2. CASE row[q] >= init /\ \A j \in 1..k : ws[j] # q
      BY <1>1, <2>2, <3>1, <3>2
    <3>3. CASE LastOf(ws, k, q, row[q] + 1)
      <4>1. PICK j \in 1..k : j = row[q] + 1
        BY <3>3 DEF LastOf
      <4>2. LastOf(ws, k, q, j)
        BY <3>3, <4>1
      <4>3. j \in 1..(k + 1) /\ \A x \in (j + 1)..(k + 1) : x = k + 1 \/ x \in (j + 1)..k
        OBVIOUS
      <4>4. LastOf(ws, k + 1, q, j)
        BY <2>2, <4>2, <4>3 DEF LastOf
      <4> QED
        BY <3>1, <4>1, <4>4
    <3> QED
      BY <3>1, <3>2, <3>3 DEF Finals
  <2> QED
    BY <2>1, <2>2
<1> QED
  BY <1>2, <1>3 DEF Finals

\* The fields of an accumulator of makeGraph.
Acc(g) == g = [graph |-> g.graph, final_state |-> g.final_state, cur |-> g.cur,
               state_num |-> g.state_num]

Extended(G, f, n, cur, c, last, h) ==
  /\ Acc(h) /\ h.state_num = n + 1 /\ h.cur = n
  /\ ~last => h.graph = Edge(G, cur, c, n) /\ h.final_state = f
  /\ last => h.graph = Fsa!Swap(Edge(G, cur, c, f), n, f) /\ h.final_state = f + 1

Followed(G, f, n, cur, c, last, h) ==
  /\ Acc(h) /\ h.state_num = n
  /\ ~last => h.graph = G /\ h.cur = G[cur][c] /\ h.final_state = f
  /\ last => /\ h.graph = Edge(Fsa!Swap(G, G[cur][c], f), cur, c, f)
             /\ h.final_state = f + 1

\* The fields after a letter.
LEMMA ExtendFields ==
  ASSUME NEW g, Acc(g), NEW G, G = g.graph, NEW f, f = g.final_state, NEW n, n = g.state_num,
         NEW cur, NEW c, NEW last \in BOOLEAN, NEW h, h = Fsa!Extend(g, cur, c, last)
  PROVE  Extended(G, f, n, cur, c, last, h)
<1> USE DEF Extended, Edge
<1>1. PICK k : k = g.cur
  OBVIOUS
<1>2. g = [graph |-> G, final_state |-> f, cur |-> k, state_num |-> n]
  BY <1>1, Zenon DEF Acc
<1>3. CASE ~last
  <2>1. h = [graph |-> [G EXCEPT ![cur][c] = n], final_state |-> f, cur |-> n,
             state_num |-> n + 1]
    BY <1>2, <1>3 DEF Fsa!Extend
  <2>2. /\ h.graph = [G EXCEPT ![cur][c] = n] /\ h.final_state = f /\ h.cur = n
        /\ h.state_num = n + 1
    BY <2>1
  <2>3. Acc(h)
    BY <2>1, <2>2, Zenon DEF Acc
  <2> QED
    BY <1>3, <2>2, <2>3, Zenon
<1>4. CASE last
  <2>1. PICK G2 : G2 = Fsa!Swap([G EXCEPT ![cur][c] = f], n, f)
    OBVIOUS
  <2>2. h = [graph |-> G2, final_state |-> f + 1, cur |-> n, state_num |-> n + 1]
    BY <1>2, <1>4, <2>1 DEF Fsa!Extend
  <2>3. h.graph = G2 /\ h.final_state = f + 1 /\ h.cur = n /\ h.state_num = n + 1
    BY <2>2
  <2>4. Acc(h)
    BY <2>2, <2>3, Zenon DEF Acc
  <2> QED
    BY <1>4, <2>1, <2>3, <2>4, Zenon
<1> QED
  BY <1>3, <1>4

\* And when the edge is there.
LEMMA FollowFields ==
  ASSUME NEW g, Acc(g), NEW G, G = g.graph, NEW f, f = g.final_state, NEW n, n = g.state_num,
         NEW cur, NEW c, NEW last \in BOOLEAN, NEW h, h = Fsa!Follow(g, cur, c, last)
  PROVE  Followed(G, f, n, cur, c, last, h)
<1> USE DEF Followed, Edge
<1>1. PICK k : k = g.cur
  OBVIOUS
<1>2. g = [graph |-> G, final_state |-> f, cur |-> k, state_num |-> n]
  BY <1>1, Zenon DEF Acc
<1>3. CASE ~last
  <2>1. h = [graph |-> G, final_state |-> f, cur |-> G[cur][c], state_num |-> n]
    BY <1>2, <1>3 DEF Fsa!Follow
  <2>2. h.graph = G /\ h.final_state = f /\ h.cur = G[cur][c] /\ h.state_num = n
    BY <2>1
  <2>3. Acc(h)
    BY <2>1, <2>2, Zenon DEF Acc
  <2> QED
    BY <1>3, <2>2, <2>3, Zenon
<1>4. CASE last
  <2>1. PICK G2 : G2 = [Fsa!Swap(G, G[cur][c], f) EXCEPT ![cur][c] = f]
    OBVIOUS
  <2>2. h = [graph |-> G2, final_state |-> f + 1, cur |-> f, state_num |-> n]
    BY <1>2, <1>4, <2>1 DEF Fsa!Follow
  <2>3. h.graph = G2 /\ h.final_state = f + 1 /\ h.cur = f /\ h.state_num = n
    BY <2>2
  <2>4. Acc(h)
    BY <2>2, <2>3, Zenon DEF Acc
  <2> QED
    BY <1>4, <2>1, <2>3, <2>4, Zenon
<1> QED
  BY <1>3, <1>4

\* The rows that are or were in use when fin rows are final and num have been taken, and
\* the ones to be taken.
UsedRows(init, fin, num) == (0..(fin - 1)) \cup (init..(num - 1))
FreeRows(init, fin, num, size) == (fin..(init - 1)) \cup (num..(size - 1))

\* g has the routes Q after the first k entries of ws.
Routes(g, ws, k, size, Q, row) ==
  /\ Acc(g) /\ g.final_state = k /\ g.state_num \in (Len(ws) + 1)..size
  /\ Tree(g.graph, 0..(size - 1), Q, row, Len(ws), UsedRows(Len(ws), k, g.state_num),
          FreeRows(Len(ws), k, g.state_num, size))
  /\ Finals(ws, k, Q, row, Len(ws))

\* After k entries; and after i letters of the next, with cur where they lead.
Inserted(g, ws, k, size) == \E Q, row : Routes(g, ws, k, size, Q, row)
Inserting(g, ws, k, size, i) ==
  \E Q, row : /\ Routes(g, ws, k, size, Q, row) /\ SubSeq(ws[k + 1], 1, i) \in Q
              /\ g.cur = row[SubSeq(ws[k + 1], 1, i)]

\* The rows as they are taken.
LEMMA RowsTaken ==
  ASSUME NEW init \in Nat, NEW size \in Nat, NEW k \in 0..(init - 1),
         NEW num \in (init + 1)..size, num # size, NEW D, D = 0..(size - 1),
         NEW U, U = UsedRows(init, k, num), NEW F, F = FreeRows(init, k, num, size)
  PROVE  /\ Takes(D, U, F, num, UsedRows(init, k, num + 1), FreeRows(init, k, num + 1, size))
         /\ Takes(D, U, F, k, UsedRows(init, k + 1, num), FreeRows(init, k + 1, num, size))
         /\ Takes(D, U, F, k, UsedRows(init, k + 1, num + 1),
                  FreeRows(init, k + 1, num + 1, size))
<1> USE DEF UsedRows, FreeRows
<1>1. num \in F /\ k \in F
  OBVIOUS
<1>2. num \in UsedRows(init, k, num + 1)
  OBVIOUS
<1>3. k \in UsedRows(init, k + 1, num) /\ k \in UsedRows(init, k + 1, num + 1)
  OBVIOUS
<1>4. ASSUME NEW j \in {k, k + 1}, NEW n \in {num, num + 1}
      PROVE  /\ UsedRows(init, j, n) \in SUBSET D
             /\ FreeRows(init, j, n, size) \in SUBSET (D \ UsedRows(init, j, n))
             /\ U \subseteq UsedRows(init, j, n) /\ FreeRows(init, j, n, size) \subseteq F
  <2>1. j \in 0..init /\ n \in (init + 1)..size /\ k =< j /\ num =< n
    OBVIOUS
  <2>2. UsedRows(init, j, n) \in SUBSET D
    BY <2>1
  <2>3. FreeRows(init, j, n, size) \in SUBSET (D \ UsedRows(init, j, n))
    BY <2>1
  <2>4. U \subseteq UsedRows(init, j, n)
    BY <2>1
  <2>5. FreeRows(init, j, n, size) \subseteq F
    BY <2>1
  <2> QED
    BY <2>2, <2>3, <2>4, <2>5
<1> HIDE DEF UsedRows, FreeRows
<1> QED
  BY <1>1, <1>2, <1>3, <1>4 DEF Takes

\* Two rows that are not in use may trade places.
LEMMA SwapUnused ==
  ASSUME NEW graph, NEW D, NEW Q, NEW row, NEW root, NEW U, NEW F,
         Tree(graph, D, Q, row, root, U, F),
         NEW q \in Q, NEW c \in Alphabet, NEW r \in F, NEW r2 \in F
  PROVE  Fsa!Swap(Edge(graph, row[q], c, r), r2, r) = Edge(graph, row[q], c, r)
<1> SUFFICES ASSUME NEW graph1, graph1 = [graph EXCEPT ![row[q]][c] = r]
             PROVE  Fsa!Swap(graph1, r2, r) = graph1
  BY DEF Edge
<1>1. /\ graph \in [D -> [Alphabet -> Int]] /\ row[q] \in D /\ row[q] \notin F
      /\ r \in D /\ r2 \in D /\ r \in Int
  <2>1. /\ graph \in [D -> [Alphabet -> Int]] /\ D \in SUBSET Nat /\ U \in SUBSET D
        /\ F \in SUBSET (D \ U) /\ row \in [Q -> U]
    BY DEF Tree
  <2>2. row[q] \in U
    BY <2>1
  <2>3. r \in D /\ r2 \in D /\ row[q] \in D /\ row[q] \notin F
    BY <2>1, <2>2
  <2>4. r \in Int
    BY <2>1, <2>3
  <2> QED
    BY <2>1, <2>3, <2>4
<1>2. \A b \in Alphabet : graph[r][b] = Fsa!None /\ graph[r2][b] = Fsa!None
  BY DEF Tree
<1>3. graph[r] = [b \in Alphabet |-> graph[r][b]] /\ graph[r2] = [b \in Alphabet |-> graph[r2][b]]
  BY <1>1
<1>4. [b \in Alphabet |-> graph[r][b]] = [b \in Alphabet |-> graph[r2][b]]
  BY <1>2
<1>5. graph[r] = graph[r2]
  BY <1>3, <1>4, Zenon
<1>6. PICK k : k = row[q]
  OBVIOUS
<1>7. PICK f : f = [graph[k] EXCEPT ![c] = r]
  OBVIOUS
<1>8. graph1 = [graph EXCEPT ![k] = f] /\ k \in D /\ k # r /\ k # r2
  BY <1>1, <1>6, <1>7
<1>9. graph1[r] = graph1[r2]
  BY <1>1, <1>5, <1>8
<1>10. PICK graph3 : graph3 = [graph1 EXCEPT ![r2] = graph1[r], ![r] = graph1[r2]]
  OBVIOUS
<1>11. graph1 = [d \in D |-> graph1[d]] /\ graph3 = [d \in D |-> graph3[d]]
  BY <1>1, <1>8, <1>10
<1>12. \A d \in D : graph3[d] = graph1[d]
  BY <1>1, <1>9, <1>10, <1>11
<1>13. [d \in D |-> graph1[d]] = [d \in D |-> graph3[d]]
  BY <1>12
<1>14. graph1 = graph3
  BY <1>11, <1>13, Zenon
<1> QED
  BY <1>10, <1>14 DEF Fsa!Swap

\* A letter of an entry: a row is taken or the route followed, and the entry's last letter
\* leads to the next final row.
LEMMA LetterRight ==
  ASSUME NEW ws \in Seq(Words), NEW size \in Nat, NEW k \in 0..(Len(ws) - 1),
         NEW w, w = ws[k + 1], NEW i \in 1..Len(w),
         NEW g, Inserting(g, ws, k, size, i - 1), g.state_num # size,
         NEW h, h = LetterStep(w, g, i)
  PROVE  /\ i # Len(w) => Inserting(h, ws, k, size, i)
         /\ i = Len(w) => Inserted(h, ws, k + 1, size)
         /\ h.state_num \in {g.state_num, g.state_num + 1}
<1>1. PICK init \in Nat : init = Len(ws)
  OBVIOUS
<1>2. k \in 0..(init - 1) /\ k \in Nat /\ w \in Words /\ w \in Seq(Alphabet)
  <2>1. k \in 0..(init - 1) /\ k + 1 \in 1..Len(ws)
    BY <1>1
  <2>2. w \in Words
    BY <2>1
  <2> QED
    BY <2>1, <2>2, MatchersAssumption
<1>3. PICK Q, row : /\ Routes(g, ws, k, size, Q, row) /\ SubSeq(w, 1, i - 1) \in Q
                    /\ g.cur = row[SubSeq(w, 1, i - 1)]
  BY DEF Inserting
<1>4. PICK q \in Q : q = SubSeq(w, 1, i - 1)
  BY <1>3
<1>5. PICK c : c = w[i]
  OBVIOUS
<1>6. PICK s : s = SubSeq(w, 1, i)
  OBVIOUS
<1>7. c \in Alphabet /\ s = Grown(q, c) /\ (i = Len(w) => s = w)
  <2>1. Len(w) \in Nat /\ 1 \in 1..Len(w)
    BY <1>2
  <2>2. c \in Alphabet /\ s = Grown(q, c)
    BY <1>2, <1>4, <1>5, <1>6, <2>1, PartGrows
  <2>3. SubSeq(w, 1, Len(w)) = w
    BY <1>2
  <2> QED
    BY <1>6, <2>2, <2>3
<1>8. PICK num : num = g.state_num
  OBVIOUS
<1>9. PICK G : G = g.graph
  OBVIOUS
<1>10. PICK D : D = 0..(size - 1)
  OBVIOUS
<1>11. PICK U : U = UsedRows(init, k, num)
  OBVIOUS
<1>12. PICK F : F = FreeRows(init, k, num, size)
  OBVIOUS
<1>13. /\ Acc(g) /\ k = g.final_state /\ num \in (init + 1)..size /\ num # size
       /\ Tree(G, D, Q, row, init, U, F) /\ Finals(ws, k, Q, row, init)
  BY <1>1, <1>3, <1>8, <1>9, <1>10, <1>11, <1>12 DEF Routes
<1>14. /\ Takes(D, U, F, num, UsedRows(init, k, num + 1), FreeRows(init, k, num + 1, size))
       /\ Takes(D, U, F, k, UsedRows(init, k + 1, num), FreeRows(init, k + 1, num, size))
       /\ Takes(D, U, F, k, UsedRows(init, k + 1, num + 1), FreeRows(init, k + 1, num + 1, size))
  BY <1>2, <1>10, <1>11, <1>12, <1>13, RowsTaken, Zenon
<1>15. num + 1 \in (init + 1)..size /\ num >= init
  BY <1>13
<1>16. /\ s \in Q => G[row[q]][c] = row[s] /\ row[s] # Fsa!None
       /\ s \notin Q => G[row[q]][c] = Fsa!None
  <2>1. /\ U \in SUBSET D /\ D \in SUBSET Nat /\ row \in [Q -> U]
        /\ G[row[q]][c] = IF Grown(q, c) \in Q THEN row[Grown(q, c)] ELSE Fsa!None
    BY <1>7, <1>13 DEF Tree
  <2>2. s \in Q => row[s] \in Nat
    BY <2>1
  <2>3. \A x \in Nat : x # Fsa!None
    BY DEF Fsa!None
  <2> QED
    BY <1>7, <2>1, <2>2, <2>3
<1>17. PICK last \in BOOLEAN : last = (i = Len(w))
  OBVIOUS
<1>18. /\ s \notin Q => Extended(G, k, num, row[q], c, last, h)
       /\ s \in Q => Followed(G, k, num, row[q], c, last, h)
  <2>1. /\ s \notin Q => h = Fsa!Extend(g, row[q], c, i = Len(w))
        /\ s \in Q => h = Fsa!Follow(g, row[q], c, i = Len(w))
    BY <1>3, <1>4, <1>5, <1>9, <1>16 DEF LetterStep
  <2>2. /\ s \notin Q => h = Fsa!Extend(g, row[q], c, last)
        /\ s \in Q => h = Fsa!Follow(g, row[q], c, last)
    BY <1>17, <2>1, Zenon
  <2>3. s \notin Q => Extended(G, k, num, row[q], c, last, h)
    BY <1>8, <1>9, <1>13, <1>17, <2>2, ExtendFields, Zenon
  <2>4. s \in Q => Followed(G, k, num, row[q], c, last, h)
    BY <1>8, <1>9, <1>13, <1>17, <2>2, FollowFields, Zenon
  <2> QED
    BY <2>3, <2>4
<1> DEFINE Q2 == Q \cup {s}
<1>19. CASE i # Len(w) /\ s \notin Q
  <2> DEFINE row2 == Placing(Q, row, s, num)
  <2>1. /\ Acc(h) /\ h.state_num = num + 1 /\ h.cur = num /\ h.final_state = k
        /\ h.graph = Edge(G, row[q], c, num)
    BY <1>17, <1>18, <1>19 DEF Extended
  <2>2. Tree(h.graph, D, Q2, row2, init, UsedRows(init, k, num + 1),
             FreeRows(init, k, num + 1, size))
    <3>1. Tree(Edge(G, row[q], c, num), D, Q2, row2, init, UsedRows(init, k, num + 1),
               FreeRows(init, k, num + 1, size))
      BY <1>7, <1>13, <1>14, <1>19, TreeGrows, Zenon
    <3> QED
      BY <2>1, <3>1, Zenon
  <2>3. row2[s] = num /\ \A p \in Q : p # s /\ row2[p] = row[p]
    BY <1>19 DEF Placing
  <2> HIDE DEF row2
  <2>4. Finals(ws, k, Q2, row2, init)
    <3>1. \A j \in 1..k : ws[j] \in Q /\ ws[j] # s
      BY <1>13, <1>19 DEF Finals
    <3> QED
      BY <1>13, <1>15, <2>3, <3>1 DEF Finals
  <2>5. Routes(h, ws, k, size, Q2, row2)
    BY <1>1, <1>10, <1>15, <2>1, <2>2, <2>4 DEF Routes
  <2>6. Inserting(h, ws, k, size, i)
    BY <1>6, <2>1, <2>3, <2>5 DEF Inserting
  <2> QED
    BY <1>8, <1>19, <2>1, <2>6
<1>20. CASE i = Len(w) /\ s \notin Q
  <2> DEFINE row2 == Placing(Q, row, s, k)
             graph2 == Edge(G, row[q], c, k)
  <2>1. /\ Acc(h) /\ h.state_num = num + 1 /\ h.final_state = k + 1
        /\ h.graph = Fsa!Swap(graph2, num, k)
    BY <1>17, <1>18, <1>20 DEF Extended
  <2>2. Tree(graph2, D, Q2, row2, init, UsedRows(init, k + 1, num + 1),
             FreeRows(init, k + 1, num + 1, size))
    BY <1>7, <1>13, <1>14, <1>20, TreeGrows, Zenon
  <2>3. Fsa!Swap(graph2, num, k) = graph2
    <3>1. num \in F /\ k \in F
      BY <1>14 DEF Takes
    <3> QED
      BY <1>7, <1>13, <3>1, SwapUnused
  <2>4. Finals(ws, k + 1, Q2, row2, init)
    BY <1>2, <1>7, <1>13, <1>20, FinalsEnd
  <2> HIDE DEF row2, graph2
  <2>5. Routes(h, ws, k + 1, size, Q2, row2)
    BY <1>1, <1>10, <1>15, <2>1, <2>2, <2>3, <2>4 DEF Routes
  <2> QED
    BY <1>8, <1>20, <2>1, <2>5 DEF Inserted
<1>21. CASE i # Len(w) /\ s \in Q
  <2>1. Acc(h) /\ h.state_num = num /\ h.graph = G /\ h.cur = row[s] /\ h.final_state = k
    BY <1>16, <1>17, <1>18, <1>21 DEF Followed
  <2>2. Routes(h, ws, k, size, Q, row)
    BY <1>3, <1>8, <1>9, <2>1 DEF Routes
  <2>3. Inserting(h, ws, k, size, i)
    BY <1>6, <1>21, <2>1, <2>2 DEF Inserting
  <2> QED
    BY <1>8, <1>21, <2>1, <2>3
<1>22. CASE i = Len(w) /\ s \in Q
  <2> DEFINE row2 == Placing(Q, row, s, k)
  <2>1. /\ Acc(h) /\ h.state_num = num /\ h.final_state = k + 1
        /\ h.graph = Edge(Fsa!Swap(G, row[s], k), row[q], c, k)
    BY <1>16, <1>17, <1>18, <1>22 DEF Followed
  <2>2. Tree(h.graph, D, Q2, row2, init, UsedRows(init, k + 1, num),
             FreeRows(init, k + 1, num, size))
    <3>1. Tree(Edge(Fsa!Swap(G, row[s], k), row[q], c, k), D, Q2, row2, init,
               UsedRows(init, k + 1, num), FreeRows(init, k + 1, num, size))
      BY <1>7, <1>13, <1>14, <1>22, TreeMoves, Zenon
    <3> QED
      BY <2>1, <3>1, Zenon
  <2>3. Finals(ws, k + 1, Q2, row2, init)
    BY <1>2, <1>7, <1>13, <1>22, FinalsEnd
  <2> HIDE DEF row2
  <2>4. Routes(h, ws, k + 1, size, Q2, row2)
    BY <1>1, <1>10, <1>13, <2>1, <2>2, <2>3 DEF Routes
  <2> QED
    BY <1>8, <1>22, <2>1, <2>4 DEF Inserted
<1> QED
  BY <1>19, <1>20, <1>21, <1>22

-----------------------------------------------------------------------------
(* makeGraph.                                                              *)

\* Putting a word in is a fold over its letters.
LEMMA InsertFold ==
  ASSUME NEW g, NEW w \in Words, NEW init, NEW base, base = [g EXCEPT !.cur = init]
  PROVE  Fsa!Insert(g, w, init)
           = FoldOf("Insert", <<w>>, base, Places(Len(w)), Len(w))[1..Len(w)]
<1> DEFINE n == Len(w)
           q == Places(Len(w))
           Step(f, s) == IF s = {} THEN base
                         ELSE LetterStep(w, f[s \ {MaxOf(s)}], q[MaxOf(s)])
           Step2(f, s) == Folded("Insert", <<w>>, base, q, f, s)
           fold == CHOOSE f : f = [s \in SUBSET (1..n) |-> Step(f, s)]
           fold2 == CHOOSE f : f = [s \in SUBSET (1..n) |-> Step2(f, s)]
<1>1. Fsa!Insert(g, w, init) = fold[1..n]
  BY DEF Fsa!Insert, Fsa!FoldLeft, Fsa!MapThenFoldSet, Fsa!Max, LetterStep, Places, MaxOf
<1>2. \A f, s : Step(f, s) = Step2(f, s)
  BY DEF Folded, FoldStep
<1>3. fold = fold2
  <2> HIDE DEF Step, Step2
  <2> QED
    BY <1>2
<1>4. fold2 = FoldOf("Insert", <<w>>, base, q, n)
  BY DEF FoldOf
<1> HIDE DEF fold, fold2
<1> QED
  BY <1>1, <1>3, <1>4

\* The total length is a fold over the entries.
LEMMA TotalLenFold ==
  ASSUME NEW ws \in Seq(Words)
  PROVE  Fsa!TotalLen(ws) = FoldOf("TotalLen", <<>>, 0, ws, Len(ws))[1..Len(ws)]
<1> DEFINE n == Len(ws)
           Step(f, s) == IF s = {} THEN 0 ELSE f[s \ {MaxOf(s)}] + Len(ws[MaxOf(s)])
           Step2(f, s) == Folded("TotalLen", <<>>, 0, ws, f, s)
           fold == CHOOSE f : f = [s \in SUBSET (1..n) |-> Step(f, s)]
           fold2 == CHOOSE f : f = [s \in SUBSET (1..n) |-> Step2(f, s)]
<1>1. Fsa!TotalLen(ws) = fold[1..n]
  <2>1. DOMAIN ws = 1..n
    OBVIOUS
  <2> QED
    BY <2>1 DEF Fsa!TotalLen, Fsa!FoldLeft, Fsa!MapThenFoldSet, Fsa!Max, MaxOf
<1>2. \A f, s : Step(f, s) = Step2(f, s)
  BY DEF Folded, FoldStep
<1>3. fold = fold2
  <2> HIDE DEF Step, Step2
  <2> QED
    BY <1>2
<1>4. fold2 = FoldOf("TotalLen", <<>>, 0, ws, n)
  BY DEF FoldOf
<1> HIDE DEF fold, fold2
<1> QED
  BY <1>1, <1>3, <1>4

\* makeGraph without the fields of m: from the rows base, all entries are put in.
BuildFrom(ws, base) ==
  Fsa!FoldLeft(LAMBDA g, word : Fsa!Insert(g, word, Len(ws)), base, ws)

\* The graph is a fold over the entries.
LEMMA BuildFold ==
  ASSUME NEW ws \in Seq(Words), NEW base
  PROVE  BuildFrom(ws, base) = FoldOf("makeGraph", <<Len(ws)>>, base, ws, Len(ws))[1..Len(ws)]
<1> DEFINE n == Len(ws)
           Step(f, s) == IF s = {} THEN base
                         ELSE Fsa!Insert(f[s \ {MaxOf(s)}], ws[MaxOf(s)], n)
           Step2(f, s) == Folded("makeGraph", <<Len(ws)>>, base, ws, f, s)
           fold == CHOOSE f : f = [s \in SUBSET (1..n) |-> Step(f, s)]
           fold2 == CHOOSE f : f = [s \in SUBSET (1..n) |-> Step2(f, s)]
<1>1. BuildFrom(ws, base) = fold[1..n]
  <2>1. DOMAIN ws = 1..n
    OBVIOUS
  <2> QED
    BY <2>1 DEF BuildFrom, Fsa!FoldLeft, Fsa!MapThenFoldSet, Fsa!Max, MaxOf
<1>2. \A f, s : Step(f, s) = Step2(f, s)
  BY DEF Folded, FoldStep
<1>3. fold = fold2
  <2> HIDE DEF Step, Step2
  <2> QED
    BY <1>2
<1>4. fold2 = FoldOf("makeGraph", <<Len(ws)>>, base, ws, n)
  BY DEF FoldOf
<1> HIDE DEF fold, fold2
<1> QED
  BY <1>1, <1>3, <1>4

\* Induction up to n.
LEMMA CountUp ==
  ASSUME NEW n \in Nat, NEW S, 0 \in S, \A i \in 1..n : i - 1 \in S => i \in S
  PROVE  \A i \in 0..n : i \in S
<1> DEFINE Bad == {i \in 0..n : i \notin S}
<1> SUFFICES ASSUME Bad # {} PROVE FALSE
  OBVIOUS
<1>1. PICK i \in Bad : \A j \in Bad : i =< j
  <2>1. Bad \in SUBSET Nat
    OBVIOUS
  <2> HIDE DEF Bad
  <2> QED
    BY <2>1, LeastNatural
<1>2. i \in 1..n /\ i - 1 \in 0..n /\ ~(i =< i - 1)
  OBVIOUS
<1>3. i - 1 \notin Bad
  BY <1>1, <1>2
<1> QED
  BY <1>2, <1>3

\* A word is put in: its last entry gets the next final row, and at most a row per letter
\* is taken.
LEMMA InsertRight ==
  ASSUME NEW ws \in Seq(Words), NEW size \in Nat, NEW k \in 0..(Len(ws) - 1),
         NEW w, w = ws[k + 1], NEW g, Inserted(g, ws, k, size),
         NEW num, num = g.state_num, num + Len(w) =< size,
         NEW h, h = Fsa!Insert(g, w, Len(ws))
  PROVE  /\ Inserted(h, ws, k + 1, size)
         /\ h.state_num \in Nat /\ h.state_num =< num + Len(w)
<1>1. w \in Words /\ w \in Seq(Nat) /\ w \in Seq(Alphabet) /\ w # <<>>
  <2>1. k + 1 \in 1..Len(ws)
    OBVIOUS
  <2>2. w \in Words
    BY <2>1
  <2> QED
    BY <2>2, MatcherAssumption, MatchersAssumption
<1>2. PICK n \in Nat : n = Len(w) /\ n # 0
  BY <1>1
<1>3. PICK Q, row : Routes(g, ws, k, size, Q, row)
  BY DEF Inserted
<1>4. num \in Nat /\ Acc(g) /\ <<>> \in Q /\ row[<<>>] = Len(ws)
  BY <1>3 DEF Routes, Tree
<1>5. PICK base : base = [g EXCEPT !.cur = Len(ws)]
  OBVIOUS
<1>6. /\ Acc(base) /\ base.graph = g.graph /\ base.final_state = g.final_state
      /\ base.cur = Len(ws) /\ base.state_num = num
  <2>1. PICK G, f : G = g.graph /\ f = g.final_state
    OBVIOUS
  <2>2. PICK init : init = Len(ws)
    OBVIOUS
  <2>3. PICK c : c = g.cur
    OBVIOUS
  <2>4. g = [graph |-> G, final_state |-> f, cur |-> c, state_num |-> num]
    BY <1>4, <2>1, <2>3 DEF Acc
  <2>5. base = [graph |-> G, final_state |-> f, cur |-> init, state_num |-> num]
    BY <1>5, <2>2, <2>4
  <2>6. base.graph = G /\ base.final_state = f /\ base.cur = init /\ base.state_num = num
    BY <2>5
  <2>7. Acc(base)
    BY <2>5, <2>6, Zenon DEF Acc
  <2> QED
    BY <2>1, <2>2, <2>6, <2>7
<1>7. Inserting(base, ws, k, size, 0)
  <2>1. Routes(base, ws, k, size, Q, row)
    BY <1>3, <1>4, <1>6 DEF Routes
  <2>2. SubSeq(w, 1, 0) = <<>>
    BY <1>1
  <2> QED
    BY <1>4, <1>6, <2>1, <2>2 DEF Inserting
<1>8. PICK fold : fold = FoldOf("Insert", <<w>>, base, Places(n), n)
  OBVIOUS
<1>9. h = fold[1..n]
  BY <1>1, <1>2, <1>5, <1>8, InsertFold
<1>10. /\ fold[1..0] = base
       /\ \A i \in 1..n : fold[1..i] = LetterStep(w, fold[1..(i - 1)], i)
  <2>1. Steps("Insert", <<w>>, base, Places(n), n, fold)
    BY <1>8, FoldOfSteps, Zenon
  <2>2. \A i \in 1..n : FoldStep("Insert", <<w>>, fold[1..(i - 1)], Places(n)[i])
                          = LetterStep(w, fold[1..(i - 1)], i)
    BY DEF FoldStep, Places
  <2> QED
    BY <2>1, <2>2 DEF Steps
<1> DEFINE A(i) == fold[1..i]
           Good(i) == /\ i # n => Inserting(A(i), ws, k, size, i)
                      /\ i = n => Inserted(A(i), ws, k + 1, size)
                      /\ A(i).state_num \in Nat /\ A(i).state_num =< num + i
           S == {i \in 0..n : Good(i)}
<1>11. 0 \in S
  <2>1. A(0) = base
    BY <1>10
  <2> QED
    BY <1>2, <1>4, <1>6, <1>7, <2>1
<1>12. ASSUME NEW i \in 1..n, i - 1 \in S PROVE i \in S
  <2>1. PICK a : a = A(i - 1)
    OBVIOUS
  <2>2. PICK b : b = A(i)
    OBVIOUS
  <2>3. /\ Inserting(a, ws, k, size, i - 1) /\ a.state_num \in Nat
        /\ a.state_num =< num + (i - 1) /\ i \in 1..Len(w)
    BY <1>2, <1>12, <2>1
  <2>4. b = LetterStep(w, a, i)
    BY <1>10, <2>1, <2>2
  <2>5. a.state_num # size
    BY <1>2, <1>4, <2>3
  <2>6. /\ i # Len(w) => Inserting(b, ws, k, size, i)
        /\ i = Len(w) => Inserted(b, ws, k + 1, size)
        /\ b.state_num \in {a.state_num, a.state_num + 1}
    <3> HIDE DEF A, Good, S
    <3> QED
      BY <2>3, <2>4, <2>5, LetterRight
  <2>7. b.state_num \in Nat /\ b.state_num =< num + i
    <3>1. PICK x \in Nat : x = a.state_num
      BY <2>3
    <3>2. PICK y : y = b.state_num
      OBVIOUS
    <3>3. x =< num + (i - 1) /\ (y = x \/ y = x + 1)
      BY <2>3, <2>6, <3>1, <3>2
    <3>4. y \in Nat /\ y =< num + i
      BY <1>4, <3>3
    <3> QED
      BY <3>2, <3>4
  <2>8. /\ i # n => Inserting(b, ws, k, size, i)
        /\ i = n => Inserted(b, ws, k + 1, size)
    BY <1>2, <2>6, Zenon
  <2>9. Good(i) /\ i \in 0..n
    BY <2>2, <2>7, <2>8
  <2> HIDE DEF Good
  <2> QED
    BY <2>9
<1> HIDE DEF Good
<1>13. \A i \in 0..n : i \in S
  <2> HIDE DEF S
  <2> QED
    BY <1>11, <1>12, CountUp
<1>14. Good(n)
  BY <1>13
<1> QED
  BY <1>2, <1>9, <1>14 DEF Good

\* The length of the first k entries.
Sum(ws, k) == FoldOf("TotalLen", <<>>, 0, ws, Len(ws))[1..k]

\* It grows by the length of the next, up to that of all.
LEMMA Sums ==
  ASSUME NEW ws \in Seq(Words)
  PROVE  /\ Sum(ws, 0) = 0 /\ Sum(ws, Len(ws)) = Fsa!TotalLen(ws)
         /\ \A k \in 1..Len(ws) : Sum(ws, k) = Sum(ws, k - 1) + Len(ws[k])
         /\ \A k \in 0..Len(ws) : Sum(ws, k) \in Nat
         /\ \A k \in 0..Len(ws) : Sum(ws, k) =< Sum(ws, Len(ws))
<1>1. PICK n \in Nat : n = Len(ws)
  OBVIOUS
<1>2. PICK fold : fold = FoldOf("TotalLen", <<>>, 0, ws, n)
  OBVIOUS
<1>3. \A k : Sum(ws, k) = fold[1..k]
  BY <1>1, <1>2 DEF Sum
<1>4. /\ fold[1..0] = 0
      /\ \A k \in 1..n : fold[1..k] = fold[1..(k - 1)] + Len(ws[k])
  <2>1. Steps("TotalLen", <<>>, 0, ws, n, fold)
    BY <1>2, FoldOfSteps, Zenon
  <2>2. \A acc, x : FoldStep("TotalLen", <<>>, acc, x) = acc + Len(x)
    BY DEF FoldStep
  <2> QED
    BY <2>1, <2>2, Zenon DEF Steps
<1>5. Sum(ws, n) = Fsa!TotalLen(ws)
  BY <1>1, <1>2, <1>3, TotalLenFold
<1>6. Sum(ws, 0) = 0 /\ \A k \in 1..n : Sum(ws, k) = Sum(ws, k - 1) + Len(ws[k])
  BY <1>3, <1>4, Zenon
<1>7. \A k \in 1..n : Len(ws[k]) \in Nat
  <2>1. \A k \in 1..n : ws[k] \in Words
    BY <1>1
  <2>2. \A w \in Words : Len(w) \in Nat
    BY MatcherAssumption
  <2> QED
    BY <2>1, <2>2
<1> HIDE DEF Sum
<1> DEFINE Good(j) == \A k \in 0..j : Sum(ws, k) \in Nat /\ Sum(ws, k) =< Sum(ws, j)
           S == {j \in 0..n : Good(j)}
<1>8. 0 \in S
  <2>1. Good(0)
    BY <1>6
  <2> QED
    BY <2>1
<1>9. ASSUME NEW j \in 1..n, j - 1 \in S PROVE j \in S
  <2>1. PICK a : a = Sum(ws, j - 1)
    OBVIOUS
  <2>2. PICK b : b = Sum(ws, j)
    OBVIOUS
  <2>3. PICK l \in Nat : l = Len(ws[j])
    BY <1>7
  <2>4. a \in Nat /\ b = a + l
    BY <1>6, <1>9, <2>1, <2>2, <2>3
  <2>5. \A k \in 0..j : k = j \/ k \in 0..(j - 1)
    OBVIOUS
  <2>6. ASSUME NEW k \in 0..j PROVE Sum(ws, k) \in Nat /\ Sum(ws, k) =< b
    <3>1. CASE k = j
      <4>1. b \in Nat /\ b =< b
        BY <2>4
      <4> QED
        BY <2>2, <3>1, <4>1, Zenon
    <3>2. CASE k \in 0..(j - 1)
      <4>1. PICK c : c = Sum(ws, k)
        OBVIOUS
      <4>2. c \in Nat /\ c =< a
        BY <1>9, <2>1, <3>2, <4>1
      <4> QED
        BY <2>4, <4>1, <4>2
    <3> QED
      BY <2>5, <3>1, <3>2
  <2>7. Good(j) /\ j \in 0..n
    BY <2>2, <2>4, <2>6
  <2> QED
    BY <2>7
<1>10. \A j \in 0..n : j \in S
  <2> HIDE DEF S
  <2> QED
    BY <1>8, <1>9, CountUp
<1> QED
  BY <1>1, <1>5, <1>6, <1>10

\* The length of two lists of entries is that of the one and the other.
LEMMA SumJoin ==
  ASSUME NEW us \in Seq(Words), NEW vs \in Seq(Words)
  PROVE  /\ us \o vs \in Seq(Words) /\ Fsa!TotalLen(us) \in Nat
         /\ Fsa!TotalLen(us \o vs) = Fsa!TotalLen(us) + Fsa!TotalLen(vs)
<1>1. PICK ws : ws = us \o vs
  OBVIOUS
<1>2. PICK l \in Nat, n \in Nat : l = Len(us) /\ n = Len(vs)
  OBVIOUS
<1>3. ws \in Seq(Words) /\ Len(ws) = l + n
      /\ (\A i \in 1..l : ws[i] = us[i]) /\ \A i \in 1..n : ws[l + i] = vs[i]
  BY <1>1, <1>2
<1>4. /\ Sum(us, 0) = 0 /\ Sum(us, l) = Fsa!TotalLen(us)
      /\ \A k \in 1..l : Sum(us, k) = Sum(us, k - 1) + Len(us[k])
      /\ \A k \in 0..l : Sum(us, k) \in Nat
  BY <1>2, Sums
<1>5. /\ Sum(vs, 0) = 0 /\ Sum(vs, n) = Fsa!TotalLen(vs)
      /\ \A k \in 1..n : Sum(vs, k) = Sum(vs, k - 1) + Len(vs[k])
      /\ \A k \in 0..n : Sum(vs, k) \in Nat
  BY <1>2, Sums
<1>6. /\ Sum(ws, 0) = 0 /\ Sum(ws, l + n) = Fsa!TotalLen(ws)
      /\ \A k \in 1..(l + n) : Sum(ws, k) = Sum(ws, k - 1) + Len(ws[k])
  BY <1>3, Sums
<1> HIDE DEF Sum
<1>7. \A k \in 1..n : Len(vs[k]) \in Nat
  <2>1. \A k \in 1..n : vs[k] \in Words
    BY <1>2
  <2>2. \A w \in Words : Len(w) \in Nat
    BY MatcherAssumption
  <2> QED
    BY <2>1, <2>2
<1>8. Sum(ws, l) = Sum(us, l)
  <2> DEFINE S == {i \in 0..l : Sum(ws, i) = Sum(us, i)}
  <2>1. 0 \in S
    BY <1>4, <1>6
  <2>2. ASSUME NEW i \in 1..l, i - 1 \in S PROVE i \in S
    <3>1. i \in 1..(l + n) /\ i \in 0..l
      OBVIOUS
    <3>2. Sum(ws, i) = Sum(ws, i - 1) + Len(ws[i]) /\ ws[i] = us[i]
      BY <1>3, <1>6, <3>1
    <3>3. Sum(ws, i - 1) = Sum(us, i - 1)
      BY <2>2
    <3>4. Sum(us, i) = Sum(us, i - 1) + Len(us[i])
      BY <1>4
    <3>5. Sum(ws, i) = Sum(us, i)
      BY <3>2, <3>3, <3>4, Zenon
    <3> QED
      BY <3>1, <3>5
  <2>3. \A i \in 0..l : i \in S
    <3> HIDE DEF S
    <3> QED
      BY <2>1, <2>2, CountUp
  <2> QED
    BY <2>3
<1>9. PICK a \in Nat : a = Sum(us, l)
  BY <1>4
<1>10. Sum(ws, l + n) = a + Sum(vs, n)
  <2> DEFINE S == {i \in 0..n : Sum(ws, l + i) = a + Sum(vs, i)}
  <2>1. 0 \in S
    BY <1>5, <1>8, <1>9
  <2>2. ASSUME NEW i \in 1..n, i - 1 \in S PROVE i \in S
    <3>1. l + i \in 1..(l + n) /\ i \in 0..n /\ i - 1 \in 0..n /\ (l + i) - 1 = l + (i - 1)
      OBVIOUS
    <3>2. Sum(ws, l + i) = Sum(ws, (l + i) - 1) + Len(ws[l + i]) /\ ws[l + i] = vs[i]
      BY <1>3, <1>6, <3>1
    <3>3. PICK b \in Nat : b = Sum(vs, i - 1)
      BY <1>5, <3>1
    <3>4. PICK c \in Nat : c = Len(vs[i])
      BY <1>7
    <3>5. Sum(ws, l + (i - 1)) = a + b
      BY <2>2, <3>3
    <3>6. Sum(vs, i) = b + c
      BY <1>5, <3>3, <3>4
    <3>7. Sum(ws, l + i) = (a + b) + c
      BY <3>1, <3>2, <3>4, <3>5, Zenon
    <3>8. Sum(ws, l + i) = a + Sum(vs, i)
      BY <3>6, <3>7
    <3> QED
      BY <3>1, <3>8
  <2>3. \A i \in 0..n : i \in S
    <3> HIDE DEF S
    <3> QED
      BY <2>1, <2>2, CountUp
  <2> QED
    BY <2>3
<1> QED
  BY <1>1, <1>3, <1>4, <1>5, <1>6, <1>9, <1>10

\* The rows before the first entry is put in.
FirstRows(init, size) ==
  [graph |-> Fsa!Empty(size), final_state |-> 0, cur |-> init, state_num |-> init + 1]

\* With a row per entry, one per letter and the initial one, all entries get in.
LEMMA GraphRight ==
  ASSUME NEW ws \in Seq(Words), NEW size, size = Len(ws) + Fsa!TotalLen(ws) + 1,
         NEW h, h = BuildFrom(ws, FirstRows(Len(ws), size))
  PROVE  size \in Nat /\ Inserted(h, ws, Len(ws), size)
<1>1. PICK n \in Nat : n = Len(ws)
  OBVIOUS
<1>2. /\ Sum(ws, 0) = 0 /\ Sum(ws, n) = Fsa!TotalLen(ws)
      /\ \A k \in 1..n : Sum(ws, k) = Sum(ws, k - 1) + Len(ws[k])
      /\ \A k \in 0..n : Sum(ws, k) \in Nat /\ Sum(ws, k) =< Sum(ws, n)
  BY <1>1, Sums
<1>3. PICK total \in Nat : total = Sum(ws, n)
  BY <1>2
<1>4. size \in Nat /\ size = n + total + 1 /\ n + 1 \in (n + 1)..size
  BY <1>1, <1>2, <1>3
<1> HIDE DEF Sum
<1>5. PICK base : base = FirstRows(n, size)
  OBVIOUS
<1>6. /\ base.graph = Fsa!Empty(size) /\ base.final_state = 0 /\ base.state_num = n + 1
      /\ Acc(base)
  <2>1. PICK G, c : G = Fsa!Empty(size) /\ c = n + 1
    OBVIOUS
  <2>2. base = [graph |-> G, final_state |-> 0, cur |-> n, state_num |-> c]
    BY <1>5, <2>1 DEF FirstRows
  <2>3. base.graph = G /\ base.final_state = 0 /\ base.cur = n /\ base.state_num = c
    BY <2>2
  <2>4. Acc(base)
    BY <2>2, <2>3, Zenon DEF Acc
  <2> QED
    BY <2>1, <2>3, <2>4
<1>7. Inserted(base, ws, 0, size)
  <2> DEFINE D == 0..(size - 1)
             Q == {<<>>}
             row == [q \in Q |-> n]
             U == UsedRows(n, 0, n + 1)
             F == FreeRows(n, 0, n + 1, size)
  <2>1. PICK G : G = Fsa!Empty(size)
    OBVIOUS
  <2>2. /\ G \in [D -> [Alphabet -> Int]]
        /\ \A r \in D, c \in Alphabet : G[r][c] = Fsa!None
    BY <2>1 DEF Fsa!Empty, Fsa!None
  <2>3. U = {n} /\ U \in SUBSET D /\ F \in SUBSET (D \ U) /\ D \in SUBSET Nat
    BY <1>4 DEF UsedRows, FreeRows
  <2>4. Q \in SUBSET Seq(Alphabet) /\ <<>> \in Q /\ row \in [Q -> U] /\ row[<<>>] = n
    BY <2>3
  <2>5. \A q \in Seq(Alphabet), c \in Alphabet : Grown(q, c) \notin Q
    <3> HIDE DEF Grown
    <3> QED
      BY GrownFacts
  <2>6. \A p, q \in Q : p = q
    OBVIOUS
  <2>7. \A q \in Q, c \in Alphabet : Grown(q, c) \notin Q /\ G[row[q]][c] = Fsa!None
    BY <2>2, <2>3, <2>4, <2>5
  <2>8. \A r \in F, c \in Alphabet : G[r][c] = Fsa!None
    BY <2>2, <2>3
  <2> HIDE DEF Q, row, U, F, D
  <2>9. Tree(G, D, Q, row, n, U, F)
    BY <2>2, <2>3, <2>4, <2>5, <2>6, <2>7, <2>8, Zenon DEF Tree
  <2>10. Finals(ws, 0, Q, row, n)
    <3>1. \A q \in Q : row[q] >= n
      BY DEF Q, row
    <3> QED
      BY <3>1 DEF Finals
  <2>11. Routes(base, ws, 0, size, Q, row)
    BY <1>1, <1>4, <1>6, <2>1, <2>9, <2>10 DEF Routes, D, U, F
  <2> QED
    BY <2>11 DEF Inserted
<1>8. PICK fold : fold = FoldOf("makeGraph", <<n>>, base, ws, n)
  OBVIOUS
<1>9. h = fold[1..n]
  BY <1>1, <1>5, <1>8, BuildFold
<1>10. /\ fold[1..0] = base
       /\ \A k \in 1..n : fold[1..k] = Fsa!Insert(fold[1..(k - 1)], ws[k], n)
  <2>1. Steps("makeGraph", <<n>>, base, ws, n, fold)
    BY <1>8, FoldOfSteps, Zenon
  <2>2. \A acc, x : FoldStep("makeGraph", <<n>>, acc, x) = Fsa!Insert(acc, x, n)
    BY DEF FoldStep
  <2> QED
    BY <2>1, <2>2, Zenon DEF Steps
<1> DEFINE A(k) == fold[1..k]
           Good(k) == /\ Inserted(A(k), ws, k, size)
                      /\ A(k).state_num \in Nat /\ A(k).state_num =< n + 1 + Sum(ws, k)
           S == {k \in 0..n : Good(k)}
<1>11. 0 \in S
  <2>1. A(0) = base
    BY <1>10
  <2> QED
    BY <1>2, <1>6, <1>7, <2>1
<1>12. ASSUME NEW k \in 1..n, k - 1 \in S PROVE k \in S
  <2>1. PICK a : a = A(k - 1)
    OBVIOUS
  <2>2. PICK b : b = A(k)
    OBVIOUS
  <2>3. PICK j \in 0..(n - 1) : j = k - 1 /\ k = j + 1
    <3>1. k - 1 \in 0..(n - 1) /\ k = (k - 1) + 1
      OBVIOUS
    <3> QED
      BY <3>1
  <2>4. PICK w : w = ws[k]
    OBVIOUS
  <2>5. PICK num : num = a.state_num
    OBVIOUS
  <2>6. PICK s \in Nat, t \in Nat, l \in Nat :
          s = Sum(ws, j) /\ t = Sum(ws, k) /\ l = Len(w) /\ t = s + l /\ t =< total
    <3>1. j \in 0..n /\ k \in 0..n
      OBVIOUS
    <3>2. Sum(ws, j) \in Nat /\ Sum(ws, k) \in Nat /\ Sum(ws, k) =< total
      BY <1>2, <1>3, <3>1
    <3>3. Sum(ws, k) = Sum(ws, j) + Len(w)
      BY <1>2, <2>3, <2>4
    <3>4. Len(w) \in Nat
      <4>1. w \in Words
        BY <1>1, <2>4
      <4> QED
        BY <4>1, MatcherAssumption
    <3> QED
      BY <3>2, <3>3, <3>4
  <2>7. Inserted(a, ws, j, size) /\ num \in Nat /\ num =< n + 1 + s
    BY <1>12, <2>1, <2>3, <2>5, <2>6
  <2>8. b = Fsa!Insert(a, w, n)
    BY <1>10, <2>1, <2>2, <2>4
  <2>9. num + Len(w) =< size /\ w = ws[j + 1] /\ j \in 0..(Len(ws) - 1)
    BY <1>1, <1>4, <2>3, <2>4, <2>6, <2>7
  <2>10. /\ Inserted(b, ws, j + 1, size)
         /\ b.state_num \in Nat /\ b.state_num =< num + Len(w)
    BY <1>1, <1>4, <2>5, <2>7, <2>8, <2>9, InsertRight
  <2>11. b.state_num =< n + 1 + t
    <3>1. PICK x \in Nat : x = b.state_num
      BY <2>10
    <3>2. x =< num + l
      BY <2>6, <2>10, <3>1
    <3>3. x =< n + 1 + t
      BY <2>6, <2>7, <3>2
    <3> QED
      BY <3>1, <3>3
  <2>12. Good(k) /\ k \in 0..n
    BY <2>2, <2>3, <2>6, <2>10, <2>11
  <2> HIDE DEF Good
  <2> QED
    BY <2>12
<1> HIDE DEF Good
<1>13. \A k \in 0..n : k \in S
  <2> HIDE DEF S
  <2> QED
    BY <1>11, <1>12, CountUp
<1>14. Good(n)
  BY <1>13
<1> QED
  BY <1>1, <1>4, <1>9, <1>14 DEF Good

\* The fields of a matcher.
MatcherFields(m) ==
  m = [graph |-> m.graph, cur_size |-> m.cur_size, words |-> m.words, del |-> m.del,
       init_state |-> m.init_state, state_num |-> m.state_num, patternLen |-> m.patternLen]

\* What makeGraph needs, and what it leaves: the trie of all entries, with rows enough.
Counted(m) ==
  /\ MatcherFields(m) /\ m.words \in Seq(Words) /\ m.patternLen = Fsa!TotalLen(m.words)
  /\ m.cur_size \in Nat
Graph(m, g, size) ==
  /\ Inserted(g, m.words, Len(m.words), size) /\ size \in Nat /\ size =< m.cur_size
  /\ m.graph = g.graph /\ m.state_num = g.state_num
Automaton(m) ==
  Counted(m) /\ m.init_state = Len(m.words) /\ \E g, size : Graph(m, g, size)

\* h is m with the trie g and room for c rows.
Made(m, g, c, h) ==
  h = [m EXCEPT !.graph = g.graph, !.init_state = Len(m.words), !.state_num = g.state_num,
                !.cur_size = c]

\* makeGraph changes these fields and no other.
LEMMA MakeGraphFields ==
  ASSUME NEW m, NEW g, NEW c, NEW h, h = Fsa!makeGraph(m),
         g = BuildFrom(m.words, FirstRows(Len(m.words), Len(m.words) + m.patternLen + 1)),
         c = IF m.cur_size < Len(m.words) + m.patternLen + 1
             THEN Len(m.words) + m.patternLen * 2 + 1 ELSE m.cur_size
  PROVE  Made(m, g, c, h)
BY DEF Made, Fsa!makeGraph, Fsa!NeedsRoom, BuildFrom, FirstRows, Fsa!FoldLeft, Fsa!MapThenFoldSet

\* Adding words keeps the marks and builds the trie of all entries.
LEMMA AddWordRight ==
  ASSUME NEW m, Counted(m), NEW ws \in Seq(Words), NEW h, h = Fsa!addWord(m, ws)
  PROVE  Automaton(h) /\ h.words = m.words \o ws /\ h.del = m.del
<1>1. PICK G, c, us, d, i, n, p :
        /\ G = m.graph /\ c = m.cur_size /\ us = m.words /\ d = m.del
        /\ i = m.init_state /\ n = m.state_num /\ p = m.patternLen
  OBVIOUS
<1>2. us \in Seq(Words) /\ p = Fsa!TotalLen(us) /\ c \in Nat
  BY <1>1 DEF Counted
<1>3. m = [graph |-> G, cur_size |-> c, words |-> us, del |-> d, init_state |-> i,
           state_num |-> n, patternLen |-> p]
  BY <1>1 DEF Counted, MatcherFields
<1>4. PICK all : all = us \o ws
  OBVIOUS
<1>5. PICK total : total = p + Fsa!TotalLen(ws)
  OBVIOUS
<1>6. all \in Seq(Words) /\ total = Fsa!TotalLen(all) /\ total \in Nat
  <2>1. all \in Seq(Words) /\ total = Fsa!TotalLen(all)
    BY <1>2, <1>4, <1>5, SumJoin
  <2> QED
    BY <2>1, SumJoin
<1>7. PICK init \in Nat : init = Len(all)
  BY <1>6
<1>8. PICK size : size = init + total + 1
  OBVIOUS
<1>9. PICK g : g = BuildFrom(all, FirstRows(init, size))
  OBVIOUS
<1>10. size \in Nat /\ Inserted(g, all, init, size)
  BY <1>6, <1>7, <1>8, <1>9, GraphRight
<1>11. PICK x : x = [graph |-> G, cur_size |-> c, words |-> all, del |-> d, init_state |-> i,
                     state_num |-> n, patternLen |-> total]
  OBVIOUS
<1>12. h = Fsa!makeGraph(x)
  <2>1. [m EXCEPT !.words = @ \o ws, !.patternLen = @ + Fsa!TotalLen(ws)] = x
    <3>1. [m EXCEPT !.words = all, !.patternLen = total] = x
      <4>1. PICK y : y = [graph |-> G, cur_size |-> c, words |-> all, del |-> d,
                          init_state |-> i, state_num |-> n, patternLen |-> p]
        OBVIOUS
      <4>2. [m EXCEPT !.words = all] = y
        BY <1>3, <4>1
      <4>3. [y EXCEPT !.patternLen = total] = x
        BY <1>11, <4>1
      <4> QED
        BY <4>2, <4>3, Zenon
    <3>2. m.words \o ws = all /\ m.patternLen + Fsa!TotalLen(ws) = total
      BY <1>1, <1>4, <1>5, Zenon
    <3>3. [m EXCEPT !.words = m.words \o ws, !.patternLen = m.patternLen + Fsa!TotalLen(ws)] = x
      BY <3>1, <3>2, Zenon
    <3> QED
      BY <3>3
  <2> QED
    BY <2>1 DEF Fsa!addWord
<1>13. PICK c2 : c2 = IF c < init + total + 1 THEN init + total * 2 + 1 ELSE c
  OBVIOUS
<1>14. c2 \in Nat /\ size =< c2
  BY <1>2, <1>6, <1>8, <1>13
<1>15. PICK G2, n2 : G2 = g.graph /\ n2 = g.state_num
  OBVIOUS
<1>16. h = [graph |-> G2, cur_size |-> c2, words |-> all, del |-> d, init_state |-> init,
            state_num |-> n2, patternLen |-> total]
  <2>1. x.words = all /\ x.patternLen = total /\ x.cur_size = c
    BY <1>11
  <2>2. h = [x EXCEPT !.graph = G2, !.init_state = init, !.state_num = n2, !.cur_size = c2]
    <3>1. g = BuildFrom(x.words, FirstRows(Len(x.words), Len(x.words) + x.patternLen + 1))
      BY <1>7, <1>8, <1>9, <2>1, Zenon
    <3>2. c2 = IF x.cur_size < Len(x.words) + x.patternLen + 1
               THEN Len(x.words) + x.patternLen * 2 + 1 ELSE x.cur_size
      BY <1>7, <1>13, <2>1, Zenon
    <3>3. Made(x, g, c2, h)
      BY <1>12, <3>1, <3>2, MakeGraphFields, Zenon
    <3> QED
      BY <1>7, <1>15, <2>1, <3>3 DEF Made
  <2> QED
    BY <1>11, <2>2
<1>17. /\ h.graph = G2 /\ h.cur_size = c2 /\ h.words = all /\ h.del = d
       /\ h.init_state = init /\ h.state_num = n2 /\ h.patternLen = total
  BY <1>16
<1>18. MatcherFields(h)
  BY <1>16, <1>17, Zenon DEF MatcherFields
<1>19. Counted(h)
  BY <1>6, <1>14, <1>17, <1>18, Zenon DEF Counted
<1>20. Graph(h, g, size)
  BY <1>7, <1>10, <1>14, <1>15, <1>17 DEF Graph
<1> QED
  BY <1>1, <1>4, <1>7, <1>17, <1>19, <1>20 DEF Automaton

\* Deleting a word marks its entries and changes nothing else.
LEMMA DeleteRight ==
  ASSUME NEW m, Automaton(m), NEW w, NEW h, h = Fsa!deleteWord(m, w)
  PROVE  /\ Automaton(h) /\ h.words = m.words
         /\ h.del = m.del \cup {j - 1 : j \in {x \in 1..Len(m.words) : m.words[x] = w}}
<1>1. PICK G, c, us, d, i, n, p :
        /\ G = m.graph /\ c = m.cur_size /\ us = m.words /\ d = m.del
        /\ i = m.init_state /\ n = m.state_num /\ p = m.patternLen
  OBVIOUS
<1>2. m = [graph |-> G, cur_size |-> c, words |-> us, del |-> d, init_state |-> i,
           state_num |-> n, patternLen |-> p]
  BY <1>1 DEF Automaton, Counted, MatcherFields
<1>3. PICK d2 : d2 = d \cup {j - 1 : j \in {x \in 1..Len(us) : us[x] = w}}
  OBVIOUS
<1>4. h = [graph |-> G, cur_size |-> c, words |-> us, del |-> d2, init_state |-> i,
           state_num |-> n, patternLen |-> p]
  BY <1>1, <1>2, <1>3 DEF Fsa!deleteWord
<1>5. /\ h.graph = G /\ h.cur_size = c /\ h.words = us /\ h.del = d2
      /\ h.init_state = i /\ h.state_num = n /\ h.patternLen = p
  BY <1>4
<1>6. MatcherFields(h)
  BY <1>4, <1>5, Zenon DEF MatcherFields
<1>7. Counted(h)
  BY <1>1, <1>5, <1>6, Zenon DEF Automaton, Counted
<1>8. \E g, size : Graph(h, g, size)
  BY <1>1, <1>5 DEF Automaton, Graph
<1>9. Automaton(h)
  BY <1>1, <1>5, <1>7, <1>8, Zenon DEF Automaton
<1> QED
  BY <1>1, <1>3, <1>5, <1>9

\* The trie never has more rows than there are.
LEMMA AutomatonFits ==
  ASSUME NEW m, Automaton(m)
  PROVE  m.state_num =< m.cur_size
<1>1. PICK g, size : Graph(m, g, size)
  BY DEF Automaton
<1>2. PICK Q, row : Routes(g, m.words, Len(m.words), size, Q, row)
  BY <1>1 DEF Graph, Inserted
<1>3. PICK n, c : n = m.state_num /\ c = m.cur_size
  OBVIOUS
<1>4. PICK l \in Nat : l = Len(m.words)
  BY DEF Automaton, Counted
<1>5. n \in (l + 1)..size /\ size \in Nat /\ size =< c /\ c \in Nat
  BY <1>1, <1>2, <1>3, <1>4 DEF Graph, Routes, Automaton, Counted
<1> QED
  BY <1>3, <1>5

-----------------------------------------------------------------------------
(* search.                                                                 *)

Positions(a, n) == [k \in 1..n |-> a + k - 1]

SearchBase(m, acc, a) == [acc EXCEPT !.cur = m.init_state, !.start = a]
FromFold(m, t, acc, a, n, base) ==
  SearchFrom(m, t, acc, a) = FoldOf("letter", <<m, t>>, base, Positions(a, n), n)[1..n]

\* From one position, search is a fold over the letters that follow.
LEMMA SearchFromFold ==
  ASSUME NEW m, NEW t \in Seq(Alphabet), NEW acc, NEW a \in 1..Len(t),
         NEW base, base = SearchBase(m, acc, a), NEW n \in Nat, n = Len(t) - a + 1
  PROVE  FromFold(m, t, acc, a, n, base)
<1> DEFINE q == Positions(a, n)
           Step(f, s) == IF s = {} THEN base
                         ELSE SearchLetter(m, t, f[s \ {MaxOf(s)}], q[MaxOf(s)])
           Step2(f, s) == Folded("letter", <<m, t>>, base, q, f, s)
           fold == CHOOSE f : f = [s \in SUBSET (1..n) |-> Step(f, s)]
           fold2 == CHOOSE f : f = [s \in SUBSET (1..n) |-> Step2(f, s)]
<1>1. SearchFrom(m, t, acc, a) = fold[1..n]
  BY DEF SearchFrom, SearchBase, Fsa!FoldLeft, Fsa!MapThenFoldSet, Fsa!Max, Positions, MaxOf
<1>2. \A f, s : Step(f, s) = Step2(f, s)
  BY DEF Folded, FoldStep
<1>3. fold = fold2
  <2> HIDE DEF Step, Step2
  <2> QED
    BY <1>2
<1>4. fold2 = FoldOf("letter", <<m, t>>, base, q, n)
  BY DEF FoldOf
<1> HIDE DEF fold, fold2
<1> QED
  BY <1>1, <1>3, <1>4 DEF FromFold

SearchStart == [cur |-> Fsa!None, start |-> 0, result |-> <<>>]
Searched(m, text) ==
  Fsa!FoldLeft(LAMBDA acc, start : SearchFrom(m, text, acc, start), SearchStart,
               [i \in 1..Len(text) |-> i]).result

\* search is a fold over the positions.
LEMMA SearchFold ==
  ASSUME NEW m, NEW t \in Seq(Alphabet), NEW n \in Nat, n = Len(t)
  PROVE  Fsa!search(m, t) = FoldOf("from", <<m, t>>, SearchStart, Places(n), n)[1..n].result
<1> DEFINE q == Places(n)
           Step(f, s) == IF s = {} THEN SearchStart
                         ELSE SearchFrom(m, t, f[s \ {MaxOf(s)}], q[MaxOf(s)])
           Step2(f, s) == Folded("from", <<m, t>>, SearchStart, q, f, s)
           fold == CHOOSE f : f = [s \in SUBSET (1..n) |-> Step(f, s)]
           fold2 == CHOOSE f : f = [s \in SUBSET (1..n) |-> Step2(f, s)]
<1>1. Fsa!search(m, t) = fold[1..n].result
  <2>1. Fsa!search(m, t) = Searched(m, t)
    BY DEF Fsa!search, Searched, SearchFrom, SearchLetter, SearchStart, Fsa!FoldLeft,
           Fsa!MapThenFoldSet
  <2>2. Searched(m, t) = fold[1..n].result
    BY DEF Searched, Fsa!FoldLeft, Fsa!MapThenFoldSet, Fsa!Max, Places, MaxOf
  <2> QED
    BY <2>1, <2>2
<1>2. \A f, s : Step(f, s) = Step2(f, s)
  BY DEF Folded, FoldStep
<1>3. fold = fold2
  <2> HIDE DEF Step, Step2
  <2> QED
    BY <1>2
<1>4. fold2 = FoldOf("from", <<m, t>>, SearchStart, q, n)
  BY DEF FoldOf
<1> HIDE DEF fold, fold2
<1> QED
  BY <1>1, <1>3, <1>4

\* The words of final rows that are not deleted.
LiveWords(m) ==
  {w \in Words : \E j \in 1..Len(m.words) :
                   LastOf(m.words, Len(m.words), w, j) /\ j - 1 \notin m.del}

\* The routes of the automaton.
Trie(m, Q, row) ==
  /\ Q \in SUBSET Seq(Alphabet) /\ <<>> \in Q
  /\ \A q \in Seq(Alphabet), c \in Alphabet : Grown(q, c) \in Q => q \in Q
  /\ row \in [Q -> Nat] /\ row[<<>>] = m.init_state
  /\ \A q \in Q, c \in Alphabet :
       m.graph[row[q]][c] = IF Grown(q, c) \in Q THEN row[Grown(q, c)] ELSE Fsa!None
  /\ Finals(m.words, Len(m.words), Q, row, m.init_state)

\* Where the text q leads.
At(Q, row, q) == IF q \in Q THEN row[q] ELSE Fsa!None

\* An automaton has routes.
LEMMA TrieOf ==
  ASSUME NEW m, Automaton(m)
  PROVE  \E Q, row : Trie(m, Q, row)
<1>1. PICK g, size : Graph(m, g, size)
  BY DEF Automaton
<1>2. PICK Q, row : Routes(g, m.words, Len(m.words), size, Q, row)
  BY <1>1 DEF Graph, Inserted
<1>3. PICK U, F : Tree(m.graph, 0..(size - 1), Q, row, m.init_state, U, F)
  BY <1>1, <1>2 DEF Routes, Graph, Automaton
<1>4. Finals(m.words, Len(m.words), Q, row, m.init_state)
  BY <1>2 DEF Routes, Automaton
<1>5. row \in [Q -> U] /\ U \in SUBSET (0..(size - 1)) /\ 0..(size - 1) \in SUBSET Nat
  BY <1>3 DEF Tree
<1>6. row \in [Q -> Nat]
  BY <1>5
<1>7. Trie(m, Q, row)
  BY <1>3, <1>4, <1>6 DEF Trie, Tree
<1> QED
  BY <1>7

\* A text ends at a final row that is not deleted just when it is one of these words.
LEMMA MatchRight ==
  ASSUME NEW m, Automaton(m), NEW Q, NEW row, Trie(m, Q, row), NEW s, NEW to, to = At(Q, row, s)
  PROVE  Fsa!Matches(m, to) <=> s \in LiveWords(m)
<1>1. PICK ws : ws = m.words
  OBVIOUS
<1>2. ws \in Seq(Words) /\ m.init_state = Len(ws)
  BY <1>1 DEF Automaton, Counted
<1>3. PICK n \in Nat : n = Len(ws)
  BY <1>2
<1>4. Finals(ws, n, Q, row, n) /\ row \in [Q -> Nat]
  BY <1>1, <1>2, <1>3 DEF Trie
<1>5. s \in LiveWords(m) <=>
        s \in Words /\ \E j \in 1..n : LastOf(ws, n, s, j) /\ j - 1 \notin m.del
  BY <1>1, <1>3 DEF LiveWords
<1>6. Fsa!Matches(m, to) <=> to # Fsa!None /\ to < n /\ to \notin m.del
  BY <1>2, <1>3 DEF Fsa!Matches
<1>7. CASE s \notin Q
  <2>1. \A j \in 1..n : ws[j] # s
    BY <1>4, <1>7 DEF Finals
  <2> QED
    BY <1>5, <1>6, <1>7, <2>1 DEF At, LastOf
<1>8. CASE s \in Q
  <2>1. PICK r \in Nat : r = row[s] /\ to = r
    BY <1>4, <1>8 DEF At
  <2>2. r # Fsa!None
    BY DEF Fsa!None
  <2>3. CASE r >= n /\ \A j \in 1..n : ws[j] # s
    <3>1. ~(to < n)
      BY <2>1, <2>3
    <3> QED
      BY <1>5, <1>6, <2>3, <3>1 DEF LastOf
  <2>4. CASE LastOf(ws, n, s, r + 1)
    <3>1. r + 1 \in 1..n /\ ws[r + 1] = s /\ (r + 1) - 1 = r /\ r < n
      BY <2>1, <2>4 DEF LastOf
    <3>2. s \in Words
      BY <1>2, <1>3, <3>1
    <3>3. ASSUME NEW j \in 1..n, LastOf(ws, n, s, j) PROVE j = r + 1
      <4>1. /\ ws[j] = s /\ \A x \in (j + 1)..n : ws[x] # s
            /\ \A x \in ((r + 1) + 1)..n : ws[x] # s
        BY <2>4, <3>3 DEF LastOf
      <4>2. r + 1 \notin (j + 1)..n /\ j \notin ((r + 1) + 1)..n
        BY <3>1, <4>1
      <4> QED
        BY <3>1, <4>2
    <3>4. s \in LiveWords(m) <=> r \notin m.del
      <4>1. ASSUME r \notin m.del PROVE s \in LiveWords(m)
        BY <1>5, <2>4, <3>1, <3>2, <4>1
      <4>2. ASSUME s \in LiveWords(m) PROVE r \notin m.del
        <5>1. PICK j \in 1..n : LastOf(ws, n, s, j) /\ j - 1 \notin m.del
          BY <1>5, <4>2
        <5>2. j = r + 1
          BY <3>3, <5>1
        <5> QED
          BY <3>1, <5>1, <5>2
      <4> QED
        BY <4>1, <4>2
    <3> QED
      BY <1>6, <2>1, <2>2, <3>1, <3>4
  <2> QED
    BY <1>4, <1>8, <2>1, <2>3, <2>4 DEF Finals
<1> QED
  BY <1>7, <1>8

\* The words found when search has followed l letters from position a.
Early(L, t, a, l) ==
  {w \in L : /\ Occurs(w, t)
             /\ FirstAt(w, t) < a \/ (FirstAt(w, t) = a /\ Len(w) =< l)}

NextFound(L, t, s, E, E2) ==
  /\ s \in L /\ s \notin E => E2 = E \cup {s} /\ \A v \in E : Prec(t, v, s)
  /\ ~(s \in L /\ s \notin E) => E2 = E

\* The next letter adds the text read from a on, if it is a word and is not found yet,
\* and all others come before it.
LEMMA EarlyGrows ==
  ASSUME NEW L \in SUBSET Words, NEW t \in Inputs, NEW a \in 1..Len(t), NEW i \in a..Len(t),
         NEW l \in Nat, l = i - a, NEW s, s = SubSeq(t, a, i)
  PROVE  NextFound(L, t, s, Early(L, t, a, l), Early(L, t, a, l + 1))
<1>1. PICK n \in Nat : n = Len(t)
  BY MatcherAssumption
<1>2. t \in Seq(Nat) /\ a \in 1..n /\ i \in a..n /\ i \in 1..n
  BY <1>1, MatcherAssumption
<1>3. s \in Seq(Nat) /\ Len(s) = l + 1
  BY <1>1, <1>2
<1>4. ASSUME NEW w \in L PROVE w \in Seq(Nat) /\ Len(w) \in Nat
  BY <1>4, MatcherAssumption
<1>5. ASSUME NEW w \in L, Occurs(w, t)
      PROVE  /\ FirstAt(w, t) \in 1..n /\ OccursAt(w, t, FirstAt(w, t))
             /\ \A j \in 1..n : OccursAt(w, t, j) => FirstAt(w, t) =< j
  BY <1>1, <1>2, <1>5, FirstAtIs
<1>6. OccursAt(s, t, a)
  <2>1. a + Len(s) - 1 = i
    BY <1>2, <1>3
  <2> QED
    BY <1>1, <1>2, <2>1 DEF OccursAt
<1>7. Occurs(s, t)
  BY <1>1, <1>2, <1>6 DEF Occurs
<1>8. ASSUME NEW w \in L, Occurs(w, t), FirstAt(w, t) = a, Len(w) = l + 1 PROVE w = s
  <2>1. OccursAt(w, t, a)
    BY <1>5, <1>8
  <2>2. a + Len(w) - 1 = i
    BY <1>2, <1>8
  <2> QED
    BY <2>1, <2>2 DEF OccursAt
<1>9. \A w \in L : w \in Early(L, t, a, l) <=>
        Occurs(w, t) /\ (FirstAt(w, t) < a \/ (FirstAt(w, t) = a /\ Len(w) =< l))
  BY DEF Early
<1>10. \A w \in L : w \in Early(L, t, a, l + 1) <=>
         Occurs(w, t) /\ (FirstAt(w, t) < a \/ (FirstAt(w, t) = a /\ Len(w) =< l + 1))
  BY DEF Early
<1>11. Early(L, t, a, l) \in SUBSET L /\ Early(L, t, a, l + 1) \in SUBSET L
  BY DEF Early
<1>12. ASSUME NEW w \in L, w # s PROVE w \in Early(L, t, a, l + 1) <=> w \in Early(L, t, a, l)
  <2>1. PICK k \in Nat : k = Len(w)
    BY <1>4
  <2>2. k =< l + 1 <=> k =< l \/ k = l + 1
    OBVIOUS
  <2> QED
    BY <1>8, <1>9, <1>10, <1>12, <2>1, <2>2
<1>13. s \in L => s \in Early(L, t, a, l + 1)
  <2> SUFFICES ASSUME s \in L PROVE s \in Early(L, t, a, l + 1)
    OBVIOUS
  <2>1. PICK f \in 1..n : f = FirstAt(s, t) /\ f =< a
    BY <1>2, <1>5, <1>6, <1>7
  <2>2. f < a \/ f = a
    BY <1>2, <2>1
  <2>3. Len(s) =< l + 1
    BY <1>3
  <2>4. FirstAt(s, t) < a \/ (FirstAt(s, t) = a /\ Len(s) =< l + 1)
    BY <2>1, <2>2, <2>3, Zenon
  <2> QED
    BY <1>7, <1>10, <2>4, Zenon
<1>14. ASSUME s \in L, s \notin Early(L, t, a, l), NEW v \in Early(L, t, a, l)
       PROVE  Prec(t, v, s)
  <2>1. PICK f \in 1..n : f = FirstAt(s, t) /\ f =< a
    BY <1>2, <1>5, <1>6, <1>7, <1>14
  <2>2. f = a
    BY <1>2, <1>7, <1>9, <1>14, <2>1
  <2>3. PICK k \in Nat : k = Len(v)
    BY <1>4, <1>11, <1>14
  <2>4. FirstAt(v, t) < a \/ (FirstAt(v, t) = a /\ k =< l)
    BY <1>9, <1>11, <1>14, <2>3
  <2>5. k =< l => k < l + 1
    OBVIOUS
  <2> QED
    BY <1>3, <2>1, <2>2, <2>3, <2>4, <2>5 DEF Prec
<1> HIDE DEF Early, Prec
<1>15. PICK E : E = Early(L, t, a, l)
  OBVIOUS
<1>16. PICK E2 : E2 = Early(L, t, a, l + 1)
  OBVIOUS
<1>17. /\ E \in SUBSET L /\ E2 \in SUBSET L /\ \A w \in L : w # s => (w \in E2 <=> w \in E)
       /\ s \in L => s \in E2
  BY <1>11, <1>12, <1>13, <1>15, <1>16
<1>18. ASSUME s \in L, s \notin E PROVE E2 = E \cup {s}
  BY <1>17, <1>18
<1>19. ASSUME ~(s \in L /\ s \notin E) PROVE E2 = E
  <2>1. \A w \in L : w \in E2 <=> w \in E
    BY <1>17, <1>19
  <2> QED
    BY <1>17, <2>1
<1>20. s \in L /\ s \notin E => \A v \in E : Prec(t, v, s)
  BY <1>14, <1>15
<1>21. NextFound(L, t, s, E, E2)
  BY <1>18, <1>19, <1>20, Zenon DEF NextFound
<1> QED
  BY <1>15, <1>16, <1>21, Zenon

\* r has the words of E in the order of a reply.
Listed(L, t, E, r) ==
  /\ r \in Seq(L) /\ Fsa!ToSet(r) = E
  /\ \A x, y \in 1..Len(r) : x < y => Prec(t, r[x], r[y])

\* A word that comes after all others is appended.
LEMMA ListGrows ==
  ASSUME NEW L, NEW t, NEW E, NEW r, Listed(L, t, E, r),
         NEW s \in L, \A v \in E : Prec(t, v, s)
  PROVE  Listed(L, t, E \cup {s}, Append(r, s))
<1>1. r \in Seq(L) /\ Fsa!ToSet(r) = E
  BY DEF Listed
<1>2. \A x, y \in 1..Len(r) : x < y => Prec(t, r[x], r[y])
  BY DEF Listed
<1>3. PICK n \in Nat : n = Len(r)
  BY <1>1
<1>4. PICK q : q = Append(r, s)
  OBVIOUS
<1>5. q \in Seq(L) /\ Len(q) = n + 1 /\ q[n + 1] = s /\ \A x \in 1..n : q[x] = r[x]
  BY <1>1, <1>3, <1>4, AppendProperties
<1>6. \A x \in 1..n : r[x] \in E
  BY <1>1, <1>3 DEF Fsa!ToSet
<1>7. \A x \in 1..(n + 1) : x = n + 1 \/ x \in 1..n
  OBVIOUS
<1>8. Fsa!ToSet(q) = E \cup {s}
  <2>1. DOMAIN q = 1..(n + 1) /\ DOMAIN r = 1..n
    BY <1>1, <1>3, <1>5
  <2>2. \A v \in E : \E x \in 1..n : r[x] = v
    BY <1>1, <2>1 DEF Fsa!ToSet
  <2>3. \A x \in 1..n : x \in 1..(n + 1)
    OBVIOUS
  <2>4. n + 1 \in 1..(n + 1)
    OBVIOUS
  <2>5. \A x \in 1..(n + 1) : q[x] \in E \cup {s}
    BY <1>5, <1>6, <1>7
  <2>6. \A v \in E \cup {s} : \E x \in 1..(n + 1) : q[x] = v
    BY <1>5, <2>2, <2>3, <2>4
  <2>7. Fsa!ToSet(q) = {q[x] : x \in 1..(n + 1)}
    BY <2>1 DEF Fsa!ToSet
  <2> QED
    BY <2>5, <2>6, <2>7
<1> HIDE DEF Prec
<1>9. ASSUME NEW x \in 1..(n + 1), NEW y \in 1..(n + 1), x < y PROVE Prec(t, q[x], q[y])
  <2>1. x \in 1..n /\ q[x] = r[x]
    BY <1>5, <1>9
  <2>2. CASE y = n + 1
    <3>1. Prec(t, r[x], s)
      BY <1>6, <2>1
    <3> QED
      BY <1>5, <2>1, <2>2, <3>1
  <2>3. CASE y \in 1..n
    <3>1. Prec(t, r[x], r[y]) /\ q[y] = r[y]
      BY <1>2, <1>3, <1>5, <1>9, <2>1, <2>3
    <3> QED
      BY <2>1, <3>1
  <2> QED
    BY <1>7, <2>2, <2>3
<1> QED
  BY <1>4, <1>5, <1>8, <1>9 DEF Listed

\* The accumulator l letters after position a.
SearchAcc(acc, a) == acc = [cur |-> acc.cur, start |-> a, result |-> acc.result]
Searching(m, Q, row, t, a, l, acc) ==
  /\ SearchAcc(acc, a) /\ acc.cur = At(Q, row, SubSeq(t, a, a + l - 1))
  /\ Listed(LiveWords(m), t, Early(LiveWords(m), t, a, l), acc.result)

\* A letter of the search.
LEMMA SearchLetterRight ==
  ASSUME NEW m, Automaton(m), NEW Q, NEW row, Trie(m, Q, row), NEW t \in Inputs,
         NEW a \in 1..Len(t), NEW i \in a..Len(t), NEW l \in Nat, l = i - a,
         NEW acc, Searching(m, Q, row, t, a, l, acc),
         NEW h, h = SearchLetter(m, t, acc, i)
  PROVE  Searching(m, Q, row, t, a, l + 1, h)
<1>1. t \in Seq(Alphabet) /\ t \in Seq(Nat)
  BY MatcherAssumption, MatchersAssumption
<1>2. a \in Nat /\ i \in Nat /\ a + l - 1 = i - 1 /\ a + (l + 1) - 1 = i
  BY <1>1
<1>3. PICK p : p = SubSeq(t, a, i - 1)
  OBVIOUS
<1>4. PICK s : s = SubSeq(t, a, i)
  OBVIOUS
<1>5. PICK c : c = t[i]
  OBVIOUS
<1>6. p \in Seq(Alphabet) /\ c \in Alphabet /\ s = Grown(p, c)
  BY <1>1, <1>3, <1>4, <1>5, PartGrows
<1>7. PICK L : L = LiveWords(m)
  OBVIOUS
<1>8. L \in SUBSET Words
  BY <1>7 DEF LiveWords
<1>9. PICK E : E = Early(L, t, a, l)
  OBVIOUS
<1>10. PICK cur, r : cur = acc.cur /\ r = acc.result
  OBVIOUS
<1>11. /\ acc = [cur |-> cur, start |-> a, result |-> r]
       /\ cur = At(Q, row, p) /\ Listed(L, t, E, r)
  BY <1>2, <1>3, <1>7, <1>9, <1>10 DEF Searching, SearchAcc
<1>12. PICK to : to = IF cur = Fsa!None THEN Fsa!None ELSE m.graph[cur][c]
  OBVIOUS
<1>13. to = At(Q, row, s)
  <2>1. /\ row \in [Q -> Nat] /\ (s \in Q => p \in Q)
        /\ p \in Q => m.graph[row[p]][c] = IF s \in Q THEN row[s] ELSE Fsa!None
    BY <1>6 DEF Trie
  <2>2. p \in Q => row[p] \in Nat /\ row[p] # Fsa!None
    BY <2>1 DEF Fsa!None
  <2>3. CASE p \in Q
    BY <1>11, <1>12, <2>1, <2>2, <2>3 DEF At
  <2>4. CASE p \notin Q
    BY <1>11, <1>12, <2>1, <2>4 DEF At
  <2> QED
    BY <2>3, <2>4
<1>14. Fsa!Matches(m, to) <=> s \in L
  BY <1>7, <1>13, MatchRight
<1>15. Fsa!ToSet(r) = E
  BY <1>11 DEF Listed
<1>16. PICK r2 : r2 = IF s \in L /\ s \notin E THEN Append(r, s) ELSE r
  OBVIOUS
<1>17. h = [cur |-> to, start |-> a, result |-> r2]
  <2>1. acc.cur = cur /\ acc.start = a /\ acc.result = r
    BY <1>11
  <2>2. h = [acc EXCEPT !.cur = to, !.result = r2]
    BY <1>4, <1>5, <1>12, <1>14, <1>15, <1>16, <2>1 DEF SearchLetter
  <2> QED
    BY <1>11, <2>2
<1>18. h.cur = to /\ h.start = a /\ h.result = r2
  BY <1>17
<1>19. SearchAcc(h, a)
  BY <1>17, <1>18, Zenon DEF SearchAcc
<1>20. Listed(L, t, Early(L, t, a, l + 1), r2)
  <2>1. NextFound(L, t, s, E, Early(L, t, a, l + 1))
    BY <1>4, <1>8, <1>9, EarlyGrows
  <2>2. CASE s \in L /\ s \notin E
    <3>1. Listed(L, t, E \cup {s}, Append(r, s))
      BY <1>11, <2>1, <2>2, ListGrows, Zenon DEF NextFound
    <3> QED
      BY <1>16, <2>1, <2>2, <3>1 DEF NextFound
  <2>3. CASE ~(s \in L /\ s \notin E)
    BY <1>11, <1>16, <2>1, <2>3 DEF NextFound
  <2> QED
    BY <2>2, <2>3
<1> QED
  BY <1>2, <1>4, <1>7, <1>13, <1>18, <1>19, <1>20 DEF Searching

\* Before the first position nothing is found, with the last letter from a position all
\* that is found before the next, and in the end every word that occurs.
EarlyBounds(L, t, n) ==
  /\ Early(L, t, 1, 0) = {}
  /\ \A a \in 1..n, l \in Nat : l = n - a + 1 => Early(L, t, a, l) = Early(L, t, a + 1, 0)
  /\ Early(L, t, n + 1, 0) = {w \in L : Occurs(w, t)}

\* The bounds hold for all words and texts.
LEMMA EarlyEnds ==
  ASSUME NEW L \in SUBSET Words, NEW t \in Inputs, NEW n \in Nat, n = Len(t)
  PROVE  EarlyBounds(L, t, n)
<1>1. PICK W : W = {w \in L : Occurs(w, t)}
  OBVIOUS
<1>2. t \in Seq(Nat)
  BY MatcherAssumption
<1>3. ASSUME NEW w \in L
      PROVE  /\ Len(w) \in Nat /\ Len(w) # 0
             /\ Occurs(w, t) => FirstAt(w, t) \in 1..n /\ Len(w) =< n - FirstAt(w, t) + 1
  <2>1. w \in Seq(Nat) /\ w # <<>>
    BY <1>3, MatcherAssumption
  <2>2. PICK k \in Nat : k = Len(w) /\ k # 0
    BY <2>1
  <2>3. ASSUME Occurs(w, t) PROVE FirstAt(w, t) \in 1..n /\ k =< n - FirstAt(w, t) + 1
    <3>1. PICK f \in 1..n : f = FirstAt(w, t) /\ OccursAt(w, t, f)
      BY <1>2, <2>3, FirstAtIs
    <3>2. f + k - 1 =< n
      BY <2>2, <3>1 DEF OccursAt
    <3>3. k =< n - f + 1
      BY <3>2
    <3> QED
      BY <3>1, <3>3
  <2> QED
    BY <2>2, <2>3
<1>4. PICK at : at = [w \in L |-> FirstAt(w, t)]
  OBVIOUS
<1>5. PICK len : len = [w \in L |-> Len(w)]
  OBVIOUS
<1>6. \A w \in L : at[w] = FirstAt(w, t) /\ len[w] = Len(w)
  BY <1>4, <1>5
<1>7. \A a, l : Early(L, t, a, l) = {w \in W : at[w] < a \/ (at[w] = a /\ len[w] =< l)}
  BY <1>1, <1>6 DEF Early
<1>8. \A w \in W : at[w] \in 1..n /\ len[w] \in Nat /\ len[w] # 0 /\ len[w] =< n - at[w] + 1
  BY <1>1, <1>3, <1>6
<1>9. Early(L, t, 1, 0) = {}
  BY <1>7, <1>8
<1>10. ASSUME NEW a \in 1..n, NEW l \in Nat, l = n - a + 1
       PROVE  Early(L, t, a, l) = Early(L, t, a + 1, 0)
  <2>1. ASSUME NEW w \in W
        PROVE  at[w] < a \/ (at[w] = a /\ len[w] =< l)
                 <=> at[w] < a + 1 \/ (at[w] = a + 1 /\ len[w] =< 0)
    <3>1. PICK f \in 1..n, k \in Nat : f = at[w] /\ k = len[w] /\ k # 0 /\ k =< n - f + 1
      BY <1>8
    <3>2. f < a \/ (f = a /\ k =< l) <=> f < a + 1 \/ (f = a + 1 /\ k =< 0)
      BY <1>10, <3>1
    <3> QED
      BY <3>1, <3>2
  <2>2. Early(L, t, a, l) = {w \in W : at[w] < a \/ (at[w] = a /\ len[w] =< l)}
    BY <1>7
  <2>3. Early(L, t, a + 1, 0) = {w \in W : at[w] < a + 1 \/ (at[w] = a + 1 /\ len[w] =< 0)}
    BY <1>7
  <2> QED
    BY <2>1, <2>2, <2>3
<1>11. Early(L, t, n + 1, 0) = W
  <2>1. \A w \in W : at[w] < n + 1
    BY <1>8
  <2> QED
    BY <1>7, <2>1
<1> QED
  BY <1>1, <1>9, <1>10, <1>11 DEF EarlyBounds

\* Between two positions, the next one a.
Resting(m, t, a, acc) ==
  /\ \E x : SearchAcc(acc, x)
  /\ Listed(LiveWords(m), t, Early(LiveWords(m), t, a, 0), acc.result)

\* All letters from a position on.
LEMMA SearchFromRight ==
  ASSUME NEW m, Automaton(m), NEW Q, NEW row, Trie(m, Q, row), NEW t \in Inputs,
         NEW a \in 1..Len(t), NEW acc, Resting(m, t, a, acc),
         NEW h, h = SearchFrom(m, t, acc, a)
  PROVE  Resting(m, t, a + 1, h)
<1>1. t \in Seq(Alphabet) /\ t \in Seq(Nat)
  BY MatcherAssumption, MatchersAssumption
<1>2. PICK n \in Nat : n = Len(t) - a + 1
  <2>1. Len(t) - a + 1 \in Nat
    BY <1>1
  <2> QED
    BY <2>1
<1>3. PICK r : r = acc.result
  OBVIOUS
<1>4. PICK init : init = m.init_state
  OBVIOUS
<1>5. PICK base : base = [acc EXCEPT !.cur = init, !.start = a]
  OBVIOUS
<1>6. base = [cur |-> init, start |-> a, result |-> r]
  <2>1. PICK cur, x : acc = [cur |-> cur, start |-> x, result |-> r]
    BY <1>3 DEF Resting, SearchAcc
  <2> QED
    BY <1>5, <2>1
<1>7. base.cur = init /\ base.start = a /\ base.result = r
  BY <1>6
<1>8. Searching(m, Q, row, t, a, 0, base)
  <2>1. SearchAcc(base, a)
    BY <1>6, <1>7, Zenon DEF SearchAcc
  <2>2. SubSeq(t, a, a + 0 - 1) = <<>>
    BY <1>1
  <2>3. At(Q, row, <<>>) = init
    BY <1>4 DEF Trie, At
  <2>4. Listed(LiveWords(m), t, Early(LiveWords(m), t, a, 0), r)
    BY <1>3 DEF Resting
  <2> QED
    BY <1>7, <2>1, <2>2, <2>3, <2>4 DEF Searching
<1>9. PICK fold : fold = FoldOf("letter", <<m, t>>, base, Positions(a, n), n)
  OBVIOUS
<1>10. h = fold[1..n]
  <2>1. base = SearchBase(m, acc, a)
    BY <1>4, <1>5 DEF SearchBase
  <2>2. FromFold(m, t, acc, a, n, base)
    BY <1>1, <1>2, <2>1, SearchFromFold, Zenon
  <2> QED
    BY <1>9, <2>2 DEF FromFold
<1>11. /\ fold[1..0] = base
       /\ \A k \in 1..n : fold[1..k] = SearchLetter(m, t, fold[1..(k - 1)], a + k - 1)
  <2>1. Steps("letter", <<m, t>>, base, Positions(a, n), n, fold)
    BY <1>9, FoldOfSteps, Zenon
  <2>2. \A x, i : FoldStep("letter", <<m, t>>, x, i) = SearchLetter(m, t, x, i)
    BY DEF FoldStep
  <2>3. \A k \in 1..n : Positions(a, n)[k] = a + k - 1
    BY DEF Positions
  <2> QED
    BY <2>1, <2>2, <2>3 DEF Steps
<1> DEFINE A(k) == fold[1..k]
           S == {k \in 0..n : Searching(m, Q, row, t, a, k, A(k))}
<1>12. 0 \in S
  BY <1>8, <1>11
<1>13. ASSUME NEW k \in 1..n, k - 1 \in S PROVE k \in S
  <2>1. PICK l \in Nat : l = k - 1 /\ k = l + 1
    <3>1. k - 1 \in Nat /\ k = (k - 1) + 1
      OBVIOUS
    <3> QED
      BY <3>1
  <2>2. PICK i \in a..Len(t) : i = a + k - 1 /\ l = i - a
    <3>1. a + k - 1 \in a..Len(t) /\ l = (a + k - 1) - a
      BY <1>1, <1>2, <2>1
    <3> QED
      BY <3>1
  <2>3. PICK x : x = A(l)
    OBVIOUS
  <2>4. PICK y : y = A(k)
    OBVIOUS
  <2>5. Searching(m, Q, row, t, a, l, x)
    BY <1>13, <2>1, <2>3
  <2>6. y = SearchLetter(m, t, x, i)
    BY <1>11, <2>1, <2>2, <2>3, <2>4
  <2>7. Searching(m, Q, row, t, a, l + 1, y)
    BY <2>2, <2>5, <2>6, SearchLetterRight, Zenon
  <2>8. k \in 0..n /\ Searching(m, Q, row, t, a, k, A(k))
    BY <2>1, <2>4, <2>7
  <2> QED
    BY <2>8
<1>14. \A k \in 0..n : k \in S
  <2> HIDE DEF S
  <2> QED
    BY <1>12, <1>13, CountUp
<1>15. Searching(m, Q, row, t, a, n, h)
  BY <1>10, <1>14
<1>16. LiveWords(m) \in SUBSET Words
  BY DEF LiveWords
<1>17. Early(LiveWords(m), t, a, n) = Early(LiveWords(m), t, a + 1, 0)
  <2>1. Len(t) \in Nat
    BY <1>1
  <2> QED
    <3>1. EarlyBounds(LiveWords(m), t, Len(t))
      BY <1>16, <2>1, EarlyEnds, Zenon
    <3> QED
      BY <1>2, <3>1 DEF EarlyBounds
<1> QED
  BY <1>15, <1>17 DEF Searching, Resting

\* There are finitely many words in the automaton.
LEMMA LiveFinite ==
  ASSUME NEW m, Automaton(m)
  PROVE  LiveWords(m) \in SUBSET Words /\ IsFiniteSet(LiveWords(m))
<1>1. PICK n \in Nat : n = Len(m.words)
  BY DEF Automaton, Counted
<1>2. PICK buf \in [1..n -> Words] : buf = m.words
  BY <1>1 DEF Automaton, Counted
<1>3. PICK S : S = {buf[i] : i \in DOMAIN buf}
  OBVIOUS
<1>4. IsFiniteSet(S)
  BY <1>3, FirstWords
<1>5. LiveWords(m) \subseteq S
  BY <1>1, <1>2, <1>3 DEF LiveWords, LastOf
<1>6. LiveWords(m) \in SUBSET Words
  BY DEF LiveWords
<1> QED
  BY <1>4, <1>5, <1>6, FS_Subset

\* search gives the reply for the words of final rows that are not deleted, whatever the
\* entries, their order and their marks (ahocorasick.cpp:107-150).
THEOREM SearchCorrect ==
  ASSUME NEW m, Automaton(m), NEW t \in Inputs
  PROVE  Fsa!search(m, t) = Found(LiveWords(m), t)
<1>1. t \in Seq(Alphabet) /\ t \in Seq(Nat)
  BY MatcherAssumption, MatchersAssumption
<1>2. PICK n \in Nat : n = Len(t)
  BY <1>1
<1>3. PICK Q, row : Trie(m, Q, row)
  BY TrieOf
<1>4. PICK L : L = LiveWords(m)
  OBVIOUS
<1>5. L \in SUBSET Words /\ IsFiniteSet(L)
  BY <1>4, LiveFinite
<1>6. PICK W : W = {w \in L : Occurs(w, t)}
  OBVIOUS
<1>7. Early(L, t, 1, 0) = {} /\ Early(L, t, n + 1, 0) = W
  <2>1. EarlyBounds(L, t, n)
    BY <1>2, <1>5, EarlyEnds, Zenon
  <2> QED
    BY <1>6, <2>1 DEF EarlyBounds
<1>8. PICK fold : fold = FoldOf("from", <<m, t>>, SearchStart, Places(n), n)
  OBVIOUS
<1>9. PICK r : r = fold[1..n].result
  OBVIOUS
<1>10. Fsa!search(m, t) = r
  BY <1>1, <1>2, <1>8, <1>9, SearchFold
<1>11. /\ fold[1..0] = SearchStart
       /\ \A a \in 1..n : fold[1..a] = SearchFrom(m, t, fold[1..(a - 1)], a)
  <2>1. Steps("from", <<m, t>>, SearchStart, Places(n), n, fold)
    BY <1>8, FoldOfSteps, Zenon
  <2>2. \A x, a : FoldStep("from", <<m, t>>, x, a) = SearchFrom(m, t, x, a)
    BY DEF FoldStep
  <2>3. \A a \in 1..n : Places(n)[a] = a
    BY DEF Places
  <2> QED
    BY <2>1, <2>2, <2>3 DEF Steps
<1> DEFINE A(k) == fold[1..k]
           S == {k \in 0..n : Resting(m, t, k + 1, A(k))}
<1>12. 0 \in S
  <2>1. PICK x : x = SearchStart
    OBVIOUS
  <2>2. x.cur = Fsa!None /\ x.start = 0 /\ x.result = <<>>
    BY <2>1 DEF SearchStart
  <2>3. SearchAcc(x, 0)
    BY <2>1, <2>2, Zenon DEF SearchAcc, SearchStart
  <2>4. <<>> \in Seq(L) /\ Len(<<>>) = 0 /\ Fsa!ToSet(<<>>) = {}
    BY DEF Fsa!ToSet
  <2>5. Listed(L, t, {}, <<>>)
    BY <2>4 DEF Listed
  <2>6. Resting(m, t, 1, x)
    BY <1>4, <1>7, <2>2, <2>3, <2>5 DEF Resting
  <2> QED
    BY <1>11, <2>1, <2>6
<1>13. ASSUME NEW k \in 1..n, k - 1 \in S PROVE k \in S
  <2>1. PICK x : x = A(k - 1)
    OBVIOUS
  <2>2. PICK y : y = A(k)
    OBVIOUS
  <2>3. (k - 1) + 1 = k
    OBVIOUS
  <2>4. Resting(m, t, k, x) /\ k \in 1..Len(t)
    BY <1>2, <1>13, <2>1, <2>3
  <2>5. y = SearchFrom(m, t, x, k)
    BY <1>11, <2>1, <2>2
  <2>6. Resting(m, t, k + 1, y)
    BY <1>3, <2>4, <2>5, SearchFromRight, Zenon
  <2>7. k \in 0..n /\ Resting(m, t, k + 1, A(k))
    BY <2>2, <2>6
  <2> QED
    BY <2>7
<1>14. \A k \in 0..n : k \in S
  <2> HIDE DEF S
  <2> QED
    BY <1>12, <1>13, CountUp
<1>15. Listed(L, t, W, r)
  <2>1. Resting(m, t, n + 1, A(n))
    BY <1>14
  <2> QED
    BY <1>4, <1>7, <1>9, <1>6, <2>1 DEF Resting
<1>16. PICK R : R = {x \in W \X W : Prec(t, x[1], x[2])}
  OBVIOUS
<1>17. IsFiniteSet(W) /\ Orders(R, W) /\ Sorts(R, W, Found(L, t))
  BY <1>5, <1>6, <1>16, FoundSorted
<1>18. PICK c \in Nat : c = Len(r)
  BY <1>15 DEF Listed
<1>19. r \in Seq(L) /\ Fsa!ToSet(r) = W /\ \A x, y \in 1..c : x < y => Prec(t, r[x], r[y])
  BY <1>15, <1>18 DEF Listed
<1>20. /\ r \in [1..c -> W] /\ \A w \in W : \E x \in 1..c : r[x] = w
  <2>1. r \in [1..c -> L] /\ DOMAIN r = 1..c
    BY <1>18, <1>19
  <2>2. W = {r[x] : x \in 1..c}
    BY <1>19, <2>1 DEF Fsa!ToSet
  <2> QED
    BY <2>1, <2>2
<1> HIDE DEF Prec
<1>21. ASSUME NEW x \in 1..c, NEW y \in 1..c, x < y PROVE <<r[x], r[y]>> \in R
  <2>1. r[x] \in W /\ r[y] \in W /\ Prec(t, r[x], r[y])
    BY <1>19, <1>20, <1>21
  <2> QED
    BY <1>16, <2>1
<1>22. ASSUME NEW x \in 1..c, NEW y \in 1..c, r[x] = r[y] PROVE x = y
  <2>1. r[x] \in W /\ <<r[x], r[x]>> \notin R
    BY <1>17, <1>20 DEF Orders
  <2>2. ~(x < y) /\ ~(y < x)
    BY <1>21, <1>22, <2>1
  <2> QED
    BY <2>2
<1>23. Cardinality(W) = c
  <2>1. r \in Bijection(1..c, W)
    BY <1>20, <1>22, Zenon DEF Bijection, Injection, Surjection, IsInjective
  <2>2. IsFiniteSet(1..c) /\ Cardinality(1..c) = c
    BY FS_Interval
  <2>3. Cardinality(1..c) = Cardinality(W)
    BY <2>1, <2>2, FS_Bijection DEF ExistsBijection
  <2> QED
    BY <2>2, <2>3
<1>24. Sorts(R, W, r)
  BY <1>20, <1>21, <1>23 DEF Sorts, Increases
<1>25. r = Found(L, t)
  BY <1>17, <1>24, SortUnique
<1> QED
  BY <1>4, <1>10, <1>25

-----------------------------------------------------------------------------
(* The words at the start are sorted in the order of std::string.          *)

\* v comes before w: they agree up to letter n, where v ends or has the smaller letter.
Lexi(v, w, n) ==
  /\ n \in Nat /\ n =< Len(v) /\ n < Len(w)
  /\ \A k \in 1..n : v[k] = w[k]
  /\ n < Len(v) => v[n + 1] < w[n + 1]

\* Before, letter by letter.
LEMMA BeforeLexi ==
  ASSUME NEW v \in Seq(Nat), NEW w \in Seq(Nat)
  PROVE  Fsa!Before(v, w) <=> \E n \in Nat : Lexi(v, w, n)
<1>1. PICK l \in Nat, m \in Nat : l = Len(v) /\ m = Len(w)
  OBVIOUS
<1>2. ASSUME NEW n \in 0..l, n < m
      PROVE  SubSeq(v, 1, n) = SubSeq(w, 1, n) <=> \A k \in 1..n : v[k] = w[k]
  <2>1. PICK p : p = SubSeq(v, 1, n)
    OBVIOUS
  <2>2. PICK q : q = SubSeq(w, 1, n)
    OBVIOUS
  <2>3. p \in Seq(Nat) /\ Len(p) = n /\ \A k \in 1..n : p[k] = v[k]
    BY <1>1, <1>2, <2>1
  <2>4. q \in Seq(Nat) /\ Len(q) = n /\ \A k \in 1..n : q[k] = w[k]
    BY <1>1, <1>2, <2>2
  <2>5. p = [k \in 1..n |-> p[k]] /\ q = [k \in 1..n |-> q[k]]
    BY <2>3, <2>4
  <2>6. ASSUME \A k \in 1..n : v[k] = w[k] PROVE p = q
    <3>1. \A k \in 1..n : p[k] = q[k]
      BY <2>3, <2>4, <2>6
    <3>2. [k \in 1..n |-> p[k]] = [k \in 1..n |-> q[k]]
      BY <3>1
    <3> QED
      BY <2>5, <3>2, Zenon
  <2>7. ASSUME p = q PROVE \A k \in 1..n : v[k] = w[k]
    BY <2>3, <2>4, <2>7
  <2> QED
    BY <2>1, <2>2, <2>6, <2>7
<1>3. \A n : n \in 0..l <=> n \in Nat /\ n =< l
  OBVIOUS
<1>4. ASSUME NEW n \in 0..l, n < m, SubSeq(v, 1, n) = SubSeq(w, 1, n), n < l => v[n + 1] < w[n + 1]
      PROVE  Lexi(v, w, n)
  BY <1>1, <1>2, <1>3, <1>4 DEF Lexi
<1>5. ASSUME NEW n \in Nat, Lexi(v, w, n)
      PROVE  /\ n \in 0..l /\ n < m /\ SubSeq(v, 1, n) = SubSeq(w, 1, n)
             /\ n < l => v[n + 1] < w[n + 1]
  BY <1>1, <1>2, <1>3, <1>5 DEF Lexi
<1>6. Fsa!Before(v, w) <=>
        \E n \in 0..l : /\ n < m /\ SubSeq(v, 1, n) = SubSeq(w, 1, n)
                        /\ n < l => v[n + 1] < w[n + 1]
  BY <1>1 DEF Fsa!Before
<1>7. \A n \in 0..l : n \in Nat
  OBVIOUS
<1> HIDE DEF Lexi
<1> QED
  BY <1>4, <1>5, <1>6, <1>7, Zenon

\* It is an order.
LEMMA LexiOrders ==
  ASSUME NEW S \in SUBSET Seq(Nat), NEW R, R = {x \in S \X S : Fsa!Before(x[1], x[2])}
  PROVE  Orders(R, S)
<1>1. ASSUME NEW v \in S, NEW w \in S PROVE <<v, w>> \in R <=> \E n \in Nat : Lexi(v, w, n)
  <2>1. <<v, w>> \in R <=> Fsa!Before(v, w)
    OBVIOUS
  <2>2. v \in Seq(Nat) /\ w \in Seq(Nat)
    OBVIOUS
  <2> QED
    BY <2>1, <2>2, BeforeLexi
<1>2. \A v \in S : Len(v) \in Nat /\ \A k \in 1..Len(v) : v[k] \in Nat
  OBVIOUS
<1>3. ASSUME NEW v \in S, NEW n \in Nat, Lexi(v, v, n) PROVE FALSE
  <2>1. n < Len(v) /\ v[n + 1] < v[n + 1] /\ n + 1 \in 1..Len(v)
    BY <1>2, <1>3 DEF Lexi
  <2> QED
    BY <1>2, <2>1
<1>4. ASSUME NEW u \in S, NEW v \in S, NEW w \in S, NEW m \in Nat, Lexi(u, v, m),
             NEW n \in Nat, Lexi(v, w, n)
      PROVE  \E k \in Nat : Lexi(u, w, k)
  <2>1. PICK a \in Nat, b \in Nat, c \in Nat : a = Len(u) /\ b = Len(v) /\ c = Len(w)
    BY <1>2
  <2>2. /\ m =< a /\ m < b /\ (\A k \in 1..m : u[k] = v[k]) /\ (m < a => u[m + 1] < v[m + 1])
        /\ n =< b /\ n < c /\ (\A k \in 1..n : v[k] = w[k]) /\ (n < b => v[n + 1] < w[n + 1])
    BY <1>4, <2>1 DEF Lexi
  <2>3. /\ \A k \in 1..a : u[k] \in Nat
        /\ \A k \in 1..b : v[k] \in Nat
        /\ \A k \in 1..c : w[k] \in Nat
    BY <1>2, <2>1
  <2>4. CASE m < n
    <3>1. \A k \in 1..m : k \in 1..n
      BY <2>4
    <3>2. m + 1 \in 1..n
      BY <2>4
    <3>3. m < c /\ v[m + 1] = w[m + 1]
      BY <2>2, <2>4, <3>2
    <3>4. (\A k \in 1..m : u[k] = w[k]) /\ (m < a => u[m + 1] < w[m + 1])
      BY <2>2, <3>1, <3>3
    <3>5. Lexi(u, w, m)
      BY <2>1, <2>2, <3>3, <3>4 DEF Lexi
    <3> QED
      BY <3>5
  <2>5. CASE n < m
    <3>1. \A k \in 1..n : k \in 1..m
      BY <2>5
    <3>2. n + 1 \in 1..m /\ n < b /\ n =< a
      BY <2>2, <2>5
    <3>3. u[n + 1] = v[n + 1] /\ v[n + 1] < w[n + 1]
      BY <2>2, <3>2
    <3>4. (\A k \in 1..n : u[k] = w[k]) /\ u[n + 1] < w[n + 1]
      BY <2>2, <3>1, <3>3
    <3>5. Lexi(u, w, n)
      BY <2>1, <2>2, <3>2, <3>4 DEF Lexi
    <3> QED
      BY <3>5
  <2>6. CASE m = n
    <3>1. \A k \in 1..m : u[k] = w[k]
      BY <2>2, <2>6
    <3>2. m < a => u[m + 1] < w[m + 1]
      <4> SUFFICES ASSUME m < a PROVE u[m + 1] < w[m + 1]
        OBVIOUS
      <4>1. m + 1 \in 1..a /\ m + 1 \in 1..b /\ m + 1 \in 1..c
        BY <2>2, <2>6
      <4>2. u[m + 1] \in Nat /\ v[m + 1] \in Nat /\ w[m + 1] \in Nat
        BY <2>3, <4>1
      <4>3. u[m + 1] < v[m + 1] /\ v[m + 1] < w[m + 1]
        BY <2>2, <2>6
      <4> QED
        BY <4>2, <4>3
    <3>3. Lexi(u, w, m)
      BY <2>1, <2>2, <2>6, <3>1, <3>2 DEF Lexi
    <3> QED
      BY <3>3
  <2> QED
    BY <2>4, <2>5, <2>6
<1>5. ASSUME NEW v \in S, NEW w \in S, v # w
      PROVE  (\E n \in Nat : Lexi(v, w, n)) \/ \E n \in Nat : Lexi(w, v, n)
  <2>1. PICK a \in Nat, b \in Nat : a = Len(v) /\ b = Len(w)
    BY <1>2
  <2>2. /\ \A k \in 1..a : v[k] \in Nat
        /\ \A k \in 1..b : w[k] \in Nat
    BY <1>2, <2>1
  <2> DEFINE D == {k \in Nat : k = a \/ k = b \/ v[k + 1] # w[k + 1]}
  <2>3. PICK n \in D : \A k \in D : n =< k
    <3>1. D \in SUBSET Nat /\ a \in D
      OBVIOUS
    <3> HIDE DEF D
    <3> QED
      BY <3>1, LeastNatural
  <2>4. n \in Nat /\ n =< a /\ n =< b
    BY <2>3
  <2>5. \A k \in 1..n : v[k] = w[k]
    <3> SUFFICES ASSUME NEW k \in 1..n PROVE v[k] = w[k]
      OBVIOUS
    <3>1. k - 1 \in Nat /\ ~(n =< k - 1) /\ (k - 1) + 1 = k
      BY <2>4
    <3>2. k - 1 \notin D
      BY <2>3, <3>1
    <3> QED
      BY <3>1, <3>2
  <2>6. ~(n = a /\ n = b)
    <3> SUFFICES ASSUME n = a, n = b PROVE FALSE
      OBVIOUS
    <3>0. \A u \in Seq(Nat) : u = [k \in 1..Len(u) |-> u[k]]
      OBVIOUS
    <3>1. v = [k \in 1..n |-> v[k]] /\ w = [k \in 1..n |-> w[k]]
      <4>1. v \in Seq(Nat) /\ w \in Seq(Nat)
        OBVIOUS
      <4> QED
        BY <2>1, <3>0, <4>1, Zenon
    <3>2. [k \in 1..n |-> v[k]] = [k \in 1..n |-> w[k]]
      BY <2>5
    <3> QED
      BY <1>5, <3>1, <3>2, Zenon
  <2>7. CASE n = a
    <3>1. n < b
      BY <2>4, <2>6, <2>7
    <3>2. Lexi(v, w, n)
      BY <2>1, <2>4, <2>5, <2>7, <3>1 DEF Lexi
    <3> QED
      BY <2>4, <3>2
  <2>8. CASE n = b
    <3>1. n < a
      BY <2>4, <2>6, <2>8
    <3>2. Lexi(w, v, n)
      BY <2>1, <2>4, <2>5, <2>8, <3>1 DEF Lexi
    <3> QED
      BY <2>4, <3>2
  <2>9. CASE n < a /\ n < b
    <3>1. n + 1 \in 1..a /\ n + 1 \in 1..b /\ v[n + 1] # w[n + 1]
      BY <2>3, <2>4, <2>9
    <3>2. v[n + 1] < w[n + 1] \/ w[n + 1] < v[n + 1]
      BY <2>2, <3>1
    <3>3. Lexi(v, w, n) \/ Lexi(w, v, n)
      BY <2>1, <2>4, <2>5, <2>9, <3>2 DEF Lexi
    <3> QED
      BY <2>4, <3>3
  <2> QED
    BY <2>4, <2>7, <2>8, <2>9
<1> HIDE DEF Lexi
<1>6. \A v \in S : <<v, v>> \notin R
  BY <1>1, <1>3
<1>7. \A u, v, w \in S : <<u, v>> \in R /\ <<v, w>> \in R => <<u, w>> \in R
  BY <1>1, <1>4
<1>8. \A v, w \in S : v = w \/ <<v, w>> \in R \/ <<w, v>> \in R
  BY <1>1, <1>5
<1> QED
  BY <1>6, <1>7, <1>8 DEF Orders

\* Sorting the words at the start lists each of them.
LEMMA SortedWords ==
  ASSUME NEW S \in SUBSET Words, IsFiniteSet(S), NEW ws, ws = Fsa!Sorted(S, Fsa!Before)
  PROVE  ws \in Seq(Words) /\ {ws[i] : i \in 1..Len(ws)} = S
<1>1. S \in SUBSET Seq(Nat)
  BY MatcherAssumption
<1>2. PICK R : R = {x \in S \X S : Fsa!Before(x[1], x[2])}
  OBVIOUS
<1>3. Orders(R, S)
  BY <1>1, <1>2, LexiOrders
<1>4. PICK F : Sorts(R, S, F)
  BY <1>3, SortExists
<1>5. PICK n \in Nat : n = Cardinality(S)
  BY FS_CardinalityType
<1>6. \A v, w \in S : <<v, w>> \in R <=> Fsa!Before(v, w)
  BY <1>2
<1>7. Sorts(R, S, ws)
  <2> DEFINE Good(f) == \A i, j \in 1..n : i < j => Fsa!Before(f[i], f[j])
  <2>1. ws = CHOOSE f \in [1..n -> S] : Good(f)
    <3>1. Fsa!Cardinality(S) = n
      BY <1>5 DEF Fsa!Cardinality, Cardinality
    <3> QED
      BY <3>1 DEF Fsa!Sorted
  <2>2. ASSUME NEW f \in [1..n -> S] PROVE Good(f) <=> Sorts(R, S, f)
    BY <1>5, <1>6 DEF Sorts, Increases
  <2>3. F \in [1..n -> S] /\ Good(F)
    BY <1>4, <1>5, <2>2 DEF Sorts
  <2> HIDE DEF Good
  <2> QED
    BY <2>1, <2>2, <2>3
<1>8. ws \in [1..n -> S] /\ \A x \in S : \E i \in 1..n : ws[i] = x
  BY <1>3, <1>5, <1>7, SortCovers DEF Sorts
<1>9. ws \in Seq(Words) /\ Len(ws) = n
  <2>1. ws \in [1..n -> Words]
    BY <1>8
  <2> QED
    BY <2>1
<1>10. {ws[i] : i \in 1..n} = S
  BY <1>8
<1> QED
  BY <1>9, <1>10

-----------------------------------------------------------------------------
(* The words of the automaton, as commands change them.                    *)

\* A word that is an entry has a last entry.
LEMMA LastExists ==
  ASSUME NEW ws, NEW n \in Nat, NEW q, NEW i \in 1..n, ws[i] = q
  PROVE  \E j \in 1..n : LastOf(ws, n, q, j)
<1> DEFINE S == {d \in 0..(n - 1) : ws[n - d] = q}
<1>1. n - i \in 0..(n - 1) /\ n - (n - i) = i
  OBVIOUS
<1>2. n - i \in S /\ S \in SUBSET Nat
  BY <1>1
<1>3. PICK d \in S : \A e \in S : d =< e
  <2> HIDE DEF S
  <2> QED
    BY <1>2, LeastNatural
<1>4. PICK j \in 1..n : j = n - d /\ ws[j] = q
  <2>1. n - d \in 1..n /\ ws[n - d] = q
    BY <1>3
  <2> QED
    BY <2>1
<1>5. ASSUME NEW x \in (j + 1)..n PROVE ws[x] # q
  <2>1. n - x \in 0..(n - 1) /\ n - (n - x) = x /\ ~(d =< n - x)
    BY <1>4
  <2>2. n - x \notin S
    BY <1>3, <2>1
  <2> QED
    BY <2>1, <2>2
<1>6. LastOf(ws, n, q, j)
  BY <1>4, <1>5 DEF LastOf
<1> QED
  BY <1>6

\* The marks are those of entries.
Marked(m) == m.del \in SUBSET (0..(Len(m.words) - 1))

\* The words of entries that are added become words of the automaton, deleted before or not.
LEMMA LiveAdds ==
  ASSUME NEW m, m.words \in Seq(Words), Marked(m), NEW ws \in Seq(Words),
         NEW h, h.words = m.words \o ws, h.del = m.del
  PROVE  Marked(h) /\ LiveWords(h) = LiveWords(m) \cup {ws[i] : i \in 1..Len(ws)}
<1>1. PICK us : us = m.words
  OBVIOUS
<1>2. PICK del : del = m.del
  OBVIOUS
<1>3. PICK all : all = us \o ws
  OBVIOUS
<1>4. us \in Seq(Words)
  BY <1>1
<1>5. PICK l \in Nat, n \in Nat : l = Len(us) /\ n = Len(ws)
  BY <1>4
<1>6. del \in SUBSET (0..(l - 1))
  BY <1>1, <1>2, <1>5 DEF Marked
<1>7. all \in Seq(Words) /\ Len(all) = l + n
      /\ (\A i \in 1..l : all[i] = us[i]) /\ \A i \in 1..n : all[l + i] = ws[i]
  BY <1>3, <1>4, <1>5
<1>8. Marked(h)
  <2>1. 0..(l - 1) \subseteq 0..((l + n) - 1)
    BY <1>5
  <2> QED
    BY <1>1, <1>2, <1>3, <1>6, <1>7, <2>1 DEF Marked
<1>9. PICK N : N = {ws[i] : i \in 1..n}
  OBVIOUS
<1>10. N \subseteq Words
  BY <1>5, <1>9
<1>11. \A w : w \in LiveWords(m) <=>
          w \in Words /\ \E j \in 1..l : LastOf(us, l, w, j) /\ j - 1 \notin del
  BY <1>1, <1>2, <1>5 DEF LiveWords
<1>12. \A w : w \in LiveWords(h) <=>
          w \in Words /\ \E j \in 1..(l + n) : LastOf(all, l + n, w, j) /\ j - 1 \notin del
  <2>1. h.words = all /\ h.del = del /\ Len(all) = l + n
    BY <1>1, <1>2, <1>3, <1>7
  <2> QED
    BY <2>1 DEF LiveWords
<1>13. ASSUME NEW w \in N PROVE w \in LiveWords(h)
  <2>1. PICK i \in 1..n : w = ws[i]
    BY <1>9
  <2>2. l + i \in 1..(l + n) /\ all[l + i] = w /\ l + n \in Nat
    BY <1>7, <2>1
  <2>3. PICK j \in 1..(l + n) : LastOf(all, l + n, w, j)
    BY <2>2, LastExists
  <2>4. ~(l + i \in (j + 1)..(l + n))
    BY <2>2, <2>3 DEF LastOf
  <2>5. j - 1 >= l
    BY <2>2, <2>4
  <2>6. j - 1 \notin del
    BY <1>6, <2>5
  <2>7. w \in Words
    BY <1>10
  <2> QED
    BY <1>12, <2>3, <2>6, <2>7
<1>14. ASSUME NEW w, w \notin N, NEW j \in 1..(l + n), LastOf(all, l + n, w, j)
       PROVE  j \in 1..l /\ LastOf(us, l, w, j)
  <2>1. all[j] = w /\ \A x \in (j + 1)..(l + n) : all[x] # w
    BY <1>14 DEF LastOf
  <2>2. j \in 1..l
    <3> SUFFICES ASSUME j \notin 1..l PROVE FALSE
      OBVIOUS
    <3>1. j - l \in 1..n /\ l + (j - l) = j
      OBVIOUS
    <3>2. all[j] = ws[j - l]
      BY <1>7, <3>1
    <3> QED
      BY <1>9, <1>14, <2>1, <3>1, <3>2
  <2>3. \A x \in (j + 1)..l : x \in (j + 1)..(l + n) /\ x \in 1..l
    BY <2>2
  <2> QED
    BY <1>7, <2>1, <2>2, <2>3 DEF LastOf
<1>15. ASSUME NEW w, w \notin N, NEW j \in 1..l, LastOf(us, l, w, j)
       PROVE  j \in 1..(l + n) /\ LastOf(all, l + n, w, j)
  <2>1. us[j] = w /\ \A x \in (j + 1)..l : us[x] # w
    BY <1>15 DEF LastOf
  <2>2. ASSUME NEW x \in (j + 1)..(l + n) PROVE all[x] # w
    <3>1. CASE x \in (j + 1)..l
      <4>1. x \in 1..l
        BY <3>1
      <4> QED
        BY <1>7, <2>1, <3>1, <4>1
    <3>2. CASE x \notin (j + 1)..l
      <4>1. x - l \in 1..n /\ l + (x - l) = x
        BY <3>2
      <4>2. all[x] = ws[x - l]
        BY <1>7, <4>1
      <4> QED
        BY <1>9, <1>15, <4>1, <4>2
    <3> QED
      BY <3>1, <3>2
  <2>3. j \in 1..(l + n)
    OBVIOUS
  <2> QED
    BY <1>7, <2>1, <2>2, <2>3 DEF LastOf
<1>16. \A w : w \notin N => (w \in LiveWords(h) <=> w \in LiveWords(m))
  <2> HIDE DEF LiveWords
  <2> QED
    BY <1>11, <1>12, <1>14, <1>15
<1>17. LiveWords(h) = LiveWords(m) \cup N
  <2> HIDE DEF LiveWords
  <2> QED
    BY <1>13, <1>16
<1> QED
  BY <1>5, <1>8, <1>9, <1>17

\* A deleted word is none of them any more.
LEMMA LiveDeletes ==
  ASSUME NEW m, m.words \in Seq(Words), Marked(m), NEW w, NEW h, h.words = m.words,
         h.del = m.del \cup {j - 1 : j \in {x \in 1..Len(m.words) : m.words[x] = w}}
  PROVE  Marked(h) /\ LiveWords(h) = LiveWords(m) \ {w}
<1>1. PICK us : us = m.words
  OBVIOUS
<1>2. PICK del : del = m.del
  OBVIOUS
<1>3. PICK n \in Nat : n = Len(us)
  BY <1>1
<1>4. PICK new : new = {j - 1 : j \in {x \in 1..n : us[x] = w}}
  OBVIOUS
<1>5. h.words = us /\ h.del = del \cup new
  BY <1>1, <1>2, <1>3, <1>4
<1>6. ASSUME NEW j \in 1..n PROVE j - 1 \in new <=> us[j] = w
  <2>1. ASSUME j - 1 \in new PROVE us[j] = w
    <3>1. PICK x \in 1..n : us[x] = w /\ j - 1 = x - 1
      BY <1>4, <2>1
    <3>2. x = j
      BY <3>1
    <3> QED
      BY <3>1, <3>2
  <2>2. ASSUME us[j] = w PROVE j - 1 \in new
    BY <1>4, <2>2
  <2> QED
    BY <2>1, <2>2
<1>7. Marked(h)
  <2>1. new \in SUBSET (0..(n - 1))
    BY <1>4
  <2>2. del \in SUBSET (0..(n - 1))
    BY <1>1, <1>2, <1>3 DEF Marked
  <2> QED
    BY <1>3, <1>5, <2>1, <2>2 DEF Marked
<1>8. \A v : v \in LiveWords(m) <=>
        v \in Words /\ \E j \in 1..n : LastOf(us, n, v, j) /\ j - 1 \notin del
  BY <1>1, <1>2, <1>3 DEF LiveWords
<1>9. \A v : v \in LiveWords(h) <=>
        v \in Words /\ \E j \in 1..n : LastOf(us, n, v, j) /\ j - 1 \notin del \cup new
  BY <1>3, <1>5 DEF LiveWords
<1>10. \A v, j : LastOf(us, n, v, j) => us[j] = v
  BY DEF LastOf
<1>11. ASSUME NEW v, NEW j \in 1..n, LastOf(us, n, v, j) PROVE j - 1 \in new <=> v = w
  BY <1>6, <1>10, <1>11
<1>12. \A v : v \in LiveWords(h) <=> v \in LiveWords(m) /\ v # w
  <2> HIDE DEF LiveWords
  <2> QED
    BY <1>8, <1>9, <1>11
<1> HIDE DEF LiveWords
<1> QED
  BY <1>7, <1>12

-----------------------------------------------------------------------------
(* The solution with the automaton implements the abstract matcher whose   *)
(* dictionary keeps the words deleted in the buffer.                       *)

Entries(ws) == {ws[i] : i \in 1..Len(ws)}

\* The words of the automaton and of the buffer are those of the dictionary.
FsaState ==
  /\ Automaton(FSA) /\ Marked(FSA) /\ words \in Seq(Words)
  /\ word_list \in SUBSET Words /\ dropped \in SUBSET Words
  /\ word_list \cup dropped = LiveWords(FSA) \cup Entries(words)

FsaInv == solution = "fsa" => FsaState

\* Init establishes the invariant, and is an initial state of the abstract matcher.
LEMMA FsaStarts == Init => FsaInv /\ Survivors!MInit
<1> SUFFICES ASSUME Init PROVE FsaInv /\ Survivors!MInit
  OBVIOUS
<1>1. MaxWords \in Nat
  BY MatchersAssumption
<1>2. CASE solution = "kmp" /\ Kmp!Init /\ dropped = {}
  <2>1. word_list \in SUBSET Words
    BY <1>1, <1>2, FirstWords DEF Kmp!Init, Kmp!ToSet
  <2>2. answer = Survivors!NoAnswer
    BY <1>2 DEF Kmp!Init, Kmp!NoAnswer, Survivors!NoAnswer
  <2> QED
    BY <1>2, <2>1, <2>2 DEF FsaInv, Survivors!MInit
<1>3. CASE solution = "fsa" /\ Fsa!Init
  <2>1. PICK n \in 0..MaxWords : \E buf \in [1..n -> Words] :
          /\ word_list = Fsa!ToSet(buf) /\ words = <<>> /\ answer = Fsa!NoAnswer
          /\ FSA = Fsa!addWord(Fsa!NewMatcher(n, Fsa!TotalLen(buf)),
                               Fsa!Sorted(Fsa!ToSet(buf), Fsa!Before))
          /\ dropped = {}
    BY <1>3 DEF Fsa!Init
  <2>2. PICK buf \in [1..n -> Words] :
          /\ word_list = Fsa!ToSet(buf) /\ words = <<>> /\ answer = Fsa!NoAnswer
          /\ FSA = Fsa!addWord(Fsa!NewMatcher(n, Fsa!TotalLen(buf)),
                               Fsa!Sorted(Fsa!ToSet(buf), Fsa!Before))
          /\ dropped = {}
    BY <2>1
  <2>3. n \in Nat /\ buf \in Seq(Words)
    BY <1>1
  <2>4. word_list \in SUBSET Words /\ IsFiniteSet(word_list)
    BY <2>2, <2>3, FirstWords DEF Fsa!ToSet
  <2>5. PICK ws : ws = Fsa!Sorted(word_list, Fsa!Before)
    OBVIOUS
  <2>6. ws \in Seq(Words) /\ Entries(ws) = word_list
    BY <2>4, <2>5, SortedWords DEF Entries
  <2>7. PICK c \in Nat : c = n + Fsa!TotalLen(buf) * 2 + 1
    <3>1. Fsa!TotalLen(buf) \in Nat
      BY <2>3, SumJoin
    <3> QED
      BY <2>3, <3>1
  <2>8. PICK m : m = Fsa!NewMatcher(n, Fsa!TotalLen(buf))
    OBVIOUS
  <2>9. PICK G : G = Fsa!Empty(1)
    OBVIOUS
  <2>10. m = [graph |-> G, cur_size |-> c, words |-> <<>>, del |-> {}, init_state |-> 0,
             state_num |-> 1, patternLen |-> 0]
    BY <2>7, <2>8, <2>9 DEF Fsa!NewMatcher
  <2>11. /\ m.graph = G /\ m.cur_size = c /\ m.words = <<>> /\ m.del = {}
         /\ m.init_state = 0 /\ m.state_num = 1 /\ m.patternLen = 0
    BY <2>10
  <2>12. MatcherFields(m)
    BY <2>10, <2>11, Zenon DEF MatcherFields
  <2>13. Fsa!TotalLen(<<>>) = 0 /\ <<>> \in Seq(Words) /\ Len(<<>>) = 0
    <3>1. <<>> \in Seq(Words) /\ Len(<<>>) = 0
      OBVIOUS
    <3> QED
      BY <3>1, Sums
  <2>14. Counted(m)
    BY <2>11, <2>12, <2>13 DEF Counted
  <2>15. FSA = Fsa!addWord(m, ws)
    BY <2>2, <2>5, <2>8
  <2>16. Automaton(FSA) /\ FSA.words = m.words \o ws /\ FSA.del = m.del
    BY <2>6, <2>14, <2>15, AddWordRight, Zenon
  <2>17. Marked(m) /\ m.words \in Seq(Words)
    BY <2>11, <2>13 DEF Marked
  <2>18. LiveWords(m) = {}
    BY <2>11, <2>13 DEF LiveWords
  <2>19. Marked(FSA) /\ LiveWords(FSA) = LiveWords(m) \cup Entries(ws)
    BY <2>6, <2>16, <2>17, LiveAdds DEF Entries
  <2>20. Entries(words) = {}
    BY <2>2, <2>13 DEF Entries
  <2>21. FsaState
    BY <2>2, <2>4, <2>6, <2>13, <2>16, <2>18, <2>19, <2>20 DEF FsaState
  <2>22. answer = Survivors!NoAnswer
    BY <2>2 DEF Fsa!NoAnswer, Survivors!NoAnswer
  <2> QED
    BY <2>2, <2>4, <2>21, <2>22 DEF FsaInv, Survivors!MInit
<1> QED
  BY <1>2, <1>3 DEF Init

\* A new word goes into the buffer.
LEMMA FsaAdds ==
  ASSUME FsaState, Fsa!Add
  PROVE  FsaState' /\ Survivors!MNext
<1>1. PICK w \in Words : /\ words' = IF w \in word_list THEN words ELSE Append(words, w)
                         /\ word_list' = word_list \cup {w}
  BY DEF Fsa!Add
<1>2. answer' = Fsa!NoAnswer /\ FSA' = FSA /\ dropped' = dropped
  BY DEF Fsa!Add
<1>3. words' \in Seq(Words) /\ Entries(words') \cup {w} = Entries(words) \cup {w}
      /\ (w \notin word_list => w \in Entries(words'))
  <2>1. PICK us \in Seq(Words) : us = words
    BY DEF FsaState
  <2>2. PICK vs : vs = Append(us, w)
    OBVIOUS
  <2>3. PICK n \in Nat : n = Len(us)
    OBVIOUS
  <2>4. vs \in Seq(Words) /\ Len(vs) = n + 1 /\ vs[n + 1] = w /\ \A i \in 1..n : vs[i] = us[i]
    BY <2>2, <2>3, AppendProperties
  <2>5. \A i : i \in 1..(n + 1) <=> i = n + 1 \/ i \in 1..n
    OBVIOUS
  <2>6. Entries(vs) = Entries(us) \cup {w}
    BY <2>3, <2>4, <2>5 DEF Entries
  <2> QED
    BY <1>1, <2>1, <2>2, <2>4, <2>6
<1>4. FsaState'
  <2>1. w \in word_list => words' = words
    BY <1>1
  <2>2. word_list' \cup dropped' = LiveWords(FSA') \cup Entries(words')
    BY <1>1, <1>2, <1>3, <2>1 DEF FsaState
  <2>3. (Automaton(FSA) /\ Marked(FSA))'
    BY <1>2 DEF FsaState
  <2> QED
    BY <1>1, <1>2, <1>3, <2>2, <2>3 DEF FsaState
<1>5. Survivors!MAdd
  <2>1. word_list' \cup dropped' = (word_list \cup dropped) \cup {w}
    BY <1>1, <1>2
  <2>2. answer' = Survivors!NoAnswer
    BY <1>2 DEF Fsa!NoAnswer, Survivors!NoAnswer
  <2> QED
    BY <2>1, <2>2 DEF Survivors!MAdd
<1> QED
  BY <1>4, <1>5 DEF Survivors!MNext

\* A word is deleted, unless it is in the buffer.
LEMMA FsaDeletes ==
  ASSUME FsaState, Fsa!Delete
  PROVE  FsaState' /\ Survivors!MNext
<1>1. PICK w \in Words :
        /\ FSA' = Fsa!deleteWord(FSA, w) /\ word_list' = word_list \ {w}
        /\ dropped' = IF w \in Fsa!ToSet(words) THEN dropped \cup {w} ELSE dropped \ {w}
  BY DEF Fsa!Delete
<1>2. answer' = Survivors!NoAnswer /\ words' = words
  BY DEF Fsa!Delete, Fsa!NoAnswer, Survivors!NoAnswer
<1>3. Fsa!ToSet(words) = Entries(words)
  <2>1. DOMAIN words = 1..Len(words)
    BY DEF FsaState
  <2> QED
    BY <2>1 DEF Fsa!ToSet, Entries
<1>4. /\ Automaton(FSA') /\ FSA'.words = FSA.words
      /\ FSA'.del = FSA.del \cup {j - 1 : j \in {x \in 1..Len(FSA.words) : FSA.words[x] = w}}
  BY <1>1, DeleteRight DEF FsaState
<1>5. Marked(FSA') /\ LiveWords(FSA') = LiveWords(FSA) \ {w}
  <2>1. FSA.words \in Seq(Words) /\ Marked(FSA)
    BY DEF FsaState, Automaton, Counted
  <2> QED
    BY <1>4, <2>1, LiveDeletes
<1>6. PICK D, L, B, D2, L2 :
        /\ D = word_list \cup dropped /\ L = LiveWords(FSA) /\ B = Entries(words)
        /\ D2 = word_list' \cup dropped' /\ L2 = LiveWords(FSA')
  OBVIOUS
<1>7. D = L \cup B /\ L2 = L \ {w}
  BY <1>5, <1>6 DEF FsaState
<1>8. /\ w \in B => D2 = D \cup {w}
      /\ w \notin B => D2 = D \ {w}
  BY <1>1, <1>3, <1>6
<1>9. D2 = L2 \cup B
  BY <1>7, <1>8
<1>10. FsaState'
  <2>1. word_list' \in SUBSET Words /\ dropped' \in SUBSET Words
    BY <1>1 DEF FsaState
  <2>2. (words \in Seq(Words))' /\ Entries(words') = B
    BY <1>2, <1>6 DEF FsaState
  <2>3. word_list' \cup dropped' = LiveWords(FSA') \cup Entries(words')
    BY <1>6, <1>9, <2>2
  <2> QED
    BY <1>4, <1>5, <2>1, <2>2, <2>3 DEF FsaState
<1>11. CASE w \in B
  <2>1. D2 = D
    BY <1>7, <1>8, <1>11
  <2>2. Survivors!MQuery
    BY <1>2, <1>6, <2>1 DEF Survivors!MQuery
  <2> QED
    BY <1>10, <2>2 DEF Survivors!MNext
<1>12. CASE w \notin B
  <2>1. Survivors!MDelete
    BY <1>2, <1>6, <1>8, <1>12 DEF Survivors!MDelete
  <2> QED
    BY <1>10, <2>1 DEF Survivors!MNext
<1> QED
  BY <1>11, <1>12

\* A query empties the buffer into the automaton, which gives the reply.
LEMMA FsaReplies ==
  ASSUME FsaState, Fsa!Query
  PROVE  FsaState' /\ Survivors!MNext
<1>1. /\ FSA' = IF words = <<>> THEN FSA ELSE Fsa!addWord(FSA, words)
      /\ words' = <<>> /\ word_list' = word_list /\ dropped' = dropped
  BY DEF Fsa!Query
<1>2. PICK s \in Inputs : answer' = [input |-> s, found |-> Fsa!search(FSA', s)]
  BY DEF Fsa!Query
<1>3. PICK m : m = FSA
  OBVIOUS
<1>4. PICK h : h = FSA'
  OBVIOUS
<1>5. PICK ws \in Seq(Words) : ws = words
  BY DEF FsaState
<1>6. Automaton(m) /\ Marked(m) /\ Counted(m) /\ m.words \in Seq(Words)
  BY <1>3 DEF FsaState, Automaton, Counted
<1>7. Automaton(h) /\ Marked(h) /\ LiveWords(h) = LiveWords(m) \cup Entries(ws)
  <2>1. CASE ws = <<>>
    <3>1. Entries(ws) = {} /\ h = m
      BY <1>1, <1>3, <1>4, <1>5, <2>1 DEF Entries
    <3> QED
      BY <1>6, <3>1
  <2>2. CASE ws # <<>>
    <3>1. h = Fsa!addWord(m, ws)
      BY <1>1, <1>3, <1>4, <1>5, <2>2
    <3>2. Automaton(h) /\ h.words = m.words \o ws /\ h.del = m.del
      BY <1>6, <3>1, AddWordRight, Zenon
    <3> QED
      BY <1>6, <3>2, LiveAdds DEF Entries
  <2> QED
    BY <2>1, <2>2
<1>8. word_list \cup dropped = LiveWords(h)
  BY <1>3, <1>5, <1>7 DEF FsaState
<1>9. FsaState'
  <2>1. Entries(words') = {} /\ words' \in Seq(Words)
    BY <1>1 DEF Entries
  <2>2. word_list' \cup dropped' = LiveWords(FSA') \cup Entries(words')
    BY <1>1, <1>4, <1>8, <2>1
  <2>3. (Automaton(FSA) /\ Marked(FSA))'
    BY <1>4, <1>7
  <2>4. (word_list \in SUBSET Words /\ dropped \in SUBSET Words)'
    BY <1>1 DEF FsaState
  <2> QED
    BY <2>1, <2>2, <2>3, <2>4 DEF FsaState
<1>10. Survivors!MReply
  <2>1. Fsa!search(h, s) = Found(word_list \cup dropped, s)
    BY <1>7, <1>8, SearchCorrect
  <2>2. answer' = [input |-> s, found |-> Found(word_list \cup dropped, s)]
    BY <1>2, <1>4, <2>1
  <2>3. Survivors!Found(word_list \cup dropped, s) = Found(word_list \cup dropped, s)
    BY DEF Survivors!Found, Survivors!Sorted, Survivors!Occurs, Survivors!OccursAt,
           Survivors!FirstAt, Survivors!Cardinality, Found, Sorted, Occurs, OccursAt, FirstAt,
           Cardinality
  <2>4. answer' = Survivors!Reply(word_list \cup dropped, s)
    BY <2>2, <2>3 DEF Survivors!Reply
  <2> QED
    BY <1>1, <2>4 DEF Survivors!MReply
<1> QED
  BY <1>9, <1>10 DEF Survivors!MNext

\* Every step of the solution with the automaton keeps the invariant and is a step of the
\* abstract matcher.
LEMMA FsaSteps == FsaInv /\ [Next]_vars =>
                    FsaInv' /\ [solution = "fsa" => Survivors!MNext]_<<word_list, dropped, answer>>
<1> SUFFICES ASSUME FsaInv, [Next]_vars
             PROVE  FsaInv' /\ [solution = "fsa" => Survivors!MNext]_<<word_list, dropped, answer>>
  OBVIOUS
<1>1. CASE solution = "fsa" /\ Fsa!Next /\ solution' = solution
  <2>1. FsaState
    BY <1>1 DEF FsaInv
  <2>2. FsaState' /\ Survivors!MNext
    BY <1>1, <2>1, FsaAdds, FsaDeletes, FsaReplies DEF Fsa!Next
  <2> QED
    BY <2>2 DEF FsaInv
<1>2. CASE solution = "kmp" /\ solution' = solution
  BY <1>2 DEF FsaInv
<1>3. CASE UNCHANGED vars
  BY <1>3 DEF FsaInv, FsaState, vars, fsaVars
<1> QED
  BY <1>1, <1>2, <1>3 DEF Next

\* The trie of all words ever added never has more rows than the constructor or the
\* resize has made, for all words, first inputs and sequences of commands
\* (ahocorasick.cpp:16-24, 54-58).
THEOREM GraphTheorem == Spec => []GraphFits
<1>1. Init => FsaInv
  BY FsaStarts
<1>2. FsaInv /\ [Next]_vars => FsaInv'
  BY FsaSteps
<1>3. FsaInv => GraphFits
  BY AutomatonFits DEF FsaInv, FsaState, GraphFits
<1> QED
  BY <1>1, <1>2, <1>3, PTL DEF Spec

\* The solution with the automaton gives the replies of the abstract matcher whose
\* dictionary keeps the words deleted while they were in the buffer, for all words, texts
\* and sequences of commands (ref_solution.cpp:47-83, ahocorasick.cpp:42-161).
THEOREM FsaTheorem == Spec => FsaImplements
<1>1. Init => FsaInv /\ Survivors!MInit
  BY FsaStarts
<1>2. FsaInv /\ [Next]_vars =>
        FsaInv' /\ [solution = "fsa" => Survivors!MNext]_<<word_list, dropped, answer>>
  BY FsaSteps
<1> QED
  BY <1>1, <1>2, PTL DEF Spec, FsaImplements
=============================================================================
