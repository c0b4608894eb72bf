----------------------------- MODULE MCMatchers -----------------------------
EXTENDS Matchers

\* Prefixes of one another, a word that is inside another one, and a word that
\* falls back twice; texts that make it do so.
SomeWords == {<<1>>, <<1, 2>>, <<2, 1>>, <<1, 2, 1, 2, 1, 1>>}
SomeInputs == {<<>>, <<2>>, <<1, 2, 1>>, <<2, 1, 1, 2>>, <<1, 2, 1, 2, 1, 2, 1, 1>>}
=============================================================================
