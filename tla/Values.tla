-------------------------------- MODULE Values --------------------------------
(***************************************************************************)
(* The value that stands for None, NaN and an absent field, and helpers on *)
(* sequences of observations.                                              *)
(***************************************************************************)
EXTENDS Integers, Sequences, FiniteSets, SequencesExt, FiniteSetsExt

CONSTANT Null

\* The elements of S in the total order Before.
Sorted(S, Before(_, _)) ==
    [k \in 1..Cardinality(S) |-> CHOOSE x \in S : Cardinality({y \in S : Before(y, x)}) = k - 1]

\* The numbers of S in ascending order.
Ascending(S) == Sorted(S, LAMBDA a, b : a < b)

\* Sequences of numbers in dictionary order.
Lexical(a, b) == \E k \in DOMAIN a : a[k] < b[k] /\ \A j \in 1..(k - 1) : a[j] = b[j]

\* The elements of s at the positions in S, in order.
Picked(s, S) ==
    LET order == Ascending(S) IN [i \in DOMAIN order |-> s[order[i]]]

\* The positions of the elements of s that satisfy Test.
Where(s, Test(_)) == {i \in DOMAIN s : Test(s[i])}

\* The elements of s that satisfy Test, in order.
Kept(s, Test(_)) == Picked(s, Where(s, Test))

Abs(x) == IF x < 0 THEN -x ELSE x

\* Concatenation of the sequences in ss.
Concatenated(ss) == FoldLeft(LAMBDA a, b : a \o b, <<>>, ss)
===============================================================================
