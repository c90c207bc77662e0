------------------------------- MODULE Listing -------------------------------
(***************************************************************************)
(* Lists made of sets and of other lists, and their sums: what SortSeq,    *)
(* SelectSeq and FoldLeft compute, said of each member by itself, so that  *)
(* it can be proved about.                                                 *)
(***************************************************************************)
EXTENDS Integers, FiniteSets, Sequences

\* The members of S in the order R: <<x, y>> \in R when x comes before y.
Arranged(S, R) ==
    [k \in 1..Cardinality(S) |->
        CHOOSE x \in S : Cardinality({y \in S : <<y, x>> \in R}) = k - 1]

Ascending(S) == Arranged(S, {p \in S \X S : p[1] < p[2]})

\* What is in s at the places K, in the order of s.
Chosen(s, K) ==
    LET places == Ascending(K)
    IN  [k \in 1..Cardinality(K) |-> s[places[k]]]

Total(s) ==
    LET sum[i \in 0..Len(s)] == IF i = 0 THEN 0 ELSE sum[i - 1] + s[i]
    IN  sum[Len(s)]

=============================================================================
