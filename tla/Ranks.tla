-------------------------------- MODULE Ranks --------------------------------
(***************************************************************************)
(* Lists that are sorted and lists that are filtered, by the places their  *)
(* elements come to: what sorted() and a comprehension with a condition    *)
(* give, without a recursion over the list.                                *)
(***************************************************************************)
EXTENDS Naturals, FiniteSets, Sequences

\* The elements of S; <<x, y>> in R says that x comes before y.
InOrder(S, R) ==
    [n \in 1 .. Cardinality(S) |->
        CHOOSE x \in S : Cardinality({y \in S : <<y, x>> \in R}) = n - 1]

\* The places K of a list, and what is left of s when it keeps those.
Ascending(K) == InOrder(K, {p \in K \X K : p[1] < p[2]})
OnlyAt(s, K) == [n \in DOMAIN Ascending(K) |-> s[Ascending(K)[n]]]

==============================================================================
