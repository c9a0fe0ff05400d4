------------------------------ MODULE Ordering ------------------------------
(***************************************************************************)
(* Lists by the positions of their elements: what a list of indices or a   *)
(* mask picks from a list, and the order in which a sort puts its          *)
(* positions.                                                              *)
(***************************************************************************)
EXTENDS Integers, Sequences, FiniteSets

\* s[indices]
Pick(s, indices) == [k \in DOMAIN indices |-> s[indices[k]]]

\* F(x), for which TLC evaluates x once.
Given(x, F(_)) == CHOOSE y \in {F(z) : z \in {x}} : TRUE

\* The numbers of a finite set, ascending: k - 1 of them are below the k-th.
InOrder[S \in SUBSET Nat] ==
    [k \in 1 .. Cardinality(S) |-> CHOOSE x \in S : Cardinality({y \in S : y < x}) = k - 1]

\* The positions of a list of numbers, ascending by the number there.
argsort[s \in Seq(Nat)] ==
    LET Before(i) == {j \in DOMAIN s : s[j] < s[i] \/ (s[j] = s[i] /\ j < i)} IN
    [k \in DOMAIN s |-> CHOOSE i \in DOMAIN s : Cardinality(Before(i)) = k - 1]
=============================================================================
