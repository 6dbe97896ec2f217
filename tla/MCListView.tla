------------------------------ MODULE MCListView ------------------------------
(***************************************************************************)
(* Instances of ListView for TLC: two lines fit a view of five pixels.     *)
(***************************************************************************)
EXTENDS ListView, TLC

CONSTANTS n1, n2, n3, n4, n5, n6

SixNodes == {n1, n2, n3, n4, n5, n6}
TwoLines == {"a", "b"}
Symmetry == Permutations(Nodes)
=============================================================================
