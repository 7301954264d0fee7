---------------------------- MODULE MCNodeDrain ------------------------------
(* A small cluster for TLC. *)
EXTENDS NodeDrain, TLC

CONSTANTS n1, n2, p1, p2, p3

TwoNodes   == {n1, n2}
ThreePods  == {p1, p2, p3}
AnyFailure == {"refused", "lost", "killed"}
ClusterSymmetry == Permutations(Nodes) \union Permutations(Pods)
=============================================================================
