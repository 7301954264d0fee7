---------------------------- MODULE MCPartition ------------------------------
(* One dependency and a few runs for TLC. *)
EXTENDS Partition, TLC

CONSTANTS h1, h2, h3

ThreeRuns == {h1, h2, h3}
AnyFailure == {"refused", "lost", "killed"}
RunSymmetry == Permutations(Harnesses)
=============================================================================
