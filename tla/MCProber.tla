------------------------------ MODULE MCProber -------------------------------
(* A small pool for TLC. *)
EXTENDS Prober

CONSTANTS w1, w2

TwoWorkers == {w1, w2}
=============================================================================
