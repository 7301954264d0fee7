----------------------------- MODULE MCTestApp -------------------------------
(* Two requests for TLC: every property is about one of them, or about two that overlap. *)
EXTENDS TestApp

CONSTANTS q1, q2

TwoRequests == {q1, q2}
=============================================================================
