---------------------------- MODULE MCServerView -----------------------------
(* One or two pods, windows shorter than the scrape interval and as long. *)
EXTENDS ServerView, TLC

CONSTANTS p, q

OnePod       == {p}
TwoPods      == {p, q}
ShortWindows == {1, 2}
SomeWindows  == {2, 4}

Symmetry     == Permutations(TwoPods)
=============================================================================
