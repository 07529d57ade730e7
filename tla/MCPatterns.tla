----------------------------- MODULE MCPatterns -----------------------------
(***************************************************************************)
(* Small instances of Patterns.  Learnings are one more than patterns, so  *)
(* that a second learning of a pattern would find an id.                   *)
(***************************************************************************)
EXTENDS Patterns

CONSTANTS a, b, p1, p2, e1, e2, oneOff, l1, l2, l3

TwoProcs == {a, b}
TwoPatterns == {p1, p2}
OnePattern == {p1}
TwoEvents == {e1, e2}
OneReason == {oneOff}
ThreeLearnings == {l1, l2, l3}

=============================================================================
