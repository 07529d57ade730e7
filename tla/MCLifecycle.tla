---------------------------- MODULE MCLifecycle ----------------------------
(***************************************************************************)
(* Small instances of Lifecycle.  Two learnings, so that two captures may  *)
(* both insert; one level below the threshold of an approval and one at it.*)
(***************************************************************************)
EXTENDS Lifecycle, TLC

CONSTANTS a, b, l1, l2, k1, c1, skill

TwoProcs == {a, b}
OneLearning == {l1}
TwoLearnings == {l1, l2}
OneKey == {k1}
OneContent == {c1}
TwoLevels == {"insufficient", "moderate"}
OneDestination == {skill}

\* Nothing tells invocations apart.
Symmetric == Permutations(Procs)

=============================================================================
