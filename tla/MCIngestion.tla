---------------------------- MODULE MCIngestion ----------------------------
(***************************************************************************)
(* Small instances of Ingestion: one session, two turns, and envelopes     *)
(* that repeat, revise, precede and contradict each other.                 *)
(***************************************************************************)
EXTENDS Ingestion, TLC

CONSTANTS s1, t1, t2, r1, r2, x1, x2, c1, c2, c3, p1, p2

Symmetry == Permutations({p1, p2})

Deliver(t, r, x, at, order, c) ==
    [session |-> s1, turn |-> t, rev |-> r, text |-> x, at |-> at, order |-> order,
     checkpoint |-> c]

\* The same turn in two revisions, a later turn, another checkpoint at the
\* same order, the first revision with another text, and one without cursor.
FewEnvelopes == {Deliver(t1, r1, x1, 1, 1, c1), Deliver(t1, r2, x2, 2, 2, c2),
                 Deliver(t2, r1, x1, 3, 2, c3), Deliver(t1, r1, x2, 1, 1, c1),
                 Deliver(t1, r1, x1, 2, 0, NoCheckpoint)}

TwoFailures == [k \in Kinds |-> IF k = "failure" THEN 2 ELSE 1]
=============================================================================
