--------------------------- MODULE MCPublication ---------------------------
(***************************************************************************)
(* Small instances of Publication: two learnings of the same project, a    *)
(* generated skill that both extend (file 1) and a managed file that only  *)
(* the first one touches (file 2, absent at first).                        *)
(***************************************************************************)
EXTENDS Publication, TLC

CONSTANTS a, b, p1, p2

Symmetry == Permutations({p1, p2})
MCBase == [f \in {1, 2} |-> IF f = 1 THEN {} ELSE NoFile]
MCDest == [l \in Learnings |-> IF l = a THEN {1, 2} ELSE {1}]
Spending(fault, crash, edit, reject) ==
    [k \in {"fault", "crash", "edit", "reject"} |->
        CASE k = "fault" -> fault [] k = "crash" -> crash
          [] k = "edit" -> edit [] k = "reject" -> reject]
Nothing == Spending(0, 0, 0, 0)
OneFailure == Spending(1, 1, 0, 0)
TwoFaults == Spending(2, 0, 0, 0)
OneCrash == Spending(0, 1, 0, 0)
OneEditOneFaultOneReject == Spending(1, 0, 1, 1)
=============================================================================
