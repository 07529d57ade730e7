------------------------------- MODULE MCGate -------------------------------
(***************************************************************************)
(* Model checking of the two sides of a publication: what is asked before  *)
(* it (Approvals), and what the drift job reports after it (Drift). They   *)
(* share no state; a behaviour is one of either.                           *)
(***************************************************************************)
EXTENDS Approvals, Drift, TLC

CONSTANTS a, r1, r2

VARIABLE part

MCProposed == [l \in Lessons |-> "skill"]
MCPathsOf == [r \in {r1, r2} |-> IF r = r1 THEN {"AGENTS", "SKILL"} ELSE {"AGENTS"}]

gateVars == <<part, apprVars, driftVars>>

GateInit ==
    /\ part \in {"approvals", "drift"}
    /\ ApprInit /\ DriftInit
    /\ choice = [l \in Lessons |-> <<"skill", 1>>]

GateNext ==
    /\ part' = part
    /\ \/ part = "approvals" /\ ApprNext /\ UNCHANGED driftVars
       \/ part = "drift" /\ DriftNext /\ UNCHANGED apprVars

\* The two on their own, for the questions they are asked alone.
DriftAlone == GateInit /\ part = "drift" /\ [][GateNext]_gateVars

\* Every part keeps the shape of what it stands for.
GateTypeOK == ApprTypeOK /\ DriftTypeOK
=============================================================================
