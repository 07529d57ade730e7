------------------------------ MODULE MCJobs ------------------------------
(***************************************************************************)
(* A small instance of Jobs: two processes, each with a name of its own,   *)
(* two jobs, and few calls of each kind.                                   *)
(***************************************************************************)
EXTENDS Jobs, TLC

CONSTANTS p1, p2, A, B

OwnNames == p1 :> A @@ p2 :> B

FewCalls == [k \in Kinds |-> IF k = "register" THEN 2 ELSE 1]
=============================================================================
