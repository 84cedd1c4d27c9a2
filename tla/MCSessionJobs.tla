---------------------------- MODULE MCSessionJobs ----------------------------
(***************************************************************************)
(* Instances of SessionJobs for TLC: a planner that curates as well, and a *)
(* coder; two worker processes, which either agent may have; every card    *)
(* touches the same file.                                                  *)
(***************************************************************************)
EXTENDS SessionJobs, TLC

CONSTANTS planner, coder, w1, w2, files

MCCrew   == <<planner, coder>>
MCRole   == (planner :> "coordination") @@ (coder :> "code")
MCScopes == {{files}}

WorkerSymmetry == Permutations(Workers)

=============================================================================
