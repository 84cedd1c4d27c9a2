----------------------------- MODULE MCSessions -----------------------------
(***************************************************************************)
(* An instance of Sessions for TLC: one agent and one launcher.            *)
(***************************************************************************)
EXTENDS Sessions, TLC

CONSTANTS agent, w1, w2, l1

MCCrew == <<agent>>
MCRole == agent :> "code"
MCHost == [w \in Workers |-> l1]

=============================================================================
