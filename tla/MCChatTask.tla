----------------------------- MODULE MCChatTask -----------------------------
(* Small instances of ChatTask for TLC. *)
EXTENDS ChatTask, TLC

\* Bound tasks are created for one machine and surface.
MCPriority == [t \in Resources |-> 2]
MCPool     == [t \in Resources |-> "chat"]

Symmetric == Permutations(Requests) \cup Permutations(Actors)
=============================================================================
