--------------------------- MODULE MCRemoteTasks ---------------------------
(* Small instances of RemoteTasks for TLC. *)
EXTENDS RemoteTasks, TLC

\* Tasks of one machine and surface and of the same priority.
MCPriority == [t \in Resources |-> 2]
MCPool     == [t \in Resources |-> "m1"]

Symmetric == Permutations(Resources) \cup Permutations(Actors)
=============================================================================
