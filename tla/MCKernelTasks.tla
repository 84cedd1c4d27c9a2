--------------------------- MODULE MCKernelTasks ---------------------------
(* Small instances of KernelTasks for TLC. *)
EXTENDS KernelTasks, TLC

\* Task ids, actors and kinds are interchangeable: nothing in the safety
\* properties tells one from another.
Symmetric == Permutations(Tasks) \cup Permutations(Actors) \cup Permutations(Kinds)
=============================================================================
