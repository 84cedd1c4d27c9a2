--------------------------- MODULE ExclusiveLease ---------------------------
(***************************************************************************)
(* What every lease of the bridge promises, whatever table keeps it: a     *)
(* resource has at most one holder, and it never passes from one holder to *)
(* another in one step: the first holder's lease has ended (released,      *)
(* terminated or run out) before the second one's begins.                  *)
(*                                                                         *)
(* KernelTasks (a worker's lease on a queued task) and ResourceLeases      *)
(* (the generic resource lease) are shown to implement this module.        *)
(***************************************************************************)
CONSTANTS Resources,    \* what is leased: task ids, resource ids
          Actors,       \* who may hold a lease
          Nobody        \* the holder of a resource without a live lease

VARIABLE holder         \* holder[r] is the actor with the live lease on r

TypeOK == holder \in [Resources -> Actors \cup {Nobody}]

Init == holder = [r \in Resources |-> Nobody]

\* A free resource gets a holder.
Grant(r, a) == /\ holder[r] = Nobody
               /\ holder' = [holder EXCEPT ![r] = a]

\* The leases on the resources in S end.  Time may end several at once.
Lapse(S) == holder' = [r \in Resources |-> IF r \in S THEN Nobody ELSE holder[r]]

Next == \/ \E r \in Resources, a \in Actors : Grant(r, a)
        \/ \E S \in SUBSET Resources : Lapse(S)

Spec == Init /\ [][Next]_holder
=============================================================================
