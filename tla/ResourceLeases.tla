--------------------------- MODULE ResourceLeases ---------------------------
(***************************************************************************)
(* The generic resource lease: PresenceService in                          *)
(* nas_bridge/app/kernel/presence.py.                                      *)
(*                                                                         *)
(* A resource has a history of lease rows, the newest last.  A claim       *)
(* renews the caller's own live row, is refused while another actor's row  *)
(* is live, and otherwise appends a row.  Rows are never deleted, and      *)
(* heartbeat and release name a row by its id, so a holder may call with   *)
(* the id of any row it ever had.                                          *)
(*                                                                         *)
(* Time: a row keeps `left', the time units until expires_at; 0 is         *)
(* "expires_at <= now".  A claim reads the clock twice (168, 284): the     *)
(* lease it finds run out may have been running at the first reading.      *)
(* Tokens: the n-th token drawn (a uuid4) is the number n.                 *)
(***************************************************************************)
EXTENDS Integers, Sequences

CONSTANTS
  Resources,    \* (resource_kind, resource_id) pairs
  Actors,       \* holders
  Statuses,     \* the status strings callers send with a claim or a heartbeat
  MaxLease,     \* the longest lease, in time units
  MaxClaims,    \* bound: rows in one resource's history
  None          \* no token given; nobody

\* A status is free text to the service, except that it reads "expired" as its
\* own mark for a dead row: callers in this repository never send that.
ASSUME ResourceLeasesAssumption ==
  /\ "expired" \notin Statuses
  /\ MaxLease \in Nat \ {0}
  /\ MaxClaims \in Nat
  /\ None \notin Actors
  /\ None \notin Nat

VARIABLES
  leases,       \* the resource_leases table, per resource
  drawn         \* how many tokens have been drawn

leaseVars == <<leases, drawn>>

Rows == [holder   : Actors,
         token    : Nat,
         left     : 0 .. MaxLease,
         status   : Statuses \cup {"expired", "released"},
         released : BOOLEAN]            \* released_at is not null

LeasesTypeOK == /\ leases \in [Resources -> Seq(Rows)]
                /\ drawn \in Nat

LeasesInit == /\ leases = [r \in Resources |-> << >>]
              /\ drawn = 0

-----------------------------------------------------------------------------
Live(row) == ~row.released /\ row.left > 0 /\ row.status # "expired"

\* Row i is the one _get_current_lease_row returns: the newest live row.
IsCurrent(rows, i) ==
  /\ i \in DOMAIN rows
  /\ Live(rows[i])
  /\ \A j \in DOMAIN rows : Live(rows[j]) => j <= i

\* A claim that finds nothing live marks the newest row as run out, unless it
\* was released, or was still running at the claim's first reading of the clock.
MaybeMarked(rows) ==
  LET n == Len(rows) IN
  {rows} \cup IF rows # << >> /\ ~rows[n].released
              THEN {[rows EXCEPT ![n].status = "expired"]} ELSE {}

NewRow(a, token, lease, status) ==
  [holder |-> a, token |-> token, left |-> lease, status |-> status, released |-> FALSE]

Renewed(row, token, lease, status) ==
  [row EXCEPT !.token = token, !.left = lease, !.status = status]

\* Mutant: only the caller's own live row is looked for, another's does not refuse the claim.
claim_beside_other(r, a, given, lease, status) ==
  /\ Len(leases[r]) < MaxClaims
  /\ \A i \in DOMAIN leases[r] : IsCurrent(leases[r], i) => leases[r][i].holder # a
  /\ leases' = [leases EXCEPT ![r] =
       Append(leases[r], NewRow(a, IF given = None THEN drawn + 1 ELSE given, lease, status))]
  /\ drawn' = IF given = None THEN drawn + 1 ELSE drawn

\* given is the lease_token of the request, None when it has none.
claim_resource_lease(r, a, given, lease, status) ==
  \/ \E i \in DOMAIN leases[r] :
       /\ IsCurrent(leases[r], i)
       /\ leases[r][i].holder = a
       /\ leases' = [leases EXCEPT ![r][i] =
            Renewed(leases[r][i], IF given = None THEN leases[r][i].token ELSE given,
                    lease, status)]
       /\ UNCHANGED drawn
  \/ /\ \A i \in DOMAIN leases[r] : ~IsCurrent(leases[r], i)
     /\ Len(leases[r]) < MaxClaims
     /\ \E rows \in MaybeMarked(leases[r]) :
          leases' = [leases EXCEPT ![r] =
            Append(rows, NewRow(a, IF given = None THEN drawn + 1 ELSE given, lease, status))]
     /\ drawn' = IF given = None THEN drawn + 1 ELSE drawn

\* The caller must name the row's holder and token.
ValidHolder(row, a, token) == row.holder = a /\ row.token = token

\* The row may be extended: not released, not run out.
Extendable(row) == ~row.released /\ row.status # "released" /\ row.left > 0

\* status is None when the request has none.
heartbeat_resource_lease(r, i, a, token, lease, status) ==
  /\ i \in DOMAIN leases[r]
  /\ ValidHolder(leases[r][i], a, token)
  /\ Extendable(leases[r][i])
  /\ leases' = [leases EXCEPT ![r][i] =
       Renewed(leases[r][i], token, lease,
               IF status = None THEN leases[r][i].status ELSE status)]
  /\ UNCHANGED drawn

\* Allowed on a row that has run out or was released before.
release_resource_lease(r, i, a, token) ==
  /\ i \in DOMAIN leases[r]
  /\ ValidHolder(leases[r][i], a, token)
  /\ leases' = [leases EXCEPT ![r][i] =
       [leases[r][i] EXCEPT !.status = "released", !.released = TRUE, !.left = 0]]
  /\ UNCHANGED drawn

\* One time unit passes.
Aged(rows) == [i \in DOMAIN rows |->
                 [rows[i] EXCEPT !.left = IF rows[i].left = 0 THEN 0 ELSE rows[i].left - 1]]

LeasesTick ==
  /\ \E r \in Resources : \E i \in DOMAIN leases[r] : leases[r][i].left > 0
  /\ leases' = [r \in Resources |-> Aged(leases[r])]
  /\ UNCHANGED drawn

-----------------------------------------------------------------------------
ClaimLease     == \E r \in Resources, a \in Actors, g \in (1 .. drawn) \cup {None},
                     l \in 1 .. MaxLease, s \in Statuses : claim_resource_lease(r, a, g, l, s)
HeartbeatLease == \E r \in Resources : \E i \in DOMAIN leases[r] :
                    \E a \in Actors, n \in 1 .. drawn, l \in 1 .. MaxLease, s \in Statuses \cup {None} :
                      heartbeat_resource_lease(r, i, a, n, l, s)
ReleaseLease   == \E r \in Resources : \E i \in DOMAIN leases[r] :
                    \E a \in Actors, n \in 1 .. drawn : release_resource_lease(r, i, a, n)

LeasesNext == ClaimLease \/ HeartbeatLease \/ ReleaseLease \/ LeasesTick

LeasesSpec == LeasesInit /\ [][LeasesNext]_leaseVars
-----------------------------------------------------------------------------
(* Properties *)

\* Only the newest row of a resource is ever live: no call with the id of an
\* older row, however late, brings that row back beside its successor.
OnlyNewestIsLive == \A r \in Resources : \A i \in DOMAIN leases[r] :
                      Live(leases[r][i]) => i = Len(leases[r])

\* The actor whose row is live: the refinement mapping to ExclusiveLease.
LiveHolder == [r \in Resources |->
  IF \E i \in DOMAIN leases[r] : IsCurrent(leases[r], i)
  THEN leases[r][CHOOSE i \in DOMAIN leases[r] : IsCurrent(leases[r], i)].holder
  ELSE None]

Lease == INSTANCE ExclusiveLease WITH Nobody <- None, holder <- LiveHolder

\* One holder at a time, although a claim finds the live row by a scan of the
\* history and heartbeats and releases still name old rows.
ImplementsExclusiveLease == Lease!Spec
=============================================================================
