---------------------------- MODULE KernelTasks ----------------------------
(***************************************************************************)
(* The kernel's generic work queue: nas_bridge/app/kernel/tasks.py.        *)
(*                                                                         *)
(* A task row is queued, claimed by a worker for the length of a lease,    *)
(* kept alive by heartbeats that present the lease token, and terminated   *)
(* by complete, fail or cancel.  A lease that runs out is swept back into  *)
(* the queue, by claim_next before it looks for work, or by a caller of    *)
(* release_expired_leases.  Each HTTP handler runs one service call in one *)
(* transaction on the event loop, so every call is one atomic action.      *)
(*                                                                         *)
(* Time: a row keeps `left', the time units until lease_expires_at; 0 is   *)
(* "expires_at <= now", and Tick lets time pass.  Tokens: the n-th token   *)
(* drawn (a uuid4) is the number n, and issued[n] records which claim drew *)
(* it.  Any token ever issued may be presented again at any later time:    *)
(* workers stall, retry and answer late.  A call that raises (unknown      *)
(* task, wrong token) changes nothing and is not an action.                *)
(***************************************************************************)
EXTENDS Naturals, Sequences, FiniteSets

CONSTANTS
  Tasks,        \* ids a task row may be created with
  Actors,       \* workers that claim
  Kinds,        \* a (space_id, kind) pair, what claim_next filters on
  Priorities,   \* the priorities rows are enqueued with, higher first
  MaxLease,     \* the longest lease, in time units
  BatchSize,    \* rows one sweep looks at (1000 in the code)
  MaxClaims,    \* bound: claims in a behaviour
  None          \* the null of a nullable column

ASSUME KernelTasksAssumption ==
  /\ IsFiniteSet(Tasks)
  /\ Priorities \subseteq Nat
  /\ MaxLease \in Nat \ {0}
  /\ BatchSize \in Nat \ {0}
  /\ MaxClaims \in Nat
  /\ None \notin Actors
  /\ None \notin Kinds
  /\ None \notin Nat

VARIABLES
  tasks,        \* the kernel_tasks table
  issued        \* the claims granted so far; issued[n] drew token n

vars == <<tasks, issued>>

Absent   == "absent"        \* no row with this id yet
Terminal == {"completed", "failed", "cancelled"}
Leased   == {"claimed", "executing"}
Statuses == {Absent, "queued"} \cup Leased \cup Terminal

Rows == [status   : Statuses,
         kind     : Kinds \cup {None},
         priority : Nat,
         created  : Nat,                \* created_at, as a rank
         owner    : Actors \cup {None},
         token    : Nat \cup {None},
         left     : (0 .. MaxLease) \cup {None},
         claims   : Nat]                \* claim_count

Claims == [task : Tasks, actor : Actors]

TypeOK == /\ tasks \in [Tasks -> Rows]
          /\ issued \in Seq(Claims)

NoRow == [status |-> Absent, kind |-> None, priority |-> 0, created |-> 0,
          owner |-> None, token |-> None, left |-> None, claims |-> 0]

Init == /\ tasks = [t \in Tasks |-> NoRow]
        /\ issued = << >>

-----------------------------------------------------------------------------
\* created_at comes from a clock that two inserts may read at the same value.
CreatedAt(n) == /\ \A u \in Tasks : tasks[u].created <= n
                /\ \/ n = 1
                   \/ \E u \in Tasks : n \in {tasks[u].created, tasks[u].created + 1}

enqueue(t, k, p) ==
  /\ tasks[t].status = Absent
  /\ \E n \in 1 .. Cardinality(Tasks) :
       /\ CreatedAt(n)
       /\ tasks' = [tasks EXCEPT ![t] =
                      [NoRow EXCEPT !.status = "queued", !.kind = k,
                                    !.priority = p, !.created = n]]
  /\ UNCHANGED issued

\* Mutant: the sweep forgets rows whose worker has begun executing.
BatchesClaimedOnly ==
  {B \in SUBSET {t \in Tasks : tasks[t].status = "claimed"} : Cardinality(B) <= BatchSize}

\* The rows a sweep selects: up to BatchSize rows under lease, in no stated order.
Batches ==
  LET Leasing == {t \in Tasks : tasks[t].status \in Leased /\ tasks[t].left # None}
  IN  {B \in SUBSET Leasing : \/ B = Leasing /\ Cardinality(B) <= BatchSize
                              \/ Cardinality(B) = BatchSize}

\* Mutant: requeueing makes the row as good as new.
RequeuedFresh(row) == [row EXCEPT !.status = "queued", !.owner = None,
                                  !.token = None, !.left = None, !.claims = 0]

Requeued(row) == [row EXCEPT !.status = "queued", !.owner = None,
                             !.token = None, !.left = None]

\* The table after a sweep that looked at the rows in B.
Swept(B) == [t \in Tasks |-> IF t \in B /\ tasks[t].left = 0
                             THEN Requeued(tasks[t]) ELSE tasks[t]]

release_expired_leases ==
  /\ \E B \in Batches : tasks' = Swept(B)
  /\ UNCHANGED issued

\* Mutant: first come, first served, whatever the priority.
HeadsByAge(tbl, K) ==
  LET queue == {t \in Tasks : tbl[t].status = "queued" /\ tbl[t].kind \in K}
  IN  {t \in queue : \A u \in queue : tbl[t].created <= tbl[u].created}

\* Mutant: a row stays claimable until its worker's first heartbeat.
HeadsUnstarted(tbl, K) ==
  {t \in Tasks : tbl[t].status \in {"queued", "claimed"} /\ tbl[t].kind \in K}

\* The rows of table tbl that ORDER BY priority DESC, created_at ASC LIMIT 1
\* may return.
Heads(tbl, K) ==
  LET queue == {t \in Tasks : tbl[t].status = "queued" /\ tbl[t].kind \in K}
  IN  {t \in queue : \A u \in queue :
         \/ tbl[u].priority < tbl[t].priority
         \/ tbl[u].priority = tbl[t].priority /\ tbl[t].created <= tbl[u].created}

\* The row after a claim.
Claimed(row, a, token, lease) ==
  [row EXCEPT !.status = "claimed", !.owner = a, !.token = token, !.left = lease,
              !.claims = row.claims + 1]

claim_next(a, K, lease) ==
  \E B \in Batches :
    LET swept == Swept(B) IN
    \/ /\ Heads(swept, K) = {}                   \* returns None; the sweep stays
       /\ tasks' = swept
       /\ UNCHANGED issued
    \/ /\ Len(issued) < MaxClaims
       /\ \E t \in Heads(swept, K) :
            /\ issued' = Append(issued, [task |-> t, actor |-> a])
            /\ tasks' = [swept EXCEPT ![t] =
                            Claimed(swept[t], a, Len(issued) + 1, lease)]

-----------------------------------------------------------------------------
\* Mutant: the caller is recognised by its name, not by its token.
require_owner(t, token) == tasks[t].owner = issued[token].actor

\* The only check of heartbeat, complete and fail: the row's token is the one
\* presented.  Neither the status nor the expiry is looked at.
require_owned_row(t, token) == tasks[t].token = token

\* Mutant: the lease is added to what is left of the old one.
heartbeat_adds(t, token, lease, status) ==
  /\ require_owned_row(t, token)
  /\ tasks[t].left # None
  /\ tasks' = [tasks EXCEPT ![t].status = status, ![t].left = tasks[t].left + lease]
  /\ UNCHANGED issued

heartbeat(t, token, lease, status) ==
  /\ require_owned_row(t, token)
  /\ tasks' = [tasks EXCEPT ![t].status = status, ![t].left = lease]
  /\ UNCHANGED issued

complete(t, token) ==
  /\ require_owned_row(t, token)
  /\ tasks' = [tasks EXCEPT ![t].status = "completed", ![t].left = None]
  /\ UNCHANGED issued

fail(t, token) ==
  /\ require_owned_row(t, token)
  /\ tasks' = [tasks EXCEPT ![t].status = "failed", ![t].left = None]
  /\ UNCHANGED issued

\* Needs no token.  A terminal row is returned as it is.
cancel(t) ==
  /\ tasks[t].status \notin Terminal \cup {Absent}
  /\ tasks' = [tasks EXCEPT ![t].status = "cancelled", ![t].left = None]
  /\ UNCHANGED issued

\* One time unit passes for every lease.
Tick ==
  /\ \E t \in Tasks : tasks[t].left \notin {None, 0}
  /\ tasks' = [t \in Tasks |->
                 IF tasks[t].left \in {None, 0} THEN tasks[t]
                 ELSE [tasks[t] EXCEPT !.left = tasks[t].left - 1]]
  /\ UNCHANGED issued

-----------------------------------------------------------------------------
Enqueue   == \E t \in Tasks, k \in Kinds, p \in Priorities : enqueue(t, k, p)
ClaimNext == \E a \in Actors, K \in SUBSET Kinds \ {{}}, l \in 1 .. MaxLease :
               claim_next(a, K, l)
Heartbeat == \E t \in Tasks, n \in DOMAIN issued, l \in 1 .. MaxLease, s \in Leased :
               heartbeat(t, n, l, s)
Complete  == \E t \in Tasks, n \in DOMAIN issued : complete(t, n)
Fail      == \E t \in Tasks, n \in DOMAIN issued : fail(t, n)
Cancel    == \E t \in Tasks : cancel(t)

Next == \/ Enqueue \/ ClaimNext \/ release_expired_leases
        \/ Heartbeat \/ Complete \/ Fail \/ Cancel \/ Tick

Spec == Init /\ [][Next]_vars

\* Time passes, and some worker keeps polling for work of some kind.
FairSpec == Spec /\ WF_vars(Tick) /\ WF_vars(ClaimNext)
-----------------------------------------------------------------------------
(* Properties *)

\* A row under lease has an owner, a token and a deadline; a queued row has
\* none of them; only a leased row has a deadline.  Every transition must leave
\* the four columns agreeing, or a sweep strands or steals the row.
LeaseColumnsAgree == \A t \in Tasks : LET row == tasks[t] IN
  /\ row.status \in Leased => None \notin {row.owner, row.token, row.left}
  /\ row.status \in {Absent, "queued"} => row.owner = None /\ row.token = None
  /\ row.left # None => row.status \in Leased

\* The token a row accepts was drawn by a claim of that row by its owner.
OwnerDrewToken == \A t \in Tasks : LET row == tasks[t] IN
  row.token # None => /\ row.token \in DOMAIN issued
                      /\ issued[row.token] = [task |-> t, actor |-> row.owner]

\* A row accepts the token of its latest claim or none: a worker whose lease was
\* swept and granted again can never write to the row, however late it calls.
LatestClaimWins == \A t \in Tasks : tasks[t].token # None =>
  \A n \in DOMAIN issued : n > tasks[t].token => issued[n].task # t

\* A heartbeat, a result or an error from a worker whose claim was superseded by a
\* later claim of the same row is rejected, even when the same actor holds both.
SupersededIsRejected ==
  [][\A t \in Tasks, n, m \in DOMAIN issued :
       n < m /\ issued[m].task = t =>
         ~ \/ complete(t, n) \/ fail(t, n)
           \/ \E l \in 1 .. MaxLease, s \in Leased : heartbeat(t, n, l, s)]_vars

\* No call takes a running lease from its worker: the accepted token changes
\* only on a row that is not under lease or whose lease has run out.
RunningLeaseKept ==
  [][\A t \in Tasks : tasks'[t].token # tasks[t].token
                         => tasks[t].left \in {None, 0}]_vars

\* What claim_next may hand out next to t: queued rows and, when a sweep covers
\* the table, rows whose lease has run out.
Waiting(u) == \/ tasks[u].status = "queued"
              \/ BatchSize >= Cardinality(Tasks) /\ tasks[u].left = 0

\* The claim of a row beats every waiting row of its kind: a higher priority, or
\* the same and no younger, abandoned rows counted: the sweep precedes the choice.
BestFirst ==
  [][Len(issued') > Len(issued) =>
       LET t == issued'[Len(issued')].task IN
       \A u \in Tasks : Waiting(u) /\ tasks[u].kind = tasks[t].kind =>
         \/ tasks[u].priority < tasks[t].priority
         \/ /\ tasks[u].priority = tasks[t].priority
            /\ tasks[t].created <= tasks[u].created]_vars

\* The docstring's lifecycle ends in completed, failed or cancelled.  The code
\* lets the holder of the last token leave them again.
TerminalIsFinal ==
  [][\A t \in Tasks : tasks[t].status \in Terminal
                         => tasks'[t].status = tasks[t].status]_vars

\* What the code does keep of it: whatever happens to a finished row is the doing
\* of the worker that made the row's latest claim, with that claim's token.  No
\* sweep, no claim and no earlier worker brings a finished row back, and a row
\* cancelled before its first claim stays as it is.
FinishedAnswersToLastHolder ==
  [][\A t \in Tasks : tasks[t].status \in Terminal /\ tasks'[t] # tasks[t] =>
       \E n \in DOMAIN issued :
         /\ issued[n] = [task |-> t, actor |-> tasks[t].owner]
         /\ \A m \in DOMAIN issued : m > n => issued[m].task # t
         /\ \/ complete(t, n) \/ fail(t, n)
            \/ \E l \in 1 .. MaxLease, s \in Leased : heartbeat(t, n, l, s)]_vars

\* claim_count is the number of times the row was handed out, over every sweep,
\* renewal and return of the row: what a caller reads to spot a task that kills
\* its workers.
ClaimsCounted == \A t \in Tasks :
  tasks[t].claims = Cardinality({n \in DOMAIN issued : issued[n].task = t})

Lapsed(t) == tasks[t].status \in Leased /\ tasks[t].left = 0

\* An abandoned row does not stay leased: it is swept, claimed again, or its
\* worker is heard of after all.
AbandonedIsReleased == \A t \in Tasks : Lapsed(t) ~> ~Lapsed(t)

\* The holder of a live lease: the refinement mapping to ExclusiveLease.
Holder == [t \in Tasks |-> IF tasks[t].status \in Leased /\ tasks[t].left # 0
                           THEN tasks[t].owner ELSE None]

Lease == INSTANCE ExclusiveLease
           WITH Resources <- Tasks, Nobody <- None, holder <- Holder

\* Claim, sweep and expiry together keep a task with one worker at a time.
ImplementsExclusiveLease == Lease!Spec
=============================================================================
