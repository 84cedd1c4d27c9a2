---------------------------- MODULE RemoteTasks ----------------------------
(***************************************************************************)
(* Remote work for a machine's agents: RemoteTaskService in                *)
(* nas_bridge/app/services/remote_task_service.py.                         *)
(*                                                                         *)
(* A task is created queued and claimed under a lease.  Ownership is kept  *)
(* twice: as a row of the generic lease table (ResourceLeases, resource    *)
(* kind "remote_task") and as an assignment of the task.  The holder's     *)
(* heartbeats, approval requests and final report are checked against the  *)
(* assignment and acted out on both.  Approvals are kept twice as well:    *)
(* the task's own row and its mirror in the kernel's approval table, which *)
(* the kernel's own API can resolve behind the task's back.                *)
(*                                                                         *)
(* Every call is one transaction on the event loop, one atomic action.  A  *)
(* claim reads the clock for the assignment (745) before the lease service *)
(* reads it again, so an assignment can still be running when its lease    *)
(* has run out.  Notes, evidence texts and machine presence rows are       *)
(* written and never read back by these operations: they are left out.     *)
(***************************************************************************)
EXTENDS ResourceLeases, FiniteSets

CONSTANTS
  Priority,     \* Priority[t]: 0 critical, 1 high, 2 normal, 3 anything else
  Pool,         \* Pool[t]: the task's machine and origin surface
  MaxApprovals  \* bound: approvals requested for one task

Tasks == Resources

ASSUME RemoteTasksAssumption ==
  /\ Priority \in [Tasks -> 0 .. 3]
  /\ MaxApprovals \in Nat
  /\ "claimed" \in Statuses

VARIABLES
  tasks,        \* the remote_tasks table
  assignments,  \* remote_task_assignments, per task, in the order of claimed_at
  approvals     \* remote_task_approvals and their kernel mirrors, per task

taskVars == <<tasks, assignments, approvals>>
vars     == <<leases, drawn, tasks, assignments, approvals>>

Settled       == {"completed", "failed", "interrupted"}
HeartbeatSays == {"claimed", "executing", "verifying", "blocked_approval", "interrupted"}
TaskStatuses  == {"absent", "queued"} \cup HeartbeatSays \cup Settled

TaskRows    == [status : TaskStatuses, owner : Actors \cup {None}, created : Nat]
Assignments == [actor  : Actors, token : Nat, left : 0 .. MaxLease,
                status : {"claimed", "expired"} \cup Settled]
Approvals   == [status : {"pending", "approved", "denied"},
                kernel : {"pending", "approved", "rejected"}]

TypeOK == /\ LeasesTypeOK
          /\ tasks \in [Tasks -> TaskRows]
          /\ assignments \in [Tasks -> Seq(Assignments)]
          /\ approvals \in [Tasks -> Seq(Approvals)]

Init == /\ LeasesInit
        /\ tasks = [t \in Tasks |-> [status |-> "absent", owner |-> None, created |-> 0]]
        /\ assignments = [t \in Tasks |-> << >>]
        /\ approvals = [t \in Tasks |-> << >>]

-----------------------------------------------------------------------------
\* created_at comes from a clock that two inserts may read at the same value.
CreatedAt(n) == /\ \A u \in Tasks : tasks[u].created <= n
                /\ \/ n = 1
                   \/ \E u \in Tasks : n \in {tasks[u].created, tasks[u].created + 1}

create_task(t) ==
  /\ tasks[t].status = "absent"
  /\ \E n \in 1 .. Cardinality(Tasks) :
       /\ CreatedAt(n)
       /\ tasks' = [tasks EXCEPT ![t] = [status |-> "queued", owner |-> None, created |-> n]]
  /\ UNCHANGED <<leases, drawn, assignments, approvals>>

WithStatus(t, status)     == [tasks EXCEPT ![t].status = status]
OwnedBy(t, a, status)     == [tasks EXCEPT ![t].status = status, ![t].owner = a]

\* Assignment c of t is the one _current_assignment returns, the newest claimed.
IsAssigned(t, c) ==
  /\ c \in DOMAIN assignments[t]
  /\ assignments[t][c].status = "claimed"
  /\ \A j \in DOMAIN assignments[t] : assignments[t][j].status = "claimed" => j <= c

Unassigned(t) == \A j \in DOMAIN assignments[t] : assignments[t][j].status # "claimed"

NewAssignment(a, token, lease) ==
  [actor |-> a, token |-> token, left |-> lease, status |-> "claimed"]

\* The claim's earlier reading of the clock may have seen assignment c running
\* although the lease had run out at the later one.  Every older assignment ran
\* out before the claim that made its successor.
SeenRunning(t, c) == assignments[t][c].left > 0 \/ c = Len(assignments[t])


\* _upsert_assignment_from_lease: row is the lease the claim got.
assign_from_lease(t, a, row) ==
  LET new == NewAssignment(a, row.token, row.left) IN
  \/ /\ Unassigned(t)
     /\ assignments' = [assignments EXCEPT ![t] = Append(assignments[t], new)]
  \/ \E c \in DOMAIN assignments[t] :
       /\ IsAssigned(t, c)
       /\ \/ /\ SeenRunning(t, c)
             /\ assignments[t][c].actor = a
             /\ assignments' = [assignments EXCEPT ![t][c] = new]
          \/ /\ SeenRunning(t, c)
             /\ assignments[t][c].actor # a
             /\ assignments' = [assignments EXCEPT ![t] = Append(assignments[t], new)]
          \/ /\ assignments[t][c].left = 0
             /\ assignments' = [assignments EXCEPT ![t] =
                  Append([assignments[t] EXCEPT ![c].status = "expired"], new)]

\* The token a claim by a asks to keep: that of a's own assignment, run out or not.
\* None when it has none: the lease service keeps the row's token or draws one.
IsKeptToken(t, a, given) ==
  \/ \E c \in DOMAIN assignments[t] :
       /\ IsAssigned(t, c)
       /\ given = IF assignments[t][c].actor = a THEN assignments[t][c].token ELSE None
  \/ Unassigned(t) /\ given = None

\* Mutant: the claim leaves the task's status to the first heartbeat.
claim_keeps_status(t, a, lease) ==
  /\ \E given \in (1 .. drawn) \cup {None} :
       /\ IsKeptToken(t, a, given)
       /\ claim_resource_lease(t, a, given, lease, "claimed")
  /\ \E i \in DOMAIN leases'[t] : /\ IsCurrent(leases'[t], i)
                                  /\ assign_from_lease(t, a, leases'[t][i])
  /\ tasks' = OwnedBy(t, a, tasks[t].status)
  /\ UNCHANGED approvals

\* _claim_task_in_session.  The task's status is not looked at.
claim_in_session(t, a, lease) ==
  /\ \E given \in (1 .. drawn) \cup {None} :
       /\ IsKeptToken(t, a, given)
       /\ claim_resource_lease(t, a, given, lease, "claimed")
  /\ \E i \in DOMAIN leases'[t] : /\ IsCurrent(leases'[t], i)
                                  /\ assign_from_lease(t, a, leases'[t][i])
  /\ tasks' = OwnedBy(t, a, "claimed")
  /\ UNCHANGED approvals

claim_task(t, a, lease) == tasks[t].status # "absent" /\ claim_in_session(t, a, lease)

\* The rows ORDER BY priority, created_at LIMIT 1 may return.
Heads(P) ==
  LET queue == {t \in Tasks : tasks[t].status = "queued" /\ Pool[t] \in P}
  IN  {t \in queue : \A u \in queue :
         \/ Priority[t] < Priority[u]
         \/ Priority[t] = Priority[u] /\ tasks[t].created <= tasks[u].created}

claim_next_task(P, a, lease) == \E t \in Heads(P) : claim_in_session(t, a, lease)

-----------------------------------------------------------------------------
\* Mutant: the deadline is left to the lease service.
require_assignment(t, c, a, n) ==
  /\ IsAssigned(t, c)
  /\ assignments[t][c].actor = a
  /\ assignments[t][c].token = n

\* Assignment c is a's, under token n, and has not run out.
require_active_assignment(t, c, a, n) ==
  /\ IsAssigned(t, c)
  /\ assignments[t][c].actor = a
  /\ assignments[t][c].token = n
  /\ assignments[t][c].left > 0

\* says is the status the heartbeat's phase and work counts amount to.
heartbeat_task(t, a, n, lease, says) ==
  /\ \E c \in DOMAIN assignments[t] :
       /\ require_active_assignment(t, c, a, n)
       /\ assignments' = [assignments EXCEPT ![t][c].left = lease]
  /\ \E i \in DOMAIN leases[t] :
       /\ IsCurrent(leases[t], i)
       /\ heartbeat_resource_lease(t, i, a, n, lease, "claimed")
  /\ tasks' = OwnedBy(t, a, says)
  /\ UNCHANGED approvals

\* Evidence of work, from anyone: no assignment is asked for.
add_evidence(t) ==
  /\ tasks[t].status \in {"queued", "claimed"}
  /\ tasks' = WithStatus(t, "executing")
  /\ UNCHANGED <<leases, drawn, assignments, approvals>>

request_approval(t, a, n) ==
  /\ Len(approvals[t]) < MaxApprovals
  /\ \E c \in DOMAIN assignments[t] : require_active_assignment(t, c, a, n)
  /\ approvals' = [approvals EXCEPT ![t] =
                     Append(approvals[t], [status |-> "pending", kernel |-> "pending"])]
  /\ tasks' = OwnedBy(t, a, "blocked_approval")
  /\ UNCHANGED <<leases, drawn, assignments>>

\* Mutant: the mirror is not told.
KernelUntold(row, decision) == row

\* The kernel keeps the first resolution it is given.
KernelResolved(row, decision) ==
  IF row.kernel = "pending" THEN [row EXCEPT !.kernel = decision] ELSE row

\* Mutant: the kernel stores the word it was given.
KernelStatusVerbatim(resolution) == resolution

KernelStatus(resolution) == IF resolution = "approved" THEN "approved" ELSE "rejected"

\* Only the newest approval can be resolved.  The status of the task and the
\* assignment of whoever asked are not looked at.
resolve_approval(t, resolution) ==
  LET n == Len(approvals[t]) IN
  /\ approvals[t] # << >>
  /\ approvals[t][n].status = "pending"
  /\ approvals' = [approvals EXCEPT ![t][n] =
       KernelResolved([approvals[t][n] EXCEPT !.status = resolution], KernelStatus(resolution))]
  /\ tasks' = WithStatus(t, IF resolution = "approved" THEN "claimed" ELSE "failed")
  /\ UNCHANGED <<leases, drawn, assignments>>

\* POST /api/kernel/approvals/{id}/resolve on a mirrored row.
kernel_resolve(t, i, decision) ==
  /\ approvals[t][i].kernel = "pending"
  /\ approvals' = [approvals EXCEPT ![t][i] = KernelResolved(approvals[t][i], decision)]
  /\ UNCHANGED <<leases, drawn, tasks, assignments>>

\* Mutant: the lease is left to run out.
release_nothing(t, a, n) == UNCHANGED leaseVars

\* Mutant: releasing a lease deletes its history.
release_deletes(t, a, n) == /\ leases' = [leases EXCEPT ![t] = << >>]
                            /\ UNCHANGED drawn

\* The holder's lease row, if one is live, is released; one that is live and not
\* the holder's makes the call fail.
release_kernel_lease(t, a, n) ==
  \/ \E i \in DOMAIN leases[t] : /\ IsCurrent(leases[t], i)
                                 /\ release_resource_lease(t, i, a, n)
  \/ /\ \A i \in DOMAIN leases[t] : ~IsCurrent(leases[t], i)
     /\ UNCHANGED leaseVars

Released(t, c, final) == [assignments EXCEPT ![t][c].status = final, ![t][c].left = 0]

\* complete_task, fail_task and interrupt_task, by their final status.  The
\* status the task had is not looked at.
settle_task(t, a, n, final) ==
  /\ \E c \in DOMAIN assignments[t] : /\ require_active_assignment(t, c, a, n)
                                      /\ assignments' = Released(t, c, final)
  /\ release_kernel_lease(t, a, n)
  /\ tasks' = OwnedBy(t, a, final)
  /\ UNCHANGED approvals

complete_task(t, a, n)  == settle_task(t, a, n, "completed")
fail_task(t, a, n)      == settle_task(t, a, n, "failed")
interrupt_task(t, a, n) == settle_task(t, a, n, "interrupted")

\* The bridge's own cleanup of a task nobody reports on.
settle_stale_task(t, final) ==
  /\ tasks[t].status \notin Settled \cup {"absent"}
  /\ \/ \E c \in DOMAIN assignments[t] :
          /\ IsAssigned(t, c)
          /\ LET held == assignments[t][c] IN
             /\ \/ \E i \in DOMAIN leases[t] :
                     /\ IsCurrent(leases[t], i)
                     /\ release_resource_lease(t, i, held.actor, held.token)
                \/ /\ \A i \in DOMAIN leases[t] :
                        ~ (IsCurrent(leases[t], i) /\ ValidHolder(leases[t][i], held.actor, held.token))
                   /\ UNCHANGED leaseVars
             /\ tasks' = OwnedBy(t, held.actor, final)
          /\ assignments' = Released(t, c, final)
     \/ /\ Unassigned(t)
        /\ tasks' = WithStatus(t, final)
        /\ UNCHANGED <<leases, drawn, assignments>>
  /\ UNCHANGED approvals

\* One time unit passes, for the leases and for the assignments' copies.
Tick ==
  /\ LeasesTick
  /\ assignments' = [t \in Tasks |-> Aged(assignments[t])]
  /\ UNCHANGED <<tasks, approvals>>

-----------------------------------------------------------------------------
CreateTask   == \E t \in Tasks : create_task(t)
ClaimTask    == \E t \in Tasks, a \in Actors, l \in 1 .. MaxLease : claim_task(t, a, l)
ClaimNext    == \E P \in SUBSET {Pool[t] : t \in Tasks}, a \in Actors, l \in 1 .. MaxLease :
                  claim_next_task(P, a, l)
Heartbeat    == \E t \in Tasks, a \in Actors, n \in 1 .. drawn, l \in 1 .. MaxLease :
                  \E says \in HeartbeatSays : heartbeat_task(t, a, n, l, says)
AddEvidence  == \E t \in Tasks : add_evidence(t)
RequestApproval == \E t \in Tasks, a \in Actors, n \in 1 .. drawn : request_approval(t, a, n)
ResolveApproval == \E t \in Tasks, r \in {"approved", "denied"} : resolve_approval(t, r)
KernelResolve   == \E t \in Tasks : \E i \in DOMAIN approvals[t] :
                     \E d \in {"approved", "rejected"} : kernel_resolve(t, i, d)
Report       == \E t \in Tasks, a \in Actors, n \in 1 .. drawn :
                  complete_task(t, a, n) \/ fail_task(t, a, n) \/ interrupt_task(t, a, n)
SettleStale  == \E t \in Tasks, final \in Settled : settle_stale_task(t, final)

Next == \/ CreateTask \/ ClaimTask \/ ClaimNext \/ Heartbeat \/ AddEvidence
        \/ RequestApproval \/ ResolveApproval \/ KernelResolve
        \/ Report \/ SettleStale \/ Tick

Spec == Init /\ [][Next]_vars

FairSpec == Spec /\ WF_vars(Tick)
-----------------------------------------------------------------------------
(* Properties *)

\* The two records of ownership agree: a lease row is live exactly when the newest
\* assignment is running, and then holder, token and deadline are the same and the
\* holder is the task's owner.  Hence at most one assignment of a task is live, as
\* the design document demands.
LeaseIsAssignment == \A t \in Tasks :
  /\ \A i \in DOMAIN leases[t] : Live(leases[t][i]) =>
       LET n == Len(assignments[t]) IN
       /\ n > 0
       /\ IsAssigned(t, n)
       /\ leases[t][i].holder = assignments[t][n].actor
       /\ leases[t][i].holder = tasks[t].owner
       /\ leases[t][i].token = assignments[t][n].token
       /\ leases[t][i].left = assignments[t][n].left
  /\ \A c \in DOMAIN assignments[t] :
       assignments[t][c].status = "claimed" /\ assignments[t][c].left > 0 =>
         /\ c = Len(assignments[t])
         /\ \E i \in DOMAIN leases[t] : IsCurrent(leases[t], i)

\* What claim_next hands out has never been claimed, and nobody holds the lease
\* of a completed task.
StatusAgreesWithLease == \A t \in Tasks :
  /\ tasks[t].status \in {"absent", "queued"} => leases[t] = << >> /\ assignments[t] = << >>
  /\ tasks[t].status = "completed" => \A i \in DOMAIN leases[t] : ~Live(leases[t][i])

\* Who claimed t last.
Newest(t) == IF assignments[t] = << >> THEN None
             ELSE assignments[t][Len(assignments[t])].actor

\* Of the calls that present a token (report, approval request, heartbeat) only those
\* of the newest claim's actor are taken: a claim by another actor shuts its predecessor's
\* token out for good, even though an assignment seen running by the claim's first clock
\* reading stays "claimed" for ever.  add_evidence asks for no token: late evidence of
\* the predecessor still takes the task from "claimed" to "executing".
PredecessorsTokenIsRefused ==
  [][\A t \in Tasks, a \in Actors, n \in 1 .. drawn :
       Newest(t) # a =>
         ~ \/ complete_task(t, a, n) \/ fail_task(t, a, n) \/ interrupt_task(t, a, n)
           \/ request_approval(t, a, n)
           \/ \E l \in 1 .. MaxLease, says \in HeartbeatSays :
                heartbeat_task(t, a, n, l, says)]_vars

\* A resolved approval is not left pending in the kernel, where a second reviewer
\* would be asked to decide what is decided.
NoGhostApproval == \A t \in Tasks : \A i \in DOMAIN approvals[t] :
  approvals[t][i].kernel = "pending" => approvals[t][i].status = "pending"

\* Every step uses the lease table through the lease service's operations.
ImplementsLeases == [][LeasesNext]_leaseVars
=============================================================================
