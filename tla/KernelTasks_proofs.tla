------------------------- MODULE KernelTasks_proofs -------------------------
(***************************************************************************)
(* Proofs about KernelTasks for every set of tasks, actors and kinds, every *)
(* lease length and every number of claims.                                *)
(***************************************************************************)
EXTENDS KernelTasks, SequenceTheorems, FiniteSetTheorems, TLAPS

\* The part of the invariant that concerns the row of task t, given the claims
\* granted so far.  Different rows share nothing but that sequence.
RowInv(t, row, iss) ==
  /\ row \in Rows
  /\ row.status \in Leased => None \notin {row.owner, row.token, row.left}
  /\ row.status \in {Absent, "queued"} => row.owner = None /\ row.token = None
  /\ row.left # None => row.status \in Leased
  /\ row.token # None => /\ row.token \in 1 .. Len(iss)
                         /\ iss[row.token] = [task |-> t, actor |-> row.owner]
                         /\ \A n \in 1 .. Len(iss) : n > row.token => iss[n].task # t

\* The inductive invariant: who may write to a row is settled by the token the
\* row accepts, and that token always names the row's latest claim.
IInv == /\ issued \in Seq(Claims)
        /\ tasks = [t \in Tasks |-> tasks[t]]
        /\ \A t \in Tasks : RowInv(t, tasks[t], issued)

\* The invariants of the run are parts of it, or follow.
LEMMA IInvImplies ==
  IInv => TypeOK /\ LeaseColumnsAgree /\ OwnerDrewToken /\ LatestClaimWins
<1> SUFFICES ASSUME IInv
             PROVE  TypeOK /\ LeaseColumnsAgree /\ OwnerDrewToken /\ LatestClaimWins
  OBVIOUS
<1>1. DOMAIN issued = 1 .. Len(issued)
  BY DEF IInv
<1>2. TypeOK
  BY DEF IInv, RowInv, TypeOK
<1>3. LeaseColumnsAgree
  BY DEF IInv, RowInv, LeaseColumnsAgree
<1>4. OwnerDrewToken /\ LatestClaimWins
  BY <1>1 DEF IInv, RowInv, OwnerDrewToken, LatestClaimWins
<1> QED
  BY <1>2, <1>3, <1>4

\* A row that accepts a token is owned by the actor that drew it.
LEMMA TokenHasOwner ==
  ASSUME IInv, NEW t \in Tasks, tasks[t].token # None
  PROVE  tasks[t].owner \in Actors
<1>1. RowInv(t, tasks[t], issued) /\ issued \in Seq(Claims)
  BY DEF IInv
<1>2. issued[tasks[t].token] \in Claims
  BY <1>1 DEF RowInv
<1>3. issued[tasks[t].token].actor = tasks[t].owner
  BY <1>1 DEF RowInv
<1> QED
  BY <1>2, <1>3 DEF Claims

-----------------------------------------------------------------------------
\* A sweep keeps the invariant of every row.
LEMMA SweptKeepsRows ==
  ASSUME IInv, NEW B, NEW t \in Tasks
  PROVE  RowInv(t, Swept(B)[t], issued)
<1>1. RowInv(t, tasks[t], issued)
  BY DEF IInv
<1>2. CASE t \in B /\ tasks[t].left = 0
  BY <1>1, <1>2 DEF RowInv, Swept, Requeued, Rows, Statuses, Leased, Terminal, Absent
<1>3. CASE ~(t \in B /\ tasks[t].left = 0)
  BY <1>1, <1>3 DEF Swept
<1> QED
  BY <1>2, <1>3

\* A row that is not the one claimed keeps its invariant when a claim is added.
LEMMA OtherRowKept ==
  ASSUME NEW iss \in Seq(Claims), NEW c \in Claims, NEW u \in Tasks, NEW row,
         c.task # u, RowInv(u, row, iss)
  PROVE  RowInv(u, row, Append(iss, c))
<1>1. /\ Len(Append(iss, c)) = Len(iss) + 1
      /\ Append(iss, c)[Len(iss) + 1] = c
      /\ \A n \in 1 .. Len(iss) : Append(iss, c)[n] = iss[n]
      /\ Len(iss) \in Nat
  BY AppendProperties
<1>2. row.token # None =>
        /\ row.token \in 1 .. Len(iss)
        /\ iss[row.token] = [task |-> u, actor |-> row.owner]
        /\ \A n \in 1 .. Len(iss) : n > row.token => iss[n].task # u
  BY DEF RowInv
<1>3. ASSUME NEW n \in 1 .. Len(iss) + 1, row.token # None, n > row.token
      PROVE  Append(iss, c)[n].task # u
  <2>1. CASE n = Len(iss) + 1
    BY <1>1, <2>1
  <2>2. CASE n \in 1 .. Len(iss)
    BY <1>1, <1>2, <1>3, <2>2
  <2> QED
    BY <1>1, <2>1, <2>2
<1>4. row.token # None =>
        /\ row.token \in 1 .. Len(iss) + 1
        /\ Append(iss, c)[row.token] = [task |-> u, actor |-> row.owner]
  BY <1>1, <1>2
<1> QED
  BY <1>1, <1>3, <1>4 DEF RowInv

\* The claimed row accepts the new token, which is the latest of all.
LEMMA ClaimedRowInv ==
  ASSUME NEW iss \in Seq(Claims), NEW a \in Actors, NEW t \in Tasks, NEW row,
         NEW l \in 1 .. MaxLease, RowInv(t, row, iss)
  PROVE  RowInv(t, Claimed(row, a, Len(iss) + 1, l),
                Append(iss, [task |-> t, actor |-> a]))
<1> DEFINE c   == [task |-> t, actor |-> a]
           new == Claimed(row, a, Len(iss) + 1, l)
<1>1. c \in Claims
  BY DEF Claims
<1>2. /\ Len(Append(iss, c)) = Len(iss) + 1
      /\ Append(iss, c)[Len(iss) + 1] = c
      /\ Len(iss) \in Nat
  BY <1>1, AppendProperties
<1>3. row \in Rows
  BY DEF RowInv
<1>4. /\ new \in Rows
      /\ new.status = "claimed"
      /\ new.owner = a
      /\ new.token = Len(iss) + 1
      /\ new.left = l
  <2>1. row.claims + 1 \in Nat /\ Len(iss) + 1 \in Nat /\ l \in 0 .. MaxLease
    BY <1>2, <1>3, KernelTasksAssumption DEF Rows
  <2> QED
    BY <1>3, <2>1 DEF Claimed, Rows, Statuses, Leased
<1>5. /\ a # None
      /\ l # None
      /\ Len(iss) + 1 # None
  BY <1>2, KernelTasksAssumption
<1> HIDE DEF new
<1>6. "claimed" \in Leased /\ "claimed" \notin {Absent, "queued"}
  BY DEF Leased, Absent
<1>7. \A n \in 1 .. Len(iss) + 1 : ~(n > Len(iss) + 1)
  BY <1>2
<1>8. RowInv(t, new, Append(iss, c))
  BY <1>2, <1>4, <1>5, <1>6, <1>7 DEF RowInv
<1> QED
  BY <1>8 DEF new

-----------------------------------------------------------------------------
\* A new row has no lease, and nobody has a token for it.
LEMMA EnqueueKeepsIInv ==
  ASSUME IInv, NEW t \in Tasks, NEW k \in Kinds, NEW p \in Priorities, enqueue(t, k, p)
  PROVE  IInv'
<1>1. PICK n \in 1 .. Cardinality(Tasks) :
        tasks' = [tasks EXCEPT ![t] =
                   [NoRow EXCEPT !.status = "queued", !.kind = k,
                                 !.priority = p, !.created = n]]
  BY DEF enqueue
<1>2. issued' = issued
  BY DEF enqueue
<1>3. n \in Nat
  BY <1>1
<1>4. RowInv(t, [NoRow EXCEPT !.status = "queued", !.kind = k,
                              !.priority = p, !.created = n], issued)
  BY <1>3, KernelTasksAssumption
     DEF RowInv, NoRow, Rows, Statuses, Leased, Terminal, Absent
<1> QED
  BY <1>1, <1>2, <1>4 DEF IInv

\* A swept row loses its lease and its token together.
LEMMA SweepKeepsIInv ==
  ASSUME IInv, NEW B, tasks' = Swept(B), UNCHANGED issued
  PROVE  IInv'
<1>1. \A t \in Tasks : RowInv(t, tasks'[t], issued')
  BY SweptKeepsRows
<1>2. tasks' = [t \in Tasks |-> tasks'[t]]
  BY DEF Swept
<1> QED
  BY <1>1, <1>2 DEF IInv

\* A claim draws a token no other row has.
LEMMA ClaimKeepsIInv ==
  ASSUME IInv, NEW a \in Actors, NEW K, NEW l \in 1 .. MaxLease, claim_next(a, K, l)
  PROVE  IInv'
<1>1. PICK B \in Batches :
        \/ tasks' = Swept(B) /\ UNCHANGED issued
        \/ \E t \in Heads(Swept(B), K) :
             /\ issued' = Append(issued, [task |-> t, actor |-> a])
             /\ tasks' = [Swept(B) EXCEPT ![t] =
                            Claimed(Swept(B)[t], a, Len(issued) + 1, l)]
  BY DEF claim_next
<1>2. CASE tasks' = Swept(B) /\ UNCHANGED issued
  BY <1>2, SweepKeepsIInv
<1>3. ASSUME NEW t \in Heads(Swept(B), K),
             issued' = Append(issued, [task |-> t, actor |-> a]),
             tasks' = [Swept(B) EXCEPT ![t] =
                        Claimed(Swept(B)[t], a, Len(issued) + 1, l)]
      PROVE  IInv'
  <2>1. t \in Tasks /\ issued \in Seq(Claims) /\ [task |-> t, actor |-> a] \in Claims
    BY DEF Heads, Claims, IInv
  <2>2. issued' \in Seq(Claims)
    BY <1>3, <2>1, AppendProperties
  <2>3. RowInv(t, tasks'[t], issued')
    <3>1. RowInv(t, Swept(B)[t], issued)
      BY <2>1, SweptKeepsRows
    <3>2. tasks'[t] = Claimed(Swept(B)[t], a, Len(issued) + 1, l)
      BY <1>3, <2>1 DEF Swept
    <3> QED
      BY <1>3, <2>1, <3>1, <3>2, ClaimedRowInv
  <2>4. ASSUME NEW u \in Tasks, u # t
        PROVE  RowInv(u, tasks'[u], issued')
    <3>1. tasks'[u] = Swept(B)[u]
      BY <1>3, <2>4 DEF Swept
    <3>2. RowInv(u, Swept(B)[u], issued)
      BY SweptKeepsRows
    <3> QED
      BY <1>3, <2>1, <2>4, <3>1, <3>2, OtherRowKept
  <2>5. tasks' = [u \in Tasks |-> tasks'[u]]
    BY <1>3 DEF Swept
  <2> QED
    BY <2>2, <2>3, <2>4, <2>5 DEF IInv
<1> QED
  BY <1>1, <1>2, <1>3

\* heartbeat, complete, fail and cancel write the status and the deadline of one
\* row that has a token, or has none and ends up without a deadline.
LEMMA WriteKeepsIInv ==
  ASSUME IInv, NEW t \in Tasks, NEW s \in Leased \cup Terminal,
         NEW d \in (0 .. MaxLease) \cup {None},
         s \in Leased => tasks[t].token # None /\ d # None,
         s \in Terminal => d = None,
         tasks' = [tasks EXCEPT ![t].status = s, ![t].left = d],
         UNCHANGED issued
  PROVE  IInv'
<1> DEFINE new == [tasks[t] EXCEPT !.status = s, !.left = d]
<1>1. RowInv(t, tasks[t], issued)
  BY DEF IInv
<1>2. tasks[t].token # None => tasks[t].owner # None
  BY TokenHasOwner, KernelTasksAssumption
<1>3. /\ new \in Rows
      /\ new.status = s
      /\ new.left = d
      /\ new.token = tasks[t].token
      /\ new.owner = tasks[t].owner
  BY <1>1 DEF RowInv, Rows, Statuses, Leased, Terminal
<1>4. (s \in Leased \/ s \in Terminal) /\ s \notin {Absent, "queued"}
  BY DEF Leased, Terminal, Absent
<1>5. tasks' = [tasks EXCEPT ![t] = new]
  BY DEF IInv
<1> HIDE DEF new
<1>6. RowInv(t, new, issued)
  BY <1>1, <1>2, <1>3, <1>4 DEF RowInv, Leased, Terminal
<1> QED
  BY <1>5, <1>6 DEF IInv

\* Time shortens leases and touches nothing else.
LEMMA TickKeepsIInv ==
  ASSUME IInv, Tick
  PROVE  IInv'
<1>1. ASSUME NEW t \in Tasks
      PROVE  RowInv(t, tasks'[t], issued)
  <2>1. RowInv(t, tasks[t], issued)
    BY DEF IInv
  <2>2. CASE tasks[t].left \in {None, 0}
    BY <2>1, <2>2 DEF Tick
  <2>3. CASE tasks[t].left \notin {None, 0}
    <3>1. tasks'[t] = [tasks[t] EXCEPT !.left = tasks[t].left - 1]
      BY <2>3 DEF Tick
    <3>2. tasks[t].left - 1 \in 0 .. MaxLease /\ tasks[t].left - 1 # None
      BY <2>1, <2>3, KernelTasksAssumption DEF RowInv, Rows
    <3> QED
      BY <2>1, <2>3, <3>1, <3>2 DEF RowInv, Rows
  <2> QED
    BY <2>2, <2>3
<1>2. tasks' = [t \in Tasks |-> tasks'[t]] /\ issued' = issued
  BY DEF Tick
<1> QED
  BY <1>1, <1>2 DEF IInv

-----------------------------------------------------------------------------
\* Every step keeps the invariant.
LEMMA StepKeepsIInv == IInv /\ [Next]_vars => IInv'
<1> SUFFICES ASSUME IInv, [Next]_vars
             PROVE  IInv'
  OBVIOUS
<1>1. CASE Enqueue
  BY <1>1, EnqueueKeepsIInv DEF Enqueue
<1>2. CASE ClaimNext
  BY <1>2, ClaimKeepsIInv DEF ClaimNext
<1>3. CASE release_expired_leases
  BY <1>3, SweepKeepsIInv DEF release_expired_leases
<1>4. CASE Heartbeat
  <2>1. PICK t \in Tasks, n \in DOMAIN issued, l \in 1 .. MaxLease, s \in Leased :
          heartbeat(t, n, l, s)
    BY <1>4 DEF Heartbeat
  <2>2. n \in Nat /\ tasks[t].token = n
    BY <2>1 DEF IInv, heartbeat, require_owned_row
  <2>3. tasks[t].token # None /\ l # None /\ l \in 0 .. MaxLease
    BY <2>2, KernelTasksAssumption
  <2>4. s \notin Terminal
    BY DEF Leased, Terminal
  <2> QED
    BY <2>1, <2>3, <2>4, WriteKeepsIInv DEF heartbeat
<1>5. CASE Complete
  <2>1. PICK t \in Tasks, n \in DOMAIN issued : complete(t, n)
    BY <1>5 DEF Complete
  <2>2. "completed" \in Terminal /\ "completed" \notin Leased
    BY DEF Terminal, Leased
  <2> QED
    BY <2>1, <2>2, WriteKeepsIInv DEF complete
<1>6. CASE Fail
  <2>1. PICK t \in Tasks, n \in DOMAIN issued : fail(t, n)
    BY <1>6 DEF Fail
  <2>2. "failed" \in Terminal /\ "failed" \notin Leased
    BY DEF Terminal, Leased
  <2> QED
    BY <2>1, <2>2, WriteKeepsIInv DEF fail
<1>7. CASE Cancel
  <2>1. PICK t \in Tasks : cancel(t)
    BY <1>7 DEF Cancel
  <2>2. "cancelled" \in Terminal /\ "cancelled" \notin Leased
    BY DEF Terminal, Leased
  <2> QED
    BY <2>1, <2>2, WriteKeepsIInv DEF cancel
<1>8. CASE Tick
  BY <1>8, TickKeepsIInv
<1>9. CASE UNCHANGED vars
  BY <1>9 DEF vars, IInv
<1> QED
  BY <1>1, <1>2, <1>3, <1>4, <1>5, <1>6, <1>7, <1>8, <1>9 DEF Next

\* The inductive invariant holds in every reachable state.
THEOREM Invariance == Spec => []IInv
<1>1. Init => IInv
  BY KernelTasksAssumption
     DEF Init, IInv, RowInv, NoRow, Rows, Statuses, Leased, Terminal, Absent
<1> QED
  BY <1>1, StepKeepsIInv, PTL DEF Spec

\* Type correctness of the queue's table and of the claims granted.
THEOREM TypeCorrect == Spec => []TypeOK
BY Invariance, IInvImplies, PTL

\* Fencing: the four lease columns of a row agree, the token it accepts was drawn
\* by a claim of that row by its owner, and no later claim of the row exists.
THEOREM Fencing == Spec => [](LeaseColumnsAgree /\ OwnerDrewToken /\ LatestClaimWins)
BY Invariance, IInvImplies, PTL

-----------------------------------------------------------------------------
\* A sweep touches only rows whose lease has run out, so a queued row of the
\* swept table was queued already or had run out.
LEMMA SweptRow ==
  ASSUME NEW B, NEW t \in Tasks
  PROVE  \/ Swept(B)[t] = tasks[t]
         \/ tasks[t].left = 0 /\ Swept(B)[t] = Requeued(tasks[t])
BY DEF Swept

\* A row changes its token only where no lease runs.
LEMMA StepKeepsRunningLease ==
  ASSUME IInv, [Next]_vars, NEW t \in Tasks, tasks'[t].token # tasks[t].token
  PROVE  tasks[t].left \in {None, 0}
<1>1. RowInv(t, tasks[t], issued) /\ tasks = [u \in Tasks |-> tasks[u]]
  BY DEF IInv
<1>2. CASE Enqueue
  <2>1. PICK u \in Tasks : tasks[u].status = Absent /\ (u # t => tasks'[t] = tasks[t])
    BY <1>1, <1>2 DEF Enqueue, enqueue
  <2> QED
    BY <1>1, <2>1 DEF RowInv, Leased, Absent
<1>3. ASSUME NEW B, tasks' = Swept(B)
      PROVE  tasks[t].left = 0
  BY <1>3, SweptRow
<1>4. CASE ClaimNext
  <2>1. PICK a \in Actors, K \in SUBSET Kinds, l \in 1 .. MaxLease, B \in Batches :
          \/ tasks' = Swept(B)
          \/ \E u \in Heads(Swept(B), K) :
               tasks' = [Swept(B) EXCEPT ![u] =
                           Claimed(Swept(B)[u], a, Len(issued) + 1, l)]
    BY <1>4 DEF ClaimNext, claim_next
  <2>2. ASSUME NEW u \in Heads(Swept(B), K),
               tasks' = [Swept(B) EXCEPT ![u] =
                           Claimed(Swept(B)[u], a, Len(issued) + 1, l)]
        PROVE  tasks[t].left \in {None, 0}
    <3>1. CASE u = t
      <4>1. Swept(B)[t].status = "queued"
        BY <3>1 DEF Heads
      <4>2. CASE Swept(B)[t] = tasks[t]
        BY <1>1, <4>1, <4>2 DEF RowInv, Leased
      <4> QED
        BY <4>2, SweptRow
    <3>2. CASE u # t
      <4>1. tasks'[t] = Swept(B)[t]
        BY <2>2, <3>2 DEF Swept
      <4> QED
        BY <4>1, SweptRow
    <3> QED
      BY <3>1, <3>2
  <2> QED
    BY <1>3, <2>1, <2>2
<1>5. CASE release_expired_leases
  BY <1>3, <1>5 DEF release_expired_leases
<1>6. CASE Heartbeat \/ Complete \/ Fail \/ Cancel
  <2>1. PICK u \in Tasks :
          \E s, d : tasks' = [tasks EXCEPT ![u].status = s, ![u].left = d]
    BY <1>6 DEF Heartbeat, Complete, Fail, Cancel, heartbeat, complete, fail, cancel
  <2>2. tasks'[t].token = tasks[t].token
    BY <1>1, <2>1 DEF RowInv, Rows
  <2> QED
    BY <2>2
<1>7. CASE Tick
  BY <1>1, <1>7 DEF Tick, RowInv, Rows
<1>8. CASE UNCHANGED vars
  BY <1>8 DEF vars
<1> QED
  BY <1>2, <1>4, <1>5, <1>6, <1>7, <1>8 DEF Next

\* No call takes a running lease from its worker.
THEOREM RunningLeaseIsKept == Spec => RunningLeaseKept
<1>1. IInv /\ [Next]_vars =>
        [\A t \in Tasks : tasks'[t].token # tasks[t].token
                              => tasks[t].left \in {None, 0}]_vars
  BY StepKeepsRunningLease
<1> QED
  BY <1>1, Invariance, PTL DEF Spec, RunningLeaseKept

\* A heartbeat, complete or fail with a superseded token changes nothing.
THEOREM SupersededAreRejected == Spec => SupersededIsRejected
<1>1. IInv => \A t \in Tasks, n, m \in DOMAIN issued :
                n < m /\ issued[m].task = t => tasks[t].token # n
  <2> SUFFICES ASSUME IInv, NEW t \in Tasks, NEW n \in DOMAIN issued,
                      NEW m \in DOMAIN issued, n < m, issued[m].task = t,
                      tasks[t].token = n
               PROVE  FALSE
    OBVIOUS
  <2>1. DOMAIN issued = 1 .. Len(issued) /\ n # None
    BY KernelTasksAssumption DEF IInv
  <2>2. RowInv(t, tasks[t], issued)
    BY DEF IInv
  <2> QED
    BY <2>1, <2>2 DEF RowInv
<1>2. IInv => [\A t \in Tasks, n, m \in DOMAIN issued :
                 n < m /\ issued[m].task = t =>
                   ~ \/ complete(t, n) \/ fail(t, n)
                     \/ \E l \in 1 .. MaxLease, s \in Leased : heartbeat(t, n, l, s)]_vars
  BY <1>1 DEF complete, fail, heartbeat, require_owned_row
<1> QED
  BY <1>2, Invariance, PTL DEF Spec, SupersededIsRejected

-----------------------------------------------------------------------------
\* A sweep whose batch holds as many rows as there are tasks looks at every row
\* under lease.
LEMMA FullSweep ==
  ASSUME BatchSize >= Cardinality(Tasks), NEW B \in Batches,
         NEW t \in Tasks, tasks[t].status \in Leased, tasks[t].left # None
  PROVE  t \in B
<1> DEFINE Leasing == {u \in Tasks : tasks[u].status \in Leased /\ tasks[u].left # None}
<1>1. B \subseteq Leasing /\ (B = Leasing \/ Cardinality(B) = BatchSize)
  BY DEF Batches
<1>2. CASE Cardinality(B) = BatchSize
  <2>1. B \subseteq Tasks /\ IsFiniteSet(Tasks)
    BY <1>1, KernelTasksAssumption
  <2>2. /\ Cardinality(B) <= Cardinality(Tasks)
        /\ Cardinality(B) = Cardinality(Tasks) => B = Tasks
    BY <2>1, FS_Subset
  <2>3. Cardinality(B) \in Nat /\ Cardinality(Tasks) \in Nat
    BY <2>1, FS_Subset, FS_CardinalityType
  <2> QED
    BY <1>2, <2>2, <2>3
<1> QED
  BY <1>1, <1>2

\* A sweep changes neither what claim_next filters on nor what it orders by.
LEMMA SweptRank ==
  ASSUME IInv, NEW B, NEW t \in Tasks
  PROVE  /\ Swept(B)[t].kind = tasks[t].kind
         /\ Swept(B)[t].priority = tasks[t].priority
         /\ Swept(B)[t].created = tasks[t].created
<1>1. tasks[t] \in Rows
  BY DEF IInv, RowInv
<1>2. /\ Requeued(tasks[t]).kind = tasks[t].kind
      /\ Requeued(tasks[t]).priority = tasks[t].priority
      /\ Requeued(tasks[t]).created = tasks[t].created
  BY <1>1 DEF Requeued, Rows
<1> QED
  BY <1>2, SweptRow

\* Every row that waits is in the queue once claim_next has swept.
LEMMA WaitingIsQueued ==
  ASSUME IInv, NEW B \in Batches, NEW t \in Tasks, Waiting(t)
  PROVE  Swept(B)[t].status = "queued"
<1>1. RowInv(t, tasks[t], issued)
  BY DEF IInv
<1>2. Requeued(tasks[t]).status = "queued"
  BY <1>1 DEF RowInv, Rows, Requeued
<1>3. CASE tasks[t].status = "queued"
  BY <1>2, <1>3, SweptRow
<1>4. CASE BatchSize >= Cardinality(Tasks) /\ tasks[t].left = 0
  <2>1. tasks[t].status \in Leased /\ tasks[t].left # None
    BY <1>1, <1>4, KernelTasksAssumption DEF RowInv
  <2>2. t \in B
    BY <1>4, <2>1, FullSweep
  <2> QED
    BY <1>2, <1>4, <2>2 DEF Swept
<1> QED
  BY <1>3, <1>4 DEF Waiting

\* claim_next takes the head of the queue, after its sweep.
LEMMA ClaimTakesTheBest ==
  ASSUME IInv, [Next]_vars, Len(issued') > Len(issued), NEW u \in Tasks, Waiting(u),
         tasks[u].kind = tasks[issued'[Len(issued')].task].kind
  PROVE  LET t == issued'[Len(issued')].task IN
         \/ tasks[u].priority < tasks[t].priority
         \/ /\ tasks[u].priority = tasks[t].priority
            /\ tasks[t].created <= tasks[u].created
<1>1. issued \in Seq(Claims)
  BY DEF IInv
<1>2. issued' # issued
  BY <1>1
<1>3. ClaimNext
  BY <1>2 DEF Next, vars, Enqueue, enqueue, release_expired_leases, Heartbeat, heartbeat,
              Complete, complete, Fail, fail, Cancel, cancel, Tick
<1>4. PICK a \in Actors, K \in SUBSET Kinds, B \in Batches : \E t \in Heads(Swept(B), K) :
        issued' = Append(issued, [task |-> t, actor |-> a])
  BY <1>2, <1>3 DEF ClaimNext, claim_next
<1> PICK t \in Heads(Swept(B), K) : issued' = Append(issued, [task |-> t, actor |-> a])
  BY <1>4
<1>5. [task |-> t, actor |-> a] \in Claims /\ t \in Tasks
  BY <1>4 DEF Claims, Heads
<1>6. issued'[Len(issued')].task = t
  BY <1>1, <1>4, <1>5, AppendProperties
<1>7. Swept(B)[u].status = "queued"
  BY WaitingIsQueued
<1>8. Swept(B)[u].kind = Swept(B)[t].kind
  BY <1>5, <1>6, SweptRank
<1>9. \/ Swept(B)[u].priority < Swept(B)[t].priority
      \/ /\ Swept(B)[u].priority = Swept(B)[t].priority
         /\ Swept(B)[t].created <= Swept(B)[u].created
  BY <1>4, <1>7, <1>8 DEF Heads
<1> QED
  BY <1>5, <1>6, <1>9, SweptRank

\* The row a claim hands out beats every row of its kind that waits, abandoned
\* rows counted as long as one sweep covers the table.
THEOREM BestIsFirst == Spec => BestFirst
<1>1. IInv /\ [Next]_vars =>
        [Len(issued') > Len(issued) =>
           LET t == issued'[Len(issued')].task IN
           \A u \in Tasks : Waiting(u) /\ tasks[u].kind = tasks[t].kind =>
             \/ tasks[u].priority < tasks[t].priority
             \/ /\ tasks[u].priority = tasks[t].priority
                /\ tasks[t].created <= tasks[u].created]_vars
  BY ClaimTakesTheBest
<1> QED
  BY <1>1, Invariance, PTL DEF Spec, BestFirst

-----------------------------------------------------------------------------
\* A finished row is outside every sweep and every queue.
LEMMA FinishedIsLeft ==
  ASSUME IInv, NEW t \in Tasks, tasks[t].status \in Terminal
  PROVE  /\ tasks[t].left = None
         /\ \A B : Swept(B)[t] = tasks[t]
         /\ \A B, K : t \notin Heads(Swept(B), K)
<1>1. RowInv(t, tasks[t], issued)
  BY DEF IInv
<1>2. tasks[t].status \notin Leased \cup {Absent, "queued"}
  BY DEF Terminal, Leased, Absent
<1>3. tasks[t].left = None
  BY <1>1, <1>2 DEF RowInv
<1>4. \A B : Swept(B)[t] = tasks[t]
  BY <1>3, SweptRow, KernelTasksAssumption
<1> QED
  BY <1>2, <1>3, <1>4 DEF Heads

\* The claim a row accepts the token of is its latest.
LEMMA OwnTokenIsLatest ==
  ASSUME IInv, NEW t \in Tasks, NEW n \in DOMAIN issued, tasks[t].token = n
  PROVE  /\ issued[n] = [task |-> t, actor |-> tasks[t].owner]
         /\ \A m \in DOMAIN issued : m > n => issued[m].task # t
<1>1. DOMAIN issued = 1 .. Len(issued) /\ n # None
  BY KernelTasksAssumption DEF IInv
<1>2. RowInv(t, tasks[t], issued)
  BY DEF IInv
<1> QED
  BY <1>1, <1>2 DEF RowInv

\* Only a call that carries the newest token of a finished row changes it.
LEMMA FinishedStep ==
  ASSUME IInv, [Next]_vars, NEW t \in Tasks,
         tasks[t].status \in Terminal, tasks'[t] # tasks[t]
  PROVE  \E n \in DOMAIN issued :
           /\ issued[n] = [task |-> t, actor |-> tasks[t].owner]
           /\ \A m \in DOMAIN issued : m > n => issued[m].task # t
           /\ \/ complete(t, n) \/ fail(t, n)
              \/ \E l \in 1 .. MaxLease, s \in Leased : heartbeat(t, n, l, s)
<1>1. tasks = [u \in Tasks |-> tasks[u]]
  BY DEF IInv
<1>2. CASE Enqueue
  <2>1. PICK u \in Tasks : tasks[u].status = Absent /\ (u # t => tasks'[t] = tasks[t])
    BY <1>1, <1>2 DEF Enqueue, enqueue
  <2> QED
    BY <2>1 DEF Terminal, Absent
<1>3. ASSUME NEW B, tasks' = Swept(B)
      PROVE  FALSE
  BY <1>3, FinishedIsLeft
<1>4. CASE ClaimNext
  <2>1. PICK a \in Actors, K \in SUBSET Kinds, l \in 1 .. MaxLease, B \in Batches :
          \/ tasks' = Swept(B)
          \/ \E u \in Heads(Swept(B), K) :
               tasks' = [Swept(B) EXCEPT ![u] =
                           Claimed(Swept(B)[u], a, Len(issued) + 1, l)]
    BY <1>4 DEF ClaimNext, claim_next
  <2>2. ASSUME NEW u \in Heads(Swept(B), K),
               tasks' = [Swept(B) EXCEPT ![u] =
                           Claimed(Swept(B)[u], a, Len(issued) + 1, l)]
        PROVE  FALSE
    <3>1. u # t
      BY FinishedIsLeft
    <3>2. tasks'[t] = Swept(B)[t]
      BY <2>2, <3>1 DEF Swept
    <3> QED
      BY <3>2, FinishedIsLeft
  <2> QED
    BY <1>3, <2>1, <2>2
<1>5. CASE release_expired_leases
  BY <1>3, <1>5 DEF release_expired_leases
<1>6. CASE Heartbeat \/ Complete \/ Fail
  <2>1. PICK u \in Tasks, n \in DOMAIN issued :
          \/ complete(u, n) \/ fail(u, n)
          \/ \E l \in 1 .. MaxLease, s \in Leased : heartbeat(u, n, l, s)
    BY <1>6 DEF Heartbeat, Complete, Fail
  <2>2. /\ tasks[u].token = n
        /\ \E s, d : tasks' = [tasks EXCEPT ![u].status = s, ![u].left = d]
    BY <2>1 DEF heartbeat, complete, fail, require_owned_row
  <2>3. u = t
    BY <1>1, <2>2
  <2> QED
    BY <2>1, <2>2, <2>3, OwnTokenIsLatest
<1>7. CASE Cancel
  BY <1>1, <1>7 DEF Cancel, cancel
<1>8. CASE Tick
  BY <1>8, FinishedIsLeft DEF Tick
<1>9. CASE UNCHANGED vars
  BY <1>9 DEF vars
<1> QED
  BY <1>2, <1>4, <1>5, <1>6, <1>7, <1>8, <1>9 DEF Next

\* A finished row changes only by its latest holder's own token.
THEOREM FinishedStaysWithHolder == Spec => FinishedAnswersToLastHolder
<1>1. IInv /\ [Next]_vars =>
        [\A t \in Tasks : tasks[t].status \in Terminal /\ tasks'[t] # tasks[t] =>
           \E n \in DOMAIN issued :
             /\ issued[n] = [task |-> t, actor |-> tasks[t].owner]
             /\ \A m \in DOMAIN issued : m > n => issued[m].task # t
             /\ \/ complete(t, n) \/ fail(t, n)
                \/ \E l \in 1 .. MaxLease, s \in Leased : heartbeat(t, n, l, s)]_vars
  BY FinishedStep
<1> QED
  BY <1>1, Invariance, PTL DEF Spec, FinishedAnswersToLastHolder

-----------------------------------------------------------------------------
\* The claims of task t among the claims iss.
ClaimsOf(t, iss) == {n \in DOMAIN iss : iss[n].task = t}

\* One more claim is one more for its own task and none for another.
LEMMA ClaimsOfAppend ==
  ASSUME NEW iss \in Seq(Claims), NEW c \in Claims, NEW t
  PROVE  Cardinality(ClaimsOf(t, Append(iss, c))) =
           IF c.task = t THEN Cardinality(ClaimsOf(t, iss)) + 1
                         ELSE Cardinality(ClaimsOf(t, iss))
<1>1. /\ Len(iss) \in Nat
      /\ DOMAIN iss = 1 .. Len(iss)
      /\ DOMAIN Append(iss, c) = 1 .. Len(iss) + 1
      /\ Append(iss, c)[Len(iss) + 1] = c
      /\ \A n \in 1 .. Len(iss) : Append(iss, c)[n] = iss[n]
  BY AppendProperties
<1>2. IsFiniteSet(ClaimsOf(t, iss)) /\ Len(iss) + 1 \notin ClaimsOf(t, iss)
  <2>1. IsFiniteSet(1 .. Len(iss))
    BY <1>1, FS_Interval
  <2>2. ClaimsOf(t, iss) \subseteq 1 .. Len(iss)
    BY <1>1 DEF ClaimsOf
  <2> QED
    BY <1>1, <2>1, <2>2, FS_Subset
<1>3. CASE c.task = t
  <2>1. ClaimsOf(t, Append(iss, c)) = ClaimsOf(t, iss) \cup {Len(iss) + 1}
    BY <1>1, <1>3 DEF ClaimsOf
  <2>2. Cardinality(ClaimsOf(t, iss) \cup {Len(iss) + 1}) = Cardinality(ClaimsOf(t, iss)) + 1
    BY <1>2, FS_AddElement
  <2> QED
    BY <1>3, <2>1, <2>2
<1>4. CASE c.task # t
  <2>1. ClaimsOf(t, Append(iss, c)) = ClaimsOf(t, iss)
    BY <1>1, <1>4 DEF ClaimsOf
  <2> QED
    BY <1>4, <2>1
<1> QED
  BY <1>3, <1>4

\* Only a grant counts: every other step leaves both sides of the count alone.
LEMMA CountKept ==
  ASSUME IInv, ClaimsCounted, UNCHANGED issued,
         \A t \in Tasks : tasks'[t].claims = tasks[t].claims
  PROVE  ClaimsCounted'
BY DEF ClaimsCounted

\* A sweep does not count as a claim.
LEMMA SweptClaims ==
  ASSUME IInv, NEW B, NEW t \in Tasks
  PROVE  Swept(B)[t].claims = tasks[t].claims
<1>1. tasks[t] \in Rows
  BY DEF IInv, RowInv
<1>2. Requeued(tasks[t]).claims = tasks[t].claims
  BY <1>1 DEF Requeued, Rows
<1> QED
  BY <1>2, SweptRow

\* A claim counts on its row and is issued once.
LEMMA ClaimKeepsCount ==
  ASSUME IInv, ClaimsCounted, ClaimNext
  PROVE  ClaimsCounted'
<1>1. PICK a \in Actors, K \in SUBSET Kinds, l \in 1 .. MaxLease, B \in Batches :
        \/ tasks' = Swept(B) /\ UNCHANGED issued
        \/ \E t \in Heads(Swept(B), K) :
             /\ issued' = Append(issued, [task |-> t, actor |-> a])
             /\ tasks' = [Swept(B) EXCEPT ![t] =
                            Claimed(Swept(B)[t], a, Len(issued) + 1, l)]
  BY DEF ClaimNext, claim_next
<1>2. CASE tasks' = Swept(B) /\ UNCHANGED issued
  BY <1>2, SweptClaims, CountKept
<1>3. ASSUME NEW t \in Heads(Swept(B), K),
             issued' = Append(issued, [task |-> t, actor |-> a]),
             tasks' = [Swept(B) EXCEPT ![t] =
                        Claimed(Swept(B)[t], a, Len(issued) + 1, l)]
      PROVE  ClaimsCounted'
  <2> DEFINE c == [task |-> t, actor |-> a]
  <2>1. t \in Tasks /\ issued \in Seq(Claims) /\ c \in Claims
    BY DEF Heads, Claims, IInv
  <2>2. Swept(B)[t] \in Rows
    BY <2>1, SweptKeepsRows DEF RowInv
  <2>3. tasks'[t].claims = tasks[t].claims + 1
    <3>1. tasks'[t] = Claimed(Swept(B)[t], a, Len(issued) + 1, l)
      BY <1>3, <2>1 DEF Swept
    <3>2. tasks'[t].claims = Swept(B)[t].claims + 1
      BY <2>2, <3>1 DEF Claimed, Rows
    <3> QED
      BY <2>1, <3>2, SweptClaims
  <2>4. \A u \in Tasks \ {t} : tasks'[u].claims = tasks[u].claims
    <3> SUFFICES ASSUME NEW u \in Tasks \ {t}
                 PROVE  tasks'[u].claims = tasks[u].claims
      OBVIOUS
    <3>1. tasks'[u] = Swept(B)[u]
      BY <1>3 DEF Swept
    <3> QED
      BY <3>1, SweptClaims
  <2>5. \A u \in Tasks : tasks[u].claims = Cardinality(ClaimsOf(u, issued))
    BY DEF ClaimsCounted, ClaimsOf
  <2>6. \A u \in Tasks : Cardinality(ClaimsOf(u, issued')) =
          IF u = t THEN Cardinality(ClaimsOf(u, issued)) + 1
                   ELSE Cardinality(ClaimsOf(u, issued))
    <3> SUFFICES ASSUME NEW u \in Tasks
                 PROVE  Cardinality(ClaimsOf(u, issued')) =
                          IF u = t THEN Cardinality(ClaimsOf(u, issued)) + 1
                                   ELSE Cardinality(ClaimsOf(u, issued))
      OBVIOUS
    <3>1. issued' = Append(issued, c) /\ c.task = t
      BY <1>3
    <3> HIDE DEF c
    <3> QED
      BY <2>1, <3>1, ClaimsOfAppend
  <2>7. \A u \in Tasks : tasks'[u].claims = Cardinality(ClaimsOf(u, issued'))
    BY <2>3, <2>4, <2>5, <2>6
  <2> QED
    BY <2>7 DEF ClaimsCounted, ClaimsOf
<1> QED
  BY <1>1, <1>2, <1>3

\* A row that was never enqueued was never claimed.
AbsentUnclaimed == \A t \in Tasks : tasks[t].status = Absent => tasks[t].claims = 0

\* No step takes a row out of the table.
LEMMA AbsentBefore ==
  ASSUME IInv, [Next]_vars, NEW t \in Tasks, tasks'[t].status = Absent
  PROVE  tasks'[t] = tasks[t]
<1>1. tasks = [u \in Tasks |-> tasks[u]]
  BY DEF IInv
<1>2. \A u \in Tasks : tasks[u] \in Rows
  BY DEF IInv, RowInv
<1>3. CASE Enqueue
  BY <1>1, <1>3 DEF Enqueue, enqueue, NoRow, Absent
<1>4. ASSUME NEW B, Swept(B)[t].status = Absent
      PROVE  Swept(B)[t] = tasks[t]
  <2>1. Requeued(tasks[t]).status = "queued"
    BY <1>2 DEF Requeued, Rows
  <2> QED
    BY <1>4, <2>1, SweptRow DEF Absent
<1>5. CASE ClaimNext
  <2>1. PICK a \in Actors, K \in SUBSET Kinds, l \in 1 .. MaxLease, B \in Batches :
          \/ tasks' = Swept(B)
          \/ \E u \in Heads(Swept(B), K) :
               tasks' = [Swept(B) EXCEPT ![u] =
                           Claimed(Swept(B)[u], a, Len(issued) + 1, l)]
    BY <1>5 DEF ClaimNext, claim_next
  <2>2. ASSUME NEW u \in Heads(Swept(B), K),
               tasks' = [Swept(B) EXCEPT ![u] =
                           Claimed(Swept(B)[u], a, Len(issued) + 1, l)]
        PROVE  tasks'[t] = Swept(B)[t]
    <3>1. u \in Tasks
      BY DEF Heads
    <3>2. Swept(B)[u] \in Rows
      BY <3>1, SweptKeepsRows DEF RowInv
    <3>3. Claimed(Swept(B)[u], a, Len(issued) + 1, l).status = "claimed"
      BY <3>2 DEF Claimed, Rows
    <3>4. tasks'[u].status = "claimed"
      BY <2>2, <3>1, <3>3 DEF Swept
    <3>5. u # t
      BY <3>4 DEF Absent
    <3> QED
      BY <2>2, <3>5 DEF Swept
  <2> QED
    BY <1>4, <2>1, <2>2
<1>6. CASE release_expired_leases
  BY <1>4, <1>6 DEF release_expired_leases
<1>7. CASE Heartbeat \/ Complete \/ Fail \/ Cancel
  <2>1. PICK u \in Tasks, s \in Leased \cup Terminal :
          \E d : tasks' = [tasks EXCEPT ![u].status = s, ![u].left = d]
    BY <1>7 DEF Heartbeat, Complete, Fail, Cancel, heartbeat, complete, fail, cancel,
                Terminal
  <2>2. tasks'[u].status = s
    BY <1>1, <1>2, <2>1 DEF Rows
  <2>3. u # t
    BY <2>2 DEF Leased, Terminal, Absent
  <2> QED
    BY <1>1, <2>1, <2>3
<1>8. CASE Tick
  <2>1. CASE tasks[t].left \in {None, 0}
    BY <1>8, <2>1 DEF Tick
  <2>2. CASE tasks[t].left \notin {None, 0}
    <3>1. tasks'[t].status = tasks[t].status
      BY <1>2, <1>8, <2>2 DEF Tick, Rows
    <3> QED
      BY <2>2, <3>1 DEF IInv, RowInv, Leased, Absent
  <2> QED
    BY <2>1, <2>2
<1>9. CASE UNCHANGED vars
  BY <1>9 DEF vars
<1> QED
  BY <1>3, <1>5, <1>6, <1>7, <1>8, <1>9 DEF Next

\* No other step issues a token or counts a claim.
LEMMA StepKeepsCount ==
  IInv /\ ClaimsCounted /\ AbsentUnclaimed /\ [Next]_vars
    => ClaimsCounted' /\ AbsentUnclaimed'
<1> SUFFICES ASSUME IInv, ClaimsCounted, AbsentUnclaimed, [Next]_vars
             PROVE  ClaimsCounted'
  BY AbsentBefore DEF AbsentUnclaimed
<1>1. \A t \in Tasks : tasks[t] \in Rows
  BY DEF IInv, RowInv
<1>2. tasks = [t \in Tasks |-> tasks[t]]
  BY DEF IInv
<1>3. CASE Enqueue
  <2>1. PICK t \in Tasks, k \in Kinds, p \in Priorities : enqueue(t, k, p)
    BY <1>3 DEF Enqueue
  <2>2. tasks'[t].claims = 0 /\ \A u \in Tasks \ {t} : tasks'[u] = tasks[u]
    BY <1>2, <2>1 DEF enqueue, NoRow
  <2>3. ClaimsCounted' <=> \A u \in Tasks :
          tasks'[u].claims = Cardinality({n \in DOMAIN issued : issued[n].task = u})
    BY <2>1 DEF enqueue, ClaimsCounted
  <2>4. tasks[t].claims = 0
    BY <2>1 DEF enqueue, AbsentUnclaimed
  <2> QED
    BY <2>2, <2>3, <2>4 DEF ClaimsCounted
<1>4. CASE ClaimNext
  BY <1>4, ClaimKeepsCount
<1>5. CASE release_expired_leases
  BY <1>5, SweptClaims, CountKept DEF release_expired_leases
<1>6. CASE Heartbeat \/ Complete \/ Fail \/ Cancel
  <2>1. PICK u \in Tasks :
          \E s, d : tasks' = [tasks EXCEPT ![u].status = s, ![u].left = d]
    BY <1>6 DEF Heartbeat, Complete, Fail, Cancel, heartbeat, complete, fail, cancel
  <2>2. \A t \in Tasks : tasks'[t].claims = tasks[t].claims
    BY <1>1, <1>2, <2>1 DEF Rows
  <2>3. UNCHANGED issued
    BY <1>6 DEF Heartbeat, Complete, Fail, Cancel, heartbeat, complete, fail, cancel
  <2> QED
    BY <2>2, <2>3, CountKept
<1>7. CASE Tick
  <2>1. \A t \in Tasks : tasks'[t].claims = tasks[t].claims
    BY <1>1, <1>7 DEF Tick, Rows
  <2>2. UNCHANGED issued
    BY <1>7 DEF Tick
  <2> QED
    BY <2>1, <2>2, CountKept
<1>8. CASE UNCHANGED vars
  BY <1>8 DEF vars, ClaimsCounted
<1> QED
  BY <1>3, <1>4, <1>5, <1>6, <1>7, <1>8 DEF Next

\* claim_count counts the row's claims exactly.
THEOREM EveryClaimCounts == Spec => []ClaimsCounted
<1>1. Init => ClaimsCounted /\ AbsentUnclaimed
  <2> SUFFICES ASSUME Init, NEW t \in Tasks
               PROVE  /\ tasks[t].claims = 0
                      /\ tasks[t].claims =
                           Cardinality({n \in DOMAIN issued : issued[n].task = t})
    BY DEF ClaimsCounted, AbsentUnclaimed
  <2>1. {n \in DOMAIN issued : issued[n].task = t} = {}
    BY DEF Init
  <2>2. tasks[t].claims = 0
    BY DEF Init, NoRow
  <2> QED
    BY <2>1, <2>2, FS_EmptySet
<1> QED
  BY <1>1, Invariance, StepKeepsCount, PTL DEF Spec

-----------------------------------------------------------------------------
\* The refinement mapping on one row.
RowHolder(row) == IF row.status \in Leased /\ row.left # 0 THEN row.owner ELSE None

\* Who holds a task is a function of its row.
LEMMA HolderByRow == /\ Holder  = [t \in Tasks |-> RowHolder(tasks[t])]
                     /\ Holder' = [t \in Tasks |-> RowHolder(tasks'[t])]
BY DEF Holder, RowHolder

\* A step in which the holders of some rows vanish and the others stay is a Lapse.
LEMMA LapseStep ==
  ASSUME \A t \in Tasks : RowHolder(tasks'[t]) \in {None, RowHolder(tasks[t])}
  PROVE  Lease!Next
<1> DEFINE S == {t \in Tasks : RowHolder(tasks'[t]) = None}
<1>1. S \in SUBSET Tasks
  OBVIOUS
<1>2. Holder' = [t \in Tasks |-> IF t \in S THEN None ELSE Holder[t]]
  BY HolderByRow
<1>3. Lease!Lapse(S)
  BY <1>2 DEF Lease!Lapse
<1> QED
  BY <1>1, <1>3 DEF Lease!Next

\* A step that gives one row without a holder an actor is a Grant.
LEMMA GrantStep ==
  ASSUME NEW t \in Tasks, NEW a \in Actors,
         RowHolder(tasks[t]) = None, RowHolder(tasks'[t]) = a,
         \A u \in Tasks \ {t} : RowHolder(tasks'[u]) = RowHolder(tasks[u])
  PROVE  Lease!Next
<1>1. Holder[t] = None /\ Holder' = [Holder EXCEPT ![t] = a]
  BY HolderByRow
<1> QED
  BY <1>1 DEF Lease!Next, Lease!Grant

\* Sweeping changes no holder: the rows it requeues had none any more.
LEMMA SweepKeepsHolders ==
  ASSUME IInv, NEW B, NEW t \in Tasks
  PROVE  RowHolder(Swept(B)[t]) = RowHolder(tasks[t])
<1>1. RowInv(t, tasks[t], issued)
  BY DEF IInv
<1>2. CASE Swept(B)[t] = tasks[t]
  BY <1>2
<1>3. CASE tasks[t].left = 0 /\ Swept(B)[t] = Requeued(tasks[t])
  <2>1. Requeued(tasks[t]).status = "queued" /\ "queued" \notin Leased
    BY <1>1 DEF RowInv, Rows, Requeued, Leased
  <2> QED
    BY <1>3, <2>1 DEF RowHolder
<1> QED
  BY <1>2, <1>3, SweptRow

\* Every step grants one lease, lets some lapse or changes no holder.
LEMMA StepIsLeaseStep == IInv /\ IInv' /\ [Next]_vars => [Lease!Next]_Holder
<1> SUFFICES ASSUME IInv, IInv', [Next]_vars
             PROVE  Lease!Next \/ Holder' = Holder
  OBVIOUS
<1>1. \A t \in Tasks : tasks[t] \in Rows
  BY DEF IInv, RowInv
<1>2. tasks = [t \in Tasks |-> tasks[t]]
  BY DEF IInv
<1>3. CASE Enqueue
  <2>1. PICK t \in Tasks, k \in Kinds, p \in Priorities, n \in 1 .. Cardinality(Tasks) :
          tasks' = [tasks EXCEPT ![t] =
                     [NoRow EXCEPT !.status = "queued", !.kind = k,
                                   !.priority = p, !.created = n]]
    BY <1>3 DEF Enqueue, enqueue
  <2>2. tasks'[t].status = "queued" /\ \A u \in Tasks \ {t} : tasks'[u] = tasks[u]
    BY <1>2, <2>1 DEF NoRow
  <2>3. RowHolder(tasks'[t]) = None
    BY <2>2 DEF RowHolder, Leased
  <2> QED
    BY <2>2, <2>3, LapseStep
<1>4. ASSUME NEW B, tasks' = Swept(B)
      PROVE  Lease!Next
  BY <1>4, SweepKeepsHolders, LapseStep
<1>5. CASE ClaimNext
  <2>1. PICK a \in Actors, K \in SUBSET Kinds, l \in 1 .. MaxLease, B \in Batches :
          \/ tasks' = Swept(B)
          \/ \E u \in Heads(Swept(B), K) :
               tasks' = [Swept(B) EXCEPT ![u] =
                           Claimed(Swept(B)[u], a, Len(issued) + 1, l)]
    BY <1>5 DEF ClaimNext, claim_next
  <2>2. ASSUME NEW t \in Heads(Swept(B), K),
               tasks' = [Swept(B) EXCEPT ![t] =
                           Claimed(Swept(B)[t], a, Len(issued) + 1, l)]
        PROVE  Lease!Next
    <3>1. t \in Tasks /\ Swept(B)[t].status = "queued"
      BY DEF Heads
    <3>2. RowInv(t, Swept(B)[t], issued)
      BY <3>1, SweptKeepsRows
    <3>3. RowHolder(tasks[t]) = None
      BY <3>1, SweepKeepsHolders DEF RowHolder, Leased
    <3>4. RowHolder(tasks'[t]) = a
      <4>1. tasks'[t] = Claimed(Swept(B)[t], a, Len(issued) + 1, l)
        BY <2>2, <3>1 DEF Swept
      <4>2. tasks'[t].status = "claimed" /\ tasks'[t].left = l /\ tasks'[t].owner = a
        BY <3>2, <4>1 DEF RowInv, Rows, Claimed
      <4> QED
        BY <4>2 DEF RowHolder, Leased
    <3>5. \A u \in Tasks \ {t} : tasks'[u] = Swept(B)[u]
      BY <2>2 DEF Swept
    <3> QED
      BY <3>1, <3>3, <3>4, <3>5, SweepKeepsHolders, GrantStep
  <2> QED
    BY <1>4, <2>1, <2>2
<1>6. CASE release_expired_leases
  BY <1>4, <1>6 DEF release_expired_leases
<1>7. ASSUME NEW t \in Tasks, NEW s \in Leased \cup Terminal, NEW d,
             tasks' = [tasks EXCEPT ![t].status = s, ![t].left = d],
             s \in Leased => tasks[t].token # None /\ d \in 1 .. MaxLease
      PROVE  Lease!Next
  <2>1. /\ tasks'[t].status = s
        /\ tasks'[t].left = d
        /\ tasks'[t].owner = tasks[t].owner
        /\ \A u \in Tasks \ {t} : tasks'[u] = tasks[u]
    BY <1>1, <1>2, <1>7 DEF Rows
  <2>2. CASE s \in Terminal
    <3>1. s \notin Leased
      BY <2>2 DEF Terminal, Leased
    <3> QED
      BY <2>1, <3>1, LapseStep DEF RowHolder
  <2>3. CASE s \in Leased
    <3>1. RowHolder(tasks'[t]) = tasks[t].owner
      BY <1>7, <2>1, <2>3 DEF RowHolder
    <3>2. CASE RowHolder(tasks[t]) = tasks[t].owner
      BY <2>1, <3>1, <3>2, LapseStep
    <3>3. CASE RowHolder(tasks[t]) = None
      <4>1. tasks[t].owner \in Actors
        BY <1>7, <2>3, TokenHasOwner
      <4> QED
        BY <2>1, <3>1, <3>3, <4>1, GrantStep
    <3> QED
      BY <3>2, <3>3 DEF RowHolder
  <2> QED
    BY <2>2, <2>3
<1>8. CASE Heartbeat
  <2>1. PICK t \in Tasks, n \in DOMAIN issued, l \in 1 .. MaxLease, s \in Leased :
          heartbeat(t, n, l, s)
    BY <1>8 DEF Heartbeat
  <2>2. tasks[t].token # None
    BY <2>1, KernelTasksAssumption DEF IInv, heartbeat, require_owned_row
  <2> QED
    BY <1>7, <2>1, <2>2 DEF heartbeat
<1>9. CASE Complete \/ Fail \/ Cancel
  <2>1. PICK t \in Tasks, s \in Terminal :
          tasks' = [tasks EXCEPT ![t].status = s, ![t].left = None]
    BY <1>9 DEF Complete, Fail, Cancel, complete, fail, cancel, Terminal
  <2>2. s \notin Leased
    BY DEF Terminal, Leased
  <2> QED
    BY <1>7, <2>1, <2>2
<1>10. CASE Tick
  <2>1. ASSUME NEW t \in Tasks
        PROVE  RowHolder(tasks'[t]) \in {None, RowHolder(tasks[t])}
    <3>1. CASE tasks[t].left \in {None, 0}
      BY <1>10, <3>1 DEF Tick
    <3>2. CASE tasks[t].left \notin {None, 0}
      <4>1. /\ tasks'[t].status = tasks[t].status
            /\ tasks'[t].owner = tasks[t].owner
        BY <1>1, <1>10, <3>2 DEF Tick, Rows
      <4> QED
        BY <3>2, <4>1 DEF RowHolder
    <3> QED
      BY <3>1, <3>2
  <2> QED
    BY <2>1, LapseStep
<1>11. CASE UNCHANGED vars
  BY <1>11 DEF vars, Holder
<1> QED
  BY <1>3, <1>5, <1>6, <1>8, <1>9, <1>10, <1>11 DEF Next

\* The queue implements the lease promise: a task has at most one live holder and
\* never passes from one worker to another without the first lease ending.
THEOREM Implementation == Spec => ImplementsExclusiveLease
<1>1. Init => Lease!Init
  BY DEF Init, Lease!Init, Holder, NoRow, Leased, Absent
<1> QED
  BY <1>1, Invariance, StepIsLeaseStep, PTL DEF Spec, ImplementsExclusiveLease, Lease!Spec
=============================================================================
