------------------------ MODULE RemoteTasks_proofs ------------------------
(***************************************************************************)
(* Proofs about RemoteTasks for every set of tasks and actors, every       *)
(* priority and pool, every lease length and every number of claims and    *)
(* approvals.                                                              *)
(***************************************************************************)
EXTENDS RemoteTasks, ResourceLeases_proofs

\* An assignment that lets its actor write: claimed and not run out.
Open(x) == x.status = "claimed" /\ x.left > 0

Last(asg) == asg[Len(asg)]

\* n tokens have been drawn.  Only the newest assignment may be open.
AssignmentsInv(asg, n) ==
  /\ asg \in Seq(Assignments)
  /\ \A c \in 1 .. Len(asg) : asg[c].token \in 1 .. n /\ (Open(asg[c]) => c = Len(asg))

\* The lease table and the assignments tell the same story.
Agree(rows, asg, owner) ==
  /\ Running(rows) <=> asg # << >> /\ Open(Last(asg))
  /\ Running(rows) => /\ Top(rows).holder = Last(asg).actor
                      /\ Top(rows).holder = owner
                      /\ Top(rows).token = Last(asg).token
                      /\ Top(rows).left = Last(asg).left

\* No step needs more than this of a task's status.
StatusInv(status, rows, asg) ==
  /\ status \in {"absent", "queued"} => rows = << >> /\ asg = << >>
  /\ status = "completed" => ~Running(rows)

ApprovalsInv(apps) ==
  /\ apps \in Seq(Approvals)
  /\ \A i \in 1 .. Len(apps) : apps[i].kernel = "pending" => apps[i].status = "pending"

TaskInv(task, rows, asg, apps, n) ==
  /\ task \in TaskRows
  /\ AssignmentsInv(asg, n)
  /\ Agree(rows, asg, task.owner)
  /\ StatusInv(task.status, rows, asg)
  /\ ApprovalsInv(apps)

IInv == /\ LeasesInv
        /\ tasks = [t \in Tasks |-> tasks[t]]
        /\ assignments = [t \in Tasks |-> assignments[t]]
        /\ approvals = [t \in Tasks |-> approvals[t]]
        /\ \A t \in Tasks : TaskInv(tasks[t], leases[t], assignments[t], approvals[t], drawn)

-----------------------------------------------------------------------------
(* What the invariant says *)

\* The invariant, for one task.
LEMMA TaskFacts ==
  ASSUME IInv, NEW t \in Tasks
  PROVE  /\ TaskInv(tasks[t], leases[t], assignments[t], approvals[t], drawn)
         /\ HistoryInv(leases[t]) /\ leases[t] \in Seq(Rows)
         /\ DOMAIN leases[t] = 1 .. Len(leases[t])
         /\ AssignmentsInv(assignments[t], drawn)
         /\ assignments[t] \in Seq(Assignments)
         /\ DOMAIN assignments[t] = 1 .. Len(assignments[t]) /\ Len(assignments[t]) \in Nat
         /\ Agree(leases[t], assignments[t], tasks[t].owner)
         /\ StatusInv(tasks[t].status, leases[t], assignments[t])
         /\ tasks[t] \in TaskRows
         /\ ApprovalsInv(approvals[t]) /\ approvals[t] \in Seq(Approvals)
         /\ drawn \in Nat
<1>1. TaskInv(tasks[t], leases[t], assignments[t], approvals[t], drawn)
  BY DEF IInv
<1>2. HistoryInv(leases[t]) /\ drawn \in Nat
  BY DEF IInv, LeasesInv, Tasks
<1>3. leases[t] \in Seq(Rows)
  BY <1>2 DEF HistoryInv
<1>4. /\ AssignmentsInv(assignments[t], drawn)
      /\ Agree(leases[t], assignments[t], tasks[t].owner)
      /\ StatusInv(tasks[t].status, leases[t], assignments[t])
      /\ tasks[t] \in TaskRows
      /\ ApprovalsInv(approvals[t])
  BY <1>1 DEF TaskInv
<1>5. assignments[t] \in Seq(Assignments) /\ approvals[t] \in Seq(Approvals)
  BY <1>4 DEF AssignmentsInv, ApprovalsInv
<1> QED
  BY <1>1, <1>2, <1>3, <1>4, <1>5

\* The current row of a task's lease, if there is one, is its newest row.
LEMMA CurrentRow ==
  ASSUME IInv, NEW t \in Tasks
  PROVE  /\ \A i : IsCurrent(leases[t], i) => /\ i = Len(leases[t]) /\ i \in DOMAIN leases[t]
                                              /\ Running(leases[t])
                                              /\ leases[t][i] = Top(leases[t])
         /\ Running(leases[t]) => IsCurrent(leases[t], Len(leases[t]))
<1>1. HistoryInv(leases[t])
  BY TaskFacts
<1>2. \A i : IsCurrent(leases[t], i) <=> i = Len(leases[t]) /\ leases[t] # << >> /\ Live(leases[t][i])
  BY <1>1, CurrentIsNewest
<1>3. \A i : IsCurrent(leases[t], i) => i \in DOMAIN leases[t]
  BY DEF IsCurrent
<1> QED
  BY <1>2, <1>3 DEF Running, Top

\* While the lease runs, the current assignment is the newest one.
LEMMA AssignedIsLast ==
  ASSUME IInv, NEW t \in Tasks, Running(leases[t])
  PROVE  /\ IsAssigned(t, Len(assignments[t]))
         /\ \A c : IsAssigned(t, c) => c = Len(assignments[t])
<1>1. /\ assignments[t] \in Seq(Assignments)
      /\ DOMAIN assignments[t] = 1 .. Len(assignments[t]) /\ Len(assignments[t]) \in Nat
      /\ Agree(leases[t], assignments[t], tasks[t].owner)
  BY TaskFacts
<1>2. assignments[t] # << >> /\ Last(assignments[t]).status = "claimed"
  BY <1>1 DEF Agree, Open
<1>3. Len(assignments[t]) \in 1 .. Len(assignments[t])
  BY <1>1, <1>2, EmptySeq
<1>4. assignments[t][Len(assignments[t])].status = "claimed"
  BY <1>2 DEF Last
<1>5. IsAssigned(t, Len(assignments[t]))
  BY <1>1, <1>3, <1>4 DEF IsAssigned
<1>6. ASSUME NEW c, IsAssigned(t, c) PROVE c = Len(assignments[t])
  <2>1. c \in 1 .. Len(assignments[t])
    BY <1>1, <1>6 DEF IsAssigned
  <2>2. Len(assignments[t]) <= c
    BY <1>1, <1>3, <1>4, <1>6 DEF IsAssigned
  <2> QED
    BY <1>1, <2>1, <2>2
<1> QED
  BY <1>5, <1>6

\* An assignment that passes the check of a holder's call is the newest one, and
\* the lease is running under the same holder and token.
LEMMA ActiveIsLast ==
  ASSUME IInv, NEW t \in Tasks, NEW c, NEW a, NEW n, require_active_assignment(t, c, a, n)
  PROVE  /\ c = Len(assignments[t]) /\ assignments[t] # << >>
         /\ Last(assignments[t]).actor = a /\ Last(assignments[t]).token = n
         /\ Running(leases[t])
         /\ Top(leases[t]).holder = a /\ Top(leases[t]).token = n
         /\ tasks[t].owner = a
<1>1. /\ assignments[t] \in Seq(Assignments)
      /\ DOMAIN assignments[t] = 1 .. Len(assignments[t])
      /\ Agree(leases[t], assignments[t], tasks[t].owner)
      /\ AssignmentsInv(assignments[t], drawn)
  BY TaskFacts
<1>2. c \in 1 .. Len(assignments[t]) /\ Open(assignments[t][c])
  BY <1>1 DEF require_active_assignment, IsAssigned, Open
<1>3. c = Len(assignments[t])
  BY <1>1, <1>2 DEF AssignmentsInv
<1>4. assignments[t] # << >> /\ Open(Last(assignments[t]))
  BY <1>1, <1>2, <1>3 DEF Last
<1>5. Last(assignments[t]).actor = a /\ Last(assignments[t]).token = n
  BY <1>3 DEF require_active_assignment, Last
<1> QED
  BY <1>1, <1>3, <1>4, <1>5 DEF Agree

\* The invariants of the run are parts of it, or follow.
LEMMA IInvImplies ==
  IInv => TypeOK /\ LeaseIsAssignment /\ StatusAgreesWithLease /\ NoGhostApproval
<1> SUFFICES ASSUME IInv
             PROVE  TypeOK /\ LeaseIsAssignment /\ StatusAgreesWithLease /\ NoGhostApproval
  OBVIOUS
<1>1. LeasesTypeOK
  BY LeasesInvImplies DEF IInv
<1>2. TypeOK
  <2>1. \A t \in Tasks : /\ tasks[t] \in TaskRows
                         /\ assignments[t] \in Seq(Assignments)
                         /\ approvals[t] \in Seq(Approvals)
    BY TaskFacts
  <2>2. /\ tasks = [t \in Tasks |-> tasks[t]]
        /\ assignments = [t \in Tasks |-> assignments[t]]
        /\ approvals = [t \in Tasks |-> approvals[t]]
    BY DEF IInv
  <2> QED
    BY <1>1, <2>1, <2>2 DEF TypeOK
<1>3. ASSUME NEW t \in Tasks, NEW i \in DOMAIN leases[t], Live(leases[t][i])
      PROVE  i = Len(leases[t]) /\ Running(leases[t]) /\ leases[t][i] = Top(leases[t])
  <2>1. i = Len(leases[t])
    BY <1>3, TaskFacts DEF HistoryInv
  <2>2. leases[t] # << >>
    BY <1>3, TaskFacts
  <2> QED
    BY <1>3, <2>1, <2>2 DEF Running, Top
<1>4. LeaseIsAssignment
  <2> SUFFICES ASSUME NEW t \in Tasks
               PROVE  /\ \A i \in DOMAIN leases[t] : Live(leases[t][i]) =>
                           LET n == Len(assignments[t]) IN
                           /\ n > 0
                           /\ IsAssigned(t, n)
                           /\ leases[t][i].holder = assignments[t][n].actor
                           /\ leases[t][i].holder = tasks[t].owner
                           /\ leases[t][i].token = assignments[t][n].token
                           /\ leases[t][i].left = assignments[t][n].left
                      /\ \A c \in DOMAIN assignments[t] :
                           assignments[t][c].status = "claimed" /\ assignments[t][c].left > 0 =>
                             /\ c = Len(assignments[t])
                             /\ \E i \in DOMAIN leases[t] : IsCurrent(leases[t], i)
    BY DEF LeaseIsAssignment
  <2>1. /\ Agree(leases[t], assignments[t], tasks[t].owner)
        /\ AssignmentsInv(assignments[t], drawn)
        /\ assignments[t] \in Seq(Assignments)
        /\ DOMAIN assignments[t] = 1 .. Len(assignments[t])
    BY TaskFacts
  <2>2. ASSUME NEW i \in DOMAIN leases[t], Live(leases[t][i])
        PROVE  LET n == Len(assignments[t]) IN
               /\ n > 0
               /\ IsAssigned(t, n)
               /\ leases[t][i].holder = assignments[t][n].actor
               /\ leases[t][i].holder = tasks[t].owner
               /\ leases[t][i].token = assignments[t][n].token
               /\ leases[t][i].left = assignments[t][n].left
    <3>1. Running(leases[t]) /\ leases[t][i] = Top(leases[t])
      BY <1>3, <2>2
    <3>2. IsAssigned(t, Len(assignments[t]))
      BY <3>1, AssignedIsLast
    <3>3. Len(assignments[t]) > 0
      BY <2>1, <3>2 DEF IsAssigned
    <3> QED
      BY <2>1, <3>1, <3>2, <3>3 DEF Agree, Last
  <2>3. ASSUME NEW c \in DOMAIN assignments[t],
               assignments[t][c].status = "claimed", assignments[t][c].left > 0
        PROVE  /\ c = Len(assignments[t])
               /\ \E i \in DOMAIN leases[t] : IsCurrent(leases[t], i)
    <3>1. Open(assignments[t][c])
      BY <2>3 DEF Open
    <3>2. c = Len(assignments[t])
      BY <2>1, <3>1 DEF AssignmentsInv
    <3>3. assignments[t] # << >> /\ Open(Last(assignments[t]))
      BY <2>1, <3>1, <3>2 DEF Last
    <3>4. Running(leases[t])
      BY <2>1, <3>3 DEF Agree
    <3> QED
      BY <3>2, <3>4, CurrentRow
  <2> QED
    BY <2>2, <2>3
<1>5. StatusAgreesWithLease
  <2>1. ASSUME NEW t \in Tasks
        PROVE  /\ tasks[t].status \in {"absent", "queued"} => leases[t] = << >> /\ assignments[t] = << >>
               /\ tasks[t].status = "completed" => ~Running(leases[t])
    BY TaskFacts DEF StatusInv
  <2> QED
    BY <1>3, <2>1 DEF StatusAgreesWithLease
<1>6. NoGhostApproval
  <2>1. ASSUME NEW t \in Tasks, NEW i \in DOMAIN approvals[t]
        PROVE  approvals[t][i].kernel = "pending" => approvals[t][i].status = "pending"
    BY TaskFacts DEF ApprovalsInv
  <2> QED
    BY <2>1 DEF NoGhostApproval
<1> QED
  BY <1>2, <1>4, <1>5, <1>6

-----------------------------------------------------------------------------
(* Steps on one task *)

\* A step replaces the rows of task t; the other tasks keep theirs.
RowsBecome(t, task, asg, apps) ==
  /\ tasks' = [tasks EXCEPT ![t] = task]
  /\ assignments' = [assignments EXCEPT ![t] = asg]
  /\ approvals' = [approvals EXCEPT ![t] = apps]

TaskBecomes(t, task, asg, apps) ==
  /\ RowsBecome(t, task, asg, apps)
  /\ LeasesInv'
  /\ \A u \in Resources \ {t} : leases'[u] = leases[u]
  /\ drawn' >= drawn
  /\ TaskInv(task, leases'[t], asg, apps, drawn')

\* Drawing more tokens keeps the invariant of a task.
LEMMA MoreDrawn ==
  ASSUME NEW task, NEW rows, NEW asg, NEW apps, NEW n \in Nat, NEW m \in Nat, m >= n,
         TaskInv(task, rows, asg, apps, n)
  PROVE  TaskInv(task, rows, asg, apps, m)
<1>1. AssignmentsInv(asg, n)
  BY DEF TaskInv
<1>2. AssignmentsInv(asg, m)
  BY <1>1 DEF AssignmentsInv
<1> QED
  BY <1>2 DEF TaskInv

\* A step that leaves one task's rows good keeps the invariant.
LEMMA BecomesKeepsIInv ==
  ASSUME IInv, NEW t \in Tasks, NEW task, NEW asg, NEW apps, TaskBecomes(t, task, asg, apps)
  PROVE  IInv'
<1>1. drawn \in Nat /\ drawn' \in Nat /\ drawn' >= drawn
  BY DEF IInv, LeasesInv, TaskBecomes
<1>2. /\ tasks' = [u \in Tasks |-> IF u = t THEN task ELSE tasks[u]]
      /\ assignments' = [u \in Tasks |-> IF u = t THEN asg ELSE assignments[u]]
      /\ approvals' = [u \in Tasks |-> IF u = t THEN apps ELSE approvals[u]]
  BY DEF IInv, TaskBecomes, RowsBecome
<1>3. TaskInv(tasks'[t], leases'[t], assignments'[t], approvals'[t], drawn')
  BY <1>2 DEF TaskBecomes
<1>4. ASSUME NEW u \in Tasks, u # t
      PROVE  TaskInv(tasks'[u], leases'[u], assignments'[u], approvals'[u], drawn')
  <2>1. TaskInv(tasks[u], leases[u], assignments[u], approvals[u], drawn)
    BY DEF IInv
  <2>2. leases'[u] = leases[u]
    BY <1>4 DEF TaskBecomes, Tasks
  <2>3. tasks'[u] = tasks[u] /\ assignments'[u] = assignments[u] /\ approvals'[u] = approvals[u]
    BY <1>2, <1>4
  <2>4. TaskInv(tasks[u], leases[u], assignments[u], approvals[u], drawn')
    BY <1>1, <2>1, MoreDrawn
  <2> QED
    BY <2>2, <2>3, <2>4
<1>5. \A u \in Tasks : TaskInv(tasks'[u], leases'[u], assignments'[u], approvals'[u], drawn')
  BY <1>3, <1>4
<1>6. LeasesInv'
  BY DEF TaskBecomes
<1>7. /\ tasks' = [u \in Tasks |-> tasks'[u]]
      /\ assignments' = [u \in Tasks |-> assignments'[u]]
      /\ approvals' = [u \in Tasks |-> approvals'[u]]
  BY <1>2
<1> QED
  BY <1>5, <1>6, <1>7 DEF IInv

\* A step that leaves the lease table alone.
LEMMA LeasesKept ==
  ASSUME IInv, NEW t \in Tasks, NEW task, NEW asg, NEW apps,
         RowsBecome(t, task, asg, apps), UNCHANGED leaseVars,
         TaskInv(task, leases[t], asg, apps, drawn)
  PROVE  IInv'
<1>1. LeasesInv /\ drawn \in Nat
  BY DEF IInv, LeasesInv
<1>2. LeasesInv'
  BY <1>1 DEF LeasesInv, leaseVars
<1>3. TaskBecomes(t, task, asg, apps)
  BY <1>1, <1>2 DEF TaskBecomes, leaseVars
<1> QED
  BY <1>3, BecomesKeepsIInv

\* What an unchanged table is, written as a replacement.
LEMMA SameRow ==
  ASSUME IInv, NEW t \in Tasks
  PROVE  /\ tasks = [tasks EXCEPT ![t] = tasks[t]]
         /\ assignments = [assignments EXCEPT ![t] = assignments[t]]
         /\ approvals = [approvals EXCEPT ![t] = approvals[t]]
BY DEF IInv

\* A new task has no lease and no assignment.
LEMMA CreateStep ==
  ASSUME IInv, NEW t \in Tasks, create_task(t)
  PROVE  IInv'
<1>1. PICK n \in 1 .. Cardinality(Tasks) :
             tasks' = [tasks EXCEPT ![t] = [status |-> "queued", owner |-> None, created |-> n]]
  BY DEF create_task
<1> DEFINE task == [status |-> "queued", owner |-> None, created |-> n]
<1>2. /\ tasks[t].status = "absent"
      /\ leases' = leases /\ drawn' = drawn
      /\ assignments' = assignments /\ approvals' = approvals
  BY DEF create_task
<1>3. leases[t] = << >> /\ assignments[t] = << >>
  BY <1>2, TaskFacts DEF StatusInv
<1>4. task \in TaskRows
  BY <1>1 DEF TaskRows, TaskStatuses
<1>5. Agree(leases[t], assignments[t], task.owner)
  BY <1>3 DEF Agree, Running
<1>6. TaskInv(task, leases[t], assignments[t], approvals[t], drawn)
  <2>1. StatusInv(task.status, leases[t], assignments[t])
    BY <1>3 DEF StatusInv
  <2>2. AssignmentsInv(assignments[t], drawn) /\ ApprovalsInv(approvals[t])
    BY TaskFacts
  <2> HIDE DEF task
  <2> QED
    BY <1>4, <1>5, <2>1, <2>2 DEF TaskInv
<1> HIDE DEF task
<1>7. RowsBecome(t, task, assignments[t], approvals[t])
  BY <1>1, <1>2, SameRow DEF task, RowsBecome
<1>8. UNCHANGED leaseVars
  BY <1>2 DEF leaseVars
<1> QED
  BY <1>6, <1>7, <1>8, LeasesKept

-----------------------------------------------------------------------------
(* Histories of assignments *)

\* Rewriting the last assignment, or closing another, keeps only the last open.
LEMMA ReplacedAssignment ==
  ASSUME NEW asg, NEW n, AssignmentsInv(asg, n), NEW c \in 1 .. Len(asg),
         NEW x \in Assignments, x.token \in 1 .. n, Open(x) => c = Len(asg)
  PROVE  /\ AssignmentsInv([asg EXCEPT ![c] = x], n)
         /\ Len([asg EXCEPT ![c] = x]) = Len(asg)
         /\ [asg EXCEPT ![c] = x][c] = x
         /\ \A j \in 1 .. Len(asg) : j # c => [asg EXCEPT ![c] = x][j] = asg[j]
<1> DEFINE new == [asg EXCEPT ![c] = x]
<1>1. asg \in Seq(Assignments) /\ DOMAIN asg = 1 .. Len(asg) /\ c \in DOMAIN asg
  BY DEF AssignmentsInv
<1>2. /\ new \in Seq(Assignments)
      /\ Len(new) = Len(asg)
      /\ \A j \in 1 .. Len(asg) : new[j] = IF j = c THEN x ELSE asg[j]
  BY <1>1
<1>3. \A j \in 1 .. Len(asg) : asg[j].token \in 1 .. n /\ (Open(asg[j]) => j = Len(asg))
  BY DEF AssignmentsInv
<1> HIDE DEF new
<1>4. AssignmentsInv(new, n)
  BY <1>2, <1>3 DEF AssignmentsInv
<1> QED
  BY <1>2, <1>4 DEF new

\* A new assignment may follow once all are closed.
LEMMA AppendedAssignment ==
  ASSUME NEW asg, NEW n \in Nat, AssignmentsInv(asg, n), \A j \in 1 .. Len(asg) : ~Open(asg[j]),
         NEW x \in Assignments, x.token \in 1 .. n
  PROVE  /\ AssignmentsInv(Append(asg, x), n)
         /\ Append(asg, x) # << >> /\ Last(Append(asg, x)) = x
<1> DEFINE new == Append(asg, x)
<1>1. asg \in Seq(Assignments) /\ Len(asg) \in Nat
  BY DEF AssignmentsInv
<1>2. /\ new \in Seq(Assignments)
      /\ Len(new) = Len(asg) + 1
      /\ new[Len(asg) + 1] = x
      /\ \A j \in 1 .. Len(asg) : new[j] = asg[j]
  BY <1>1, AppendProperties
<1>3. \A j \in 1 .. Len(asg) : asg[j].token \in 1 .. n
  BY DEF AssignmentsInv
<1> HIDE DEF new
<1>4. ASSUME NEW j \in 1 .. Len(asg) + 1
      PROVE  new[j].token \in 1 .. n /\ (Open(new[j]) => j = Len(asg) + 1)
  <2>1. CASE j = Len(asg) + 1
    BY <1>2, <2>1
  <2>2. CASE j \in 1 .. Len(asg)
    BY <1>2, <1>3, <2>2
  <2> QED
    BY <1>1, <2>1, <2>2
<1>5. AssignmentsInv(new, n)
  BY <1>2, <1>4 DEF AssignmentsInv
<1>6. new # << >>
  BY <1>1, <1>2
<1>7. Last(new) = x
  BY <1>2 DEF Last
<1> QED
  BY <1>5, <1>6, <1>7 DEF new

-----------------------------------------------------------------------------
(* A claim *)

\* A claim by the running lease's holder asks for the token it already has.
LEMMA HolderKeepsToken ==
  ASSUME IInv, NEW t \in Tasks, NEW a, NEW g, IsKeptToken(t, a, g),
         Running(leases[t]), Top(leases[t]).holder = a
  PROVE  g = Top(leases[t]).token
<1> DEFINE n == Len(assignments[t])
<1>1. IsAssigned(t, n) /\ \A c : IsAssigned(t, c) => c = n
  BY AssignedIsLast
<1>2. Agree(leases[t], assignments[t], tasks[t].owner)
  BY TaskFacts
<1>3. ~Unassigned(t)
  BY <1>1 DEF IsAssigned, Unassigned
<1>4. PICK c \in DOMAIN assignments[t] :
        /\ IsAssigned(t, c)
        /\ g = IF assignments[t][c].actor = a THEN assignments[t][c].token ELSE None
  BY <1>3 DEF IsKeptToken
<1>5. c = n
  BY <1>1, <1>4
<1>6. assignments[t][c].actor = a /\ assignments[t][c].token = Top(leases[t]).token
  BY <1>2, <1>5 DEF Agree, Last
<1> QED
  BY <1>4, <1>6

\* Whatever the claim's first reading of the clock saw, the assignment it writes
\* is the newest, and no older one is open.
LEMMA AssignStep ==
  ASSUME IInv, NEW t \in Tasks, NEW a \in Actors, NEW n \in Nat, n >= drawn,
         NEW row, row.token \in 1 .. n, row.left \in 1 .. MaxLease,
         Running(leases[t]) => Top(leases[t]).holder = a,
         assign_from_lease(t, a, row)
  PROVE  \E asg : /\ assignments' = [assignments EXCEPT ![t] = asg]
                  /\ AssignmentsInv(asg, n)
                  /\ asg # << >>
                  /\ Last(asg) = NewAssignment(a, row.token, row.left)
<1> DEFINE old == assignments[t]
           new == NewAssignment(a, row.token, row.left)
<1>1. /\ AssignmentsInv(old, drawn) /\ drawn \in Nat
      /\ old \in Seq(Assignments) /\ DOMAIN old = 1 .. Len(old) /\ Len(old) \in Nat
      /\ Agree(leases[t], old, tasks[t].owner)
  BY TaskFacts
<1>2. AssignmentsInv(old, n)
  BY <1>1 DEF AssignmentsInv
<1>3. /\ new \in Assignments
      /\ new.token = row.token
  <2>1. row.left \in 0 .. MaxLease /\ row.token \in Nat
    BY ResourceLeasesAssumption
  <2> QED
    BY <2>1 DEF NewAssignment, Assignments
<1>4. \A j \in 1 .. Len(old) : old[j] \in Assignments /\ (Open(old[j]) => j = Len(old))
  BY <1>1, <1>2 DEF AssignmentsInv
<1>5. ASSUME NEW j \in 1 .. Len(old), Open(old[j])
      PROVE  /\ j = Len(old) /\ old[j].actor = a
             /\ \A c : IsAssigned(t, c) => c = j
  <2>1. j = Len(old)
    BY <1>4, <1>5
  <2>2. old # << >> /\ Open(Last(old))
    BY <1>1, <1>5, <2>1 DEF Last
  <2>3. Running(leases[t]) /\ Last(old).actor = a
    BY <1>1, <2>2 DEF Agree
  <2>4. \A c : IsAssigned(t, c) => c = Len(old)
    BY <2>3, AssignedIsLast
  <2> QED
    BY <2>1, <2>3, <2>4 DEF Last
<1> HIDE DEF new
<1>6. ASSUME Unassigned(t), assignments' = [assignments EXCEPT ![t] = Append(old, new)]
      PROVE  \E asg : /\ assignments' = [assignments EXCEPT ![t] = asg]
                      /\ AssignmentsInv(asg, n) /\ asg # << >> /\ Last(asg) = new
  <2>1. \A j \in 1 .. Len(old) : ~Open(old[j])
    BY <1>1, <1>6 DEF Unassigned, Open
  <2>2. AssignmentsInv(Append(old, new), n) /\ Append(old, new) # << >> /\ Last(Append(old, new)) = new
    BY <1>2, <1>3, <2>1, AppendedAssignment
  <2> QED
    BY <1>6, <2>2
<1>7. ASSUME NEW c \in DOMAIN old, IsAssigned(t, c), SeenRunning(t, c), old[c].actor = a,
             assignments' = [assignments EXCEPT ![t][c] = new]
      PROVE  \E asg : /\ assignments' = [assignments EXCEPT ![t] = asg]
                      /\ AssignmentsInv(asg, n) /\ asg # << >> /\ Last(asg) = new
  <2> DEFINE asg == [old EXCEPT ![c] = new]
  <2>1. c \in 1 .. Len(old) /\ old[c].status = "claimed"
    BY <1>1, <1>7 DEF IsAssigned
  <2>2. c = Len(old)
    BY <1>4, <1>7, <2>1 DEF SeenRunning, Open
  <2>3. AssignmentsInv(asg, n) /\ Len(asg) = Len(old) /\ asg[c] = new
    BY <1>2, <1>3, <2>1, <2>2, ReplacedAssignment
  <2>4. asg \in Seq(Assignments) /\ Len(asg) # 0
    BY <1>1, <2>1, <2>3 DEF AssignmentsInv
  <2>5. assignments' = [assignments EXCEPT ![t] = asg]
    BY <1>7
  <2> HIDE DEF asg
  <2>6. asg # << >> /\ Last(asg) = new
    BY <2>2, <2>3, <2>4, EmptySeq DEF Last
  <2> QED
    BY <2>3, <2>5, <2>6
<1>8. ASSUME NEW c \in DOMAIN old, IsAssigned(t, c), old[c].actor # a,
             assignments' = [assignments EXCEPT ![t] = Append(old, new)]
      PROVE  \E asg : /\ assignments' = [assignments EXCEPT ![t] = asg]
                      /\ AssignmentsInv(asg, n) /\ asg # << >> /\ Last(asg) = new
  <2>1. \A j \in 1 .. Len(old) : ~Open(old[j])
    BY <1>5, <1>8
  <2>2. AssignmentsInv(Append(old, new), n) /\ Append(old, new) # << >> /\ Last(Append(old, new)) = new
    BY <1>2, <1>3, <2>1, AppendedAssignment
  <2> QED
    BY <1>8, <2>2
<1>9. ASSUME NEW c \in DOMAIN old, IsAssigned(t, c), old[c].left = 0,
             assignments' = [assignments EXCEPT ![t] =
               Append([old EXCEPT ![c].status = "expired"], new)]
      PROVE  \E asg : /\ assignments' = [assignments EXCEPT ![t] = asg]
                      /\ AssignmentsInv(asg, n) /\ asg # << >> /\ Last(asg) = new
  <2> DEFINE x == [old[c] EXCEPT !.status = "expired"]
             kept == [old EXCEPT ![c] = x]
  <2>1. c \in 1 .. Len(old) /\ old[c] \in Assignments
    BY <1>1, <1>9
  <2>2. x \in Assignments /\ x.status = "expired" /\ x.token = old[c].token
    BY <2>1 DEF Assignments
  <2>3. x.token \in 1 .. n /\ ~Open(x)
    BY <1>2, <2>1, <2>2 DEF AssignmentsInv, Open
  <2>4. assignments' = [assignments EXCEPT ![t] = Append(kept, new)]
    BY <1>9
  <2> HIDE DEF x
  <2>5. /\ AssignmentsInv(kept, n)
        /\ Len(kept) = Len(old)
        /\ kept[c] = x
        /\ \A j \in 1 .. Len(old) : j # c => kept[j] = old[j]
    BY <1>2, <2>1, <2>2, <2>3, ReplacedAssignment
  <2>6. ~Open(old[c])
    BY <1>9 DEF Open
  <2>7. \A j \in 1 .. Len(old) : ~Open(old[j])
    BY <1>5, <1>9, <2>6
  <2> HIDE DEF kept
  <2>8. \A j \in 1 .. Len(kept) : ~Open(kept[j])
    BY <2>3, <2>5, <2>7
  <2>9. AssignmentsInv(Append(kept, new), n) /\ Append(kept, new) # << >> /\ Last(Append(kept, new)) = new
    BY <1>3, <2>5, <2>8, AppendedAssignment
  <2> QED
    BY <2>4, <2>9
<1> QED
  BY <1>6, <1>7, <1>8, <1>9 DEF assign_from_lease, new

\* A claim leaves lease and assignment with one holder, token and deadline.
LEMMA ClaimInSessionStep ==
  ASSUME IInv, NEW t \in Tasks, NEW a \in Actors, NEW l \in 1 .. MaxLease,
         claim_in_session(t, a, l)
  PROVE  IInv' /\ LeasesNext
<1>1. PICK g \in (1 .. drawn) \cup {None} :
             IsKeptToken(t, a, g) /\ claim_resource_lease(t, a, g, l, "claimed")
  BY DEF claim_in_session
<1>2. "claimed" \in Statuses /\ t \in Resources
  BY RemoteTasksAssumption DEF Tasks
<1>3. LeasesInv /\ drawn \in Nat
  BY DEF IInv, LeasesInv
<1>4. /\ LeasesInv'
      /\ \A q \in Resources \ {t} : leases'[q] = leases[q]
      /\ Running(leases'[t]) /\ Top(leases'[t]).holder = a /\ Top(leases'[t]).left = l
      /\ \/ /\ Running(leases[t]) /\ Top(leases[t]).holder = a
            /\ Top(leases'[t]).token = IF g = None THEN Top(leases[t]).token ELSE g
            /\ drawn' = drawn
         \/ /\ ~Running(leases[t])
            /\ Top(leases'[t]).token = IF g = None THEN drawn + 1 ELSE g
            /\ drawn' = IF g = None THEN drawn + 1 ELSE drawn
  BY <1>1, <1>2, <1>3, ClaimStep
<1>5. /\ Top(leases'[t]).token \in 1 .. drawn'
      /\ drawn' \in Nat /\ drawn' >= drawn
      /\ Running(leases[t]) => Top(leases[t]).holder = a
  <2>1. CASE Running(leases[t])
    <3>1. g = Top(leases[t]).token /\ g \in 1 .. drawn
      <4>1. g = Top(leases[t]).token
        BY <1>1, <1>4, <2>1, HolderKeepsToken
      <4>2. assignments[t] # << >> /\ Top(leases[t]).token = Last(assignments[t]).token
        BY <2>1, TaskFacts DEF Agree
      <4>3. Len(assignments[t]) \in 1 .. Len(assignments[t])
        BY <4>2, TaskFacts, EmptySeq
      <4>4. Last(assignments[t]).token \in 1 .. drawn
        BY <4>3, TaskFacts DEF AssignmentsInv, Last
      <4> QED
        BY <4>1, <4>2, <4>4
    <3>2. Top(leases'[t]).token = g
      BY <1>4, <2>1, <3>1
    <3> QED
      BY <1>3, <1>4, <2>1, <3>1, <3>2
  <2>2. CASE ~Running(leases[t])
    BY <1>1, <1>3, <1>4, <2>2
  <2> QED
    BY <2>1, <2>2
<1>6. PICK i \in DOMAIN leases'[t] : /\ IsCurrent(leases'[t], i)
                                     /\ assign_from_lease(t, a, leases'[t][i])
  BY DEF claim_in_session
<1>7. leases'[t][i] = Top(leases'[t])
  <2>1. HistoryInv(leases'[t])
    BY <1>2, <1>4 DEF LeasesInv
  <2>2. i = Len(leases'[t])
    BY <1>6, <2>1, CurrentIsNewest
  <2> QED
    BY <2>2 DEF Top
<1> DEFINE row == Top(leases'[t])
<1>8. assign_from_lease(t, a, row)
  BY <1>6, <1>7
<1>9. PICK asg : /\ assignments' = [assignments EXCEPT ![t] = asg]
                 /\ AssignmentsInv(asg, drawn')
                 /\ asg # << >>
                 /\ Last(asg) = NewAssignment(a, row.token, row.left)
  BY <1>4, <1>5, <1>8, AssignStep
<1> DEFINE task == [tasks[t] EXCEPT !.status = "claimed", !.owner = a]
<1>10. /\ tasks' = [tasks EXCEPT ![t] = task]
       /\ approvals' = approvals
  BY DEF claim_in_session, OwnedBy
<1>11. task \in TaskRows /\ task.owner = a /\ task.status = "claimed"
  BY TaskFacts DEF TaskRows, TaskStatuses, HeartbeatSays
<1>12. Agree(leases'[t], asg, task.owner)
  BY <1>4, <1>9, <1>11, ResourceLeasesAssumption DEF Agree, Open, NewAssignment
<1>13. StatusInv(task.status, leases'[t], asg)
  BY <1>11 DEF StatusInv
<1> HIDE DEF task, row
<1>14. TaskInv(task, leases'[t], asg, approvals[t], drawn')
  BY <1>9, <1>11, <1>12, <1>13, TaskFacts DEF TaskInv
<1>15. RowsBecome(t, task, asg, approvals[t])
  BY <1>9, <1>10, SameRow DEF RowsBecome
<1>16. IInv'
  BY <1>4, <1>5, <1>14, <1>15, BecomesKeepsIInv DEF TaskBecomes
<1>17. LeasesNext
  BY <1>1, <1>2 DEF LeasesNext, ClaimLease
<1> QED
  BY <1>16, <1>17

-----------------------------------------------------------------------------
(* The holder's calls *)

\* A heartbeat prolongs both records of the one holder.
LEMMA HeartbeatTaskStep ==
  ASSUME IInv, NEW t \in Tasks, NEW a \in Actors, NEW n \in 1 .. drawn,
         NEW l \in 1 .. MaxLease, NEW says \in HeartbeatSays, heartbeat_task(t, a, n, l, says)
  PROVE  IInv' /\ LeasesNext
<1> DEFINE old == assignments[t]
<1>1. PICK c \in DOMAIN old : /\ require_active_assignment(t, c, a, n)
                              /\ assignments' = [assignments EXCEPT ![t][c].left = l]
  BY DEF heartbeat_task
<1>2. PICK i \in DOMAIN leases[t] : /\ IsCurrent(leases[t], i)
                                    /\ heartbeat_resource_lease(t, i, a, n, l, "claimed")
  BY DEF heartbeat_task
<1>3. /\ AssignmentsInv(old, drawn) /\ drawn \in Nat
      /\ old \in Seq(Assignments) /\ DOMAIN old = 1 .. Len(old)
      /\ LeasesInv /\ t \in Resources
  BY TaskFacts DEF IInv, Tasks
<1>4. /\ c = Len(old) /\ Last(old).actor = a /\ Last(old).token = n
      /\ old[c] \in Assignments /\ old[c].status = "claimed"
  BY <1>1, <1>3, ActiveIsLast DEF require_active_assignment, IsAssigned
<1>5. "claimed" \in Statuses \cup {None}
  BY RemoteTasksAssumption
<1>6. /\ LeasesInv'
      /\ \A q \in Resources \ {t} : leases'[q] = leases[q]
      /\ Running(leases'[t])
      /\ Top(leases'[t]).holder = a /\ Top(leases'[t]).left = l /\ Top(leases'[t]).token = n
  BY <1>2, <1>3, <1>5, HeartbeatStep
<1>7. drawn' = drawn
  BY <1>2 DEF heartbeat_resource_lease
<1> DEFINE x == [old[c] EXCEPT !.left = l]
           asg == [old EXCEPT ![c] = x]
<1>8. x \in Assignments /\ x.actor = a /\ x.token = n /\ x.status = "claimed" /\ x.left = l
  <2>1. l \in 0 .. MaxLease
    BY ResourceLeasesAssumption
  <2>2. old[c].actor = a /\ old[c].token = n
    BY <1>4 DEF Last
  <2> QED
    BY <1>4, <2>1, <2>2 DEF Assignments
<1>9. assignments' = [assignments EXCEPT ![t] = asg]
  BY <1>1
<1> HIDE DEF x
<1>10. AssignmentsInv(asg, drawn) /\ Len(asg) = Len(old) /\ asg[c] = x
  <2>1. c \in 1 .. Len(old) /\ x.token \in 1 .. drawn
    BY <1>3, <1>8
  <2> QED
    BY <1>3, <1>4, <1>8, <2>1, ReplacedAssignment
<1>11. asg # << >> /\ Last(asg) = x
  <2>1. asg \in Seq(Assignments) /\ Len(asg) # 0
    BY <1>1, <1>3, <1>4, <1>10 DEF AssignmentsInv
  <2> HIDE DEF asg
  <2> QED
    BY <1>4, <1>10, <2>1, EmptySeq DEF Last
<1> HIDE DEF asg
<1> DEFINE task == [tasks[t] EXCEPT !.status = says, !.owner = a]
<1>12. tasks' = [tasks EXCEPT ![t] = task] /\ approvals' = approvals
  BY DEF heartbeat_task, OwnedBy
<1>13. task \in TaskRows /\ task.owner = a /\ task.status \in HeartbeatSays
  BY TaskFacts DEF TaskRows, TaskStatuses
<1>14. Agree(leases'[t], asg, task.owner)
  BY <1>6, <1>8, <1>11, <1>13, ResourceLeasesAssumption DEF Agree, Open
<1>15. StatusInv(task.status, leases'[t], asg)
  BY <1>13 DEF StatusInv, HeartbeatSays
<1> HIDE DEF task
<1>16. TaskInv(task, leases'[t], asg, approvals[t], drawn')
  BY <1>7, <1>10, <1>13, <1>14, <1>15, TaskFacts DEF TaskInv
<1>17. RowsBecome(t, task, asg, approvals[t])
  BY <1>9, <1>12, SameRow DEF RowsBecome
<1>18. IInv'
  BY <1>3, <1>6, <1>7, <1>16, <1>17, BecomesKeepsIInv DEF TaskBecomes
<1>19. LeasesNext
  BY <1>2, <1>3, <1>5 DEF LeasesNext, HeartbeatLease
<1> QED
  BY <1>18, <1>19

\* A step that changes a task's status only, of a task that was claimed once or
\* stays queued-free.
LEMMA StatusStep ==
  ASSUME IInv, NEW t \in Tasks, NEW status \in TaskStatuses \ {"absent", "queued", "completed"},
         NEW owner \in Actors \cup {None}, Running(leases[t]) => owner = tasks[t].owner,
         NEW apps, ApprovalsInv(apps),
         tasks' = OwnedBy(t, owner, status), assignments' = assignments,
         approvals' = [approvals EXCEPT ![t] = apps], UNCHANGED leaseVars
  PROVE  IInv'
<1> DEFINE task == [tasks[t] EXCEPT !.status = status, !.owner = owner]
<1>1. task \in TaskRows /\ task.status = status /\ task.owner = owner
  BY TaskFacts DEF TaskRows
<1>2. tasks' = [tasks EXCEPT ![t] = task]
  BY DEF OwnedBy
<1> HIDE DEF task
<1>3. Agree(leases[t], assignments[t], task.owner)
  BY <1>1, TaskFacts DEF Agree
<1>4. StatusInv(task.status, leases[t], assignments[t])
  BY <1>1 DEF StatusInv
<1>5. TaskInv(task, leases[t], assignments[t], apps, drawn)
  BY <1>1, <1>3, <1>4, TaskFacts DEF TaskInv
<1>6. RowsBecome(t, task, assignments[t], apps)
  BY <1>2, SameRow DEF RowsBecome
<1> QED
  BY <1>5, <1>6, LeasesKept

\* Writing a status alone keeps the owner.
LEMMA SameOwner ==
  ASSUME IInv, NEW t \in Tasks, NEW status
  PROVE  WithStatus(t, status) = OwnedBy(t, tasks[t].owner, status) /\ tasks[t].owner \in Actors \cup {None}
<1>1. tasks[t] \in TaskRows
  BY TaskFacts
<1>2. tasks = [u \in Tasks |-> tasks[u]]
  BY DEF IInv
<1>3. [tasks[t] EXCEPT !.status = status] = [tasks[t] EXCEPT !.status = status, !.owner = tasks[t].owner]
  BY <1>1 DEF TaskRows
<1>4. WithStatus(t, status) = [tasks EXCEPT ![t] = [tasks[t] EXCEPT !.status = status]]
  BY DEF WithStatus
<1>5. OwnedBy(t, tasks[t].owner, status)
        = [tasks EXCEPT ![t] = [tasks[t] EXCEPT !.status = status, !.owner = tasks[t].owner]]
  BY DEF OwnedBy
<1> QED
  BY <1>1, <1>3, <1>4, <1>5 DEF TaskRows

\* Evidence changes a status and no ownership.
LEMMA AddEvidenceStep ==
  ASSUME IInv, NEW t \in Tasks, add_evidence(t)
  PROVE  IInv'
<1>1. tasks' = OwnedBy(t, tasks[t].owner, "executing") /\ tasks[t].owner \in Actors \cup {None}
  BY SameOwner DEF add_evidence
<1>2. "executing" \in TaskStatuses \ {"absent", "queued", "completed"}
  BY DEF TaskStatuses, HeartbeatSays
<1>3. /\ assignments' = assignments /\ UNCHANGED leaseVars
      /\ approvals' = [approvals EXCEPT ![t] = approvals[t]]
  BY SameRow DEF add_evidence, leaseVars
<1>4. ApprovalsInv(approvals[t])
  BY TaskFacts
<1> QED
  BY <1>1, <1>2, <1>3, <1>4, StatusStep

\* An approval is requested in both tables.
LEMMA RequestApprovalStep ==
  ASSUME IInv, NEW t \in Tasks, NEW a \in Actors, NEW n, request_approval(t, a, n)
  PROVE  IInv'
<1> DEFINE x == [status |-> "pending", kernel |-> "pending"]
           apps == Append(approvals[t], x)
<1>1. \E c \in DOMAIN assignments[t] : require_active_assignment(t, c, a, n)
  BY DEF request_approval
<1>2. tasks[t].owner = a
  BY <1>1, ActiveIsLast
<1>3. ApprovalsInv(approvals[t]) /\ approvals[t] \in Seq(Approvals) /\ Len(approvals[t]) \in Nat
  BY TaskFacts
<1>4. x \in Approvals
  BY DEF Approvals
<1>5. /\ apps \in Seq(Approvals)
      /\ Len(apps) = Len(approvals[t]) + 1
      /\ apps[Len(approvals[t]) + 1] = x
      /\ \A i \in 1 .. Len(approvals[t]) : apps[i] = approvals[t][i]
  BY <1>3, <1>4, AppendProperties
<1>6. approvals' = [approvals EXCEPT ![t] = apps]
  BY DEF request_approval
<1>7. /\ tasks' = OwnedBy(t, a, "blocked_approval") /\ assignments' = assignments
      /\ UNCHANGED leaseVars
  BY DEF request_approval, leaseVars
<1> HIDE DEF apps
<1>8. ASSUME NEW i \in 1 .. Len(approvals[t]) + 1
      PROVE  apps[i].kernel = "pending" => apps[i].status = "pending"
  <2>1. CASE i = Len(approvals[t]) + 1
    BY <1>5, <2>1
  <2>2. CASE i \in 1 .. Len(approvals[t])
    BY <1>3, <1>5, <2>2 DEF ApprovalsInv
  <2> QED
    BY <1>3, <2>1, <2>2
<1>9. ApprovalsInv(apps)
  BY <1>5, <1>8 DEF ApprovalsInv
<1>10. "blocked_approval" \in TaskStatuses \ {"absent", "queued", "completed"}
  BY DEF TaskStatuses, HeartbeatSays
<1> QED
  BY <1>2, <1>6, <1>7, <1>9, <1>10, StatusStep

\* One approval of a history is replaced by one that is not pending in the kernel
\* only.
LEMMA ReplacedApproval ==
  ASSUME NEW apps, ApprovalsInv(apps), NEW i \in DOMAIN apps, NEW x \in Approvals,
         x.kernel = "pending" => x.status = "pending"
  PROVE  ApprovalsInv([apps EXCEPT ![i] = x])
<1> DEFINE new == [apps EXCEPT ![i] = x]
<1>1. apps \in Seq(Approvals) /\ DOMAIN apps = 1 .. Len(apps)
  BY DEF ApprovalsInv
<1>2. /\ new \in Seq(Approvals)
      /\ Len(new) = Len(apps)
      /\ \A j \in 1 .. Len(apps) : new[j] = IF j = i THEN x ELSE apps[j]
  BY <1>1
<1>3. \A j \in 1 .. Len(apps) : apps[j].kernel = "pending" => apps[j].status = "pending"
  BY DEF ApprovalsInv
<1> HIDE DEF new
<1>4. ApprovalsInv(new)
  BY <1>2, <1>3 DEF ApprovalsInv
<1> QED
  BY <1>4 DEF new

\* An approval is resolved in both tables, unless the kernel's was before.
LEMMA ResolveApprovalStep ==
  ASSUME IInv, NEW t \in Tasks, NEW r \in {"approved", "denied"}, resolve_approval(t, r)
  PROVE  IInv'
<1> DEFINE k == Len(approvals[t])
           y == [approvals[t][k] EXCEPT !.status = r]
           x == KernelResolved(y, KernelStatus(r))
           apps == [approvals[t] EXCEPT ![k] = x]
           status == IF r = "approved" THEN "claimed" ELSE "failed"
<1>1. ApprovalsInv(approvals[t]) /\ approvals[t] \in Seq(Approvals) /\ approvals[t] # << >>
  BY TaskFacts DEF resolve_approval
<1>2. k \in DOMAIN approvals[t] /\ approvals[t][k] \in Approvals
  BY <1>1, EmptySeq
<1>3. y \in Approvals
  BY <1>2 DEF Approvals
<1>4. KernelStatus(r) \in {"approved", "rejected"}
  BY DEF KernelStatus
<1>5. x \in Approvals /\ x.kernel # "pending"
  <2> HIDE DEF y
  <2> QED
    BY <1>3, <1>4 DEF KernelResolved, Approvals
<1>6. approvals' = [approvals EXCEPT ![t] = apps]
  BY DEF resolve_approval
<1> HIDE DEF x
<1>7. ApprovalsInv(apps)
  BY <1>1, <1>2, <1>5, ReplacedApproval
<1>8. status \in TaskStatuses \ {"absent", "queued", "completed"}
  BY DEF TaskStatuses, HeartbeatSays, Settled
<1>9. /\ tasks' = OwnedBy(t, tasks[t].owner, status) /\ tasks[t].owner \in Actors \cup {None}
      /\ assignments' = assignments /\ UNCHANGED leaseVars
  BY SameOwner DEF resolve_approval, leaseVars
<1> HIDE DEF apps, status
<1> QED
  BY <1>6, <1>7, <1>8, <1>9, StatusStep

\* The kernel's own call resolves its row only.
LEMMA KernelResolveStep ==
  ASSUME IInv, NEW t \in Tasks, NEW i \in DOMAIN approvals[t],
         NEW d \in {"approved", "rejected"}, kernel_resolve(t, i, d)
  PROVE  IInv'
<1> DEFINE x == KernelResolved(approvals[t][i], d)
           apps == [approvals[t] EXCEPT ![i] = x]
<1>1. ApprovalsInv(approvals[t]) /\ approvals[t][i] \in Approvals
  BY TaskFacts
<1>2. x \in Approvals /\ x.kernel # "pending"
  BY <1>1 DEF KernelResolved, Approvals
<1>3. approvals' = [approvals EXCEPT ![t] = apps]
  BY DEF kernel_resolve
<1> HIDE DEF x
<1>4. ApprovalsInv(apps)
  BY <1>1, <1>2, ReplacedApproval
<1> HIDE DEF apps
<1>5. tasks' = tasks /\ assignments' = assignments /\ UNCHANGED leaseVars
  BY DEF kernel_resolve, leaseVars
<1>6. TaskInv(tasks[t], leases[t], assignments[t], apps, drawn)
  BY <1>4, TaskFacts DEF TaskInv
<1>7. RowsBecome(t, tasks[t], assignments[t], apps)
  BY <1>3, <1>5, SameRow DEF RowsBecome
<1> QED
  BY <1>5, <1>6, <1>7, LeasesKept

-----------------------------------------------------------------------------
(* The end of a task *)

\* Assignment c, the only one that can be open, is closed; the lease runs no more.
LEMMA CloseStep ==
  ASSUME IInv, NEW t \in Tasks, NEW c \in DOMAIN assignments[t], NEW a \in Actors,
         NEW final \in Settled, IsAssigned(t, c),
         assignments' = Released(t, c, final), tasks' = OwnedBy(t, a, final),
         approvals' = approvals, LeasesInv',
         \A u \in Resources \ {t} : leases'[u] = leases[u],
         drawn' = drawn, ~Running(leases'[t])
  PROVE  IInv'
<1> DEFINE old == assignments[t]
           x == [old[c] EXCEPT !.status = final, !.left = 0]
           asg == [old EXCEPT ![c] = x]
           task == [tasks[t] EXCEPT !.status = final, !.owner = a]
<1>1. /\ AssignmentsInv(old, drawn) /\ drawn \in Nat /\ old \in Seq(Assignments)
      /\ DOMAIN old = 1 .. Len(old) /\ Len(old) \in Nat
      /\ Agree(leases[t], old, tasks[t].owner)
      /\ tasks[t] \in TaskRows
  BY TaskFacts
<1>2. old[c] \in Assignments /\ c \in 1 .. Len(old)
  BY <1>1
<1>3. x \in Assignments /\ x.status = final /\ x.token = old[c].token /\ x.left = 0
  <2>1. 0 \in 0 .. MaxLease
    BY ResourceLeasesAssumption
  <2> QED
    BY <1>2, <2>1 DEF Assignments
<1>4. ~Open(x)
  <2> HIDE DEF x
  <2> QED
    BY <1>3 DEF Open
<1>5. x.token \in 1 .. drawn
  BY <1>1, <1>2, <1>3 DEF AssignmentsInv
<1>6. assignments' = [assignments EXCEPT ![t] = asg]
  BY DEF Released
<1>7. task \in TaskRows /\ task.status = final /\ task.owner = a
  BY <1>1 DEF TaskRows, TaskStatuses
<1>8. tasks' = [tasks EXCEPT ![t] = task]
  BY DEF OwnedBy
<1> HIDE DEF x, task
<1>9. /\ AssignmentsInv(asg, drawn)
      /\ Len(asg) = Len(old)
      /\ asg[c] = x
      /\ \A j \in 1 .. Len(old) : j # c => asg[j] = old[j]
  BY <1>1, <1>2, <1>3, <1>4, <1>5, ReplacedAssignment
<1>10. ~Open(old[Len(old)]) \/ c = Len(old)
  <2>1. SUFFICES ASSUME Open(Last(old)) PROVE c = Len(old)
    BY DEF Last
  <2>2. old # << >>
    BY <1>1, <1>2
  <2>3. Running(leases[t])
    BY <1>1, <2>1, <2>2 DEF Agree
  <2> QED
    BY <2>3, AssignedIsLast
<1> HIDE DEF asg
<1>11. ~Open(Last(asg))
  <2>1. Len(old) \in 1 .. Len(old)
    BY <1>1, <1>2
  <2> QED
    BY <1>4, <1>9, <1>10, <2>1 DEF Last
<1>12. Agree(leases'[t], asg, task.owner)
  BY <1>11 DEF Agree
<1>13. StatusInv(task.status, leases'[t], asg)
  BY <1>7 DEF StatusInv, Settled
<1>14. TaskInv(task, leases'[t], asg, approvals[t], drawn')
  BY <1>7, <1>9, <1>12, <1>13, TaskFacts DEF TaskInv
<1>15. RowsBecome(t, task, asg, approvals[t])
  BY <1>6, <1>8, SameRow DEF RowsBecome
<1>16. TaskBecomes(t, task, asg, approvals[t])
  BY <1>1, <1>14, <1>15 DEF TaskBecomes
<1> QED
  BY <1>16, BecomesKeepsIInv

\* Releasing the current row, or finding none.
LEMMA ReleaseCurrent ==
  ASSUME IInv, NEW t \in Tasks, NEW a \in Actors, NEW n \in 1 .. drawn,
         \/ \E i \in DOMAIN leases[t] : /\ IsCurrent(leases[t], i)
                                        /\ release_resource_lease(t, i, a, n)
         \/ /\ \A i \in DOMAIN leases[t] : ~IsCurrent(leases[t], i)
            /\ UNCHANGED leaseVars
  PROVE  /\ LeasesInv'
         /\ \A u \in Resources \ {t} : leases'[u] = leases[u]
         /\ drawn' = drawn
         /\ ~Running(leases'[t])
         /\ [LeasesNext]_leaseVars
<1>1. LeasesInv /\ t \in Resources
  BY DEF IInv, Tasks
<1>2. ASSUME NEW i \in DOMAIN leases[t], IsCurrent(leases[t], i),
             release_resource_lease(t, i, a, n)
      PROVE  /\ LeasesInv'
             /\ \A u \in Resources \ {t} : leases'[u] = leases[u]
             /\ drawn' = drawn
             /\ ~Running(leases'[t])
             /\ LeasesNext
  <2>1. LeasesNext
    BY <1>1, <1>2 DEF LeasesNext, ReleaseLease
  <2> QED
    BY <1>1, <1>2, <2>1, ReleaseStep
<1>3. ASSUME \A i \in DOMAIN leases[t] : ~IsCurrent(leases[t], i), UNCHANGED leaseVars
      PROVE  /\ LeasesInv'
             /\ \A u \in Resources \ {t} : leases'[u] = leases[u]
             /\ drawn' = drawn
             /\ ~Running(leases'[t])
  <2>1. ~Running(leases[t])
    BY <1>3, CurrentRow
  <2> QED
    BY <1>1, <1>3, <2>1 DEF LeasesInv, leaseVars
<1> QED
  BY <1>2, <1>3

\* A report closes the assignment and releases the lease.
LEMMA SettleTaskStep ==
  ASSUME IInv, NEW t \in Tasks, NEW a \in Actors, NEW n \in 1 .. drawn,
         NEW final \in Settled, settle_task(t, a, n, final)
  PROVE  IInv' /\ [LeasesNext]_leaseVars
<1>1. PICK c \in DOMAIN assignments[t] : /\ require_active_assignment(t, c, a, n)
                                         /\ assignments' = Released(t, c, final)
  BY DEF settle_task
<1>2. IsAssigned(t, c)
  BY <1>1 DEF require_active_assignment
<1>3. /\ LeasesInv'
      /\ \A u \in Resources \ {t} : leases'[u] = leases[u]
      /\ drawn' = drawn
      /\ ~Running(leases'[t])
      /\ [LeasesNext]_leaseVars
  BY ReleaseCurrent DEF settle_task, release_kernel_lease
<1>4. tasks' = OwnedBy(t, a, final) /\ approvals' = approvals
  BY DEF settle_task
<1>5. IInv'
  BY <1>1, <1>2, <1>3, <1>4, CloseStep
<1> QED
  BY <1>3, <1>5

\* So does the cleanup, when anybody is assigned.
LEMMA SettleStaleStep ==
  ASSUME IInv, NEW t \in Tasks, NEW final \in Settled, settle_stale_task(t, final)
  PROVE  IInv' /\ [LeasesNext]_leaseVars
<1>1. /\ AssignmentsInv(assignments[t], drawn) /\ assignments[t] \in Seq(Assignments)
      /\ DOMAIN assignments[t] = 1 .. Len(assignments[t])
      /\ Agree(leases[t], assignments[t], tasks[t].owner)
      /\ approvals' = approvals
  BY TaskFacts DEF settle_stale_task
<1>2. ASSUME NEW c \in DOMAIN assignments[t], IsAssigned(t, c),
             \/ \E i \in DOMAIN leases[t] :
                  /\ IsCurrent(leases[t], i)
                  /\ release_resource_lease(t, i, assignments[t][c].actor, assignments[t][c].token)
             \/ /\ \A i \in DOMAIN leases[t] :
                     ~ /\ IsCurrent(leases[t], i)
                       /\ ValidHolder(leases[t][i], assignments[t][c].actor, assignments[t][c].token)
                /\ UNCHANGED leaseVars,
             tasks' = OwnedBy(t, assignments[t][c].actor, final),
             assignments' = Released(t, c, final)
      PROVE  IInv' /\ [LeasesNext]_leaseVars
  <2> DEFINE a == assignments[t][c].actor
             n == assignments[t][c].token
  <2>1. a \in Actors /\ n \in 1 .. drawn
    <3>1. assignments[t][c] \in Assignments /\ n \in 1 .. drawn
      BY <1>1, <1>2 DEF AssignmentsInv
    <3> QED
      BY <3>1 DEF Assignments
  <2>2. \A i \in DOMAIN leases[t] : IsCurrent(leases[t], i) => ValidHolder(leases[t][i], a, n)
    <3> SUFFICES ASSUME NEW i \in DOMAIN leases[t], IsCurrent(leases[t], i)
                 PROVE  ValidHolder(leases[t][i], a, n)
      OBVIOUS
    <3>1. Running(leases[t]) /\ leases[t][i] = Top(leases[t])
      BY CurrentRow
    <3>2. c = Len(assignments[t])
      BY <1>2, <3>1, AssignedIsLast
    <3> QED
      BY <1>1, <3>1, <3>2 DEF Agree, Last, ValidHolder
  <2>3. \/ \E i \in DOMAIN leases[t] : /\ IsCurrent(leases[t], i)
                                       /\ release_resource_lease(t, i, a, n)
        \/ /\ \A i \in DOMAIN leases[t] : ~IsCurrent(leases[t], i)
           /\ UNCHANGED leaseVars
    BY <1>2, <2>2
  <2> HIDE DEF a, n
  <2>4. /\ LeasesInv'
        /\ \A u \in Resources \ {t} : leases'[u] = leases[u]
        /\ drawn' = drawn
        /\ ~Running(leases'[t])
        /\ [LeasesNext]_leaseVars
    BY <2>1, <2>3, ReleaseCurrent
  <2>5. tasks' = OwnedBy(t, a, final)
    BY <1>2 DEF a
  <2>6. IInv'
    BY <1>1, <1>2, <2>1, <2>4, <2>5, CloseStep
  <2> QED
    BY <2>4, <2>6
<1>3. ASSUME Unassigned(t), tasks' = WithStatus(t, final), UNCHANGED <<leases, drawn, assignments>>
      PROVE  IInv' /\ [LeasesNext]_leaseVars
  <2> DEFINE task == [tasks[t] EXCEPT !.status = final]
  <2>1. tasks[t] \in TaskRows
    BY TaskFacts
  <2>2. task \in TaskRows /\ task.status = final /\ task.owner = tasks[t].owner
    BY <2>1 DEF TaskRows, TaskStatuses
  <2>3. tasks' = [tasks EXCEPT ![t] = task]
    BY <1>3 DEF WithStatus
  <2> HIDE DEF task
  <2>4. ~Running(leases[t])
    BY <1>3, AssignedIsLast DEF Unassigned, IsAssigned
  <2>5. Agree(leases[t], assignments[t], task.owner)
    BY <1>1, <2>2
  <2>6. StatusInv(task.status, leases[t], assignments[t])
    BY <2>2, <2>4 DEF StatusInv, Settled
  <2>7. TaskInv(task, leases[t], assignments[t], approvals[t], drawn)
    BY <2>2, <2>5, <2>6, TaskFacts DEF TaskInv
  <2>8. RowsBecome(t, task, assignments[t], approvals[t]) /\ UNCHANGED leaseVars
    BY <1>1, <1>3, <2>3, SameRow DEF RowsBecome, leaseVars
  <2> QED
    BY <2>7, <2>8, LeasesKept
<1> QED
  BY <1>1, <1>2, <1>3 DEF settle_stale_task

-----------------------------------------------------------------------------
(* Time *)

\* An assignment and its lease row run out in the same tick.
LEMMA AgedTask ==
  ASSUME NEW task, NEW rows, NEW asg, NEW apps, NEW n \in Nat,
         HistoryInv(rows), TaskInv(task, rows, asg, apps, n)
  PROVE  TaskInv(task, Aged(rows), Aged(asg), apps, n)
<1> DEFINE new == Aged(asg)
<1>1. /\ AssignmentsInv(asg, n) /\ asg \in Seq(Assignments)
      /\ DOMAIN asg = 1 .. Len(asg) /\ Len(asg) \in Nat
      /\ Agree(rows, asg, task.owner) /\ StatusInv(task.status, rows, asg)
      /\ rows \in Seq(Rows)
  BY DEF TaskInv, AssignmentsInv, HistoryInv
<1>2. ASSUME NEW c \in 1 .. Len(asg)
      PROVE  /\ new[c] \in Assignments
             /\ new[c].token = asg[c].token
             /\ new[c].actor = asg[c].actor
             /\ Open(new[c]) <=> Open(asg[c]) /\ asg[c].left > 1
             /\ Open(asg[c]) => new[c].left = asg[c].left - 1
  <2>1. asg[c] \in Assignments
    BY <1>1
  <2>2. new[c] = [asg[c] EXCEPT !.left = IF asg[c].left = 0 THEN 0 ELSE asg[c].left - 1]
    BY <1>1 DEF Aged
  <2>3. (IF asg[c].left = 0 THEN 0 ELSE asg[c].left - 1) \in 0 .. MaxLease
    BY <2>1, ResourceLeasesAssumption DEF Assignments
  <2>4. new[c] \in Assignments
    BY <2>1, <2>2, <2>3 DEF Assignments
  <2>5. /\ new[c].status = asg[c].status
        /\ new[c].actor = asg[c].actor
        /\ new[c].token = asg[c].token
        /\ new[c].left = IF asg[c].left = 0 THEN 0 ELSE asg[c].left - 1
    BY <2>1, <2>2 DEF Assignments
  <2>6. /\ new[c].left > 0 <=> asg[c].left > 0 /\ asg[c].left > 1
        /\ asg[c].left > 0 => new[c].left = asg[c].left - 1
    BY <2>1, <2>5, ResourceLeasesAssumption DEF Assignments
  <2> HIDE DEF new
  <2> QED
    BY <2>4, <2>5, <2>6 DEF Open
<1>3. new = [c \in 1 .. Len(asg) |-> new[c]]
  BY <1>1 DEF Aged
<1> HIDE DEF new
<1>4. new \in Seq(Assignments) /\ Len(new) = Len(asg)
  <2>1. new \in [1 .. Len(asg) -> Assignments]
    BY <1>2, <1>3
  <2> QED
    BY <1>1, <2>1, LenProperties
<1>5. \A c \in 1 .. Len(asg) : asg[c].token \in 1 .. n /\ (Open(asg[c]) => c = Len(asg))
  BY <1>1 DEF AssignmentsInv
<1>6. AssignmentsInv(new, n)
  BY <1>2, <1>4, <1>5 DEF AssignmentsInv
<1>7. new = << >> <=> asg = << >>
  BY <1>1, <1>4, EmptySeq
<1>8. ASSUME asg # << >>
      PROVE  /\ Last(new).actor = Last(asg).actor
             /\ Last(new).token = Last(asg).token
             /\ Open(Last(new)) <=> Open(Last(asg)) /\ Last(asg).left > 1
             /\ Open(Last(asg)) => Last(new).left = Last(asg).left - 1
  <2>1. Len(asg) \in 1 .. Len(asg)
    BY <1>1, <1>8, EmptySeq
  <2> QED
    BY <1>2, <1>4, <2>1 DEF Last
<1>9. /\ Running(Aged(rows)) <=> Running(rows) /\ Top(rows).left > 1
      /\ Running(rows) => /\ Top(Aged(rows)).holder = Top(rows).holder
                          /\ Top(Aged(rows)).token = Top(rows).token
                          /\ Top(Aged(rows)).left = Top(rows).left - 1
  BY AgedRows
<1>10. Agree(Aged(rows), new, task.owner)
  BY <1>1, <1>7, <1>8, <1>9 DEF Agree
<1>11. rows = << >> => Aged(rows) = << >>
  BY DEF Aged
<1>12. StatusInv(task.status, Aged(rows), new)
  BY <1>1, <1>7, <1>9, <1>11 DEF StatusInv
<1> QED
  BY <1>6, <1>10, <1>12 DEF TaskInv, new

\* Lease and assignment run out together.
LEMMA TickKeepsIInv ==
  ASSUME IInv, Tick
  PROVE  IInv' /\ LeasesNext
<1>1. LeasesInv /\ LeasesTick /\ drawn \in Nat
  BY DEF IInv, Tick, LeasesInv
<1>2. LeasesInv'
  BY <1>1, TickStep
<1>3. /\ leases' = [t \in Tasks |-> Aged(leases[t])]
      /\ assignments' = [t \in Tasks |-> Aged(assignments[t])]
      /\ tasks' = tasks /\ approvals' = approvals /\ drawn' = drawn
  BY <1>1 DEF Tick, LeasesTick, Tasks
<1>4. ASSUME NEW t \in Tasks
      PROVE  TaskInv(tasks'[t], leases'[t], assignments'[t], approvals'[t], drawn')
  <2>1. HistoryInv(leases[t]) /\ TaskInv(tasks[t], leases[t], assignments[t], approvals[t], drawn)
    BY TaskFacts
  <2>2. TaskInv(tasks[t], Aged(leases[t]), Aged(assignments[t]), approvals[t], drawn)
    BY <1>1, <2>1, AgedTask
  <2> QED
    BY <1>3, <2>2
<1>5. /\ tasks' = [t \in Tasks |-> tasks'[t]]
      /\ assignments' = [t \in Tasks |-> assignments'[t]]
      /\ approvals' = [t \in Tasks |-> approvals'[t]]
  BY <1>3 DEF IInv
<1>6. IInv'
  BY <1>2, <1>4, <1>5 DEF IInv
<1> QED
  BY <1>1, <1>6 DEF LeasesNext

-----------------------------------------------------------------------------
\* Every step keeps the invariant, and uses the lease table through the service.
LEMMA StepKeepsIInv == IInv /\ [Next]_vars => IInv' /\ [LeasesNext]_leaseVars
<1> SUFFICES ASSUME IInv, [Next]_vars PROVE IInv' /\ [LeasesNext]_leaseVars
  OBVIOUS
<1>1. CASE CreateTask
  <2>1. PICK t \in Tasks : create_task(t)
    BY <1>1 DEF CreateTask
  <2> QED
    BY <2>1, CreateStep DEF create_task, leaseVars
<1>2. CASE ClaimTask
  <2>1. PICK t \in Tasks, a \in Actors, l \in 1 .. MaxLease : claim_task(t, a, l)
    BY <1>2 DEF ClaimTask
  <2> QED
    BY <2>1, ClaimInSessionStep DEF claim_task
<1>3. CASE ClaimNext
  <2>1. PICK P \in SUBSET {Pool[t] : t \in Tasks}, a \in Actors, l \in 1 .. MaxLease :
               claim_next_task(P, a, l)
    BY <1>3 DEF ClaimNext
  <2>2. PICK t \in Heads(P) : claim_in_session(t, a, l)
    BY <2>1 DEF claim_next_task
  <2>3. t \in Tasks
    BY <2>2 DEF Heads
  <2> QED
    BY <2>2, <2>3, ClaimInSessionStep
<1>4. CASE Heartbeat
  BY <1>4, HeartbeatTaskStep DEF Heartbeat
<1>5. CASE AddEvidence
  BY <1>5, AddEvidenceStep DEF AddEvidence, add_evidence, leaseVars
<1>6. CASE RequestApproval
  BY <1>6, RequestApprovalStep DEF RequestApproval, request_approval, leaseVars
<1>7. CASE ResolveApproval
  BY <1>7, ResolveApprovalStep DEF ResolveApproval, resolve_approval, leaseVars
<1>8. CASE KernelResolve
  BY <1>8, KernelResolveStep DEF KernelResolve, kernel_resolve, leaseVars
<1>9. CASE Report
  <2>1. PICK t \in Tasks, a \in Actors, n \in 1 .. drawn :
               complete_task(t, a, n) \/ fail_task(t, a, n) \/ interrupt_task(t, a, n)
    BY <1>9 DEF Report
  <2>2. \E final \in Settled : settle_task(t, a, n, final)
    BY <2>1 DEF Settled, complete_task, fail_task, interrupt_task
  <2> QED
    BY <2>2, SettleTaskStep
<1>10. CASE SettleStale
  BY <1>10, SettleStaleStep DEF SettleStale
<1>11. CASE Tick
  BY <1>11, TickKeepsIInv
<1>12. CASE UNCHANGED vars
  BY <1>12 DEF IInv, LeasesInv, vars, leaseVars
<1> QED
  BY <1>1, <1>2, <1>3, <1>4, <1>5, <1>6, <1>7, <1>8, <1>9, <1>10, <1>11, <1>12 DEF Next

\* The invariant holds at the start.
LEMMA InitIInv == Init => IInv
<1> SUFFICES ASSUME Init PROVE IInv
  OBVIOUS
<1>1. LeasesInv
  BY LeasesInitInv DEF Init
<1>2. /\ leases = [t \in Tasks |-> << >>] /\ drawn = 0
      /\ tasks = [t \in Tasks |-> [status |-> "absent", owner |-> None, created |-> 0]]
      /\ assignments = [t \in Tasks |-> << >>]
      /\ approvals = [t \in Tasks |-> << >>]
  BY DEF Init, LeasesInit, Tasks
<1>3. [status |-> "absent", owner |-> None, created |-> 0] \in TaskRows
  BY DEF TaskRows, TaskStatuses
<1>4. AssignmentsInv(<< >>, 0) /\ ApprovalsInv(<< >>)
  BY EmptySeq DEF AssignmentsInv, ApprovalsInv
<1>5. Agree(<< >>, << >>, None) /\ StatusInv("absent", << >>, << >>)
  BY DEF Agree, StatusInv, Running
<1>6. TaskInv([status |-> "absent", owner |-> None, created |-> 0], << >>, << >>, << >>, 0)
  BY <1>3, <1>4, <1>5 DEF TaskInv
<1> QED
  BY <1>1, <1>2, <1>6 DEF IInv

-----------------------------------------------------------------------------
\* The lease table, the assignments and the approvals are in step with each other
\* in every reachable state.
THEOREM RemoteInvariance == Spec => []IInv
<1>1. IInv /\ [Next]_vars => IInv'
  BY StepKeepsIInv
<1> QED
  BY <1>1, InitIInv, PTL DEF Spec

\* Every row the service writes is a row of its table.
THEOREM RemoteTypeCorrect == Spec => []TypeOK
BY RemoteInvariance, IInvImplies, PTL

\* The lease row and the assignment of a task are live together, for the same
\* holder, token and deadline.
THEOREM OneRecordOfOwnership == Spec => []LeaseIsAssignment
BY RemoteInvariance, IInvImplies, PTL

\* A queued task has never been claimed and a completed one is not held.
THEOREM StatusAndLease == Spec => []StatusAgreesWithLease
BY RemoteInvariance, IInvImplies, PTL

\* The kernel never asks for a decision that was already made on the task.
THEOREM ApprovalMirrored == Spec => []NoGhostApproval
BY RemoteInvariance, IInvImplies, PTL

\* The service goes through the lease service: all that is proved of leases holds
\* of the leases on tasks.
THEOREM RemoteTasksUseLeases == Spec => ImplementsLeases
<1>1. IInv /\ [Next]_vars => [LeasesNext]_leaseVars
  BY StepKeepsIInv
<1> QED
  BY <1>1, RemoteInvariance, PTL DEF Spec, ImplementsLeases

\* In particular a task has one holder at a time, and never passes from one to
\* another in one step.
THEOREM OneHolder == Spec => ImplementsExclusiveLease
<1>1. Init => Lease!Init
  BY LeasesInitInv DEF Init
<1>2. IInv /\ [Next]_vars => [Lease!Next]_LiveHolder
  BY StepKeepsIInv, LeasesBoxStep DEF IInv
<1> QED
  BY <1>1, <1>2, RemoteInvariance, PTL DEF Spec, ImplementsExclusiveLease, Lease!Spec

\* A holder's call needs the newest assignment.
LEMMA WriterIsNewest ==
  ASSUME IInv, NEW t \in Tasks, NEW a \in Actors, NEW n \in 1 .. drawn,
         \/ complete_task(t, a, n) \/ fail_task(t, a, n) \/ interrupt_task(t, a, n)
         \/ request_approval(t, a, n)
         \/ \E l \in 1 .. MaxLease, says \in HeartbeatSays : heartbeat_task(t, a, n, l, says)
  PROVE  Newest(t) = a
<1>1. PICK c \in DOMAIN assignments[t] : require_active_assignment(t, c, a, n)
  BY DEF complete_task, fail_task, interrupt_task, settle_task, request_approval, heartbeat_task
<1> QED
  BY <1>1, ActiveIsLast DEF Newest, Last

\* Once another actor has claimed a task, its predecessor's token is good for no report,
\* approval request or heartbeat, however late (_require_active_assignment in
\* remote_task_service.py).  Evidence asks for no token and is not spoken of.
THEOREM PredecessorIsRefused == Spec => PredecessorsTokenIsRefused
<1>1. IInv => \A t \in Tasks, a \in Actors, n \in 1 .. drawn :
                Newest(t) # a =>
                  ~ \/ complete_task(t, a, n) \/ fail_task(t, a, n) \/ interrupt_task(t, a, n)
                    \/ request_approval(t, a, n)
                    \/ \E l \in 1 .. MaxLease, says \in HeartbeatSays :
                         heartbeat_task(t, a, n, l, says)
  BY WriterIsNewest
<1> QED
  BY <1>1, RemoteInvariance, PTL DEF PredecessorsTokenIsRefused
=============================================================================
