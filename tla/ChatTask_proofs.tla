-------------------------- MODULE ChatTask_proofs --------------------------
(***************************************************************************)
(* Proofs about ChatTask for every set of conversations, actors and        *)
(* request threads, and any number of calls that break off.                *)
(***************************************************************************)
EXTENDS ChatTask, RemoteTasks_proofs

\* Assignments keep their actors and are never deleted.
Prolongs(old, new) ==
  /\ old # << >> => new # << >>
  /\ \A i \in DOMAIN old : i \in DOMAIN new /\ new[i].actor = old[i].actor

HistoryKept(t) == /\ Prolongs(assignments[t], assignments'[t])
                  /\ approvals[t] # << >> => approvals'[t] # << >>

HasClaimed(a, asg) == \E i \in DOMAIN asg : asg[i].actor = a

\* A conversation, with the status, assignments and approvals of its task.
RowInv(row, status, asg, apps) ==
  /\ row \in ConversationRows
  /\ (row.state = "closed") <=> (row.operation = "closed")
  /\ row.operation \notin {"open", "closed"} => HasClaimed(row.owner, asg)
  /\ \/ row.operation \notin {"open", "closed"}
     \/ row.resolution \notin {"abandoned", None}
     => asg # << >>
  /\ row.operation = "blocked_approval" => apps # << >>
  /\ apps # << >> => asg # << >>
  /\ status \in {"completed", "failed"} => asg # << >>
  /\ status = "completed" => row.evidence
  /\ status = "absent" => row.state = "absent"
  /\ row.state = "absent" => row.operation = "open"

\* A call under way: what its earlier transactions have seen or done.
CallInv(c, row, asg, apps) ==
  /\ c \in InFlight
  /\ row.state # "absent"
  /\ c.call = "claim" => c.actor \in Actors /\ HasClaimed(c.actor, asg)
  /\ c.call = "complete" => row.evidence /\ (c.at # "settle" => asg # << >>)
  /\ c.call \in {"fail", "close"} => asg # << >>
  /\ c.call \in {"request", "approve", "deny"} => apps # << >>
  /\ c.at = "add" => c.call = "evidence"
  /\ c.at = "settle" => c.call = "complete"
  /\ c.at = "close" => ClosesAfter(c.call)
  /\ c.at = "write" => ClosesAfter(c.call) \/ c.call \in {"close", "abandon"}

\* Call c is about to close conversation t, whose task it reported complete.
Announces(c, t) == /\ c.conv = t
                   /\ c.call = "complete"
                   /\ c.at \in {"emit", "close", "write"}

Announced(t) ==
  tasks[t].status = "completed" =>
    \/ conversations[t].state = "closed"
    \/ \E r \in Requests : Announces(calls[r], t)
    \/ broken > 0

RowsInv == /\ conversations \in [Conversations -> ConversationRows]
           /\ \A t \in Conversations :
                RowInv(conversations[t], tasks[t].status, assignments[t], approvals[t])

CallsInv ==
  /\ calls \in [Requests -> InFlight \cup {Idle}]
  /\ \A r \in Requests : calls[r] # Idle =>
       CallInv(calls[r], conversations[calls[r].conv],
               assignments[calls[r].conv], approvals[calls[r].conv])

ChatInv == /\ IInv
           /\ RowsInv
           /\ CallsInv
           /\ \A t \in Conversations : Announced(t)
           /\ broken \in 0 .. MaxBroken

-----------------------------------------------------------------------------
(* Every step is a step of the task service *)

\* A call that has a transaction due is about a conversation.
LEMMA CallFacts ==
  ASSUME CallsInv, NEW r \in Requests, calls[r].at \in Steps
  PROVE  /\ calls[r] # Idle /\ calls[r] \in InFlight
         /\ calls[r].conv \in Tasks
         /\ CallInv(calls[r], conversations[calls[r].conv],
                    assignments[calls[r].conv], approvals[calls[r].conv])
<1>1. calls[r] # Idle
  BY DEF Idle, Steps
<1>2. calls[r] \in InFlight
  BY <1>1 DEF CallsInv
<1> QED
  BY <1>1, <1>2 DEF CallsInv, InFlight, Conversations

\* A report the task service accepts comes from an actor and names a token.
LEMMA CompleteIsReport ==
  ASSUME IInv, NEW t \in Tasks, NEW a, NEW n, complete_task(t, a, n)
  PROVE  Report /\ assignments[t] # << >>
<1>1. PICK c \in DOMAIN assignments[t] : require_active_assignment(t, c, a, n)
  BY DEF complete_task, settle_task
<1>2. /\ AssignmentsInv(assignments[t], drawn)
      /\ assignments[t] \in Seq(Assignments)
      /\ DOMAIN assignments[t] = 1 .. Len(assignments[t])
  BY TaskFacts
<1>3. assignments[t][c].actor = a /\ assignments[t][c].token = n
  BY <1>1 DEF require_active_assignment
<1>4. a \in Actors
  <2>1. assignments[t][c] \in Assignments
    BY <1>2
  <2> QED
    BY <1>3, <2>1 DEF Assignments
<1>5. n \in 1 .. drawn
  BY <1>2, <1>3 DEF AssignmentsInv
<1>6. assignments[t] # << >>
  BY <1>1, <1>2, EmptySeq
<1> QED
  BY <1>4, <1>5, <1>6 DEF Report

\* Each transaction of the rooms is one of the task service, or leaves its tables alone.
LEMMA StepIsTaskStep ==
  ASSUME IInv, CallsInv, ChatNext
  PROVE  [Next]_vars
<1> USE DEF Conversations
<1>1. CASE Opening
  BY <1>1 DEF Opening, open_conversation, Next, CreateTask
<1>2. CASE Calling
  <2>1. PICK r \in Requests, t \in Tasks :
          \/ \E a \in Actors :
               \/ claim(r, t, a)
               \/ \E n \in 1 .. drawn :
                    \/ heartbeat(r, t, a, n)
                    \/ evidence_check(r, t, a, n)
                    \/ complete_check(r, t, a, n)
                    \/ fail(r, t, a, n)
                    \/ request(r, t, a, n)
                    \/ interrupt(r, t, a, n)
          \/ \E call \in {"approve", "deny"} : resolve(r, t, call)
          \/ \E by \in Actors \cup {Opener} : close_by_hand(r, t, by)
          \/ abandon(r, t)
    BY <1>2 DEF Calling
  <2>2. ASSUME NEW a \in Actors, claim(r, t, a) PROVE Next
    BY <2>2 DEF claim, Next, ClaimTask
  <2>3. ASSUME NEW a \in Actors, NEW n \in 1 .. drawn,
               \/ heartbeat(r, t, a, n) \/ fail(r, t, a, n)
               \/ request(r, t, a, n) \/ interrupt(r, t, a, n)
        PROVE  Next
    BY <2>3 DEF heartbeat, fail, request, interrupt, Next, Heartbeat, Report, RequestApproval
  <2>4. ASSUME NEW a \in Actors, NEW n \in 1 .. drawn,
               evidence_check(r, t, a, n) \/ complete_check(r, t, a, n)
        PROVE  UNCHANGED vars
    BY <2>4 DEF evidence_check, complete_check
  <2>5. ASSUME NEW call \in {"approve", "deny"}, resolve(r, t, call) PROVE Next
    BY <2>5 DEF resolve, Next, ResolveApproval
  <2> QED
    BY <2>1, <2>2, <2>3, <2>4, <2>5 DEF close_by_hand, abandon
<1>3. CASE Proceeding
  <2>1. PICK r \in Requests :
          \/ evidence_add(r) \/ complete_settle(r)
          \/ emit(r) \/ close(r) \/ write_close(r)
          \/ break_off(r)
    BY <1>3 DEF Proceeding
  <2>2. ASSUME evidence_add(r) PROVE [Next]_vars
    <3>1. calls[r].conv \in Tasks
      BY <2>2, CallFacts DEF evidence_add, Due, Steps
    <3> QED
      BY <2>2, <3>1 DEF evidence_add, Next, AddEvidence
  <2>3. ASSUME complete_settle(r) PROVE [Next]_vars
    <3>1. calls[r].conv \in Tasks
      BY <2>3, CallFacts DEF complete_settle, Due, Steps
    <3>2. complete_task(calls[r].conv, calls[r].actor, calls[r].token) \/ UNCHANGED vars
      BY <2>3 DEF complete_settle
    <3> QED
      BY <3>1, <3>2, CompleteIsReport DEF Next
  <2> QED
    BY <2>1, <2>2, <2>3 DEF emit, close, write_close, break_off
<1>4. CASE Beside
  BY <1>4 DEF Beside, Next
<1> QED
  BY <1>1, <1>2, <1>3, <1>4 DEF ChatNext

-----------------------------------------------------------------------------
(* What no step of the task service undoes *)

\* A sequence that is not empty has a first element.
LEMMA NonEmptyDomain ==
  ASSUME NEW S, NEW s \in Seq(S), s # << >>
  PROVE  1 \in DOMAIN s
<1>1. Len(s) \in Nat /\ Len(s) # 0 /\ DOMAIN s = 1 .. Len(s)
  BY EmptySeq
<1> QED
  BY <1>1

\* A history prolongs itself.
LEMMA ProlongsSame == ASSUME NEW old PROVE Prolongs(old, old)
BY DEF Prolongs

\* So does one with an assignment rewritten for the same actor.
LEMMA ProlongsReplaced ==
  ASSUME NEW old \in Seq(Assignments), NEW c \in DOMAIN old, NEW x, x.actor = old[c].actor
  PROVE  Prolongs(old, [old EXCEPT ![c] = x])
<1> DEFINE new == [old EXCEPT ![c] = x]
<1>1. DOMAIN new = DOMAIN old
  OBVIOUS
<1>2. \A i \in DOMAIN old : new[i] = IF i = c THEN x ELSE old[i]
  OBVIOUS
<1>3. DOMAIN << >> = {}
  OBVIOUS
<1>4. new # << >>
  BY <1>1, <1>3
<1> QED
  BY <1>1, <1>2, <1>4 DEF Prolongs

\* And one with an assignment added.
LEMMA ProlongsAppended ==
  ASSUME NEW old, NEW mid \in Seq(Assignments), Prolongs(old, mid), NEW x \in Assignments
  PROVE  Prolongs(old, Append(mid, x))
<1>1. /\ Append(mid, x) \in Seq(Assignments)
      /\ Len(Append(mid, x)) = Len(mid) + 1
      /\ \A i \in 1 .. Len(mid) : Append(mid, x)[i] = mid[i]
  BY AppendProperties
<1>2. DOMAIN mid = 1 .. Len(mid) /\ Len(mid) \in Nat
  OBVIOUS
<1>3. DOMAIN Append(mid, x) = 1 .. Len(mid) + 1
  BY <1>1
<1>4. Append(mid, x) # << >>
  BY <1>1, <1>2, EmptySeq
<1>5. \A i \in DOMAIN mid : i \in DOMAIN Append(mid, x)
  BY <1>2, <1>3
<1> QED
  BY <1>1, <1>2, <1>4, <1>5 DEF Prolongs

\* Prolonging the history of one task keeps those of all.
LEMMA OneProlonged ==
  ASSUME IInv, NEW t \in Tasks, NEW new, assignments' = [assignments EXCEPT ![t] = new],
         Prolongs(assignments[t], new), approvals' = approvals
  PROVE  \A u \in Tasks : HistoryKept(u)
<1>1. \A u \in Tasks : assignments'[u] = IF u = t THEN new ELSE assignments[u]
  BY DEF IInv
<1> QED
  BY <1>1, ProlongsSame DEF HistoryKept

\* Rewriting one assignment for the same actor keeps every history.
LEMMA OneReplaced ==
  ASSUME IInv, NEW t \in Tasks, NEW c \in DOMAIN assignments[t], NEW x,
         x.actor = assignments[t][c].actor,
         assignments' = [assignments EXCEPT ![t][c] = x], approvals' = approvals
  PROVE  \A u \in Tasks : HistoryKept(u)
<1>1. assignments[t] \in Seq(Assignments)
  BY TaskFacts
<1>2. assignments' = [assignments EXCEPT ![t] = [assignments[t] EXCEPT ![c] = x]]
  BY DEF IInv
<1>3. Prolongs(assignments[t], [assignments[t] EXCEPT ![c] = x])
  BY <1>1, ProlongsReplaced
<1> QED
  BY <1>2, <1>3, OneProlonged

\* In particular the assignments' new value may be an extended one.
LEMMA OneAppended ==
  ASSUME IInv, NEW t \in Tasks, NEW mid \in Seq(Assignments), Prolongs(assignments[t], mid),
         NEW x \in Assignments,
         assignments' = [assignments EXCEPT ![t] = Append(mid, x)], approvals' = approvals
  PROVE  /\ \A u \in Tasks : HistoryKept(u)
         /\ HasClaimed(x.actor, assignments'[t])
<1>1. Prolongs(assignments[t], Append(mid, x))
  BY ProlongsAppended
<1>2. assignments'[t] = Append(mid, x)
  BY DEF IInv
<1>3. /\ Append(mid, x) \in Seq(Assignments)
      /\ Len(Append(mid, x)) = Len(mid) + 1
      /\ Append(mid, x)[Len(mid) + 1] = x
  BY AppendProperties
<1>4. Len(mid) + 1 \in DOMAIN Append(mid, x)
  BY <1>3
<1> QED
  BY <1>1, <1>2, <1>3, <1>4, OneProlonged DEF HasClaimed

\* A claim deletes nothing, and its actor is in the history afterwards.
LEMMA ClaimKeepsHistory ==
  ASSUME IInv, NEW t \in Tasks, NEW a \in Actors, NEW l \in 1 .. MaxLease,
         claim_in_session(t, a, l)
  PROVE  /\ \A u \in Tasks : HistoryKept(u)
         /\ HasClaimed(a, assignments'[t])
<1>1. PICK i \in DOMAIN leases'[t] : assign_from_lease(t, a, leases'[t][i])
  BY DEF claim_in_session
<1> DEFINE row == leases'[t][i]
           new == NewAssignment(a, row.token, row.left)
<1>2. /\ assignments[t] \in Seq(Assignments)
      /\ DOMAIN assignments[t] = 1 .. Len(assignments[t])
  BY TaskFacts
<1>3. new \in Assignments /\ new.actor = a
  <2>1. LeasesInv'
    BY ClaimInSessionStep DEF IInv
  <2>2. leases'[t] \in Seq(Rows)
    BY <2>1 DEF LeasesInv, HistoryInv, Tasks
  <2>3. row \in Rows
    BY <2>2
  <2> QED
    BY <2>3 DEF NewAssignment, Assignments, Rows
<1>4. approvals' = approvals
  BY DEF claim_in_session
<1>5. CASE Unassigned(t) /\ assignments' = [assignments EXCEPT ![t] = Append(assignments[t], new)]
  BY <1>2, <1>3, <1>4, <1>5, OneAppended, ProlongsSame
<1>6. ASSUME NEW c \in DOMAIN assignments[t],
             assignments[t][c].actor = a, assignments' = [assignments EXCEPT ![t][c] = new]
      PROVE  /\ \A u \in Tasks : HistoryKept(u)
             /\ HasClaimed(a, assignments'[t])
  <2>1. \A u \in Tasks : HistoryKept(u)
    BY <1>3, <1>4, <1>6, OneReplaced
  <2>2. c \in DOMAIN assignments'[t] /\ assignments'[t][c].actor = a
    BY <1>6, <2>1 DEF HistoryKept, Prolongs
  <2> QED
    BY <2>1, <2>2 DEF HasClaimed
<1>7. ASSUME NEW c \in DOMAIN assignments[t],
             assignments' = [assignments EXCEPT ![t] = Append(assignments[t], new)]
      PROVE  /\ \A u \in Tasks : HistoryKept(u)
             /\ HasClaimed(a, assignments'[t])
  BY <1>2, <1>3, <1>4, <1>7, OneAppended, ProlongsSame
<1>8. ASSUME NEW c \in DOMAIN assignments[t],
             assignments' = [assignments EXCEPT ![t] =
                  Append([assignments[t] EXCEPT ![c].status = "expired"], new)]
      PROVE  /\ \A u \in Tasks : HistoryKept(u)
             /\ HasClaimed(a, assignments'[t])
  <2> DEFINE x   == [assignments[t][c] EXCEPT !.status = "expired"]
             mid == [assignments[t] EXCEPT ![c] = x]
  <2>1. assignments[t][c] \in Assignments
    BY <1>2
  <2>2. x \in Assignments /\ x.actor = assignments[t][c].actor
    BY <2>1 DEF Assignments
  <2>3. mid \in Seq(Assignments) /\ mid = [assignments[t] EXCEPT ![c].status = "expired"]
    BY <1>2, <2>2
  <2>4. Prolongs(assignments[t], mid)
    BY <1>2, <2>2, ProlongsReplaced
  <2> QED
    BY <1>3, <1>4, <1>8, <2>3, <2>4, OneAppended
<1>9. \/ Unassigned(t) /\ assignments' = [assignments EXCEPT ![t] = Append(assignments[t], new)]
      \/ \E c \in DOMAIN assignments[t] :
           \/ /\ assignments[t][c].actor = a
              /\ assignments' = [assignments EXCEPT ![t][c] = new]
           \/ assignments' = [assignments EXCEPT ![t] = Append(assignments[t], new)]
           \/ assignments' = [assignments EXCEPT ![t] =
                  Append([assignments[t] EXCEPT ![c].status = "expired"], new)]
  BY <1>1 DEF assign_from_lease
<1> HIDE DEF new
<1> QED
  BY <1>5, <1>6, <1>7, <1>8, <1>9

\* A heartbeat or a settlement changes one assignment's deadline or status.
LEMMA SettleKeepsHistory ==
  ASSUME IInv, NEW t \in Tasks, NEW c \in DOMAIN assignments[t], NEW final,
         assignments' = Released(t, c, final), approvals' = approvals
  PROVE  \A u \in Tasks : HistoryKept(u)
<1> DEFINE x == [assignments[t][c] EXCEPT !.status = final, !.left = 0]
<1>1. assignments[t][c] \in Assignments
  BY TaskFacts
<1>2. x.actor = assignments[t][c].actor
  BY <1>1 DEF Assignments
<1>3. assignments' = [assignments EXCEPT ![t][c] = x]
  BY DEF Released, IInv
<1> QED
  BY <1>2, <1>3, OneReplaced

\* No operation of the task service deletes an assignment or an approval.
LEMMA StepKeepsHistory ==
  ASSUME IInv, [Next]_vars
  PROVE  \A u \in Tasks : HistoryKept(u)
<1>1. CASE assignments' = assignments /\ approvals' = approvals
  BY <1>1, ProlongsSame DEF HistoryKept
<1>2. CASE CreateTask \/ AddEvidence \/ UNCHANGED vars
  BY <1>1, <1>2 DEF CreateTask, create_task, AddEvidence, add_evidence, vars
<1>3. CASE ClaimTask
  BY <1>3, ClaimKeepsHistory DEF ClaimTask, claim_task
<1>4. CASE ClaimNext
  BY <1>4, ClaimKeepsHistory DEF ClaimNext, claim_next_task, Heads
<1>5. CASE Heartbeat
  <2>1. PICK t \in Tasks, a \in Actors, n \in 1 .. drawn, l \in 1 .. MaxLease :
          \E says \in HeartbeatSays : heartbeat_task(t, a, n, l, says)
    BY <1>5 DEF Heartbeat
  <2>2. PICK c \in DOMAIN assignments[t] : assignments' = [assignments EXCEPT ![t][c].left = l]
    BY <2>1 DEF heartbeat_task
  <2> DEFINE x == [assignments[t][c] EXCEPT !.left = l]
  <2>3. assignments[t][c] \in Assignments
    BY TaskFacts
  <2>4. x.actor = assignments[t][c].actor
    BY <2>3 DEF Assignments
  <2>5. assignments' = [assignments EXCEPT ![t][c] = x]
    BY <2>2 DEF IInv
  <2>6. approvals' = approvals
    BY <2>1 DEF heartbeat_task
  <2> QED
    BY <2>4, <2>5, <2>6, OneReplaced
<1>6. CASE RequestApproval \/ ResolveApproval \/ KernelResolve
  <2>1. assignments' = assignments
    BY <1>6 DEF RequestApproval, ResolveApproval, KernelResolve, request_approval,
                resolve_approval, kernel_resolve
  <2>2. ASSUME NEW u \in Tasks, approvals[u] # << >> PROVE approvals'[u] # << >>
    <3>1. approvals[u] \in Seq(Approvals) /\ Len(approvals[u]) \in Nat /\ Len(approvals[u]) # 0
      BY <2>2, TaskFacts, EmptySeq
    <3>2. CASE RequestApproval
      <4>1. PICK t \in Tasks : approvals' = [approvals EXCEPT ![t] =
                     Append(approvals[t], [status |-> "pending", kernel |-> "pending"])]
        BY <3>2 DEF RequestApproval, request_approval
      <4>2. u # t => approvals'[u] = approvals[u]
        BY <4>1 DEF IInv
      <4>3. u = t => approvals'[u] = Append(approvals[u], [status |-> "pending", kernel |-> "pending"])
        BY <4>1 DEF IInv
      <4>4. [status |-> "pending", kernel |-> "pending"] \in Approvals
        BY DEF Approvals
      <4> DEFINE x == [status |-> "pending", kernel |-> "pending"]
      <4> HIDE DEF x
      <4>5. /\ Append(approvals[u], x) \in Seq(Approvals)
            /\ Len(Append(approvals[u], x)) = Len(approvals[u]) + 1
        BY <3>1, <4>4, AppendProperties DEF x
      <4>6. u = t => approvals'[u] # << >>
        BY <3>1, <4>3, <4>5, EmptySeq DEF x
      <4> QED
        BY <2>2, <4>2, <4>6
    <3>3. CASE ResolveApproval \/ KernelResolve
      <4>1. PICK t \in Tasks : \E i, x : approvals' = [approvals EXCEPT ![t][i] = x]
        <5>1. CASE ResolveApproval
          <6>1. PICK t \in Tasks, d \in {"approved", "denied"} : resolve_approval(t, d)
            BY <5>1 DEF ResolveApproval
          <6> DEFINE i == Len(approvals[t])
                     x == KernelResolved([approvals[t][i] EXCEPT !.status = d], KernelStatus(d))
          <6>2. approvals' = [approvals EXCEPT ![t][i] = x]
            BY <6>1 DEF resolve_approval
          <6> HIDE DEF i, x
          <6> QED
            BY <6>2
        <5>2. CASE KernelResolve
          <6>1. PICK t \in Tasks : \E i \in DOMAIN approvals[t] :
                       \E d \in {"approved", "rejected"} : kernel_resolve(t, i, d)
            BY <5>2 DEF KernelResolve
          <6>2. PICK i \in DOMAIN approvals[t] :
                       \E d \in {"approved", "rejected"} : kernel_resolve(t, i, d)
            BY <6>1
          <6>3. PICK d : kernel_resolve(t, i, d)
            BY <6>2
          <6> DEFINE x == KernelResolved(approvals[t][i], d)
          <6>4. approvals' = [approvals EXCEPT ![t][i] = x]
            BY <6>3 DEF kernel_resolve
          <6> HIDE DEF x
          <6> QED
            BY <6>4
        <5> QED
          BY <3>3, <5>1, <5>2
      <4>2. DOMAIN approvals'[u] = DOMAIN approvals[u]
        BY <4>1 DEF IInv
      <4>3. DOMAIN approvals[u] # {}
        BY <2>2, <3>1, NonEmptyDomain
      <4>4. DOMAIN << >> = {}
        OBVIOUS
      <4> QED
        BY <4>2, <4>3, <4>4
    <3> QED
      BY <1>6, <3>2, <3>3
  <2> QED
    BY <2>1, <2>2, ProlongsSame DEF HistoryKept
<1>7. CASE Report
  <2>1. PICK t \in Tasks, a \in Actors, n \in 1 .. drawn :
               complete_task(t, a, n) \/ fail_task(t, a, n) \/ interrupt_task(t, a, n)
    BY <1>7 DEF Report
  <2>2. PICK final : settle_task(t, a, n, final)
    BY <2>1 DEF complete_task, fail_task, interrupt_task
  <2>3. PICK c \in DOMAIN assignments[t] : assignments' = Released(t, c, final)
    BY <2>2 DEF settle_task
  <2>4. approvals' = approvals
    BY <2>2 DEF settle_task
  <2> QED
    BY <2>3, <2>4, SettleKeepsHistory
<1>8. CASE SettleStale
  <2>1. PICK t \in Tasks, final \in Settled : settle_stale_task(t, final)
    BY <1>8 DEF SettleStale
  <2>2. /\ approvals' = approvals
        /\ \/ assignments' = assignments
           \/ \E c \in DOMAIN assignments[t] : assignments' = Released(t, c, final)
    BY <2>1 DEF settle_stale_task
  <2> QED
    BY <1>1, <2>2, SettleKeepsHistory
<1>9. CASE Tick
  <2>1. assignments' = [t \in Tasks |-> Aged(assignments[t])] /\ approvals' = approvals
    BY <1>9 DEF Tick
  <2>2. ASSUME NEW u \in Tasks PROVE Prolongs(assignments[u], assignments'[u])
    <3>1. assignments'[u] = Aged(assignments[u]) /\ assignments[u] \in Seq(Assignments)
      BY <2>1, TaskFacts
    <3>2. /\ DOMAIN Aged(assignments[u]) = DOMAIN assignments[u]
          /\ \A i \in DOMAIN assignments[u] :
               Aged(assignments[u])[i].actor = assignments[u][i].actor
      <4>1. \A i \in DOMAIN assignments[u] : assignments[u][i] \in Assignments
        BY <3>1
      <4>2. \A x \in Assignments : \A k : [x EXCEPT !.left = k].actor = x.actor
        BY DEF Assignments
      <4> QED
        BY <4>1, <4>2 DEF Aged
    <3>3. assignments[u] # << >> => DOMAIN assignments[u] # {}
      BY <3>1, NonEmptyDomain
    <3>4. DOMAIN << >> = {}
      OBVIOUS
    <3> QED
      BY <3>1, <3>2, <3>3, <3>4 DEF Prolongs
  <2> QED
    BY <2>1, <2>2 DEF HistoryKept
<1> QED
  BY <1>2, <1>3, <1>4, <1>5, <1>6, <1>7, <1>8, <1>9 DEF Next

-----------------------------------------------------------------------------
(* What keeps the invariant *)

\* A conversation stays good while the history of its task grows.
LEMMA RowKept ==
  ASSUME NEW row, NEW s, NEW asg, NEW apps, RowInv(row, s, asg, apps),
         NEW s2, NEW asg2, NEW apps2, Prolongs(asg, asg2),
         apps # << >> => apps2 # << >>,
         apps2 # << >> => apps # << >> \/ asg2 # << >>,
         s2 \in {"completed", "failed"} => s = s2 \/ asg2 # << >>,
         s2 = "completed" => s = s2 \/ row.evidence,
         s2 = "absent" => s = s2
  PROVE  RowInv(row, s2, asg2, apps2)
<1>1. HasClaimed(row.owner, asg) => HasClaimed(row.owner, asg2)
  BY DEF HasClaimed, Prolongs
<1>2. asg # << >> => asg2 # << >>
  BY DEF Prolongs
<1> QED
  BY <1>1, <1>2 DEF RowInv

\* What a call has seen stays true while histories and evidence only grow.
LEMMA CallKept ==
  ASSUME NEW c, NEW row, NEW asg, NEW apps, CallInv(c, row, asg, apps),
         NEW row2, NEW asg2, NEW apps2, Prolongs(asg, asg2),
         apps # << >> => apps2 # << >>, row.evidence => row2.evidence,
         row.state # "absent" => row2.state # "absent"
  PROVE  CallInv(c, row2, asg2, apps2)
<1>1. HasClaimed(c.actor, asg) => HasClaimed(c.actor, asg2)
  BY DEF HasClaimed, Prolongs
<1>2. asg # << >> => asg2 # << >>
  BY DEF Prolongs
<1> QED
  BY <1>1, <1>2 DEF CallInv

\* A step keeps the invariant when the rows are good after it, the calls it moves
\* are good calls, and nothing that would close a conversation gets lost.
LEMMA Assembled ==
  ASSUME ChatInv, [Next]_vars, RowsInv',
         \A u \in Tasks : /\ conversations[u].evidence => conversations'[u].evidence
                          /\ conversations[u].state # "absent" => conversations'[u].state # "absent"
                          /\ conversations[u].state = "closed" => conversations'[u].state = "closed"
                          /\ tasks'[u].status = "completed" =>
                               tasks[u].status = "completed" \/ \E r \in Requests : Announces(calls'[r], u),
         calls' \in [Requests -> InFlight \cup {Idle}],
         \A r \in Requests :
           \/ calls'[r] = calls[r]
           \/ calls'[r] = Idle
           \/ CallInv(calls'[r], conversations'[calls'[r].conv],
                      assignments'[calls'[r].conv], approvals'[calls'[r].conv]),
         \A r \in Requests, u \in Tasks : Announces(calls[r], u) =>
           Announces(calls'[r], u) \/ conversations'[u].state = "closed" \/ broken' > 0,
         broken' \in 0 .. MaxBroken, broken' >= broken
  PROVE  ChatInv'
<1>1. IInv'
  BY StepKeepsIInv DEF ChatInv
<1>2. CallsInv'
  <2> SUFFICES ASSUME NEW r \in Requests, calls'[r] # Idle, calls'[r] = calls[r]
               PROVE  CallInv(calls'[r], conversations'[calls'[r].conv],
                              assignments'[calls'[r].conv], approvals'[calls'[r].conv])
    BY DEF CallsInv
  <2> DEFINE t == calls[r].conv
  <2>1. t \in Tasks /\ CallInv(calls[r], conversations[t], assignments[t], approvals[t])
    BY DEF ChatInv, CallsInv, InFlight, Conversations
  <2>2. HistoryKept(t)
    BY <2>1, StepKeepsHistory DEF ChatInv
  <2>3. /\ conversations[t].evidence => conversations'[t].evidence
        /\ conversations[t].state # "absent" => conversations'[t].state # "absent"
    BY <2>1
  <2> QED
    BY <2>1, <2>2, <2>3, CallKept DEF HistoryKept
<1>3. ASSUME NEW u \in Tasks PROVE Announced(u)'
  <2> SUFFICES ASSUME tasks'[u].status = "completed"
               PROVE  \/ conversations'[u].state = "closed"
                      \/ \E r \in Requests : Announces(calls'[r], u)
                      \/ broken' > 0
    BY DEF Announced, Announces
  <2>1. CASE \E r \in Requests : Announces(calls'[r], u)
    BY <2>1
  <2>2. CASE tasks[u].status = "completed"
    <3>1. \/ conversations[u].state = "closed"
          \/ \E r \in Requests : Announces(calls[r], u)
          \/ broken > 0
      BY <2>2 DEF ChatInv, Announced, Conversations
    <3>2. broken > 0 => broken' > 0
      BY ChatTaskAssumption DEF ChatInv
    <3> QED
      BY <3>1, <3>2
  <2> QED
    BY <2>1, <2>2
<1> QED
  BY <1>1, <1>2, <1>3 DEF ChatInv, Conversations

\* Task t goes to status s; no other task changes its status.
Moves(t, s) == \A u \in Tasks : tasks'[u].status = IF u = t THEN s ELSE tasks[u].status

\* A transaction of the task service, after which thread r goes on with call c.
LEMMA ServiceStep ==
  ASSUME ChatInv, [Next]_vars, conversations' = conversations, broken' = broken,
         NEW t \in Tasks, NEW s, Moves(t, s),
         s \in {"completed", "failed"} => assignments[t] # << >>,
         s = "completed" => conversations[t].evidence,
         s # "absent" \/ s = tasks[t].status,
         \A u \in Tasks : approvals'[u] # << >> =>
           approvals[u] # << >> \/ (u = t /\ assignments[t] # << >>),
         NEW r \in Requests, NEW c \in InFlight \cup {Idle}, calls' = [calls EXCEPT ![r] = c],
         \/ c = Idle
         \/ CallInv(c, conversations[c.conv], assignments'[c.conv], approvals'[c.conv]),
         \A u \in Tasks : ~Announces(calls[r], u),
         s = "completed" => tasks[t].status = "completed" \/ Announces(c, t)
  PROVE  ChatInv'
<1>1. ASSUME NEW u \in Tasks
      PROVE  RowInv(conversations'[u], tasks'[u].status, assignments'[u], approvals'[u])
  <2>1. RowInv(conversations[u], tasks[u].status, assignments[u], approvals[u])
    BY DEF ChatInv, RowsInv, Conversations
  <2>2. HistoryKept(u)
    BY StepKeepsHistory DEF ChatInv
  <2>3. assignments[u] # << >> => assignments'[u] # << >>
    BY <2>2 DEF HistoryKept, Prolongs
  <2>4. tasks'[u].status = IF u = t THEN s ELSE tasks[u].status
    BY DEF Moves
  <2> QED
    BY <2>1, <2>2, <2>3, <2>4, RowKept DEF HistoryKept
<1>2. RowsInv'
  BY <1>1 DEF RowsInv, Conversations, ChatInv
<1>3. calls \in [Requests -> InFlight \cup {Idle}]
  BY DEF ChatInv, CallsInv
<1>4. /\ calls' \in [Requests -> InFlight \cup {Idle}]
      /\ \A q \in Requests : calls'[q] = IF q = r THEN c ELSE calls[q]
  BY <1>3
<1>5. \A u \in Tasks : tasks'[u].status = "completed" =>
        tasks[u].status = "completed" \/ \E q \in Requests : Announces(calls'[q], u)
  BY <1>4 DEF Moves
<1>6. \A q \in Requests :
           \/ calls'[q] = calls[q]
           \/ calls'[q] = Idle
           \/ CallInv(calls'[q], conversations'[calls'[q].conv],
                      assignments'[calls'[q].conv], approvals'[calls'[q].conv])
  BY <1>4
<1>7. \A q \in Requests, u \in Tasks : Announces(calls[q], u) => Announces(calls'[q], u)
  BY <1>4
<1>8. broken' \in 0 .. MaxBroken /\ broken' >= broken
  BY ChatTaskAssumption DEF ChatInv
<1> QED
  BY <1>2, <1>4, <1>5, <1>6, <1>7, <1>8, Assembled

\* A transaction that changes conversation t to row, the task service idle.
LEMMA RowStep ==
  ASSUME ChatInv, NEW t \in Tasks, NEW row,
         conversations' = [conversations EXCEPT ![t] = row], UNCHANGED vars,
         RowInv(row, tasks[t].status, assignments[t], approvals[t])
  PROVE  RowsInv' /\ conversations'[t] = row
<1>1. conversations \in [Tasks -> ConversationRows] /\ row \in ConversationRows
  BY DEF ChatInv, RowsInv, RowInv, Conversations
<1>2. /\ conversations' \in [Tasks -> ConversationRows]
      /\ \A u \in Tasks : conversations'[u] = IF u = t THEN row ELSE conversations[u]
  BY <1>1
<1>3. tasks' = tasks /\ assignments' = assignments /\ approvals' = approvals
  BY DEF vars
<1>4. \A u \in Tasks : RowInv(conversations'[u], tasks'[u].status, assignments'[u], approvals'[u])
  BY <1>2, <1>3 DEF ChatInv, RowsInv, Conversations
<1> QED
  BY <1>2, <1>4 DEF RowsInv, Conversations

-----------------------------------------------------------------------------
(* Each action keeps it *)

\* Writing a task's status moves that task and no other.
LEMMA OwnedMoves ==
  ASSUME IInv, NEW t \in Tasks, NEW s
  PROVE  /\ \A a : tasks' = OwnedBy(t, a, s) => Moves(t, s)
         /\ tasks' = WithStatus(t, s) => Moves(t, s)
<1>1. \A u \in Tasks : tasks[u] \in TaskRows
  BY TaskFacts
<1>2. DOMAIN tasks = Tasks
  BY DEF IInv
<1> QED
  BY <1>1, <1>2 DEF OwnedBy, WithStatus, Moves, TaskRows

\* A task nobody writes moves to the status it has.
LEMMA Unmoved ==
  ASSUME UNCHANGED vars, NEW t \in Tasks
  PROVE  Moves(t, tasks[t].status)
BY DEF Moves, vars

\* What the invariant says of one conversation.
LEMMA RowFacts ==
  ASSUME ChatInv, NEW t \in Tasks
  PROVE  /\ IInv
         /\ RowInv(conversations[t], tasks[t].status, assignments[t], approvals[t])
         /\ assignments[t] # << >> => tasks[t].status # "absent"
<1>1. IInv /\ RowInv(conversations[t], tasks[t].status, assignments[t], approvals[t])
  BY DEF ChatInv, RowsInv, Conversations
<1>2. StatusAgreesWithLease
  BY <1>1, IInvImplies
<1> QED
  BY <1>1, <1>2 DEF StatusAgreesWithLease

\* What a first transaction leaves behind is a call under way.
LEMMA NewCall ==
  ASSUME NEW k \in Calls, NEW t \in Tasks, NEW a \in Actors \cup {None}, NEW n \in Nat, NEW st \in Steps
  PROVE  [call |-> k, conv |-> t, actor |-> a, token |-> n, at |-> st] \in InFlight
BY DEF InFlight, Conversations

\* A granted claim is in the history its event will speak of.
LEMMA ClaimCall ==
  ASSUME ChatInv, [Next]_vars, NEW r \in Requests, NEW t \in Tasks, NEW a \in Actors, claim(r, t, a)
  PROVE  ChatInv'
<1> DEFINE c == [call |-> "claim", conv |-> t, actor |-> a, token |-> 0, at |-> "emit"]
<1>1. PICK l \in 1 .. MaxLease : claim_in_session(t, a, l)
  BY DEF claim, claim_task
<1>2. IInv
  BY DEF ChatInv
<1>3. /\ HasClaimed(a, assignments'[t])
      /\ Moves(t, "claimed")
      /\ approvals' = approvals
  BY <1>1, <1>2, ClaimKeepsHistory, OwnedMoves DEF claim_in_session
<1>4. c \in InFlight
  BY NewCall DEF Calls, Steps
<1>5. CallInv(c, conversations[t], assignments'[t], approvals'[t])
  BY <1>3, <1>4 DEF CallInv, claim, Bound
<1>6. /\ calls' = [calls EXCEPT ![r] = c]
      /\ conversations' = conversations /\ broken' = broken
      /\ calls[r] = Idle
  BY DEF claim, Proceeds, Bound
<1>7. \A u \in Tasks : ~Announces(calls[r], u)
  BY <1>6 DEF Announces, Idle
<1>8. c.conv = t
  OBVIOUS
<1> DEFINE s == "claimed"
<1>9. Moves(t, s) /\ s \notin {"absent", "completed", "failed"}
  BY <1>3
<1> HIDE DEF c, s
<1> QED
  BY <1>3, <1>4, <1>5, <1>6, <1>7, <1>8, <1>9, ServiceStep

\* The other calls, by what their first transaction makes of the task.
LEMMA FirstTransaction ==
  ASSUME ChatInv, [Next]_vars, NEW r \in Requests, NEW t \in Tasks, NEW s, Moves(t, s), Bound(r, t),
         NEW k \in Calls \ {"claim"}, NEW a \in Actors \cup {None}, NEW n \in Nat, NEW st \in Steps \ {"close"},
         Proceeds(r, k, t, a, n, st), UNCHANGED <<conversations, broken>>,
         s \in {"completed", "failed"} => assignments[t] # << >>,
         s = "completed" => tasks[t].status = "completed",
         s # "absent" \/ s = tasks[t].status,
         \A u \in Tasks : approvals'[u] # << >> =>
           approvals[u] # << >> \/ (u = t /\ assignments[t] # << >>),
         k = "complete" => conversations[t].evidence /\ st = "settle",
         k \in {"fail", "close"} => assignments[t] # << >>,
         k \in {"request", "approve", "deny"} => approvals'[t] # << >>,
         st = "add" => k = "evidence",
         st = "settle" => k = "complete",
         st = "write" => k \in {"close", "abandon"}
  PROVE  ChatInv'
<1> DEFINE c == [call |-> k, conv |-> t, actor |-> a, token |-> n, at |-> st]
<1>1. c \in InFlight
  BY NewCall DEF Steps
<1>2. HistoryKept(t) /\ RowInv(conversations[t], tasks[t].status, assignments[t], approvals[t])
  BY StepKeepsHistory, RowFacts
<1>3. assignments[t] # << >> => assignments'[t] # << >>
  BY <1>2 DEF HistoryKept, Prolongs
<1>4. CallInv(c, conversations[t], assignments'[t], approvals'[t])
  BY <1>1, <1>3 DEF CallInv, Bound
<1>5. /\ calls' = [calls EXCEPT ![r] = c]
      /\ conversations' = conversations /\ broken' = broken
      /\ calls[r] = Idle
  BY DEF Proceeds, Bound
<1>6. \A u \in Tasks : ~Announces(calls[r], u)
  BY <1>5 DEF Announces, Idle
<1>7. s = "completed" => conversations[t].evidence
  BY <1>2 DEF RowInv
<1>8. c.conv = t
  OBVIOUS
<1> HIDE DEF c
<1> QED
  BY <1>1, <1>4, <1>5, <1>6, <1>7, <1>8, ServiceStep

\* A heartbeat may change the task's status, but to nothing final.
LEMMA HeartbeatCall ==
  ASSUME ChatInv, [Next]_vars, NEW r \in Requests, NEW t \in Tasks, NEW a \in Actors,
         NEW n \in 1 .. drawn, heartbeat(r, t, a, n)
  PROVE  ChatInv'
<1>1. PICK l \in 1 .. MaxLease, s \in HeartbeatSays : heartbeat_task(t, a, n, l, s)
  BY DEF heartbeat
<1>2. Moves(t, s) /\ approvals' = approvals
  BY <1>1, RowFacts, OwnedMoves DEF heartbeat_task
<1>3. s \notin {"absent", "completed", "failed"}
  BY DEF HeartbeatSays
<1>4. /\ Bound(r, t) /\ UNCHANGED <<conversations, broken>>
      /\ Proceeds(r, "heartbeat", t, None, 0, "emit")
  BY DEF heartbeat
<1>5. "heartbeat" \in Calls \ {"claim"}
  BY DEF Calls
<1>6. "emit" \in Steps \ {"close"}
  BY DEF Steps
<1> QED
  BY <1>2, <1>3, <1>4, <1>5, <1>6, FirstTransaction

\* Both checks leave the task alone.
LEMMA CheckCall ==
  ASSUME ChatInv, [Next]_vars, NEW r \in Requests, NEW t \in Tasks, NEW a \in Actors,
         NEW n \in 1 .. drawn, evidence_check(r, t, a, n) \/ complete_check(r, t, a, n)
  PROVE  ChatInv'
<1> DEFINE s == tasks[t].status
<1>1. UNCHANGED vars /\ Bound(r, t) /\ UNCHANGED <<conversations, broken>>
  BY DEF evidence_check, complete_check
<1>2. Moves(t, s) /\ approvals' = approvals
  BY <1>1, Unmoved DEF vars
<1>3. s \in {"completed", "failed"} => assignments[t] # << >>
  BY RowFacts DEF RowInv
<1>4. /\ {"evidence", "complete"} \subseteq Calls \ {"claim"} /\ n \in Nat
      /\ {"add", "settle"} \subseteq Steps \ {"close"}
  BY DEF Calls, Steps, ChatInv, IInv, LeasesInv
<1> HIDE DEF s
<1>5. CASE evidence_check(r, t, a, n)
  <2>1. Proceeds(r, "evidence", t, None, 0, "add")
    BY <1>5 DEF evidence_check
  <2>2. s # "absent" \/ s = tasks[t].status
    BY DEF s
  <2>3. s = "completed" => tasks[t].status = "completed"
    BY DEF s
  <2> QED
    BY <1>1, <1>2, <1>3, <1>4, <2>1, <2>2, <2>3, FirstTransaction
<1>6. CASE complete_check(r, t, a, n)
  <2>1. Proceeds(r, "complete", t, a, n, "settle") /\ conversations[t].evidence
    BY <1>6 DEF complete_check
  <2>2. s # "absent" \/ s = tasks[t].status
    BY DEF s
  <2>3. s = "completed" => tasks[t].status = "completed"
    BY DEF s
  <2> QED
    BY <1>1, <1>2, <1>3, <1>4, <2>1, <2>2, <2>3, FirstTransaction
<1> QED
  BY <1>5, <1>6

\* So does what a close by hand or an abandonment reads.
LEMMA ClosingCall ==
  ASSUME ChatInv, [Next]_vars, NEW r \in Requests, NEW t \in Tasks,
         NEW k \in {"close", "abandon"},
         k = "close" => \E by : close_by_hand(r, t, by),
         k = "abandon" => abandon(r, t)
  PROVE  ChatInv'
<1> DEFINE s == tasks[t].status
<1>1. /\ UNCHANGED vars /\ Bound(r, t) /\ UNCHANGED <<conversations, broken>>
      /\ Proceeds(r, k, t, None, 0, "write")
  BY DEF close_by_hand, abandon
<1>2. Moves(t, s) /\ approvals' = approvals
  BY <1>1, Unmoved DEF vars
<1>3. /\ s \in {"completed", "failed"} => assignments[t] # << >>
      /\ k = "close" => assignments[t] # << >>
  BY RowFacts DEF RowInv, close_by_hand, MayClose
<1>4. k \in Calls \ {"claim"} /\ "write" \in Steps \ {"close"}
  BY DEF Calls, Steps
<1>5. s = tasks[t].status
  OBVIOUS
<1> HIDE DEF s
<1> QED
  BY <1>1, <1>2, <1>3, <1>4, <1>5, FirstTransaction

\* What a settlement the task service accepts does.
LEMMA SettleFacts ==
  ASSUME ChatInv, NEW t \in Tasks, NEW a, NEW n, NEW final, settle_task(t, a, n, final)
  PROVE  Moves(t, final) /\ approvals' = approvals /\ assignments[t] # << >>
<1>1. PICK c \in DOMAIN assignments[t] : require_active_assignment(t, c, a, n)
  BY DEF settle_task
<1>2. IInv
  BY DEF ChatInv
<1> QED
  BY <1>1, <1>2, ActiveIsLast, OwnedMoves DEF settle_task

\* A task that is settled was claimed.
LEMMA SettlingCall ==
  ASSUME ChatInv, [Next]_vars, NEW r \in Requests, NEW t \in Tasks, NEW a \in Actors,
         NEW n \in 1 .. drawn, fail(r, t, a, n) \/ interrupt(r, t, a, n)
  PROVE  ChatInv'
<1>1. PICK k \in {"fail", "interrupt"}, s \in {"failed", "interrupted"} :
        settle_task(t, a, n, s) /\ Proceeds(r, k, t, None, 0, "emit")
  BY DEF fail, interrupt, fail_task, interrupt_task
<1>2. Moves(t, s) /\ approvals' = approvals /\ assignments[t] # << >>
  BY <1>1, SettleFacts
<1>3. Bound(r, t) /\ UNCHANGED <<conversations, broken>>
  BY DEF fail, interrupt
<1>4. /\ k \in Calls \ {"claim"} /\ k \notin {"complete", "request", "approve", "deny"}
      /\ "emit" \in Steps \ {"close"}
  BY DEF Calls, Steps
<1> QED
  BY <1>1, <1>2, <1>3, <1>4, FirstTransaction

\* A request leaves an approval for its event to speak of.
LEMMA RequestCall ==
  ASSUME ChatInv, [Next]_vars, NEW r \in Requests, NEW t \in Tasks, NEW a \in Actors,
         NEW n \in 1 .. drawn, request(r, t, a, n)
  PROVE  ChatInv'
<1> DEFINE s == "blocked_approval"
           x == [status |-> "pending", kernel |-> "pending"]
<1>1. request_approval(t, a, n) /\ IInv
  BY DEF request, ChatInv
<1>2. Moves(t, s)
  BY <1>1, OwnedMoves DEF request_approval
<1>3. assignments[t] # << >>
  BY <1>1, ActiveIsLast DEF request_approval
<1>4. approvals' = [approvals EXCEPT ![t] = Append(approvals[t], x)]
  BY <1>1 DEF request_approval
<1>5. \A u \in Tasks : u # t => approvals'[u] = approvals[u]
  BY <1>1, <1>4 DEF IInv
<1>6. approvals'[t] # << >>
  <2>1. approvals'[t] = Append(approvals[t], x)
    BY <1>1, <1>4 DEF IInv
  <2>2. approvals[t] \in Seq(Approvals) /\ x \in Approvals
    BY <1>1, TaskFacts DEF Approvals
  <2> HIDE DEF x
  <2>3. /\ Append(approvals[t], x) \in Seq(Approvals)
        /\ Len(Append(approvals[t], x)) = Len(approvals[t]) + 1
        /\ Len(approvals[t]) \in Nat
    BY <2>2, AppendProperties
  <2> QED
    BY <2>1, <2>3, EmptySeq
<1>7. /\ Bound(r, t) /\ UNCHANGED <<conversations, broken>>
      /\ Proceeds(r, "request", t, None, 0, "emit")
  BY DEF request
<1>8. "request" \in Calls \ {"claim"} /\ "emit" \in Steps \ {"close"}
  BY DEF Calls, Steps
<1>9. s \notin {"absent", "completed", "failed"}
  OBVIOUS
<1> HIDE DEF s
<1> QED
  BY <1>2, <1>3, <1>5, <1>6, <1>7, <1>8, <1>9, FirstTransaction

\* Only an approval that was requested is resolved.
LEMMA ResolveCall ==
  ASSUME ChatInv, [Next]_vars, NEW r \in Requests, NEW t \in Tasks,
         NEW call \in {"approve", "deny"}, resolve(r, t, call)
  PROVE  ChatInv'
<1>1. PICK d \in {"approved", "denied"} : resolve_approval(t, d)
  BY DEF resolve
<1>2. PICK s \in {"claimed", "failed"} : tasks' = WithStatus(t, s)
  BY <1>1 DEF resolve_approval
<1>3. IInv /\ Moves(t, s)
  BY <1>2, OwnedMoves DEF ChatInv
<1>4. approvals[t] # << >> /\ assignments[t] # << >>
  BY <1>1, RowFacts DEF resolve_approval, RowInv
<1> DEFINE i == Len(approvals[t])
           x == KernelResolved([approvals[t][i] EXCEPT !.status = d], KernelStatus(d))
<1>5. approvals' = [approvals EXCEPT ![t][i] = x]
  BY <1>1 DEF resolve_approval
<1> HIDE DEF i, x
<1>6. \A u \in Tasks : u # t => approvals'[u] = approvals[u]
  BY <1>3, <1>5 DEF IInv
<1>7. approvals'[t] # << >>
  BY <1>4, StepKeepsHistory, <1>3 DEF HistoryKept
<1>8. /\ Bound(r, t) /\ UNCHANGED <<conversations, broken>>
      /\ Proceeds(r, call, t, None, 0, "emit")
  BY DEF resolve
<1>9. call \in Calls \ {"claim"} /\ "emit" \in Steps \ {"close"}
  BY DEF Calls, Steps
<1> QED
  BY <1>3, <1>4, <1>6, <1>7, <1>8, <1>9, FirstTransaction

\* Evidence takes the task to "executing", whatever has become of the lease.
LEMMA EvidenceAdd ==
  ASSUME ChatInv, [Next]_vars, NEW r \in Requests, evidence_add(r)
  PROVE  ChatInv'
<1> DEFINE t == calls[r].conv
           c == [calls[r] EXCEPT !.at = "emit"]
           s == IF tasks[t].status \in {"queued", "claimed"} THEN "executing" ELSE tasks[t].status
<1>1. /\ calls[r].at = "add" /\ calls' = [calls EXCEPT ![r].at = "emit"]
      /\ conversations' = conversations /\ broken' = broken
      /\ IF tasks[t].status \in {"queued", "claimed"} THEN add_evidence(t) ELSE UNCHANGED vars
  BY DEF evidence_add, Due, GoesOn
<1>2. /\ calls[r] \in InFlight /\ t \in Tasks
      /\ CallInv(calls[r], conversations[t], assignments[t], approvals[t])
  BY <1>1, CallFacts DEF ChatInv, Steps
<1>3. /\ c \in InFlight /\ c.at = "emit"
      /\ c.conv = t /\ c.call = "evidence"
  BY <1>1, <1>2 DEF InFlight, CallInv, Steps
<1>4. CallInv(c, conversations[t], assignments'[t], approvals'[t])
  BY <1>2, <1>3 DEF CallInv
<1>5. approvals' = approvals /\ Moves(t, s)
  <2>1. CASE tasks[t].status \in {"queued", "claimed"}
    BY <1>1, <1>2, <2>1, RowFacts, OwnedMoves DEF add_evidence
  <2>2. CASE tasks[t].status \notin {"queued", "claimed"}
    <3>1. UNCHANGED vars
      BY <1>1, <2>2
    <3> QED
      BY <1>2, <2>2, <3>1, Unmoved DEF vars
  <2> QED
    BY <2>1, <2>2
<1>6. /\ s \in {"completed", "failed"} => s = tasks[t].status
      /\ s # "absent" \/ s = tasks[t].status
  OBVIOUS
<1>7. RowInv(conversations[t], tasks[t].status, assignments[t], approvals[t])
  BY <1>2, RowFacts
<1>8. /\ s \in {"completed", "failed"} => assignments[t] # << >>
      /\ s = "completed" => conversations[t].evidence
  BY <1>6, <1>7 DEF RowInv
<1>9. \A u \in Tasks : ~Announces(calls[r], u)
  BY <1>1 DEF Announces
<1>10. /\ calls' = [calls EXCEPT ![r] = c] /\ conversations' = conversations /\ broken' = broken
       /\ t \in Tasks /\ c \in InFlight
  BY <1>1, <1>2, <1>3
<1>11. /\ CallInv(c, conversations[c.conv], assignments'[c.conv], approvals'[c.conv])
       /\ \A u \in Tasks : approvals'[u] # << >> =>
            approvals[u] # << >> \/ (u = t /\ assignments[t] # << >>)
       /\ s = "completed" => tasks[t].status = "completed"
  BY <1>3, <1>4, <1>5, <1>6
<1> HIDE DEF c, s, t
<1> QED
  BY <1>5, <1>6, <1>8, <1>9, <1>10, <1>11, ServiceStep

\* The evidence complete_check has seen is still there when the task is settled.
LEMMA CompleteSettle ==
  ASSUME ChatInv, [Next]_vars, NEW r \in Requests, complete_settle(r)
  PROVE  ChatInv'
<1> DEFINE t == calls[r].conv
<1>1. /\ calls[r].at = "settle"
      /\ conversations' = conversations /\ broken' = broken
  BY DEF complete_settle, Due
<1>2. /\ calls[r] \in InFlight /\ t \in Tasks
      /\ CallInv(calls[r], conversations[t], assignments[t], approvals[t])
  BY <1>1, CallFacts DEF ChatInv, Steps
<1>3. calls[r].call = "complete" /\ conversations[t].evidence
  BY <1>1, <1>2 DEF CallInv
<1>4. \A u \in Tasks : ~Announces(calls[r], u)
  BY <1>1 DEF Announces
<1>5. CASE complete_task(t, calls[r].actor, calls[r].token) /\ GoesOn(r, "emit")
  <2> DEFINE c == [calls[r] EXCEPT !.at = "emit"]
             s == "completed"
  <2>1. Moves(t, s) /\ approvals' = approvals /\ assignments[t] # << >>
    BY <1>2, <1>5, SettleFacts DEF complete_task
  <2>2. /\ c \in InFlight /\ c.at = "emit"
        /\ c.conv = t /\ c.call = "complete"
    BY <1>2, <1>3 DEF InFlight, Steps
  <2>3. assignments'[t] # << >>
    BY <1>2, <2>1, StepKeepsHistory, RowFacts DEF HistoryKept, Prolongs
  <2>4. CallInv(c, conversations[t], assignments'[t], approvals'[t])
    BY <1>2, <1>3, <2>2, <2>3 DEF CallInv
  <2>5. Announces(c, t)
    BY <2>2 DEF Announces
  <2>6. calls' = [calls EXCEPT ![r] = c]
    BY <1>5 DEF GoesOn
  <2>7. s # "absent"
    OBVIOUS
  <2> HIDE DEF c, s, t
  <2> QED
    BY <1>1, <1>2, <1>3, <1>4, <2>1, <2>2, <2>4, <2>5, <2>6, <2>7, ServiceStep
<1>6. CASE UNCHANGED vars /\ Ends(r)
  <2> DEFINE s == tasks[t].status
  <2>1. Moves(t, s) /\ approvals' = approvals
    BY <1>2, <1>6, Unmoved DEF vars
  <2>2. RowInv(conversations[t], s, assignments[t], approvals[t])
    BY <1>2, RowFacts
  <2>3. /\ s \in {"completed", "failed"} => assignments[t] # << >>
        /\ s = "completed" => conversations[t].evidence
    BY <2>2 DEF RowInv
  <2>4. calls' = [calls EXCEPT ![r] = Idle]
    BY <1>6 DEF Ends
  <2>5. s = tasks[t].status
    OBVIOUS
  <2> DEFINE c == Idle
  <2>6. c \in InFlight \cup {Idle} /\ c = Idle /\ calls' = [calls EXCEPT ![r] = c]
    BY <2>4
  <2> HIDE DEF c, s, t
  <2> QED
    BY <1>1, <1>2, <1>4, <2>1, <2>3, <2>5, <2>6, ServiceStep
<1> QED
  BY <1>5, <1>6 DEF complete_settle

\* A transaction that leaves the task service alone changes at most conversation t
\* and what thread r is doing.
LEMMA RoomStep ==
  ASSUME ChatInv, UNCHANGED vars, NEW t \in Tasks, NEW row,
         conversations' = [conversations EXCEPT ![t] = row],
         RowInv(row, tasks[t].status, assignments[t], approvals[t]),
         conversations[t].evidence => row.evidence,
         conversations[t].state # "absent" => row.state # "absent",
         conversations[t].state = "closed" => row.state = "closed",
         calls' \in [Requests -> InFlight \cup {Idle}],
         \A r \in Requests :
           \/ calls'[r] = calls[r]
           \/ /\ \/ calls'[r] = Idle
                 \/ CallInv(calls'[r], conversations'[calls'[r].conv],
                            assignments[calls'[r].conv], approvals[calls'[r].conv])
              /\ \A u \in Tasks : Announces(calls[r], u) =>
                   Announces(calls'[r], u) \/ conversations'[u].state = "closed" \/ broken' > 0,
         broken' \in 0 .. MaxBroken, broken' >= broken
  PROVE  ChatInv'
<1>1. RowsInv' /\ conversations'[t] = row
  BY RowStep
<1>2. \A u \in Tasks : conversations'[u] = IF u = t THEN row ELSE conversations[u]
  BY DEF ChatInv, RowsInv, Conversations
<1>3. [Next]_vars /\ tasks' = tasks /\ assignments' = assignments /\ approvals' = approvals
  BY DEF vars
<1> QED
  BY <1>1, <1>2, <1>3, Assembled

\* An event changes its own conversation, the way the operation's graph permits.
LEMMA EmitStep ==
  ASSUME ChatInv, NEW r \in Requests, emit(r)
  PROVE  ChatInv'
<1> DEFINE c == calls[r]
           t == c.conv
           row == conversations[t]
           target == target_state(c.call, row.operation)
           emitted == [row EXCEPT !.owner     = IF c.call = "claim" THEN c.actor ELSE row.owner,
                                  !.evidence  = row.evidence \/ c.call = "evidence",
                                  !.operation = target]
           new == IF Transits(r) THEN emitted ELSE row
<1>1. /\ c.at = "emit" /\ UNCHANGED vars /\ broken' = broken
      /\ conversations' = Emitted(r)
      /\ IF Transits(r) /\ ClosesAfter(c.call) THEN GoesOn(r, "close") ELSE Ends(r)
  BY DEF emit, Due
<1>2. /\ c \in InFlight /\ t \in Tasks
      /\ CallInv(c, row, assignments[t], approvals[t])
  BY <1>1, CallFacts DEF ChatInv, Steps
<1>3. /\ RowInv(row, tasks[t].status, assignments[t], approvals[t])
      /\ row \in ConversationRows
  BY <1>2, RowFacts DEF RowInv
<1>4. Transits(r) <=> (target = row.operation \/ target \in ALLOWED_TRANSITIONS(row.operation))
  BY DEF Transits
<1>5. target \in OperationStates
  BY <1>3 DEF target_state, ConversationRows, OperationStates
<1>6. ASSUME Transits(r) PROVE RowInv(emitted, tasks[t].status, assignments[t], approvals[t])
  <2>1. HasClaimed(c.actor, assignments[t]) => assignments[t] # << >>
    BY DEF HasClaimed
  <2>2. /\ emitted \in ConversationRows
        /\ emitted.state = row.state /\ emitted.resolution = row.resolution
        /\ emitted.owner = IF c.call = "claim" THEN c.actor ELSE row.owner
        /\ emitted.evidence = (row.evidence \/ c.call = "evidence")
        /\ emitted.operation = target
    BY <1>2, <1>3, <1>5 DEF ConversationRows, CallInv
  <2> HIDE DEF emitted
  <2>3. (target = "closed") <=> (row.operation = "closed")
    BY <1>4, <1>6 DEF target_state, ALLOWED_TRANSITIONS
  <2>4. target \notin {"open", "closed"} => assignments[t] # << >>
    <3>1. CASE target = row.operation
      BY <1>3, <3>1 DEF RowInv
    <3>2. CASE c.call \in {"claim", "request", "approve"}
      BY <1>2, <1>3, <2>1, <3>2 DEF CallInv, RowInv
    <3>3. CASE target # row.operation /\ c.call \notin {"claim", "request", "approve"}
      <4>1. c.call = "evidence" /\ target = "executing"
        BY <3>3 DEF target_state
      <4>2. row.operation \notin {"open", "closed"}
        BY <1>4, <1>6, <3>3, <4>1 DEF ALLOWED_TRANSITIONS
      <4> QED
        BY <1>3, <4>2 DEF RowInv
    <3> QED
      BY <3>1, <3>2, <3>3
  <2>5. target = "blocked_approval" => approvals[t] # << >>
    BY <1>2, <1>3 DEF target_state, CallInv, RowInv
  <2>6. target \notin {"open", "closed"} => HasClaimed(emitted.owner, assignments[t])
    <3>1. CASE c.call = "claim"
      BY <1>2, <2>2, <3>1 DEF CallInv
    <3>2. CASE c.call # "claim" /\ target \notin {"open", "closed"}
      <4>1. row.operation \notin {"open", "closed"}
        BY <1>4, <1>6, <3>2 DEF target_state, ALLOWED_TRANSITIONS
      <4> QED
        BY <1>3, <2>2, <3>2, <4>1 DEF RowInv
    <3> QED
      BY <3>1, <3>2
  <2>7. row.state # "absent"
    BY <1>2 DEF CallInv
  <2> QED
    BY <1>3, <2>2, <2>3, <2>4, <2>5, <2>6, <2>7 DEF RowInv
<1>7. /\ RowInv(new, tasks[t].status, assignments[t], approvals[t])
      /\ row.evidence => new.evidence
      /\ row.state # "absent" => new.state # "absent"
      /\ row.state = "closed" => new.state = "closed"
  BY <1>3, <1>6 DEF ConversationRows
<1>8. conversations' = [conversations EXCEPT ![t] = new]
  BY <1>1, <1>2 DEF Emitted, ChatInv, RowsInv, Conversations
<1>9. conversations'[t] = new
  BY <1>2, <1>8 DEF ChatInv, RowsInv, Conversations
<1>10. calls \in [Requests -> InFlight \cup {Idle}]
  BY DEF ChatInv, CallsInv
<1>11. broken' \in 0 .. MaxBroken /\ broken' >= broken
  BY <1>1, ChatTaskAssumption DEF ChatInv
<1>12. CASE Transits(r) /\ ClosesAfter(c.call)
  <2> DEFINE d == [c EXCEPT !.at = "close"]
  <2>1. calls' = [calls EXCEPT ![r] = d]
    BY <1>1, <1>12 DEF GoesOn
  <2>2. /\ d \in InFlight
        /\ d.at = "close" /\ d.call = c.call /\ d.conv = t /\ d.actor = c.actor
    BY <1>2 DEF InFlight, Steps
  <2> HIDE DEF d
  <2>3. /\ calls' \in [Requests -> InFlight \cup {Idle}]
        /\ \A q \in Requests : calls'[q] = IF q = r THEN d ELSE calls[q]
    BY <1>10, <2>1, <2>2
  <2>4. CallInv(d, conversations'[t], assignments[t], approvals[t])
    BY <1>1, <1>2, <1>7, <1>9, <1>12, <2>2 DEF CallInv
  <2>5. \A u \in Tasks : Announces(c, u) => Announces(d, u)
    BY <2>2 DEF Announces
  <2>6. \A q \in Requests :
          \/ calls'[q] = calls[q]
          \/ /\ \/ calls'[q] = Idle
                \/ CallInv(calls'[q], conversations'[calls'[q].conv],
                           assignments[calls'[q].conv], approvals[calls'[q].conv])
             /\ \A u \in Tasks : Announces(calls[q], u) =>
                  Announces(calls'[q], u) \/ conversations'[u].state = "closed" \/ broken' > 0
    BY <2>2, <2>3, <2>4, <2>5
  <2> HIDE DEF t, new
  <2> QED
    BY <1>1, <1>2, <1>7, <1>8, <1>11, <2>3, <2>6, RoomStep
<1>13. CASE ~(Transits(r) /\ ClosesAfter(c.call))
  <2>1. calls' = [calls EXCEPT ![r] = Idle]
    BY <1>1, <1>13 DEF Ends
  <2>2. /\ calls' \in [Requests -> InFlight \cup {Idle}]
        /\ \A q \in Requests : calls'[q] = IF q = r THEN Idle ELSE calls[q]
    BY <1>10, <2>1
  <2>3. \A u \in Tasks : ~Announces(c, u)
    <3>1. c.call # "complete"
      BY <1>4, <1>13 DEF target_state, ClosesAfter
    <3> QED
      BY <3>1 DEF Announces
  <2>4. \A q \in Requests :
          \/ calls'[q] = calls[q]
          \/ /\ \/ calls'[q] = Idle
                \/ CallInv(calls'[q], conversations'[calls'[q].conv],
                           assignments[calls'[q].conv], approvals[calls'[q].conv])
             /\ \A u \in Tasks : Announces(calls[q], u) =>
                  Announces(calls'[q], u) \/ conversations'[u].state = "closed" \/ broken' > 0
    BY <2>2, <2>3
  <2> HIDE DEF t, new
  <2> QED
    BY <1>1, <1>2, <1>7, <1>8, <1>11, <2>2, <2>4, RoomStep
<1> QED
  BY <1>12, <1>13

\* Closing keeps the row good, with whatever resolution the task's history allows.
LEMMA ClosedRow ==
  ASSUME NEW row, NEW s, NEW asg, NEW apps, RowInv(row, s, asg, apps), s # "absent",
         NEW res \in Resolutions, res = "abandoned" \/ asg # << >>
  PROVE  RowInv([row EXCEPT !.state = "closed", !.resolution = res, !.operation = "closed"],
                s, asg, apps)
<1> DEFINE new == [row EXCEPT !.state = "closed", !.resolution = res, !.operation = "closed"]
<1>1. row \in ConversationRows
  BY DEF RowInv
<1>2. /\ new \in ConversationRows
      /\ new.state = "closed" /\ new.operation = "closed" /\ new.resolution = res
      /\ new.owner = row.owner /\ new.evidence = row.evidence
  BY <1>1 DEF ConversationRows, OperationStates
<1> HIDE DEF new
<1>3. RowInv(new, s, asg, apps)
  BY <1>2 DEF RowInv
<1> QED
  BY <1>3 DEF new

\* Closed is the row with three fields replaced.
LEMMA ClosedIs ==
  ASSUME ChatInv, NEW t \in Tasks, NEW res
  PROVE  Closed(t, res) = [conversations EXCEPT ![t] =
           [conversations[t] EXCEPT !.state = "closed", !.resolution = res, !.operation = "closed"]]
BY DEF Closed, ChatInv, RowsInv, Conversations

\* The check before a close writes nothing.
LEMMA CloseCall ==
  ASSUME ChatInv, NEW r \in Requests, close(r)
  PROVE  ChatInv'
<1> DEFINE c == calls[r]
           t == c.conv
           row == conversations[t]
           d == IF row.state = "open" THEN [c EXCEPT !.at = "write"] ELSE Idle
<1>1. /\ c.at = "close" /\ UNCHANGED vars /\ conversations' = conversations /\ broken' = broken
      /\ calls' = [calls EXCEPT ![r] = d]
  BY DEF close, Due, Ends, GoesOn
<1>2. /\ c \in InFlight /\ t \in Tasks /\ CallInv(c, row, assignments[t], approvals[t])
      /\ RowInv(row, tasks[t].status, assignments[t], approvals[t])
  BY <1>1, CallFacts, RowFacts DEF ChatInv, Steps
<1>3. row \in ConversationRows /\ conversations' = [conversations EXCEPT ![t] = row]
  BY <1>1, <1>2 DEF RowInv, ChatInv, RowsInv, Conversations
<1>4. calls \in [Requests -> InFlight \cup {Idle}] /\ broken' \in 0 .. MaxBroken /\ broken' >= broken
  BY <1>1, ChatTaskAssumption DEF ChatInv, CallsInv
<1>5. CASE row.state = "open"
  <2>1. /\ d \in InFlight
        /\ d.at = "write" /\ d.call = c.call /\ d.conv = t /\ d.actor = c.actor
    BY <1>2, <1>5 DEF InFlight, Steps
  <2> HIDE DEF d
  <2>2. /\ calls' \in [Requests -> InFlight \cup {Idle}]
        /\ \A q \in Requests : calls'[q] = IF q = r THEN d ELSE calls[q]
    BY <1>1, <1>4, <2>1
  <2>3. CallInv(d, conversations'[t], assignments[t], approvals[t])
    BY <1>1, <1>2, <2>1 DEF CallInv
  <2>4. \A u \in Tasks : Announces(c, u) => Announces(d, u)
    BY <2>1 DEF Announces
  <2> HIDE DEF c, t, row
  <2> QED
    BY <1>1, <1>2, <1>3, <1>4, <2>1, <2>2, <2>3, <2>4, RoomStep DEF c, t, row
<1>6. CASE row.state # "open"
  <2>1. row.state = "closed"
    BY <1>2, <1>3, <1>6 DEF CallInv, ConversationRows
  <2>2. /\ calls' \in [Requests -> InFlight \cup {Idle}]
        /\ \A q \in Requests : calls'[q] = IF q = r THEN Idle ELSE calls[q]
    BY <1>1, <1>4, <1>6
  <2>3. \A u \in Tasks : Announces(c, u) => conversations'[u].state = "closed"
    BY <1>1, <2>1 DEF Announces
  <2>4. \A q \in Requests :
          \/ calls'[q] = calls[q]
          \/ /\ \/ calls'[q] = Idle
                \/ CallInv(calls'[q], conversations'[calls'[q].conv],
                           assignments[calls'[q].conv], approvals[calls'[q].conv])
             /\ \A u \in Tasks : Announces(calls[q], u) =>
                  Announces(calls'[q], u) \/ conversations'[u].state = "closed" \/ broken' > 0
    BY <2>2, <2>3
  <2> HIDE DEF t
  <2> QED
    BY <1>1, <1>2, <1>3, <1>4, <2>2, <2>4, RoomStep
<1> QED
  BY <1>5, <1>6

\* A close takes conversation and operation to "closed" together.
LEMMA WriteClose ==
  ASSUME ChatInv, NEW r \in Requests, write_close(r)
  PROVE  ChatInv'
<1> DEFINE c == calls[r]
           t == c.conv
           row == conversations[t]
<1>1. PICK res \in resolutions_of(c.call) : conversations' = Closed(t, res)
  BY DEF write_close
<1> DEFINE new == [row EXCEPT !.state = "closed", !.resolution = res, !.operation = "closed"]
<1>2. /\ c.at = "write" /\ UNCHANGED vars /\ broken' = broken
      /\ calls' = [calls EXCEPT ![r] = Idle]
  BY DEF write_close, Due, Ends
<1>3. t \in Tasks /\ CallInv(c, row, assignments[t], approvals[t])
  BY <1>2, CallFacts DEF ChatInv, Steps
<1>4. /\ RowInv(row, tasks[t].status, assignments[t], approvals[t])
      /\ tasks[t].status # "absent"
  BY <1>3, RowFacts DEF RowInv, CallInv
<1>5. res \in Resolutions /\ (res = "abandoned" \/ assignments[t] # << >>)
  BY <1>2, <1>3, <1>4 DEF CallInv, RowInv, ClosesAfter, resolutions_of, Resolutions
<1>6. RowInv(new, tasks[t].status, assignments[t], approvals[t])
  <2> HIDE DEF row, t
  <2> QED
    BY <1>4, <1>5, ClosedRow
<1>7. row \in ConversationRows
  BY <1>4 DEF RowInv
<1>8. new.state = "closed" /\ new.evidence = row.evidence
  BY <1>7 DEF ConversationRows
<1>9. conversations' = [conversations EXCEPT ![t] = new]
  BY <1>1, <1>3, ClosedIs
<1>10. conversations'[t].state = "closed"
  BY <1>3, <1>8, <1>9 DEF ChatInv, RowsInv, Conversations
<1>11. calls \in [Requests -> InFlight \cup {Idle}] /\ broken' \in 0 .. MaxBroken /\ broken' >= broken
  BY <1>2, ChatTaskAssumption DEF ChatInv, CallsInv
<1>12. /\ calls' \in [Requests -> InFlight \cup {Idle}]
       /\ \A q \in Requests : calls'[q] = IF q = r THEN Idle ELSE calls[q]
  BY <1>2, <1>11
<1>13. \A u \in Tasks : Announces(c, u) => conversations'[u].state = "closed"
  BY <1>10 DEF Announces
<1> HIDE DEF c, t, row, new
<1> QED
  BY <1>2, <1>3, <1>6, <1>8, <1>9, <1>11, <1>12, <1>13, RoomStep DEF c, t, row

\* A call that breaks off is counted, so nothing is owed any more.
LEMMA BreakOff ==
  ASSUME ChatInv, NEW r \in Requests, break_off(r)
  PROVE  ChatInv'
<1>1. /\ UNCHANGED vars /\ conversations' = conversations
      /\ calls[r] # Idle /\ calls' = [calls EXCEPT ![r] = Idle]
      /\ broken' = broken + 1 /\ broken < MaxBroken
  BY DEF break_off, Ends
<1>2. calls \in [Requests -> InFlight \cup {Idle}] /\ broken \in Nat /\ MaxBroken \in Nat
  BY ChatTaskAssumption DEF ChatInv, CallsInv
<1>3. /\ calls' \in [Requests -> InFlight \cup {Idle}]
      /\ \A q \in Requests : calls'[q] = IF q = r THEN Idle ELSE calls[q]
  BY <1>1, <1>2
<1>4. broken' \in 0 .. MaxBroken /\ broken' >= broken /\ broken' > 0
  BY <1>1, <1>2
<1>5. PICK t \in Tasks : TRUE
  BY <1>1, <1>2 DEF InFlight, Conversations
<1>6. RowInv(conversations[t], tasks[t].status, assignments[t], approvals[t])
  BY RowFacts
<1>7. conversations' = [conversations EXCEPT ![t] = conversations[t]]
  BY <1>1 DEF ChatInv, RowsInv, Conversations
<1> DEFINE row == conversations[t]
<1>8. /\ conversations[t].evidence => row.evidence
      /\ conversations[t].state = row.state
  OBVIOUS
<1> HIDE DEF row
<1> QED
  BY <1>1, <1>3, <1>4, <1>6, <1>7, <1>8, RoomStep DEF row

\* A new conversation is about a new task.
LEMMA OpenStep ==
  ASSUME ChatInv, NEW t \in Tasks, open_conversation(t)
  PROVE  ChatInv'
<1> DEFINE row == conversations[t]
           opened(owner) == [row EXCEPT !.state = "open", !.owner = owner]
<1>1. create_task(t) /\ calls' = calls /\ broken' = broken
  BY DEF open_conversation
<1>2. [Next]_vars
  BY <1>1 DEF Next, CreateTask
<1>3. tasks[t].status = "absent" /\ assignments' = assignments /\ approvals' = approvals
  BY <1>1 DEF create_task
<1>4. PICK n : tasks' = [tasks EXCEPT ![t] = [status |-> "queued", owner |-> None, created |-> n]]
  BY <1>1 DEF create_task
<1>5. \A u \in Tasks : tasks'[u].status = IF u = t THEN "queued" ELSE tasks[u].status
  BY <1>4 DEF ChatInv, IInv
<1>6. RowInv(row, "absent", assignments[t], approvals[t]) /\ row.state = "absent"
  BY <1>3, RowFacts DEF RowInv
<1>7. row \in ConversationRows
  BY <1>6 DEF RowInv
<1>8. RowInv(row, "queued", assignments[t], approvals[t])
  BY <1>6 DEF RowInv
<1>9. ASSUME NEW owner \in Actors \cup {Opener}
      PROVE  /\ opened(owner) \in ConversationRows
             /\ RowInv(opened(owner), "queued", assignments[t], approvals[t])
             /\ opened(owner).evidence = row.evidence
  <2>1. /\ opened(owner) \in ConversationRows
        /\ opened(owner).state = "open" /\ opened(owner).operation = row.operation
        /\ opened(owner).owner = owner /\ opened(owner).resolution = row.resolution
        /\ opened(owner).evidence = row.evidence
    BY <1>7 DEF ConversationRows
  <2>2. row.operation = "open"
    BY <1>6 DEF RowInv
  <2> HIDE DEF opened
  <2> QED
    BY <1>6, <2>1, <2>2 DEF RowInv
<1>10. PICK new \in ConversationRows :
        /\ conversations' = [conversations EXCEPT ![t] = new]
        /\ RowInv(new, "queued", assignments[t], approvals[t])
        /\ new.evidence = row.evidence
  <2>1. conversations = [conversations EXCEPT ![t] = row]
    BY DEF ChatInv, RowsInv, Conversations
  <2>2. \A owner \in Actors \cup {Opener} :
          [conversations EXCEPT ![t].state = "open", ![t].owner = owner]
            = [conversations EXCEPT ![t] = opened(owner)]
    BY DEF ChatInv, RowsInv, Conversations
  <2>3. CASE UNCHANGED conversations
    BY <1>7, <1>8, <2>1, <2>3
  <2>4. ASSUME NEW owner \in Actors \cup {Opener},
               conversations' = [conversations EXCEPT ![t].state = "open", ![t].owner = owner]
        PROVE  conversations' = [conversations EXCEPT ![t] = opened(owner)]
    BY <2>2, <2>4
  <2> HIDE DEF opened
  <2> QED
    BY <1>9, <2>3, <2>4 DEF open_conversation
<1>11. /\ new \in ConversationRows /\ RowInv(new, "queued", assignments[t], approvals[t])
       /\ new.evidence = row.evidence
  BY <1>10
<1>12. /\ conversations' \in [Tasks -> ConversationRows]
       /\ \A u \in Tasks : conversations'[u] = IF u = t THEN new ELSE conversations[u]
  BY <1>10, <1>11 DEF ChatInv, RowsInv, Conversations
<1>13. \A u \in Tasks : RowInv(conversations'[u], tasks'[u].status, assignments'[u], approvals'[u])
  BY <1>3, <1>5, <1>11, <1>12 DEF ChatInv, RowsInv, Conversations
<1>14. RowsInv'
  BY <1>12, <1>13 DEF RowsInv, Conversations
<1>15. \A u \in Tasks : /\ conversations[u].evidence => conversations'[u].evidence
                        /\ conversations[u].state # "absent" => conversations'[u].state # "absent"
                        /\ conversations[u].state = "closed" => conversations'[u].state = "closed"
                        /\ tasks'[u].status = "completed" => tasks[u].status = "completed"
  BY <1>5, <1>6, <1>11, <1>12
<1>16. calls \in [Requests -> InFlight \cup {Idle}] /\ broken' \in 0 .. MaxBroken /\ broken' >= broken
  BY <1>1, ChatTaskAssumption DEF ChatInv, CallsInv
<1> QED
  BY <1>1, <1>2, <1>14, <1>15, <1>16, Assembled

\* Time changes no conversation.
LEMMA BesideStep ==
  ASSUME ChatInv, Beside
  PROVE  ChatInv'
<1>1. /\ [Next]_vars /\ tasks' = tasks /\ approvals' = approvals
      /\ conversations' = conversations /\ calls' = calls /\ broken' = broken
  BY DEF Beside, Tick, Next
<1>2. ASSUME NEW u \in Tasks
      PROVE  RowInv(conversations'[u], tasks'[u].status, assignments'[u], approvals'[u])
  <2>1. RowInv(conversations[u], tasks[u].status, assignments[u], approvals[u])
    BY RowFacts
  <2>2. HistoryKept(u)
    BY <1>1, StepKeepsHistory DEF ChatInv
  <2> QED
    BY <1>1, <2>1, <2>2, RowKept DEF HistoryKept
<1>3. RowsInv'
  BY <1>1, <1>2 DEF RowsInv, ChatInv, Conversations
<1>4. calls \in [Requests -> InFlight \cup {Idle}] /\ broken' \in 0 .. MaxBroken /\ broken' >= broken
  BY <1>1, ChatTaskAssumption DEF ChatInv, CallsInv
<1> QED
  BY <1>1, <1>3, <1>4, Assembled

\* Every first transaction keeps the invariant.
LEMMA CallingStep ==
  ASSUME ChatInv, [Next]_vars, Calling
  PROVE  ChatInv'
<1>1. PICK r \in Requests, t \in Tasks :
        \/ \E a \in Actors :
             \/ claim(r, t, a)
             \/ \E n \in 1 .. drawn :
                  \/ heartbeat(r, t, a, n)
                  \/ evidence_check(r, t, a, n)
                  \/ complete_check(r, t, a, n)
                  \/ fail(r, t, a, n)
                  \/ request(r, t, a, n)
                  \/ interrupt(r, t, a, n)
        \/ \E call \in {"approve", "deny"} : resolve(r, t, call)
        \/ \E by \in Actors \cup {Opener} : close_by_hand(r, t, by)
        \/ abandon(r, t)
  BY DEF Calling, Conversations
<1>2. ASSUME NEW a \in Actors, claim(r, t, a) PROVE ChatInv'
  BY <1>2, ClaimCall
<1>3. ASSUME NEW a \in Actors, NEW n \in 1 .. drawn, heartbeat(r, t, a, n) PROVE ChatInv'
  BY <1>3, HeartbeatCall
<1>4. ASSUME NEW a \in Actors, NEW n \in 1 .. drawn,
             evidence_check(r, t, a, n) \/ complete_check(r, t, a, n)
      PROVE  ChatInv'
  BY <1>4, CheckCall
<1>5. ASSUME NEW a \in Actors, NEW n \in 1 .. drawn, fail(r, t, a, n) \/ interrupt(r, t, a, n)
      PROVE  ChatInv'
  BY <1>5, SettlingCall
<1>6. ASSUME NEW a \in Actors, NEW n \in 1 .. drawn, request(r, t, a, n) PROVE ChatInv'
  BY <1>6, RequestCall
<1>7. ASSUME NEW call \in {"approve", "deny"}, resolve(r, t, call) PROVE ChatInv'
  BY <1>7, ResolveCall
<1>8. ASSUME NEW by, close_by_hand(r, t, by) PROVE ChatInv'
  BY <1>8, ClosingCall
<1>9. ASSUME abandon(r, t) PROVE ChatInv'
  BY <1>9, ClosingCall
<1> QED
  BY <1>1, <1>2, <1>3, <1>4, <1>5, <1>6, <1>7, <1>8, <1>9

\* Every step does.
LEMMA ChatStep ==
  ASSUME ChatInv, [ChatNext]_chatVars
  PROVE  ChatInv'
<1>1. CASE UNCHANGED chatVars
  <2>1. [Next]_vars /\ tasks' = tasks /\ assignments' = assignments /\ approvals' = approvals
        /\ conversations' = conversations /\ calls' = calls /\ broken' = broken
    BY <1>1 DEF chatVars, vars
  <2>2. IInv'
    BY <2>1, StepKeepsIInv DEF ChatInv
  <2> QED
    BY <2>1, <2>2 DEF ChatInv, RowsInv, CallsInv, Announced, Announces
<1>2. CASE ChatNext
  <2>1. [Next]_vars
    BY <1>2, StepIsTaskStep DEF ChatInv
  <2>2. CASE Opening
    BY <2>2, OpenStep DEF Opening, Conversations
  <2>3. CASE Calling
    BY <2>1, <2>3, CallingStep
  <2>4. CASE Proceeding
    <3>1. PICK r \in Requests :
            \/ evidence_add(r) \/ complete_settle(r)
            \/ emit(r) \/ close(r) \/ write_close(r)
            \/ break_off(r)
      BY <2>4 DEF Proceeding
    <3> QED
      BY <2>1, <3>1, EvidenceAdd, CompleteSettle, EmitStep, CloseCall, WriteClose, BreakOff
  <2>5. CASE Beside
    BY <2>5, BesideStep
  <2> QED
    BY <1>2, <2>2, <2>3, <2>4, <2>5 DEF ChatNext
<1> QED
  BY <1>1, <1>2

\* It holds at the start.
LEMMA ChatInitInv == ChatInit => ChatInv
<1> SUFFICES ASSUME ChatInit PROVE ChatInv
  OBVIOUS
<1>1. Init /\ IInv
  BY InitIInv DEF ChatInit
<1>2. \A t \in Tasks : tasks[t].status = "absent" /\ assignments[t] = << >> /\ approvals[t] = << >>
  BY <1>1 DEF Init
<1> DEFINE row == [state |-> "absent", resolution |-> None, owner |-> None,
                   operation |-> "open", evidence |-> FALSE]
<1>3. row \in ConversationRows
  BY DEF ConversationRows, OperationStates
<1>4. conversations = [t \in Tasks |-> row]
  BY DEF ChatInit, Conversations
<1>5. RowInv(row, "absent", << >>, << >>)
  BY <1>3 DEF RowInv
<1> HIDE DEF row
<1>6. RowsInv
  BY <1>2, <1>3, <1>4, <1>5 DEF RowsInv, Conversations
<1>7. CallsInv
  BY DEF CallsInv, ChatInit
<1>8. broken \in 0 .. MaxBroken
  BY ChatTaskAssumption DEF ChatInit
<1>9. \A t \in Tasks : Announced(t)
  BY <1>2 DEF Announced
<1> QED
  BY <1>1, <1>6, <1>7, <1>8, <1>9 DEF ChatInv, Conversations

\* The invariant the theorems below rest on, for the whole of ChatSpec.
THEOREM ChatInvariance == ChatSpec => []ChatInv
<1>1. ChatInv /\ [ChatNext]_chatVars => ChatInv'
  BY ChatStep
<1> QED
  BY <1>1, ChatInitInv, PTL DEF ChatSpec

-----------------------------------------------------------------------------
(* What follows *)

\* The invariants of the run are parts of it, or follow.
LEMMA ChatInvImplies ==
  ChatInv => /\ ChatTypeOK /\ MirrorFollowsTask
             /\ CompletionIsEvidenced /\ CompletionIsAnnounced
<1> SUFFICES ASSUME ChatInv
             PROVE  /\ ChatTypeOK /\ MirrorFollowsTask
                    /\ CompletionIsEvidenced /\ CompletionIsAnnounced
  OBVIOUS
<1>1. ChatTypeOK
  BY IInvImplies DEF ChatInv, ChatTypeOK, RowsInv, CallsInv
<1>2. MirrorFollowsTask
  BY RowFacts DEF MirrorFollowsTask, RowInv, HasClaimed, Conversations
<1>3. CompletionIsEvidenced
  BY RowFacts DEF CompletionIsEvidenced, RowInv, Conversations
<1>4. CompletionIsAnnounced
  BY DEF ChatInv, CompletionIsAnnounced, Announced, Announces
<1> QED
  BY <1>1, <1>2, <1>3, <1>4

\* Every row, call under way and count of the coordinator keeps its type, whatever
\* the interleaving of the endpoints' transactions.
THEOREM ChatTypeCorrect == ChatSpec => []ChatTypeOK
BY ChatInvariance, ChatInvImplies, PTL

\* The coordinator drives the task service through its own operations only: a
\* behaviour of the rooms, each call to the task service taken as one transaction,
\* is one of the task service (task_coordinator.py calls remote_task_service only).
THEOREM ChatUsesRemoteTasks == ChatSpec => Spec
<1>1. ChatInit => Init
  BY DEF ChatInit
<1>2. ChatInv /\ [ChatNext]_chatVars => [Next]_vars
  BY StepIsTaskStep DEF ChatInv, chatVars, vars
<1> QED
  BY <1>1, <1>2, ChatInvariance, PTL DEF ChatSpec, Spec

\* _update_owner_and_emit and the closes never leave a conversation or its operation
\* ahead of what the task service has on record.
THEOREM MirrorFollows == ChatSpec => []MirrorFollowsTask
BY ChatInvariance, ChatInvImplies, PTL

\* The evidence complete asks for is still there when the report is committed, two
\* transactions and any number of other calls later.
THEOREM Evidenced == ChatSpec => []CompletionIsEvidenced
BY ChatInvariance, ChatInvImplies, PTL

\* A reported completion reaches the conversation, short of a call that breaks off.
THEOREM Announcing == ChatSpec => []CompletionIsAnnounced
BY ChatInvariance, ChatInvImplies, PTL

\* No event is let through by a closed operation, so only a close under way writes.
LEMMA ClosedStep ==
  ASSUME ChatInv, [ChatNext]_chatVars, NEW t \in Tasks, conversations[t].state = "closed"
  PROVE  /\ conversations'[t].state     = "closed"
         /\ conversations'[t].operation = "closed"
         /\ conversations'[t].owner     = conversations[t].owner
         /\ \/ conversations'[t].resolution = conversations[t].resolution
            \/ \E r \in Requests : calls[r].at = "write" /\ calls[r].conv = t
<1> DEFINE row == conversations[t]
           Kept == /\ conversations'[t].state     = "closed"
                   /\ conversations'[t].operation = "closed"
                   /\ conversations'[t].owner     = row.owner
                   /\ \/ conversations'[t].resolution = row.resolution
                      \/ \E r \in Requests : calls[r].at = "write" /\ calls[r].conv = t
<1>1. row.operation = "closed" /\ row \in ConversationRows /\ conversations \in [Tasks -> ConversationRows]
  BY RowFacts DEF RowInv, ChatInv, RowsInv, Conversations
<1>2. CASE conversations'[t] = row
  BY <1>1, <1>2
<1>3. CASE Opening
  <2>1. PICK u \in Tasks : open_conversation(u)
    BY <1>3 DEF Opening, Conversations
  <2>2. conversations[u].state = "absent"
    <3>1. tasks[u].status = "absent"
      BY <2>1 DEF open_conversation, create_task
    <3> QED
      BY <3>1, RowFacts DEF RowInv
  <2>3. u # t
    BY <2>2
  <2>4. conversations'[t] = row
    BY <1>1, <2>1, <2>3 DEF open_conversation
  <2> QED
    BY <1>2, <2>4
<1>4. CASE Calling \/ Beside \/ UNCHANGED chatVars
  <2>1. conversations' = conversations
    BY <1>4 DEF Calling, Beside, claim, heartbeat, evidence_check, complete_check, fail,
                request, resolve, interrupt, close_by_hand, abandon, chatVars
  <2> QED
    BY <1>2, <2>1
<1>5. CASE Proceeding
  <2>1. PICK r \in Requests :
          \/ conversations' = conversations
          \/ write_close(r)
          \/ emit(r)
    BY <1>5 DEF Proceeding, evidence_add, complete_settle, close, break_off
  <2> DEFINE u == calls[r].conv
  <2>2. CASE write_close(r) /\ u = t
    <3>1. PICK res : conversations' = Closed(t, res)
      BY <2>2 DEF write_close
    <3>2. conversations'[t] = [row EXCEPT !.state = "closed", !.resolution = res, !.operation = "closed"]
      BY <1>1, <3>1 DEF Closed
    <3>3. calls[r].at = "write"
      BY <2>2 DEF write_close, Due
    <3> QED
      BY <1>1, <2>2, <3>2, <3>3 DEF ConversationRows
  <2>3. CASE emit(r) /\ u = t
    <3>1. conversations' = Emitted(r)
      BY <2>3 DEF emit
    <3>2. CASE ~Transits(r)
      BY <1>2, <3>1, <3>2 DEF Emitted
    <3>3. CASE Transits(r)
      <4>1. target_state(calls[r].call, "closed") = "closed"
        BY <1>1, <2>3, <3>3 DEF Transits, ALLOWED_TRANSITIONS
      <4>2. calls[r].call # "claim"
        BY <4>1 DEF target_state
      <4>3. conversations'[t] = [row EXCEPT !.owner     = row.owner,
                                            !.evidence  = row.evidence \/ calls[r].call = "evidence",
                                            !.operation = "closed"]
        BY <1>1, <2>3, <3>1, <3>3, <4>1, <4>2 DEF Emitted
      <4> QED
        BY <1>1, <4>3 DEF ConversationRows
    <3> QED
      BY <3>2, <3>3
  <2>4. CASE conversations' = conversations \/ u # t
    <3>1. conversations'[t] = row
      BY <1>1, <2>1, <2>4 DEF write_close, emit, Emitted, Closed
    <3> QED
      BY <1>2, <3>1
  <2> QED
    BY <2>1, <2>2, <2>3, <2>4
<1> QED
  BY <1>3, <1>4, <1>5 DEF ChatNext

\* No claim, evidence or settlement under way when a conversation was closed
\* reopens it or changes its owner; only a close that had read it open, in
\* close_conversation's check, can still write its resolution.
THEOREM ClosedStaysClosed == ChatSpec => ClosedIsFinal
<1>1. ChatInv /\ [ChatNext]_chatVars =>
        [\A t \in Conversations : conversations[t].state = "closed" =>
           /\ conversations'[t].state     = "closed"
           /\ conversations'[t].operation = "closed"
           /\ conversations'[t].owner     = conversations[t].owner
           /\ \/ conversations'[t].resolution = conversations[t].resolution
              \/ \E r \in Requests : calls[r].at = "write" /\ calls[r].conv = t]_chatVars
  BY ClosedStep DEF Conversations
<1> QED
  BY <1>1, ChatInvariance, PTL DEF ChatSpec, ClosedIsFinal

-----------------------------------------------------------------------------
(* What the operation's graph refuses *)

\* A call whose claim of t was granted is about to tell the room.
AboutToAnnounce(t) ==
  \E r \in Requests : calls[r].conv = t /\ calls[r].call = "claim" /\ calls[r].at = "emit"

\* No event leads to "verifying", and none leads back to "open".
EarlyInv ==
  /\ ClaimIsAnnounced
  /\ \A t \in Tasks : conversations[t].operation # "verifying"

\* A task nobody has claimed stays so, unless an actor is granted a claim of it.
LEMMA UnclaimedStays ==
  ASSUME ChatInv, [Next]_vars, ChatNext, NEW t \in Tasks, assignments[t] = << >>,
         \A r \in Requests, a \in Actors : ~claim(r, t, a)
  PROVE  assignments'[t] = << >>
<1>1. /\ assignments \in [Tasks -> Seq(Assignments)] /\ assignments' \in [Tasks -> Seq(Assignments)]
      /\ DOMAIN assignments[t] = {}
  <2>1. assignments \in [Tasks -> Seq(Assignments)]
    BY IInvImplies DEF ChatInv, TypeOK
  <2>2. IInv'
    BY StepKeepsIInv DEF ChatInv
  <2>3. assignments' = [u \in Tasks |-> assignments'[u]] /\ \A u \in Tasks : assignments'[u] \in Seq(Assignments)
    BY <2>2 DEF IInv, TaskInv, AssignmentsInv
  <2> QED
    BY <2>1, <2>3
<1>2. \A u \in Tasks : \A c : c \in DOMAIN assignments[u] => u # t
  BY <1>1
<1>3. CASE assignments' = assignments
  BY <1>3
<1>4. ASSUME NEW u \in Tasks, NEW c \in DOMAIN assignments[u], NEW x,
             \/ assignments' = [assignments EXCEPT ![u][c].left = x]
             \/ assignments' = Released(u, c, x)
      PROVE  assignments'[t] = << >>
  BY <1>1, <1>2, <1>4 DEF Released
<1>5. CASE Calling
  <2>1. PICK r \in Requests, u \in Tasks :
          \/ \E a \in Actors :
               \/ claim(r, u, a)
               \/ \E n \in 1 .. drawn :
                    \/ heartbeat(r, u, a, n)
                    \/ evidence_check(r, u, a, n)
                    \/ complete_check(r, u, a, n)
                    \/ fail(r, u, a, n)
                    \/ request(r, u, a, n)
                    \/ interrupt(r, u, a, n)
          \/ \E call \in {"approve", "deny"} : resolve(r, u, call)
          \/ \E by \in Actors \cup {Opener} : close_by_hand(r, u, by)
          \/ abandon(r, u)
    BY <1>5 DEF Calling, Conversations
  <2>2. ASSUME NEW a \in Actors, claim(r, u, a) PROVE assignments'[t] = << >>
    <3>1. u # t
      BY <2>2
    <3>2. \E new : assignments' = [assignments EXCEPT ![u] = new]
      <4>1. PICK l \in 1 .. MaxLease : claim_in_session(u, a, l)
        BY <2>2 DEF claim, claim_task
      <4>2. PICK row : assign_from_lease(u, a, row)
        BY <4>1 DEF claim_in_session
      <4> DEFINE x == NewAssignment(a, row.token, row.left)
      <4> HIDE DEF x
      <4>3. \/ \E new : assignments' = [assignments EXCEPT ![u] = new]
            \/ \E c \in DOMAIN assignments[u] : assignments' = [assignments EXCEPT ![u][c] = x]
        BY <4>2 DEF assign_from_lease, x
      <4>4. ASSUME NEW c \in DOMAIN assignments[u], assignments' = [assignments EXCEPT ![u][c] = x]
            PROVE  assignments' = [assignments EXCEPT ![u] = [assignments[u] EXCEPT ![c] = x]]
        BY <4>4, <1>1
      <4> QED
        BY <4>3, <4>4
    <3> QED
      BY <1>1, <3>1, <3>2
  <2>3. ASSUME NEW a \in Actors, NEW n \in 1 .. drawn, heartbeat(r, u, a, n) PROVE assignments'[t] = << >>
    <3>1. PICK l \in 1 .. MaxLease, says \in HeartbeatSays : heartbeat_task(u, a, n, l, says)
      BY <2>3 DEF heartbeat
    <3>2. PICK c \in DOMAIN assignments[u] : assignments' = [assignments EXCEPT ![u][c].left = l]
      BY <3>1 DEF heartbeat_task
    <3> QED
      BY <3>2, <1>4
  <2>4. ASSUME NEW a \in Actors, NEW n \in 1 .. drawn, fail(r, u, a, n) \/ interrupt(r, u, a, n)
        PROVE  assignments'[t] = << >>
    <3>1. PICK final : settle_task(u, a, n, final)
      BY <2>4 DEF fail, interrupt, fail_task, interrupt_task
    <3>2. PICK c \in DOMAIN assignments[u] : assignments' = Released(u, c, final)
      BY <3>1 DEF settle_task
    <3> QED
      BY <3>2, <1>4
  <2>5. ASSUME NEW a \in Actors, NEW n \in 1 .. drawn,
               evidence_check(r, u, a, n) \/ complete_check(r, u, a, n) \/ request(r, u, a, n)
        PROVE  assignments' = assignments
    BY <2>5 DEF evidence_check, complete_check, request, request_approval, vars
  <2>6. ASSUME \/ \E call \in {"approve", "deny"} : resolve(r, u, call)
               \/ \E by \in Actors \cup {Opener} : close_by_hand(r, u, by)
               \/ abandon(r, u)
        PROVE  assignments' = assignments
    BY <2>6 DEF resolve, resolve_approval, close_by_hand, abandon, vars
  <2> QED
    BY <2>1, <2>2, <2>3, <2>4, <2>5, <2>6, <1>3
<1>6. CASE Proceeding
  <2>1. PICK r \in Requests : evidence_add(r) \/ complete_settle(r) \/ emit(r) \/ close(r) \/ write_close(r) \/ break_off(r)
    BY <1>6 DEF Proceeding
  <2>2. CASE complete_settle(r)
    <3>1. calls[r].conv \in Tasks
      BY <2>2, CallFacts DEF ChatInv, complete_settle, Due, Steps
    <3>2. \/ assignments' = assignments
          \/ settle_task(calls[r].conv, calls[r].actor, calls[r].token, "completed")
      BY <2>2 DEF complete_settle, complete_task, vars
    <3>3. \/ assignments' = assignments
          \/ \E c \in DOMAIN assignments[calls[r].conv] : assignments' = Released(calls[r].conv, c, "completed")
      BY <3>2 DEF settle_task
    <3> QED
      BY <3>1, <3>3, <1>3, <1>4
  <2>3. CASE ~complete_settle(r)
    BY <2>1, <2>3, <1>3 DEF evidence_add, add_evidence, emit, close, write_close, break_off, vars
  <2> QED
    BY <2>2, <2>3
<1>7. CASE Opening
  BY <1>3, <1>7 DEF Opening, open_conversation, create_task
<1>8. CASE Beside
  <2>1. assignments'[t] = Aged(assignments[t])
    BY <1>8 DEF Beside, Tick
  <2>2. DOMAIN assignments'[t] = {}
    BY <2>1, <1>1 DEF Aged
  <2>3. assignments'[t] \in Seq(Assignments)
    BY <1>1
  <2> QED
    BY <2>2, <2>3, NonEmptyDomain
<1> QED
  BY <1>5, <1>6, <1>7, <1>8 DEF ChatNext

\* What an event makes of the operation it is about, and of no other.
LEMMA EmittedOperation ==
  ASSUME ChatInv, NEW r \in Requests, emit(r), NEW t \in Tasks
  PROVE  \/ conversations'[t].operation = conversations[t].operation
         \/ /\ t = calls[r].conv /\ Transits(r)
            /\ conversations'[t].operation = target_state(calls[r].call, conversations[t].operation)
<1>1. /\ conversations \in [Tasks -> ConversationRows] /\ calls[r].conv \in Tasks
  BY CallFacts DEF ChatInv, RowsInv, Conversations, emit, Due, Steps
<1>2. conversations' = Emitted(r)
  BY DEF emit
<1>3. CASE ~Transits(r)
  BY <1>2, <1>3 DEF Emitted
<1>4. CASE Transits(r)
  BY <1>1, <1>2, <1>4 DEF Emitted, ConversationRows
<1> QED
  BY <1>3, <1>4

\* No step takes an operation back to "open", nor to "verifying".
LEMMA OperationMovesOn ==
  ASSUME ChatInv, ChatNext, NEW t \in Tasks, conversations[t].operation # "verifying"
  PROVE  /\ conversations'[t].operation # "verifying"
         /\ conversations'[t].operation = "open" => conversations[t].operation = "open"
<1>1. conversations \in [Tasks -> ConversationRows]
  BY DEF ChatInv, RowsInv, Conversations
<1>2. CASE conversations' = conversations
  BY <1>2
<1>3. CASE Opening
  BY <1>1, <1>3 DEF Opening, open_conversation, ConversationRows
<1>4. CASE Calling
  BY <1>2, <1>4 DEF Calling, claim, heartbeat, evidence_check, complete_check, fail, request,
                    interrupt, resolve, close_by_hand, abandon
<1>5. CASE Proceeding
  <2>1. PICK r \in Requests : evidence_add(r) \/ complete_settle(r) \/ emit(r) \/ close(r) \/ write_close(r) \/ break_off(r)
    BY <1>5 DEF Proceeding
  <2>2. CASE emit(r)
    BY <2>2, EmittedOperation DEF target_state
  <2>3. CASE write_close(r)
    <3>1. PICK resolution : conversations' = Closed(calls[r].conv, resolution)
      BY <2>3 DEF write_close
    <3>2. calls[r].conv \in Tasks
      BY <2>3, CallFacts DEF ChatInv, write_close, Due, Steps
    <3> QED
      BY <1>1, <3>1, <3>2 DEF Closed, ConversationRows
  <2>4. CASE ~emit(r) /\ ~write_close(r)
    BY <1>2, <2>1, <2>4 DEF evidence_add, complete_settle, close, break_off
  <2> QED
    BY <2>2, <2>3, <2>4
<1>6. CASE Beside
  BY <1>2, <1>6 DEF Beside
<1> QED
  BY <1>3, <1>4, <1>5, <1>6 DEF ChatNext

\* A claim about to be announced goes on until it is, or its call breaks off.
LEMMA AnnouncementComes ==
  ASSUME ChatInv, ChatNext, NEW t \in Tasks, conversations[t].operation = "open",
         AboutToAnnounce(t), conversations'[t].operation = "open"
  PROVE  AboutToAnnounce(t)' \/ broken' > 0
<1>1. PICK q \in Requests : calls[q].conv = t /\ calls[q].call = "claim" /\ calls[q].at = "emit"
  BY DEF AboutToAnnounce
<1>2. calls[q] # Idle /\ calls \in [Requests -> InFlight \cup {Idle}]
  BY <1>1 DEF Idle, ChatInv, CallsInv
<1>3. CASE calls'[q] = calls[q]
  BY <1>1, <1>3 DEF AboutToAnnounce
<1>4. CASE Opening \/ Beside
  BY <1>3, <1>4 DEF Opening, open_conversation, Beside
<1>5. CASE Calling
  <2>1. \E r \in Requests : calls[r] = Idle /\ \E c : calls' = [calls EXCEPT ![r] = c]
    BY <1>5 DEF Calling, claim, heartbeat, evidence_check, complete_check, fail, request,
                interrupt, resolve, close_by_hand, abandon, Bound, Proceeds
  <2> QED
    BY <1>2, <1>3, <2>1
<1>6. CASE Proceeding
  <2>1. PICK r \in Requests : evidence_add(r) \/ complete_settle(r) \/ emit(r) \/ close(r) \/ write_close(r) \/ break_off(r)
    BY <1>6 DEF Proceeding
  <2>2. CASE r # q
    <3>1. \E c : calls' = [calls EXCEPT ![r] = c]
      <4>1. CASE GoesOn(r, "emit") \/ GoesOn(r, "close") \/ GoesOn(r, "write") \/ Ends(r)
        BY <4>1, <1>2 DEF GoesOn, Ends
      <4> QED
        BY <2>1, <4>1 DEF evidence_add, complete_settle, emit, close, write_close, break_off
    <3> QED
      BY <1>2, <1>3, <2>2, <3>1
  <2>3. CASE r = q
    <3>1. emit(q) \/ break_off(q)
      BY <1>1, <2>1, <2>3 DEF evidence_add, complete_settle, close, write_close, Due
    <3>2. CASE emit(q)
      <4>1. Transits(q) /\ target_state(calls[q].call, conversations[t].operation) = "claimed"
        BY <1>1 DEF Transits, target_state, ALLOWED_TRANSITIONS
      <4>2. conversations'[t].operation = "claimed"
        <5>1. conversations \in [Tasks -> ConversationRows] /\ conversations' = Emitted(q)
          BY <3>2 DEF ChatInv, RowsInv, Conversations, emit
        <5> QED
          BY <5>1, <4>1, <1>1 DEF Emitted, ConversationRows
      <4> QED
        BY <4>2
    <3>3. CASE break_off(q)
      BY <3>3, ChatTaskAssumption DEF break_off, ChatInv
    <3> QED
      BY <3>1, <3>2, <3>3
  <2> QED
    BY <2>2, <2>3
<1> QED
  BY <1>4, <1>5, <1>6 DEF ChatNext

\* Calls that have broken off are counted and never forgotten.
LEMMA BrokenGrows ==
  ASSUME ChatInv, ChatNext
  PROVE  broken \in Nat /\ broken' \in Nat /\ broken' >= broken
<1>1. broken \in Nat
  BY ChatTaskAssumption DEF ChatInv
<1>2. broken' = broken \/ broken' = broken + 1
  <2>1. CASE Opening \/ Beside
    BY <2>1 DEF Opening, open_conversation, Beside
  <2>2. CASE Calling
    BY <2>2 DEF Calling, claim, heartbeat, evidence_check, complete_check, fail, request, interrupt,
                resolve, close_by_hand, abandon
  <2>3. CASE Proceeding
    BY <2>3 DEF Proceeding, evidence_add, complete_settle, emit, close, write_close, break_off
  <2> QED
    BY <2>1, <2>2, <2>3 DEF ChatNext
<1> QED
  BY <1>1, <1>2

\* Every step keeps what is said of claims and their events.
LEMMA EarlyStep ==
  ASSUME ChatInv, EarlyInv, [ChatNext]_chatVars
  PROVE  EarlyInv'
<1>1. CASE UNCHANGED chatVars
  <2>1. assignments' = assignments /\ conversations' = conversations /\ calls' = calls /\ broken' = broken
    BY <1>1 DEF chatVars, vars
  <2> QED
    BY <2>1 DEF EarlyInv, ClaimIsAnnounced
<1>2. CASE ChatNext
  <2>1. [Next]_vars
    BY <1>2, StepIsTaskStep DEF ChatInv
  <2>2. \A t \in Tasks : conversations'[t].operation # "verifying"
    BY <1>2, OperationMovesOn DEF EarlyInv
  <2>3. ASSUME NEW t \in Tasks, assignments'[t] # << >>, conversations'[t].operation = "open"
        PROVE  AboutToAnnounce(t)' \/ broken' > 0
    <3>1. conversations[t].operation = "open"
      BY <1>2, <2>3, OperationMovesOn DEF EarlyInv
    <3>2. CASE \E r \in Requests, a \in Actors : claim(r, t, a)
      <4>1. PICK r \in Requests, a \in Actors : claim(r, t, a)
        BY <3>2
      <4>2. calls'[r] = [call |-> "claim", conv |-> t, actor |-> a, token |-> 0, at |-> "emit"]
        BY <4>1 DEF claim, Proceeds, ChatInv, CallsInv
      <4> QED
        BY <4>2 DEF AboutToAnnounce
    <3>3. CASE ~ \E r \in Requests, a \in Actors : claim(r, t, a)
      <4>1. assignments[t] # << >>
        BY <1>2, <2>1, <2>3, <3>3, UnclaimedStays
      <4>2. CASE AboutToAnnounce(t)
        BY <1>2, <2>3, <3>1, <4>2, AnnouncementComes
      <4>3. CASE broken > 0
        BY <1>2, <4>3, BrokenGrows
      <4> QED
        BY <3>1, <4>1, <4>2, <4>3 DEF EarlyInv, ClaimIsAnnounced, AboutToAnnounce, Conversations
    <3> QED
      BY <3>2, <3>3
  <2> QED
    BY <2>2, <2>3 DEF EarlyInv, ClaimIsAnnounced, AboutToAnnounce, Conversations
<1> QED
  BY <1>1, <1>2

\* So it always holds.
LEMMA EarlyInvariance == ChatSpec => []EarlyInv
<1>1. ChatInit => EarlyInv
  BY DEF ChatInit, Init, EarlyInv, ClaimIsAnnounced, Conversations
<1>2. ChatInv /\ EarlyInv /\ [ChatNext]_chatVars => EarlyInv'
  BY EarlyStep
<1> QED
  BY <1>1, <1>2, ChatInvariance, PTL DEF ChatSpec

\* However the calls on a conversation interleave, a granted claim reaches the operation unless
\* its call broke off (task_coordinator.py claim, _update_owner_and_emit).
THEOREM ClaimsReachTheRoom == ChatSpec => []ClaimIsAnnounced
<1>1. EarlyInv => ClaimIsAnnounced
  BY DEF EarlyInv
<1> QED
  BY <1>1, EarlyInvariance, PTL

\* While a conversation is open, the operation's graph refuses nothing the task service has done
\* but a request for approval before any evidence, and events that overtake their claim's
\* (operation_mirror.py, contract.py ALLOWED_TRANSITIONS).
THEOREM OnlyEarlyEventsAreRefused == ChatSpec => []RefusesOnlyEarlyEvents
<1>1. ChatInv /\ EarlyInv => RefusesOnlyEarlyEvents
  <2> SUFFICES ASSUME ChatInv, EarlyInv, NEW r \in Requests, calls[r].at = "emit",
                      conversations[calls[r].conv].state = "open", ~Transits(r)
               PROVE  \/ /\ calls[r].call = "request"
                         /\ conversations[calls[r].conv].operation \in {"open", "claimed"}
                      \/ /\ calls[r].call \in {"evidence", "approve"}
                         /\ conversations[calls[r].conv].operation = "open"
    BY DEF RefusesOnlyEarlyEvents
  <2>1. calls[r].conv \in Tasks
    BY CallFacts DEF ChatInv, Steps
  <2> DEFINE row == conversations[calls[r].conv]
  <2>2. row \in ConversationRows /\ row.operation # "closed" /\ row.operation # "verifying"
    BY <2>1 DEF ChatInv, RowsInv, RowInv, EarlyInv, Conversations
  <2>3. row.operation \in {"open", "claimed", "executing", "blocked_approval"}
    BY <2>2 DEF ConversationRows, OperationStates
  <2> QED
    BY <2>3 DEF Transits, target_state, ALLOWED_TRANSITIONS
<1> QED
  BY <1>1, ChatInvariance, EarlyInvariance, PTL

=============================================================================
