------------------------ MODULE RemoteCodex_proofs ------------------------
(***************************************************************************)
(* Proofs about RemoteCodex for every set of commands of any types: the    *)
(* command queue and the agent use the task service through its operations *)
(* only, the runtime is given a command at most once, and a task ends once.*)
(***************************************************************************)
EXTENDS RemoteCodex, RemoteTasks_proofs, FiniteSetTheorems

\* Nothing is claimed twice, nothing completes that was not run.
CommandInv(c) ==
  /\ ran[c] \in 0 .. 1
  /\ commands[c].status \in {"absent", "queued"} => ran[c] = 0
  /\ (HasTask(c) /\ commands[c].status \in {"absent", "queued"})
       => tasks[c].status \in {"absent", "queued"}
  /\ (HasTask(c) /\ tasks[c].status = "absent") => commands[c].status = "absent"
  /\ (commands[c].status = "completed" \/ tasks[c].status = "completed") => ran[c] = 1
  /\ Len(assignments[c]) <= 1
  /\ tasks[c].status \in Ended => Unassigned(c)

\* Where the agent is says how often its command was run.
Placed(place, status, times) ==
  /\ status \notin {"absent", "queued"}
  /\ place \in {"begin", "run"} => times = 0 /\ status = "running"
  /\ place \in {"evidence", "beat", "complete", "report"} => times = 1 /\ status = "running"

AgentInv ==
  /\ agent \in [at : AgentPlaces, cmd : Commands \cup {None}]
  /\ agent.at # "idle" =>
       /\ agent.cmd \in Commands
       /\ Placed(agent.at, commands[agent.cmd].status, ran[agent.cmd])

CodexInv ==
  /\ IInv
  /\ commands \in [Commands -> CommandRows]
  /\ ran \in [Commands -> Nat]
  /\ \A c \in Commands : CommandInv(c)
  /\ AgentInv

-----------------------------------------------------------------------------
(* What the task service's operations do to a task *)

\* No other task is touched.
Touches(t) == \A u \in Tasks \ {t} : tasks'[u] = tasks[u] /\ assignments'[u] = assignments[u]

\* The tables are functions on the tasks, and their assignments are sequences.
LEMMA TaskTables ==
  ASSUME IInv
  PROVE  /\ tasks \in [Tasks -> TaskRows]
         /\ assignments \in [Tasks -> Seq(Assignments)]
         /\ \A t \in Tasks : /\ Len(assignments[t]) \in Nat
                             /\ DOMAIN assignments[t] = 1 .. Len(assignments[t])
<1>1. tasks \in [Tasks -> TaskRows] /\ assignments \in [Tasks -> Seq(Assignments)]
  BY IInvImplies DEF TypeOK
<1>2. \A t \in Tasks : assignments[t] \in Seq(Assignments)
  BY <1>1
<1> QED
  BY <1>1, <1>2, LenProperties

\* One assignment is changed, whatever it becomes.
LEMMA ChangedAssignment ==
  ASSUME NEW asg \in Seq(Assignments), NEW c \in 1 .. Len(asg), NEW x
  PROVE  /\ Len([asg EXCEPT ![c] = x]) = Len(asg)
         /\ DOMAIN [asg EXCEPT ![c] = x] = 1 .. Len(asg)
<1> DEFINE T   == Assignments \cup {x}
           new == [asg EXCEPT ![c] = x]
<1>1. Len(asg) \in Nat /\ DOMAIN asg = 1 .. Len(asg)
  BY LenProperties
<1>2. \A j \in 1 .. Len(asg) : asg[j] \in Assignments
  BY ElementOfSeq
<1>3. new \in [1 .. Len(asg) -> T]
  BY <1>1, <1>2
<1>4. new \in Seq(T)
  BY <1>1, <1>3
<1> HIDE DEF new, T
<1>5. Len(new) = Len(asg)
  BY <1>1, <1>3, <1>4, LenProperties
<1> QED
  BY <1>3, <1>5 DEF new

\* A task that was never claimed gets one assignment.
LEMMA ClaimEffect ==
  ASSUME IInv, NEW t \in Tasks, NEW a \in Actors, NEW l, claim_task(t, a, l),
         assignments[t] = << >>
  PROVE  Touches(t) /\ tasks'[t].status = "claimed" /\ Len(assignments'[t]) = 1
<1>1. tasks' = OwnedBy(t, a, "claimed")
  BY DEF claim_task, claim_in_session
<1>2. PICK i : assign_from_lease(t, a, leases'[t][i])
  BY DEF claim_task, claim_in_session
<1> DEFINE new == NewAssignment(a, leases'[t][i].token, leases'[t][i].left)
<1>3. assignments' = [assignments EXCEPT ![t] = Append(assignments[t], new)]
  <2>1. \A c : c \notin DOMAIN assignments[t]
    BY TaskTables
  <2> QED
    BY <1>2, <2>1 DEF assign_from_lease
<1>4. Len(Append(<< >>, new)) = 1
  OBVIOUS
<1> HIDE DEF new
<1> QED
  BY <1>1, <1>3, <1>4, TaskTables DEF OwnedBy, Touches, TaskRows

\* A heartbeat needs an assignment and adds none.
LEMMA HeartbeatEffect ==
  ASSUME IInv, NEW t \in Tasks, NEW a, NEW n, NEW l, NEW says, heartbeat_task(t, a, n, l, says)
  PROVE  /\ Touches(t) /\ tasks'[t].status = says /\ ~ Unassigned(t)
         /\ Len(assignments'[t]) = Len(assignments[t])
<1>1. PICK c \in DOMAIN assignments[t] :
           /\ require_active_assignment(t, c, a, n)
           /\ assignments' = [assignments EXCEPT ![t][c].left = l]
  BY DEF heartbeat_task
<1>2. assignments[t][c].status = "claimed"
  BY <1>1 DEF require_active_assignment, IsAssigned
<1>3. tasks' = OwnedBy(t, a, says)
  BY DEF heartbeat_task
<1> DEFINE x == [assignments[t][c] EXCEPT !.left = l]
<1>4. assignments'[t] = [assignments[t] EXCEPT ![c] = x]
  BY <1>1, TaskTables
<1> HIDE DEF x
<1>5. Len(assignments'[t]) = Len(assignments[t])
  <2>1. assignments[t] \in Seq(Assignments) /\ c \in 1 .. Len(assignments[t])
    BY TaskTables
  <2> QED
    BY <1>4, <2>1, ChangedAssignment
<1> QED
  BY <1>1, <1>2, <1>3, <1>5, TaskTables DEF OwnedBy, Touches, TaskRows, Unassigned

\* Settling a task takes its assignment away from it.
LEMMA ReleasedEffect ==
  ASSUME IInv, NEW t \in Tasks, Len(assignments[t]) <= 1, NEW c \in DOMAIN assignments[t],
         NEW final \in Ended, assignments' = Released(t, c, final)
  PROVE  /\ Len(assignments'[t]) = Len(assignments[t])
         /\ Unassigned(t)'
         /\ \A u \in Tasks \ {t} : assignments'[u] = assignments[u]
<1> DEFINE x == [assignments[t][c] EXCEPT !.status = final, !.left = 0]
<1>1. /\ assignments[t] \in Seq(Assignments) /\ DOMAIN assignments[t] = 1 .. Len(assignments[t])
      /\ Len(assignments[t]) \in Nat /\ c \in 1 .. Len(assignments[t])
  BY TaskTables
<1>2. /\ assignments'[t] = [assignments[t] EXCEPT ![c] = x]
      /\ \A u \in Tasks \ {t} : assignments'[u] = assignments[u]
  BY TaskTables DEF Released
<1>3. x.status # "claimed"
  <2>1. assignments[t][c] \in Assignments
    BY <1>1, ElementOfSeq
  <2> QED
    BY <2>1 DEF Assignments, Ended
<1> HIDE DEF x
<1>4. /\ Len(assignments'[t]) = Len(assignments[t])
      /\ DOMAIN assignments'[t] = 1 .. Len(assignments[t])
  BY <1>1, <1>2, ChangedAssignment
<1>5. \A j \in DOMAIN assignments'[t] : j = c
  BY <1>1, <1>4
<1>6. Unassigned(t)'
  BY <1>1, <1>2, <1>3, <1>5 DEF Unassigned
<1> QED
  BY <1>2, <1>4, <1>6

\* The holder's report.
LEMMA SettleEffect ==
  ASSUME IInv, NEW t \in Tasks, Len(assignments[t]) <= 1, NEW a, NEW n, NEW final \in Ended,
         settle_task(t, a, n, final)
  PROVE  /\ Touches(t) /\ tasks'[t].status = final /\ ~ Unassigned(t)
         /\ Len(assignments'[t]) = Len(assignments[t]) /\ Unassigned(t)'
<1>1. PICK c \in DOMAIN assignments[t] : /\ require_active_assignment(t, c, a, n)
                                         /\ assignments' = Released(t, c, final)
  BY DEF settle_task
<1>2. ~ Unassigned(t)
  BY <1>1 DEF require_active_assignment, IsAssigned, Unassigned
<1>3. tasks' = OwnedBy(t, a, final)
  BY DEF settle_task
<1>4. tasks'[t].status = final /\ \A u \in Tasks \ {t} : tasks'[u] = tasks[u]
  BY <1>3, TaskTables DEF OwnedBy, TaskRows
<1> QED
  BY <1>1, <1>2, <1>4, ReleasedEffect DEF Touches

\* The bridge's own cleanup.
LEMMA StaleEffect ==
  ASSUME IInv, NEW t \in Tasks, Len(assignments[t]) <= 1, NEW final \in Ended,
         settle_stale_task(t, final)
  PROVE  /\ Touches(t) /\ tasks'[t].status = final /\ tasks[t].status \notin Ended \cup {"absent"}
         /\ Len(assignments'[t]) = Len(assignments[t]) /\ Unassigned(t)'
<1>1. tasks[t].status \notin Ended \cup {"absent"}
  BY DEF settle_stale_task, Settled, Ended
<1>2. ASSUME NEW c \in DOMAIN assignments[t], tasks' = OwnedBy(t, assignments[t][c].actor, final),
             assignments' = Released(t, c, final)
      PROVE  /\ Touches(t) /\ tasks'[t].status = final
             /\ Len(assignments'[t]) = Len(assignments[t]) /\ Unassigned(t)'
  <2>1. tasks'[t].status = final /\ \A u \in Tasks \ {t} : tasks'[u] = tasks[u]
    BY <1>2, TaskTables DEF OwnedBy, TaskRows
  <2> QED
    BY <1>2, <2>1, ReleasedEffect DEF Touches
<1>3. ASSUME Unassigned(t), tasks' = WithStatus(t, final), assignments' = assignments
      PROVE  /\ Touches(t) /\ tasks'[t].status = final
             /\ Len(assignments'[t]) = Len(assignments[t]) /\ Unassigned(t)'
  <2>1. tasks'[t].status = final /\ \A u \in Tasks \ {t} : tasks'[u] = tasks[u]
    BY <1>3, TaskTables DEF WithStatus, TaskRows
  <2> QED
    BY <1>3, <2>1 DEF Touches, Unassigned
<1> QED
  BY <1>1, <1>2, <1>3 DEF settle_stale_task

\* Time takes no assignment away.
LEMMA TickEffect ==
  ASSUME IInv, Tick, NEW t \in Tasks
  PROVE  /\ tasks'[t] = tasks[t] /\ Len(assignments'[t]) = Len(assignments[t])
         /\ Unassigned(t) => Unassigned(t)'
<1>1. tasks' = tasks /\ assignments' = [u \in Tasks |-> Aged(assignments[u])]
  BY DEF Tick
<1>2. /\ assignments[t] \in Seq(Assignments) /\ Len(assignments[t]) \in Nat
      /\ DOMAIN assignments[t] = 1 .. Len(assignments[t])
  BY TaskTables
<1>3. IInv'
  BY StepKeepsIInv DEF Next
<1>4. Len(assignments'[t]) \in Nat /\ DOMAIN assignments'[t] = 1 .. Len(assignments'[t])
  <2>1. assignments'[t] \in Seq(Assignments)
    BY <1>3 DEF IInv, TaskInv, AssignmentsInv
  <2> QED
    BY <2>1, LenProperties
<1>5. DOMAIN assignments'[t] = DOMAIN assignments[t]
  BY <1>1 DEF Aged
<1>6. Len(assignments'[t]) = Len(assignments[t])
  BY <1>2, <1>4, <1>5
<1>7. ASSUME NEW j \in DOMAIN assignments[t]
      PROVE  assignments'[t][j].status = assignments[t][j].status
  <2>1. assignments[t][j] \in Assignments
    BY <1>2, ElementOfSeq
  <2> QED
    BY <1>1, <2>1 DEF Aged, Assignments
<1> QED
  BY <1>1, <1>5, <1>6, <1>7 DEF Unassigned

-----------------------------------------------------------------------------
(* What a step does to one command *)

\* Another command's rows stay, and what is kept of c's.
Affects(c) ==
  /\ \A u \in Commands \ {c} : /\ tasks'[u] = tasks[u] /\ assignments'[u] = assignments[u]
                               /\ commands'[u] = commands[u] /\ ran'[u] = ran[u]
  /\ commands' \in [Commands -> CommandRows]
  /\ ran' \in [Commands -> Nat]
  /\ CommandInv(c)'
  /\ tasks[c].status \in Ended => tasks'[c].status = tasks[c].status

\* The body of TaskEndsOnce.
EndsOnce == \A c \in Commands : tasks[c].status \in Ended => tasks'[c].status = tasks[c].status

\* One command's step keeps the invariant of all.
LEMMA OneCommand ==
  ASSUME CodexInv, [Next]_vars, NEW c \in Commands, Affects(c), AgentInv'
  PROVE  CodexInv' /\ EndsOnce
<1>1. IInv'
  BY StepKeepsIInv DEF CodexInv
<1>2. ASSUME NEW u \in Commands PROVE CommandInv(u)'
  <2>1. CASE u = c
    BY <2>1 DEF Affects
  <2>2. CASE u # c
    <3>1. /\ tasks'[u] = tasks[u] /\ assignments'[u] = assignments[u]
          /\ commands'[u] = commands[u] /\ ran'[u] = ran[u]
      BY <2>2 DEF Affects
    <3>2. CommandInv(u)
      BY DEF CodexInv
    <3> QED
      BY <3>1, <3>2 DEF CommandInv, Unassigned
  <2> QED
    BY <2>1, <2>2
<1>3. EndsOnce
  BY DEF EndsOnce, Affects
<1> QED
  BY <1>1, <1>2, <1>3 DEF CodexInv, Affects

\* What may become of the task of a command that was handed out: nothing, or it goes
\* on, or it ends without an assignment, completed only if the command was run.
TaskCall(c) ==
  \/ UNCHANGED vars
  \/ /\ Touches(c)
     /\ tasks[c].status \notin Ended
     /\ tasks'[c].status # "absent"
     /\ tasks'[c].status = "completed" => ran'[c] = 1
     /\ Len(assignments'[c]) <= 1
     /\ tasks'[c].status \in Ended => Unassigned(c)'

\* A step of a command that was handed out, or is now.
LEMMA CommandStep ==
  ASSUME CodexInv, NEW c \in Commands, TaskCall(c),
         commands' \in [Commands -> CommandRows], ran' \in [Commands -> Nat],
         \A u \in Commands \ {c} : commands'[u] = commands[u] /\ ran'[u] = ran[u],
         commands[c].status # "absent", commands'[c].status \notin {"absent", "queued"},
         ran'[c] \in 0 .. 1, ran[c] <= ran'[c], commands'[c].status = "completed" => ran'[c] = 1
  PROVE  Affects(c)
<1>1. CommandInv(c) /\ ran[c] \in Nat
  BY DEF CodexInv
<1>2. \A u \in Commands \ {c} : tasks'[u] = tasks[u] /\ assignments'[u] = assignments[u]
  BY DEF TaskCall, Touches, vars, Commands
<1>3. CASE UNCHANGED vars
  <2>1. CommandInv(c)'
    BY <1>1, <1>3 DEF CommandInv, Unassigned, vars
  <2> QED
    BY <1>2, <1>3, <2>1 DEF Affects, vars
<1>4. CASE /\ tasks[c].status \notin Ended
           /\ tasks'[c].status # "absent"
           /\ tasks'[c].status = "completed" => ran'[c] = 1
           /\ Len(assignments'[c]) <= 1
           /\ tasks'[c].status \in Ended => Unassigned(c)'
  <2>1. CommandInv(c)'
    BY <1>4 DEF CommandInv
  <2> QED
    BY <1>2, <1>4, <2>1 DEF Affects
<1> QED
  BY <1>3, <1>4 DEF TaskCall

\* The agent goes to a place that fits its command, or starts over.
LEMMA AgentMoves ==
  ASSUME AgentInv, agent.at # "idle",
         \/ agent' = Idle
         \/ \E place \in AgentPlaces :
              /\ GoTo(place)
              /\ Placed(place, commands'[agent.cmd].status, ran'[agent.cmd])
  PROVE  AgentInv'
<1>1. CASE agent' = Idle
  BY <1>1 DEF AgentInv, Idle, AgentPlaces
<1>2. ASSUME NEW place \in AgentPlaces, GoTo(place),
             Placed(place, commands'[agent.cmd].status, ran'[agent.cmd])
      PROVE  AgentInv'
  <2>1. agent' = [agent EXCEPT !.at = place] /\ agent'.at = place /\ agent'.cmd = agent.cmd
    BY <1>2 DEF GoTo, AgentInv
  <2> QED
    BY <1>2, <2>1 DEF AgentInv
<1> QED
  BY <1>1, <1>2

\* Where the agent goes on an error fits any command that was handed out.
LEMMA ErrorFits ==
  ASSUME NEW status, status \notin {"absent", "queued"}, NEW times
  PROVE  /\ OnError \in AgentPlaces /\ Placed(OnError, status, times)
         /\ Placed("failTask", status, times) /\ Placed("reportFailed", status, times)
         /\ Placed("sync", status, times)
BY DEF OnError, AgentPlaces, Placed

-----------------------------------------------------------------------------
(* The agent's calls *)

\* A heartbeat for the agent's command.
LEMMA HeartbeatCall ==
  ASSUME CodexInv, NEW c \in Commands, NEW says \in {"claimed", "executing", "interrupted"},
         HeartbeatWith(c, says)
  PROVE  TaskCall(c) /\ [Next]_vars
<1>1. PICK n \in 1 .. drawn : heartbeat_task(c, Machine, n, MaxLease, says)
  BY DEF HeartbeatWith
<1>2. c \in Tasks /\ IInv /\ CommandInv(c)
  BY DEF CodexInv, Commands
<1>3. /\ Touches(c) /\ tasks'[c].status = says /\ ~ Unassigned(c)
      /\ Len(assignments'[c]) = Len(assignments[c])
  BY <1>1, <1>2, HeartbeatEffect
<1>4. TaskCall(c)
  BY <1>2, <1>3 DEF TaskCall, CommandInv, Ended
<1>5. Next
  <2>1. Machine \in Actors /\ MaxLease \in 1 .. MaxLease /\ says \in HeartbeatSays
    BY RemoteCodexAssumption, ResourceLeasesAssumption DEF HeartbeatSays
  <2> QED
    BY <1>1, <1>2, <2>1 DEF Next, Heartbeat
<1> QED
  BY <1>4, <1>5

\* A report on the agent's command's task.
LEMMA SettleCall ==
  ASSUME CodexInv, NEW c \in Commands, NEW n \in 1 .. drawn, NEW final \in Ended,
         settle_task(c, Machine, n, final), final = "completed" => ran'[c] = 1
  PROVE  TaskCall(c) /\ [Next]_vars
<1>1. c \in Tasks /\ IInv /\ CommandInv(c)
  BY DEF CodexInv, Commands
<1>2. /\ Touches(c) /\ tasks'[c].status = final /\ ~ Unassigned(c)
      /\ Len(assignments'[c]) = Len(assignments[c]) /\ Unassigned(c)'
  BY <1>1, SettleEffect DEF CommandInv
<1>3. TaskCall(c)
  BY <1>1, <1>2 DEF TaskCall, CommandInv, Ended
<1>4. Next
  <2>1. complete_task(c, Machine, n) \/ fail_task(c, Machine, n)
    BY DEF complete_task, fail_task, Ended
  <2> QED
    BY <1>1, <2>1, RemoteCodexAssumption DEF Next, Report
<1> QED
  BY <1>3, <1>4

\* What is left to show of an agent's step that leaves the commands as they are.
LEMMA AgentCalls ==
  ASSUME CodexInv, agent.at # "idle", UNCHANGED <<commands, ran>>,
         NEW c \in Commands, agent.cmd = c, TaskCall(c), [Next]_vars, NEW place \in AgentPlaces,
         Placed(place, commands[c].status, ran[c]),
         GoTo(place) \/ GoTo(OnError) \/ agent' = Idle
  PROVE  [Next]_vars /\ CodexInv' /\ EndsOnce
<1>1. /\ CommandInv(c) /\ commands[c].status \notin {"absent", "queued"}
      /\ commands \in [Commands -> CommandRows] /\ ran \in [Commands -> Nat]
  BY DEF CodexInv, AgentInv, Placed
<1>2. Affects(c)
  BY <1>1, CommandStep DEF CommandInv
<1>3. AgentInv'
  <2>1. OnError \in AgentPlaces /\ Placed(OnError, commands[c].status, ran[c])
    BY <1>1, ErrorFits
  <2>2. AgentInv
    BY DEF CodexInv
  <2> HIDE DEF OnError
  <2> QED
    BY <2>1, <2>2, AgentMoves
<1> QED
  BY <1>2, <1>3, OneCommand

\* The first heartbeat, the evidence, the second heartbeat and an interrupt's report.
LEMMA TaskCallSteps ==
  ASSUME CodexInv, AgentBegin \/ AgentEvidence \/ AgentBeat \/ AgentComplete
  PROVE  [Next]_vars /\ CodexInv' /\ EndsOnce
<1>1. agent.at # "idle"
  BY DEF AgentBegin, AgentEvidence, AgentBeat, AgentComplete, At
<1>2. PICK c \in Commands : c = agent.cmd
  BY <1>1 DEF CodexInv, AgentInv
<1>3. /\ Placed(agent.at, commands[c].status, ran[c]) /\ c \in Tasks /\ CommandInv(c)
  BY <1>1, <1>2 DEF CodexInv, AgentInv, Commands
<1>4. CASE AgentBegin
  <2>1. Placed("run", commands[c].status, ran[c]) /\ "run" \in AgentPlaces
    BY <1>3, <1>4 DEF AgentBegin, At, Placed, AgentPlaces
  <2>2. HeartbeatWith(c, "claimed") \/ UNCHANGED vars
    BY <1>2, <1>4 DEF AgentBegin, Call
  <2>3. TaskCall(c) /\ [Next]_vars
    BY <2>2, HeartbeatCall DEF TaskCall
  <2>4. UNCHANGED <<commands, ran>> /\ (GoTo("run") \/ GoTo(OnError))
    BY <1>4 DEF AgentBegin, Call
  <2> QED
    BY <1>1, <1>2, <2>1, <2>3, <2>4, AgentCalls
<1>5. CASE AgentEvidence
  <2>1. Placed("beat", commands[c].status, ran[c]) /\ "beat" \in AgentPlaces
    BY <1>3, <1>5 DEF AgentEvidence, At, Placed, AgentPlaces
  <2>2. add_evidence(c) \/ UNCHANGED vars
    BY <1>2, <1>5 DEF AgentEvidence, Call
  <2>3. ASSUME add_evidence(c) PROVE TaskCall(c) /\ Next
    <3>1. tasks' = WithStatus(c, "executing") /\ assignments' = assignments
      BY <2>3 DEF add_evidence
    <3>2. /\ tasks'[c].status = "executing" /\ Touches(c)
          /\ tasks[c].status \notin Ended
      BY <1>3, <2>3, <3>1, TaskTables DEF WithStatus, Touches, add_evidence, Ended, CodexInv, TaskRows
    <3>3. TaskCall(c)
      BY <1>3, <3>1, <3>2 DEF TaskCall, CommandInv, Ended
    <3> QED
      BY <1>3, <2>3, <3>3 DEF Next, AddEvidence
  <2>4. TaskCall(c) /\ [Next]_vars
    BY <2>2, <2>3 DEF TaskCall
  <2>5. UNCHANGED <<commands, ran>> /\ (GoTo("beat") \/ GoTo(OnError))
    BY <1>5 DEF AgentEvidence, Call
  <2> QED
    BY <1>1, <1>2, <2>1, <2>4, <2>5, AgentCalls
<1>6. CASE AgentBeat
  <2> DEFINE says  == IF CommandType[c] = "turn.interrupt" THEN "interrupted" ELSE "executing"
             place == IF CommandType[c] = "turn.interrupt" THEN "complete" ELSE "report"
  <2>1. Placed(place, commands[c].status, ran[c]) /\ place \in AgentPlaces
    BY <1>3, <1>6 DEF AgentBeat, At, Placed, AgentPlaces
  <2>2. HeartbeatWith(c, says) \/ UNCHANGED vars
    BY <1>2, <1>6 DEF AgentBeat, Call
  <2>3. TaskCall(c) /\ [Next]_vars
    <3>1. says \in {"claimed", "executing", "interrupted"}
      OBVIOUS
    <3> HIDE DEF says
    <3> QED
      BY <2>2, <3>1, HeartbeatCall DEF TaskCall
  <2>4. UNCHANGED <<commands, ran>> /\ (GoTo(place) \/ GoTo(OnError))
    BY <1>2, <1>6 DEF AgentBeat, Call
  <2> HIDE DEF place
  <2> QED
    BY <1>1, <1>2, <2>1, <2>3, <2>4, AgentCalls
<1>7. CASE AgentComplete
  <2>1. Placed("report", commands[c].status, ran[c]) /\ "report" \in AgentPlaces /\ ran[c] = 1
    BY <1>3, <1>7 DEF AgentComplete, At, Placed, AgentPlaces
  <2>2. (\E n \in 1 .. drawn : settle_task(c, Machine, n, "completed")) \/ UNCHANGED vars
    BY <1>2, <1>7 DEF AgentComplete, Call, complete_task
  <2>3. UNCHANGED <<commands, ran>> /\ (GoTo("report") \/ GoTo(OnError))
    BY <1>7 DEF AgentComplete, Call
  <2>4. TaskCall(c) /\ [Next]_vars
    <3>1. "completed" \in Ended /\ ran'[c] = 1
      BY <2>1, <2>3 DEF Ended
    <3> QED
      BY <2>2, <3>1, SettleCall DEF TaskCall
  <2> QED
    BY <1>1, <1>2, <2>1, <2>3, <2>4, AgentCalls
<1> QED
  BY <1>4, <1>5, <1>6, <1>7

\* A status is written to the agent's command.
LEMMA WrittenCommand ==
  ASSUME CodexInv, NEW c \in Commands, NEW status \in {"running", "deleted"} \cup Ended,
         commands' = [commands EXCEPT ![c].status = status]
  PROVE  /\ commands' \in [Commands -> CommandRows] /\ commands'[c].status = status
         /\ \A u \in Commands \ {c} : commands'[u] = commands[u]
<1>1. commands \in [Commands -> CommandRows]
  BY DEF CodexInv
<1>2. [commands[c] EXCEPT !.status = status] \in CommandRows
  BY <1>1 DEF CommandRows
<1> QED
  BY <1>1, <1>2 DEF CommandRows

\* The result of a command and what it makes of the task.
LEMMA ResultAffects ==
  ASSUME CodexInv, NEW c \in Commands, c = agent.cmd, agent.at # "idle", NEW status \in Ended,
         RecordResult(status), UNCHANGED ran, status = "completed" => ran[c] = 1
  PROVE  /\ [Next]_vars /\ Affects(c) /\ commands'[c].status = status
<1>1. CommandInv(c) /\ commands[c].status \notin {"absent", "queued"} /\ ran \in [Commands -> Nat]
  BY DEF CodexInv, AgentInv, Placed
<1>2. /\ commands' = [commands EXCEPT ![c].status = status]
      /\ SettleWith(c, status) \/ UNCHANGED vars
  BY DEF RecordResult
<1>3. /\ commands' \in [Commands -> CommandRows] /\ commands'[c].status = status
      /\ \A u \in Commands \ {c} : commands'[u] = commands[u]
  BY <1>2, WrittenCommand
<1>4. (\E n \in 1 .. drawn : settle_task(c, Machine, n, status)) \/ UNCHANGED vars
  BY <1>2 DEF SettleWith
<1>5. TaskCall(c) /\ [Next]_vars
  BY <1>4, SettleCall DEF TaskCall
<1>6. status \notin {"absent", "queued"}
  BY DEF Ended
<1>7. Affects(c)
  <2>1. ran'[c] \in 0 .. 1 /\ ran[c] <= ran'[c] /\ ran' \in [Commands -> Nat]
    BY <1>1 DEF CommandInv
  <2> QED
    BY <1>1, <1>3, <1>5, <1>6, <2>1, CommandStep
<1> QED
  BY <1>3, <1>5, <1>7

\* The runtime is given the command, or refuses it.
LEMMA RunStep ==
  ASSUME CodexInv, AgentRun
  PROVE  [Next]_vars /\ CodexInv' /\ EndsOnce
<1>1. PICK c \in Commands : c = agent.cmd
  BY DEF CodexInv, AgentInv, AgentRun, At
<1>2. /\ agent.at = "run" /\ ran[c] = 0 /\ commands[c].status = "running"
      /\ CommandInv(c) /\ AgentInv /\ commands \in [Commands -> CommandRows]
      /\ ran \in [Commands -> Nat]
  BY <1>1 DEF CodexInv, AgentInv, AgentRun, At, Placed
<1>3. UNCHANGED <<vars, commands>>
  BY DEF AgentRun
<1>4. \/ ran' = [ran EXCEPT ![c] = ran[c] + 1]
      \/ UNCHANGED ran
  BY <1>1 DEF AgentRun
<1>5. /\ ran' \in [Commands -> Nat] /\ ran'[c] \in 0 .. 1 /\ ran[c] <= ran'[c]
      /\ \A u \in Commands \ {c} : ran'[u] = ran[u]
  BY <1>2, <1>4
<1>6. Affects(c)
  <2>1. TaskCall(c)
    BY <1>3 DEF TaskCall
  <2> QED
    BY <1>2, <1>3, <1>5, <2>1, CommandStep
<1>7. AgentInv'
  <2>1. OnError \in AgentPlaces /\ Placed(OnError, commands'[c].status, ran'[c])
    BY <1>2, <1>3, ErrorFits
  <2>2. CASE GoTo(OnError)
    BY <1>1, <1>2, <2>1, <2>2, AgentMoves
  <2>3. CASE /\ ran' = [ran EXCEPT ![c] = ran[c] + 1]
             /\ GoTo("evidence") \/ GoTo("report")
    <3>1. ran'[c] = 1 /\ commands'[c].status = "running"
      BY <1>2, <1>3, <2>3
    <3>2. /\ Placed("evidence", commands'[c].status, ran'[c]) /\ "evidence" \in AgentPlaces
          /\ Placed("report", commands'[c].status, ran'[c]) /\ "report" \in AgentPlaces
      BY <3>1 DEF Placed, AgentPlaces
    <3> QED
      BY <1>1, <1>2, <2>3, <3>2, AgentMoves
  <2> QED
    BY <1>1, <2>2, <2>3 DEF AgentRun
<1> QED
  BY <1>3, <1>6, <1>7, OneCommand

\* The command's result arrives, or its answer is lost, or nothing arrives.
LEMMA ReportStep ==
  ASSUME CodexInv, AgentReport
  PROVE  [Next]_vars /\ CodexInv' /\ EndsOnce
<1>1. PICK c \in Commands : c = agent.cmd
  BY DEF CodexInv, AgentInv, AgentReport, At
<1>2. agent.at = "report" /\ ran[c] = 1 /\ UNCHANGED ran /\ AgentInv
  BY <1>1 DEF CodexInv, AgentInv, AgentReport, At, Placed
<1>3. CASE RecordResult("completed") /\ (GoTo("sync") \/ GoTo(OnError))
  <2>1. "completed" \in Ended
    BY DEF Ended
  <2>2. [Next]_vars /\ Affects(c) /\ commands'[c].status = "completed"
    BY <1>1, <1>2, <1>3, <2>1, ResultAffects
  <2>3. /\ OnError \in AgentPlaces /\ Placed(OnError, commands'[c].status, ran'[c])
        /\ "sync" \in AgentPlaces /\ Placed("sync", commands'[c].status, ran'[c])
    BY <2>2, ErrorFits DEF AgentPlaces
  <2>4. AgentInv'
    BY <1>1, <1>2, <1>3, <2>3, AgentMoves
  <2> QED
    BY <2>2, <2>4, OneCommand
<1>4. CASE UNCHANGED <<vars, commands>> /\ GoTo(OnError)
  <2>1. TaskCall(c) /\ [Next]_vars
    BY <1>4 DEF TaskCall
  <2>2. Placed("report", commands[c].status, ran[c]) /\ "report" \in AgentPlaces
    BY <1>1, <1>2 DEF AgentInv, AgentPlaces
  <2> QED
    BY <1>1, <1>2, <1>4, <2>1, <2>2, AgentCalls
<1> QED
  BY <1>3, <1>4 DEF AgentReport

\* The sync, the report on the task after an error, and a restart.
LEMMA QuietSteps ==
  ASSUME CodexInv, AgentSync \/ AgentFailTask \/ AgentRestart
  PROVE  [Next]_vars /\ CodexInv' /\ EndsOnce
<1>1. agent.at # "idle" /\ UNCHANGED <<commands, ran>>
  BY DEF AgentSync, AgentFailTask, AgentRestart, At
<1>2. PICK c \in Commands : c = agent.cmd
  BY <1>1 DEF CodexInv, AgentInv
<1>3. (\E n \in 1 .. drawn : settle_task(c, Machine, n, "failed")) \/ UNCHANGED vars
  BY <1>2 DEF AgentSync, AgentFailTask, AgentRestart, fail_task
<1>4. TaskCall(c) /\ [Next]_vars
  <2>1. "failed" \in Ended
    BY DEF Ended
  <2> QED
    BY <1>3, <2>1, SettleCall DEF TaskCall
<1>5. "reportFailed" \in AgentPlaces /\ Placed("reportFailed", commands[c].status, ran[c])
  BY <1>1, <1>2, ErrorFits DEF CodexInv, AgentInv, Placed, AgentPlaces
<1>6. GoTo("reportFailed") \/ GoTo(OnError) \/ agent' = Idle
  BY DEF AgentSync, AgentFailTask, AgentRestart
<1> QED
  BY <1>1, <1>2, <1>4, <1>5, <1>6, AgentCalls

\* A command is reported failed, whatever the bridge makes of it.
LEMMA ReportFailedStep ==
  ASSUME CodexInv, AgentReportFailed
  PROVE  [Next]_vars /\ CodexInv' /\ EndsOnce
<1>1. agent.at # "idle" /\ UNCHANGED ran /\ agent' = Idle /\ AgentInv
  BY DEF AgentReportFailed, At, CodexInv
<1>2. PICK c \in Commands : c = agent.cmd
  BY <1>1 DEF AgentInv
<1>3. CASE RecordResult("failed")
  <2>1. [Next]_vars /\ Affects(c)
    BY <1>1, <1>2, <1>3, ResultAffects DEF Ended
  <2> QED
    BY <1>1, <2>1, AgentMoves, OneCommand
<1>4. CASE UNCHANGED <<vars, commands>>
  <2>1. TaskCall(c) /\ [Next]_vars
    BY <1>4 DEF TaskCall
  <2>2. "reportFailed" \in AgentPlaces /\ Placed("reportFailed", commands[c].status, ran[c])
    BY <1>1, <1>2, ErrorFits DEF AgentInv, Placed, AgentPlaces
  <2> QED
    BY <1>1, <1>2, <1>4, <2>1, <2>2, AgentCalls
<1> QED
  BY <1>3, <1>4 DEF AgentReportFailed

-----------------------------------------------------------------------------
(* The other steps *)

\* An agent whose own command stays as it is stays where it is.
LEMMA AgentStays ==
  ASSUME AgentInv, agent' = agent,
         agent.at # "idle" => /\ commands'[agent.cmd] = commands[agent.cmd]
                              /\ ran'[agent.cmd] = ran[agent.cmd]
  PROVE  AgentInv'
BY DEF AgentInv

\* The oldest queued command is handed out; its task was never claimed before.
LEMMA ClaimCommandStep ==
  ASSUME CodexInv, ClaimCommand
  PROVE  [Next]_vars /\ CodexInv' /\ EndsOnce
<1>1. PICK c \in NextCommands :
           /\ commands' = [commands EXCEPT ![c].status = "running"]
           /\ \/ /\ IF HasTask(c) THEN claim_task(c, Machine, MaxLease) ELSE UNCHANGED vars
                 /\ agent' \in {Idle, [at |-> IF HasTask(c) THEN "begin" ELSE "run", cmd |-> c]}
              \/ /\ HasTask(c)
                 /\ UNCHANGED <<vars, agent>>
  BY DEF ClaimCommand
<1>2. /\ c \in Commands /\ commands[c].status = "queued" /\ CommandInv(c) /\ IInv /\ c \in Tasks
      /\ agent.at = "idle" /\ UNCHANGED ran /\ AgentInv /\ ran \in [Commands -> Nat]
  BY <1>1 DEF NextCommands, CodexInv, Commands, ClaimCommand, At
<1>3. /\ commands' \in [Commands -> CommandRows] /\ commands'[c].status = "running"
      /\ \A u \in Commands \ {c} : commands'[u] = commands[u]
  BY <1>1, <1>2, WrittenCommand
<1>4. ASSUME HasTask(c), claim_task(c, Machine, MaxLease) PROVE TaskCall(c) /\ Next
  <2>1. tasks[c].status \in {"absent", "queued"}
    BY <1>2, <1>4 DEF CommandInv
  <2>2. assignments[c] = << >>
    BY <1>2, <2>1, TaskFacts DEF StatusInv
  <2>3. Touches(c) /\ tasks'[c].status = "claimed" /\ Len(assignments'[c]) = 1
    BY <1>2, <1>4, <2>2, ClaimEffect, RemoteCodexAssumption
  <2>4. TaskCall(c)
    BY <2>1, <2>3 DEF TaskCall, Ended
  <2>5. MaxLease \in 1 .. MaxLease
    BY ResourceLeasesAssumption
  <2> QED
    BY <1>2, <1>4, <2>4, <2>5, RemoteCodexAssumption DEF Next, ClaimTask
<1>5. TaskCall(c) /\ [Next]_vars
  BY <1>1, <1>4 DEF TaskCall
<1>6. Affects(c)
  <2>1. ran'[c] \in 0 .. 1 /\ ran[c] <= ran'[c] /\ ran' \in [Commands -> Nat]
    BY <1>2 DEF CommandInv
  <2> QED
    BY <1>2, <1>3, <1>5, <2>1, CommandStep
<1>7. AgentInv'
  <2>1. \/ agent' = agent \/ agent' = Idle
        \/ \E place \in {"begin", "run"} : agent' = [at |-> place, cmd |-> c]
    BY <1>1
  <2>2. CASE agent' = agent \/ agent' = Idle
    BY <1>2, <2>2 DEF AgentInv, Idle, AgentPlaces
  <2>3. ASSUME NEW place \in {"begin", "run"}, agent' = [at |-> place, cmd |-> c]
        PROVE  AgentInv'
    <3>1. ran'[c] = 0
      BY <1>2 DEF CommandInv
    <3>2. Placed(place, commands'[c].status, ran'[c]) /\ place \in AgentPlaces
      BY <1>3, <3>1 DEF Placed, AgentPlaces
    <3> QED
      BY <1>2, <2>3, <3>2 DEF AgentInv
  <2> QED
    BY <2>1, <2>2, <2>3
<1> QED
  BY <1>2, <1>5, <1>6, <1>7, OneCommand

\* A row that is put in the queue.
LEMMA EnqueuedRow ==
  ASSUME CodexInv, NEW c \in Commands, commands' = Enqueued(c)
  PROVE  /\ commands' \in [Commands -> CommandRows] /\ commands'[c].status = "queued"
         /\ \A u \in Commands \ {c} : commands'[u] = commands[u]
<1> DEFINE others == {d \in Commands : commands[d].status # "absent"}
           row    == [status |-> "queued", order |-> 1 + Cardinality(others)]
<1>1. commands \in [Commands -> CommandRows] /\ commands' = [commands EXCEPT ![c] = row]
  BY DEF CodexInv, Enqueued
<1>2. Cardinality(others) \in Nat
  <2>1. IsFiniteSet(others)
    BY RemoteCodexAssumption, FS_Subset
  <2> QED
    BY <2>1, FS_CardinalityType
<1>3. row \in CommandRows /\ row.status = "queued"
  BY <1>2 DEF CommandRows
<1> HIDE DEF row
<1> QED
  BY <1>1, <1>3

\* A task is created, and its command unless the bridge stops in between.
LEMMA EnqueueTurnStep ==
  ASSUME CodexInv, NEW c \in Commands, EnqueueTurn(c)
  PROVE  [Next]_vars /\ CodexInv' /\ EndsOnce
<1>1. /\ HasTask(c) /\ create_task(c)
      /\ commands' = Enqueued(c) \/ commands' = commands
      /\ UNCHANGED <<ran, agent>>
  BY DEF EnqueueTurn
<1>2. /\ c \in Tasks /\ IInv /\ CommandInv(c) /\ tasks[c].status = "absent"
      /\ commands[c].status = "absent" /\ ran[c] = 0 /\ AgentInv
      /\ commands \in [Commands -> CommandRows] /\ ran \in [Commands -> Nat]
  BY <1>1 DEF CodexInv, Commands, CommandInv, create_task
<1>3. /\ commands' \in [Commands -> CommandRows]
      /\ commands'[c].status \in {"absent", "queued"}
      /\ \A u \in Commands \ {c} : commands'[u] = commands[u]
  BY <1>1, <1>2, EnqueuedRow
<1>4. /\ tasks'[c].status = "queued" /\ assignments' = assignments
      /\ \A u \in Tasks \ {c} : tasks'[u] = tasks[u]
  <2>1. PICK n : tasks' = [tasks EXCEPT ![c] = [status |-> "queued", owner |-> None, created |-> n]]
    BY <1>1 DEF create_task
  <2> QED
    BY <1>1, <1>2, <2>1, TaskTables DEF create_task
<1>5. CommandInv(c)'
  BY <1>1, <1>2, <1>3, <1>4 DEF CommandInv, Ended
<1>6. Affects(c)
  BY <1>1, <1>2, <1>3, <1>4, <1>5 DEF Affects, Commands, Ended
<1>7. AgentInv'
  <2>1. agent.at # "idle" => agent.cmd \in Commands \ {c}
    BY <1>2 DEF AgentInv, Placed
  <2> QED
    BY <1>1, <1>2, <1>3, <2>1, AgentStays
<1>8. Next
  BY <1>1, <1>2 DEF Next, CreateTask
<1> QED
  BY <1>6, <1>7, <1>8, OneCommand

\* A thread's delete is queued, or a completed turn's row is removed.
LEMMA QueueSteps ==
  ASSUME CodexInv, NEW c \in Commands, EnqueueDelete(c) \/ PruneCommand(c)
  PROVE  [Next]_vars /\ CodexInv' /\ EndsOnce
<1>1. UNCHANGED <<vars, ran, agent>> /\ tasks' = tasks /\ assignments' = assignments
  BY DEF EnqueueDelete, PruneCommand, vars
<1>2. /\ CommandInv(c) /\ AgentInv
      /\ commands \in [Commands -> CommandRows] /\ ran \in [Commands -> Nat]
  BY DEF CodexInv
<1>3. CASE EnqueueDelete(c)
  <2>1. commands[c].status = "absent" /\ ~ HasTask(c)
    BY <1>3 DEF EnqueueDelete
  <2>2. /\ commands' \in [Commands -> CommandRows] /\ commands'[c].status = "queued"
        /\ \A u \in Commands \ {c} : commands'[u] = commands[u]
    BY <1>3, EnqueuedRow DEF EnqueueDelete
  <2>3. CommandInv(c)'
    BY <1>1, <1>2, <2>1, <2>2 DEF CommandInv, HasTask, Unassigned
  <2>4. Affects(c)
    BY <1>1, <1>2, <2>2, <2>3 DEF Affects
  <2>5. AgentInv'
    <3>1. agent.at # "idle" => agent.cmd \in Commands \ {c}
      BY <1>2, <2>1 DEF AgentInv, Placed
    <3> QED
      BY <1>1, <1>2, <2>2, <3>1, AgentStays
  <2> QED
    BY <1>1, <2>4, <2>5, OneCommand
<1>4. CASE PruneCommand(c)
  <2>1. commands[c].status = "completed"
    BY <1>4 DEF PruneCommand
  <2>2. /\ commands' \in [Commands -> CommandRows] /\ commands'[c].status = "deleted"
        /\ \A u \in Commands \ {c} : commands'[u] = commands[u]
    BY <1>4, WrittenCommand DEF PruneCommand
  <2>3. Affects(c)
    <3>1. TaskCall(c)
      BY <1>1 DEF TaskCall
    <3>2. ran'[c] \in 0 .. 1 /\ ran[c] <= ran'[c] /\ ran' \in [Commands -> Nat]
      BY <1>1, <1>2 DEF CommandInv
    <3> QED
      BY <2>1, <2>2, <3>1, <3>2, <1>1, CommandStep
  <2>4. AgentInv'
    <3>1. agent' = agent
      BY <1>1
    <3>2. CASE agent.at # "idle" /\ agent.cmd = c
      <4>1. Placed(agent.at, commands'[c].status, ran'[c])
        BY <1>2, <2>1, <2>2, <3>2 DEF AgentInv, Placed
      <4> QED
        BY <1>2, <3>1, <3>2, <4>1 DEF AgentInv
    <3>3. CASE agent.at # "idle" => agent.cmd # c
      <4>1. agent.at # "idle" => agent.cmd \in Commands \ {c}
        BY <1>2, <3>3 DEF AgentInv
      <4> QED
        BY <1>1, <1>2, <2>2, <3>1, <4>1, AgentStays
    <3> QED
      BY <3>2, <3>3
  <2> QED
    BY <1>1, <2>3, <2>4, OneCommand
<1> QED
  BY <1>3, <1>4

\* Somebody looks at a task, and it is cleaned up.
LEMMA ViewStep ==
  ASSUME CodexInv, NEW c \in Commands, ViewTask(c)
  PROVE  [Next]_vars /\ CodexInv' /\ EndsOnce
<1>1. /\ HasTask(c) /\ tasks[c].status \in {"claimed", "executing", "verifying"}
      /\ UNCHANGED <<commands, ran, agent>>
  BY DEF ViewTask
<1>2. PICK final \in CleanupVerdict(c) : settle_stale_task(c, final)
  BY DEF ViewTask
<1>3. /\ c \in Tasks /\ IInv /\ CommandInv(c) /\ AgentInv
      /\ commands \in [Commands -> CommandRows] /\ ran \in [Commands -> Nat]
  BY DEF CodexInv, Commands
<1>4. final \in Ended /\ (final = "completed" => commands[c].status = "completed")
  BY <1>2 DEF CleanupVerdict, Ended
<1>5. commands[c].status \notin {"absent", "queued"}
  BY <1>1, <1>3 DEF CommandInv
<1>6. TaskCall(c)
  <2>1. /\ Touches(c) /\ tasks'[c].status = final /\ tasks[c].status \notin Ended \cup {"absent"}
        /\ Len(assignments'[c]) = Len(assignments[c]) /\ Unassigned(c)'
    BY <1>2, <1>3, <1>4, StaleEffect DEF CommandInv
  <2>2. final = "completed" => ran'[c] = 1
    BY <1>1, <1>3, <1>4 DEF CommandInv
  <2> QED
    BY <1>3, <1>4, <2>1, <2>2 DEF TaskCall, CommandInv, Ended
<1>7. Affects(c)
  BY <1>1, <1>3, <1>5, <1>6, CommandStep DEF CommandInv
<1>8. AgentInv'
  BY <1>1, <1>3, AgentStays
<1>9. Next
  <2>1. final \in Settled
    BY <1>4 DEF Ended, Settled
  <2> QED
    BY <1>2, <1>3, <2>1 DEF Next, SettleStale
<1> QED
  BY <1>7, <1>8, <1>9, OneCommand

\* Leases grow old.
LEMMA CodexTickStep ==
  ASSUME CodexInv, CodexTick
  PROVE  [Next]_vars /\ CodexInv' /\ EndsOnce
<1>1. Next /\ UNCHANGED <<commands, ran, agent>> /\ Tick
  BY DEF CodexTick, Next
<1>2. IInv /\ AgentInv
  BY DEF CodexInv
<1>3. IInv'
  BY <1>1, <1>2, StepKeepsIInv
<1>4. ASSUME NEW c \in Commands
      PROVE  CommandInv(c)' /\ tasks'[c] = tasks[c]
  <2>1. CommandInv(c) /\ c \in Tasks
    BY DEF CodexInv, Commands
  <2>2. /\ tasks'[c] = tasks[c] /\ Len(assignments'[c]) = Len(assignments[c])
        /\ Unassigned(c) => Unassigned(c)'
    BY <1>1, <1>2, <2>1, TickEffect
  <2> QED
    BY <1>1, <2>1, <2>2 DEF CommandInv
<1>5. AgentInv'
  BY <1>1, <1>2, AgentStays
<1> QED
  BY <1>1, <1>3, <1>4, <1>5 DEF CodexInv, EndsOnce

-----------------------------------------------------------------------------
(* The theorems *)

\* Every step keeps the invariant, is one of the task service's, and ends no task twice.
LEMMA CodexStep ==
  ASSUME CodexInv, CodexNext
  PROVE  [Next]_vars /\ CodexInv' /\ EndsOnce
BY ClaimCommandStep, TaskCallSteps, RunStep, ReportStep, QuietSteps, ReportFailedStep,
   EnqueueTurnStep, QueueSteps, ViewStep, CodexTickStep
DEF CodexNext, Browser, AgentStep

\* Before the first request nothing is queued and nothing was run.
LEMMA CodexInitInv == CodexInit => CodexInv
<1> SUFFICES ASSUME CodexInit PROVE CodexInv
  OBVIOUS
<1>1. IInv /\ Init
  BY InitIInv DEF CodexInit
<1>2. /\ commands \in [Commands -> CommandRows] /\ ran \in [Commands -> Nat]
      /\ \A c \in Commands : commands[c].status = "absent" /\ ran[c] = 0
  BY DEF CodexInit, CommandRows
<1>3. \A c \in Commands : tasks[c].status = "absent" /\ assignments[c] = << >>
  BY <1>1 DEF Init, Commands
<1>4. \A c \in Commands : CommandInv(c)
  BY <1>2, <1>3 DEF CommandInv, Ended
<1>5. AgentInv
  BY DEF CodexInit, AgentInv, Idle, AgentPlaces
<1> QED
  BY <1>1, <1>2, <1>4, <1>5 DEF CodexInv

\* The invariant the theorems below rest on.
THEOREM CodexInvariance == CodexSpec => []CodexInv
<1>1. CodexInv /\ [CodexNext]_codexVars => CodexInv'
  <2>1. CodexInv /\ CodexNext => CodexInv'
    BY CodexStep
  <2>2. CodexInv /\ UNCHANGED codexVars => CodexInv'
    <3> SUFFICES ASSUME CodexInv, UNCHANGED codexVars PROVE CodexInv'
      OBVIOUS
    <3>1. UNCHANGED vars /\ UNCHANGED <<commands, ran, agent>>
      BY DEF codexVars
    <3>2. IInv'
      BY <3>1, StepKeepsIInv DEF CodexInv
    <3>3. AgentInv'
      BY <3>1 DEF CodexInv, AgentInv
    <3>4. \A c \in Commands : CommandInv(c)'
      BY <3>1 DEF CodexInv, CommandInv, Unassigned, vars
    <3> QED
      BY <3>1, <3>2, <3>3, <3>4 DEF CodexInv
  <2> QED
    BY <2>1, <2>2
<1> QED
  BY <1>1, CodexInitInv, PTL DEF CodexSpec

\* The command rows, the agent's place and the tasks keep their types.
THEOREM CodexTypeCorrect == CodexSpec => []CodexTypeOK
<1>1. CodexInv => CodexTypeOK
  BY IInvImplies DEF CodexInv, AgentInv, CodexTypeOK
<1> QED
  BY <1>1, CodexInvariance, PTL

\* claim_next_command hands a command out once, and the agent gives it to the runtime
\* at one place of one pass only.
THEOREM RunsAtMostOnce == CodexSpec => []RunAtMostOnce
<1>1. CodexInv => RunAtMostOnce
  BY DEF CodexInv, CommandInv, RunAtMostOnce
<1> QED
  BY <1>1, CodexInvariance, PTL

\* Neither the agent's reports nor the bridge's cleanup completes what was not run.
THEOREM CompletedWasGivenToRuntime == CodexSpec => []CompletedWasRun
<1>1. CodexInv => CompletedWasRun
  BY DEF CodexInv, CommandInv, CompletedWasRun
<1> QED
  BY <1>1, CodexInvariance, PTL

\* A report that comes after the cleanup, or a cleanup after the report, finds no
\* assignment or a task that is over.
THEOREM TasksEndOnce == CodexSpec => TaskEndsOnce
<1>1. CodexInv /\ [CodexNext]_codexVars =>
        [\A c \in Commands : tasks[c].status \in Ended => tasks'[c].status = tasks[c].status]_codexVars
  BY CodexStep DEF EndsOnce
<1> QED
  BY <1>1, CodexInvariance, PTL DEF CodexSpec, TaskEndsOnce

\* The command queue and the agent drive tasks through the task service only, so what
\* is proved of remote tasks holds for the browser's.
THEOREM CodexUsesRemoteTasks == CodexSpec => Spec
<1>1. CodexInit => Init
  BY DEF CodexInit
<1>2. CodexInv /\ [CodexNext]_codexVars => [Next]_vars
  BY CodexStep DEF codexVars, vars
<1> QED
  BY <1>1, <1>2, CodexInvariance, PTL DEF CodexSpec, Spec

\* Whatever of the browser's calls and the agent's is lost, its tasks have one record of their
\* owner and one holder at a time, and a predecessor's token is refused (the calls of service.py
\* and of the agent write through remote_task_service, all on the event loop).
THEOREM TasksAreSafeForBrowsers ==
  CodexSpec => /\ []LeaseIsAssignment /\ []StatusAgreesWithLease /\ []NoGhostApproval
               /\ ImplementsExclusiveLease /\ PredecessorsTokenIsRefused
BY CodexUsesRemoteTasks, OneRecordOfOwnership, StatusAndLease, ApprovalMirrored, OneHolder, PredecessorIsRefused
=============================================================================
