---------------------------- MODULE RemoteCodex ----------------------------
(***************************************************************************)
(* A browser drives the Codex runtime of a machine.  Three parties:        *)
(*   - the bridge's command queue and the calls that couple it to remote   *)
(*     tasks (behaviors/remote_codex/service.py and state_service.py);     *)
(*   - the tasks and their leases (RemoteTasks, used unchanged);           *)
(*   - the device agent, a sequential program on the machine that claims   *)
(*     a command, runs it and reports (execute_next_command in             *)
(*     pc_launcher/connectors/remote_executor/device_agent.py).            *)
(*                                                                         *)
(* The agent's calls are HTTP requests.  A request can be refused or lost, *)
(* or take effect and have its answer lost; either way the agent sees an   *)
(* error.  The bridge commits each part of a call on its own and can stop  *)
(* between two parts; the agent can stop anywhere and restarts idle.       *)
(*                                                                         *)
(* One machine, one thread.  Command c of type turn.start or               *)
(* turn.interrupt has the task c; a thread.delete has none.  The machine   *)
(* is the actor of every claim, so all its agents hold a lease alike.      *)
(***************************************************************************)
EXTENDS RemoteTasks

CONSTANTS
  CommandType,  \* CommandType[c]
  Machine       \* the machine id, as an actor

Commands == Tasks

ASSUME RemoteCodexAssumption ==
  /\ CommandType \in [Commands -> {"turn.start", "turn.interrupt", "thread.delete"}]
  /\ Machine \in Actors
  /\ IsFiniteSet(Commands)

VARIABLES
  commands,     \* the remote_codex_commands table
  ran,          \* ran[c]: how often the runtime was given command c
  agent         \* where the device agent is, and with which command

codexVars == <<vars, commands, ran, agent>>

HasTask(c) == CommandType[c] # "thread.delete"
Ended      == {"completed", "failed"}

\* "deleted": the row was removed from the table again.
CommandRows == [status : {"absent", "queued", "running", "deleted"} \cup Ended,
                order  : Nat]           \* created_at, as a rank
AgentPlaces == {"idle", "begin", "run", "evidence", "beat", "complete", "report",
                "sync", "failTask", "reportFailed"}

CodexTypeOK == /\ TypeOK
               /\ commands \in [Commands -> CommandRows]
               /\ ran \in [Commands -> Nat]
               /\ agent \in [at : AgentPlaces, cmd : Commands \cup {None}]

Idle == [at |-> "idle", cmd |-> None]

CodexInit == /\ Init
             /\ commands = [c \in Commands |-> [status |-> "absent", order |-> 0]]
             /\ ran = [c \in Commands |-> 0]
             /\ agent = Idle

-----------------------------------------------------------------------------
(* The browser's calls *)

\* Mutant: the row gets the status the kernel's queue gives a claimed task.
EnqueuedClaimed(c) == [commands EXCEPT ![c] = [status |-> "claimed", order |-> 1]]

Enqueued(c) == [commands EXCEPT ![c] =
  [status |-> "queued",
   order |-> 1 + Cardinality({d \in Commands : commands[d].status # "absent"})]]

Active(c) == commands[c].status \in {"queued", "running"}

\* enqueue_turn and enqueue_interrupt create the task, then the command; the
\* bridge may stop in between.  An interrupt names any turn its caller likes, begun
\* or not; another interrupt must not be under way.
EnqueueTurn(c) ==
  /\ HasTask(c)
  /\ CommandType[c] = "turn.interrupt" =>
       \A d \in Commands : CommandType[d] = "turn.interrupt" => ~Active(d)
  /\ create_task(c)
  /\ commands' \in {Enqueued(c), commands}
  /\ UNCHANGED <<ran, agent>>

EnqueueDelete(c) ==
  /\ ~HasTask(c)
  /\ commands[c].status = "absent"
  /\ \A d \in Commands : ~Active(d)
  /\ commands' = Enqueued(c)
  /\ UNCHANGED <<vars, ran, agent>>

\* Listing a thread's commands deletes completed turns whose task is over.  Their
\* turn must look pending and be superseded or old: which ones are, is left open.
PruneCommand(c) ==
  /\ CommandType[c] = "turn.start"
  /\ commands[c].status = "completed"
  /\ tasks[c].status \in Settled
  /\ commands' = [commands EXCEPT ![c].status = "deleted"]
  /\ UNCHANGED <<vars, ran, agent>>

LeaseRanOut(t) == \E i \in DOMAIN assignments[t] :
                    IsAssigned(t, i) /\ assignments[t][i].left = 0

\* Mutant: a command that is running is left to its agent.
CleanupVerdictPatient(c) ==
  CASE commands[c].status = "failed" -> {"failed"}
    [] commands[c].status = "completed" /\ CommandType[c] = "turn.start" -> {"completed"}
    [] commands[c].status \in {"queued", "absent", "deleted"} ->
         IF LeaseRanOut(c) THEN {"failed"} ELSE {}
    [] OTHER -> {}

\* What _maybe_cleanup_stale_task makes of c's task.  The half hour that must
\* also have passed since the task was last touched is not counted.
CleanupVerdict(c) ==
  CASE commands[c].status = "failed" -> {"failed"}
    [] commands[c].status = "completed" /\ CommandType[c] = "turn.start" -> {"completed"}
    [] commands[c].status \in {"queued", "running", "absent", "deleted"} ->
         IF LeaseRanOut(c) THEN {"failed"} ELSE {}
    [] OTHER -> {}

\* Reading a task, or a thread's tasks, cleans them up.
ViewTask(c) ==
  /\ HasTask(c)
  /\ tasks[c].status \in {"claimed", "executing", "verifying"}
  /\ \E final \in CleanupVerdict(c) : settle_stale_task(c, final)
  /\ UNCHANGED <<commands, ran, agent>>

-----------------------------------------------------------------------------
(* The device agent *)

At(place)     == agent.at = place
GoTo(place)   == agent' = [agent EXCEPT !.at = place]
OnError       == IF HasTask(agent.cmd) THEN "failTask" ELSE "reportFailed"

\* A call with this effect: answered, then on to place; or applied with its
\* answer lost; or refused or lost.
Call(effect, place) ==
  \/ effect /\ (GoTo(place) \/ GoTo(OnError))
  \/ UNCHANGED <<vars, commands, ran>> /\ GoTo(OnError)

\* Mutant: a command stays claimable until its result is in.
NextCommandsUnfinished ==
  LET queue == {c \in Commands : Active(c)}
  IN  {c \in queue : \A d \in queue : commands[c].order <= commands[d].order}

NextCommands ==
  LET queue == {c \in Commands : commands[c].status = "queued"}
  IN  {c \in queue : \A d \in queue : commands[c].order <= commands[d].order}

\* claim_next_command marks the command running, then claims its task.  When the
\* second part or the answer is lost, nobody runs the command.
ClaimCommand ==
  /\ At("idle")
  /\ \E c \in NextCommands :
       /\ commands' = [commands EXCEPT ![c].status = "running"]
       /\ \/ /\ IF HasTask(c) THEN claim_task(c, Machine, MaxLease) ELSE UNCHANGED vars
             /\ agent' \in {Idle, [at |-> IF HasTask(c) THEN "begin" ELSE "run", cmd |-> c]}
          \/ /\ HasTask(c)
             /\ UNCHANGED <<vars, agent>>
  /\ UNCHANGED ran

HeartbeatWith(t, says) == \E n \in 1 .. drawn : heartbeat_task(t, Machine, n, MaxLease, says)

AgentBegin ==
  /\ At("begin")
  /\ Call(HeartbeatWith(agent.cmd, "claimed") /\ UNCHANGED <<commands, ran>>, "run")

\* The runtime may have taken the command although its answer is an error.
AgentRun ==
  /\ At("run")
  /\ \/ /\ ran' = [ran EXCEPT ![agent.cmd] = ran[agent.cmd] + 1]
        /\ GoTo(IF HasTask(agent.cmd) THEN "evidence" ELSE "report") \/ GoTo(OnError)
     \/ UNCHANGED ran /\ GoTo(OnError)
  /\ UNCHANGED <<vars, commands>>

\* Evidence is accepted in any status and moves only some on.
AgentEvidence ==
  /\ At("evidence")
  /\ Call(/\ IF tasks[agent.cmd].status \in {"queued", "claimed"}
             THEN add_evidence(agent.cmd) ELSE UNCHANGED vars
          /\ UNCHANGED <<commands, ran>>,
          "beat")

AgentBeat ==
  LET interrupt == CommandType[agent.cmd] = "turn.interrupt" IN
  /\ At("beat")
  /\ Call(/\ HeartbeatWith(agent.cmd, IF interrupt THEN "interrupted" ELSE "executing")
          /\ UNCHANGED <<commands, ran>>,
          IF interrupt THEN "complete" ELSE "report")

AgentComplete ==
  /\ At("complete")
  /\ Call((\E n \in 1 .. drawn : complete_task(agent.cmd, Machine, n)) /\ UNCHANGED <<commands, ran>>,
          "report")

\* Mutant: the task's status is written, assigned or not.
SettleAnyway(c, final) ==
  IF HasTask(c) THEN /\ tasks' = OwnedBy(c, Machine, final)
                     /\ UNCHANGED <<leases, drawn, assignments, approvals>>
  ELSE UNCHANGED vars

\* A task that is still assigned is settled with its command.
SettleWith(c, final) ==
  IF HasTask(c) /\ ~Unassigned(c)
  THEN \E n \in 1 .. drawn : settle_task(c, Machine, n, final)
  ELSE UNCHANGED vars

\* record_command_result writes the command, whatever its status was, and then
\* settles the task.  Settling is refused when the lease has run out, and lost
\* when the bridge stops in between; the command's new status stays.
RecordResult(status) ==
  LET c == agent.cmd IN
  /\ commands[c].status # "deleted"
  /\ commands' = [commands EXCEPT ![c].status = status]
  /\ SettleWith(c, status) \/ UNCHANGED vars

AgentReport ==
  /\ At("report")
  /\ \/ RecordResult("completed") /\ SettleWith(agent.cmd, "completed") /\ GoTo("sync")
     \/ RecordResult("completed") /\ GoTo(OnError)
     \/ UNCHANGED <<vars, commands>> /\ GoTo(OnError)
  /\ UNCHANGED ran

\* The sync after a report is inside the same try block.
AgentSync ==
  /\ At("sync")
  /\ agent' = Idle \/ GoTo(OnError)
  /\ UNCHANGED <<vars, commands, ran>>

\* Whether or not the bridge accepts it, the command is reported failed next.
AgentFailTask ==
  /\ At("failTask")
  /\ \/ \E n \in 1 .. drawn : fail_task(agent.cmd, Machine, n)
     \/ UNCHANGED vars
  /\ GoTo("reportFailed")
  /\ UNCHANGED <<commands, ran>>

AgentReportFailed ==
  /\ At("reportFailed")
  /\ RecordResult("failed") \/ UNCHANGED <<vars, commands>>
  /\ agent' = Idle
  /\ UNCHANGED ran

\* The agent process dies and is started again; it remembers nothing.
AgentRestart ==
  /\ ~At("idle")
  /\ agent' = Idle
  /\ UNCHANGED <<vars, commands, ran>>

CodexTick == Tick /\ UNCHANGED <<commands, ran, agent>>

-----------------------------------------------------------------------------
AgentStep == \/ ClaimCommand \/ AgentBegin \/ AgentRun \/ AgentEvidence \/ AgentBeat
             \/ AgentComplete \/ AgentReport \/ AgentSync \/ AgentFailTask
             \/ AgentReportFailed

Browser == \E c \in Commands : EnqueueTurn(c) \/ EnqueueDelete(c) \/ PruneCommand(c)

CodexNext == \/ Browser \/ (\E c \in Commands : ViewTask(c))
             \/ AgentStep \/ AgentRestart \/ CodexTick

CodexSpec == CodexInit /\ [][CodexNext]_codexVars

\* Time passes, the agent goes on with its command, and somebody keeps looking.
CodexFairSpec == /\ CodexSpec
                 /\ WF_codexVars(CodexTick)
                 /\ WF_codexVars(AgentStep)
                 /\ \A c \in Commands : WF_codexVars(ViewTask(c))
-----------------------------------------------------------------------------
(* Properties *)

\* The runtime is given a browser's request at most once, whichever calls are
\* lost and whenever the agent dies: nothing puts a command back in the queue.
RunAtMostOnce == \A c \in Commands : ran[c] <= 1

\* What is shown as completed was given to the runtime, on each of the paths that
\* complete a task: the agent's call, the command's result and the cleanup.
CompletedWasRun == \A c \in Commands :
  commands[c].status = "completed" \/ tasks[c].status = "completed" => ran[c] = 1

\* A browser task ends once.  A late report, a repeated failure or a cleanup that
\* comes after the other does not turn a completed task into a failed one.
TaskEndsOnce ==
  [][\A c \in Commands : tasks[c].status \in Ended => tasks'[c].status = tasks[c].status]_codexVars

Working(c) == tasks[c].status \in {"claimed", "executing", "verifying"}

\* A task somebody looks at does not stay under way for ever: the agent reports,
\* or its command ends or its lease runs out and the cleanup settles it.
WorkingEnds == \A c \in Commands : Working(c) ~> ~Working(c)
=============================================================================
