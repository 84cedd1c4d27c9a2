# Verification of Opscure

TLA+ models of the bridge (`src/nas_bridge/app`) and of the programs that work for it
(`src/pc_launcher`), checked by TLC on small instances and, for the central
components, proved by TLAPS for every instance.

Opscure lets people in Discord, browsers and chat rooms hand work to AI agents that run on
other machines. The bridge is one FastAPI process over one SQLite database; everything
that can go wrong between its callers goes wrong in the rows of that database. The
agents' machines run a launcher, workers and connectors that poll the bridge over HTTP.

Contents: [the parts](#the-parts-of-the-system), [the modules](#what-is-modelled),
[the runs](#the-runs), [the proofs](#what-is-proved),
[disagreements found](#where-code-and-documents-disagree), [other observations](#other-observations),
[limits](#limits), [not modelled](#not-modelled).

## The parts of the system

How code runs decides what an action is, so first the scheduling:

- `async def` endpoints that call a synchronous service (`api/remote_tasks.py`,
  `api/kernel_tasks.py`, `api/presence.py`, `behaviors/chat/api.py`,
  `behaviors/remote_codex/api.py`) run the whole call on the event loop: nothing else
  happens in between. A service call is atomic, a service call made of several
  `session_scope` transactions can still break off between two commits.
- `def` endpoints (`api/v2_operations.py`, parts of the other v2 APIs) run in a thread
  pool: their transactions interleave with each other and with the event loop.
- Coroutines that await Discord in the middle (`session_service.py`,
  `recovery_service.py`, `announcement_service.py`) interleave at each await.
- Background loops on the event loop: recovery every 5 s, policy sweep and progression
  sweep every 30 s, the digest.
- SQLite runs in WAL mode through pysqlite, which opens no transaction for a SELECT: a
  transaction holds the write lock from its first write to its commit, and what it read
  before that may have changed. A writer waits 5 s for the lock and then fails.

| Component | State | Operations | Hard behaviours | What makes it correct |
|---|---|---|---|---|
| Kernel task queue (`kernel/tasks.py`) | `kernel_tasks`: status, owner, lease token and deadline, claim count | enqueue, claim_next, claim, heartbeat, complete, fail, cancel, release_expired_leases | a worker that stalls past its lease; sweeps; late calls with old tokens | one worker at a time; a superseded worker is shut out; priority respected; abandoned rows come free |
| Presence and leases (`kernel/presence.py`) | `resource_leases`: rows per resource, never deleted; `actor_sessions` | claim, heartbeat, release by row id or token; session upserts | calls that name an old row; expiry between two clock readings | only the newest row is live; one holder |
| Remote task service (`services/remote_task_service.py`) | `remote_tasks`, assignments, approvals, evidence, notes; a lease row per claim; kernel mirrors of approvals | create, claim, claim_next, heartbeat, evidence, approvals, complete, fail, interrupt, stale cleanup | ownership and approvals are kept twice; the kernel API changes the mirrors behind the task | both records agree; a former holder's token is refused |
| Remote codex (`behaviors/remote_codex`) | `remote_codex_commands`, snapshots, a shadow row in the kernel queue | enqueue turn / interrupt / delete, claim, heartbeat, result, cleanup of stale tasks | several commits per call; calls repeated by agents | a command runs at most once; command and task end, and end alike |
| Device agent (`pc_launcher/connectors/remote_executor/device_agent.py`) | the command in hand | claim, run, evidence, heartbeat, complete, report | lost requests, lost answers, restarts | as above |
| Chat tasks (`behaviors/chat/task_coordinator.py`) | conversation, its bound task, its v2 operation, messages | claim, heartbeat, evidence, complete, fail, approvals, interrupt, open, close | each call is several transactions, in threads; close reads before it locks | conversation, operation and task agree; closed is final; results are announced |
| Conversations and speech (`conversation_service.py`) | conversations, messages, expected_speaker, idle counter | open, submit_speech, handoff, close, idle sweep | sweep against speech; one general conversation per thread | each tier warns once; no speech after close |
| Governance (`kernel/v2/policy_engine.py`, the sweepers) | operation policy, events with seq, participants | admissibility of speech and close, auto-defer, nudge | plan in one transaction, emit in another; 1000-event window | no speech past the cap; a quorum is a quorum; one defer per obligation, and every obligation ends |
| v2 actors, tokens, inbox | actors, tokens, last_seen_seq | ensure, mint, revoke, mark_seen | cursor moved by two calls | cursor never moves back |
| Sessions (`session_service.py`, `recovery_service.py`, `worker_registry.py`) | sessions, agents, launchers, operations | start, pause, resume, close, register, heartbeat, claim_launches, recovery | recovery decides on rows loaded before an await; two launchers, one profile | the work's rules survive the lifecycle; a wanted session is served again; a closed one drains |
| Jobs (`session_service.py`) | jobs, tasks with revision, handoffs, epoch | claim_next_job, complete, fail, reset, orphan recovery, handoffs | two worker processes of one agent; late reports after recovery or reset | one running job per agent; settled once, by its worker; cards held while in progress; nothing of an old epoch |
| Verification (`verification_service.py`) | runs, artifacts, reviews | enqueue, claim, complete, review | review before completion; launcher dies | reviewed once, after it ran |
| Announcements (`announcement_service.py`) | status message id and hash | sync | two syncs across awaits | one status message, the newest |
| Broker (`kernel/subscriptions.py`) | backlog per space, subscriptions, presence | publish, subscribe, close | threads, reconnect with an old cursor | no gap or repeat that goes unnoticed |
| Approvals, scratch, operations (`kernel/`) | keyed rows with expiry | put, get, resolve | lazy expiry | decided once |
| Remote claude | commands, sessions | as remote codex, without tasks | as remote codex | as remote codex |
| Runner, launcher, worker, participants (`pc_launcher`) | what each has in hand | poll, run, report | lease not renewed while working | see the service each one calls |

How they interact: the remote task service calls the lease service inside its own
transaction; remote codex and the chat coordinator call the remote task service in
transactions of its own; the coordinator mirrors into operations in the transaction that
writes the chat message; agents reach everything through HTTP, so any answer can be lost.
Everything publishes to the broker after its commit.

The hazards of this code, each at its line, are listed in `PROJECT.json` with the
properties that guard against them, or with the reason there is none.

## What is modelled

```
ExclusiveLease          abstract: one holder, never passed on in one step
   ^            ^
KernelTasks   ResourceLeases          SessionJobs      Governance
                   ^   EXTENDS            ^   EXTENDS, and implements
               RemoteTasks            Sessions
                ^       ^  EXTENDS
        RemoteCodex   ChatTask
```

Conventions of all modules. A table is a function from ids to rows. A lease row keeps
`left`, the time units until its deadline; 0 is "expires_at <= now" and `Tick` lets time
pass, so an expiry can come between any two calls. A uuid4 token is the number of the
draw. A call that raises changes nothing and is no action. Any token ever drawn may be
presented at any time: this stands for retries, stalls and late answers alike. Bounds
are constants named `Max...`; they limit how long a history TLC explores and are left
unbounded by the proofs. An operator that carries a source name models that function;
operators marked "Mutant" are not part of the model, they show that a property depends
on the code beside them.

### ExclusiveLease

What any lease of the bridge promises. `Grant` gives a free resource a holder, `Lapse`
ends leases; no step passes a resource on.

### KernelTasks

`kernel/tasks.py`, every operation. `tasks` is the table, `issued` remembers which claim
drew which token. `claim_next` is one action with its whole handler: the sweep of expired
rows (`release_expired`, at most `BatchSize` rows), the choice by priority and age, and the
claim. `heartbeat`, `complete`, `fail` and `cancel` go through `require_owned_row`, which
compares the token and nothing else. Left out: payload, result and error texts.

### ResourceLeases

`PresenceService`'s leases: a growing history of rows per resource. The claim renews the
caller's own live row, is refused when another's row is live, and otherwise marks what has
run out and appends. The clock is read twice in a claim (168 and 284), so a row found
run out may or may not be marked: a choice in the model. A status is free text; the
service gives meaning to "expired" only, and no caller sends it
(`ResourceLeasesAssumption`). Actor sessions are written and listed and never decided on:
not modelled. The module has no run of its own: `remote_tasks` runs its operations and checks
`OnlyNewestIsLive` on them, but the task service names current rows only; that late calls with
the id of an old row do no harm is what `ResourceLeases_proofs` shows.

### RemoteTasks

`RemoteTaskService`, extending the lease module with tasks, assignments and approvals;
each operation performs the lease operation it calls in the same action. Of the texture
of the code that the model keeps: claim does not look at the task's status; a re-claim by
the same actor reuses assignment and token; the assignment's expiry uses a clock reading
earlier than the lease's; a denial fails the task and leaves the lease alone; a heartbeat
may write any phase, "blocked_approval" included, without an approval; the kernel's own
approval API can settle the mirror; `claim_next` offers queued tasks only. Notes, evidence
texts and presence rows are write-only and left out. Assumed: nobody uses the generic
lease API with resource kind "remote_task".

One action per call is right for the event loop. The chat coordinator also calls this
service from pool threads; see [limits](#limits).

### RemoteCodex

A browser's commands, the tasks behind them and the device agent. `agent` is the
program counter of `execute_next_command`; each of its steps is one HTTP request that may
be refused, lost, or have its answer lost. A call that commits twice (claim, result) can
stop after the first commit. `ViewTask` is the cleanup that runs when somebody looks at a
task. `AgentRestart` forgets everything. One machine, one thread; the half hour the
cleanup waits is not counted. thread.start and fs.* commands take the path of
thread.delete without its guard.

### ChatTask

The chat coordinator over RemoteTasks. `conversations` holds a conversation with the state
of its operation; `calls` holds, per request thread, the call and the transaction due next:

| Call | Transactions |
|---|---|
| claim, heartbeat, request, interrupt | task service; emit |
| fail, resolve (deny) | task service; emit; close (read; write) |
| resolve (approve) | task service; emit |
| add_evidence | lease look-up; task service; emit |
| complete | evidence count; task service; emit; close (read; write) |
| close by hand, abandonment | close (read; write) |

A call that is refused in its first transaction leaves nothing and is no action.
`emit` is one action because it inserts its message, and so takes SQLite's lock, before
it reads the operation; `close` is two because it reads conversation and operation before
its first write. `break_off` ends a call between two transactions: the process stops, or
the database stays locked. `Emitted` applies the operation's graph: a state the graph has
no edge to rolls back message and owner. `open_conversation` commits the task first.

Left out: texts and artifacts, capabilities (any actor may make any call), who is expected
to speak, the idle clock (an abandonment may come at any time), closing policies other
than the default, and the kernel's own approval API. `transfer_owner` is refused for
conversations with a task.

### SessionJobs

The work of one workflow session. `jobs`, `tasks` (cards) and `handoffs` are the tables as
sequences in the order of `created_at`, `epoch` is `session_epoch`, `proc` the worker
processes. `claim_next_job` is one action with all its branches: an orphan of the agent is
put back first, then a pending job, a handoff within `max_parallel_agents` and without a scope
conflict, or a sweep for the curator. `complete_job` takes a report with the handoffs, the
discussion or the rejection it contains; `fail_job` creates the recovery jobs. Any number of
processes may live for one agent, any of them may take over the running job, die, or report
twice or late. What surrounds the work is left open (processes start and die, work is
cancelled, at any moment), which makes this module the abstract specification of the next.

### Sessions

The lifecycle around that work: the session row, each agent's `worker_id` and whether it was
heard of, the daemons and their processes, and one recovery under way. `RecoverBegins` reads
the session and its agents, Discord is asked in between, `RecoverDecides` writes from what
was read (`recovery`): any call may be served meanwhile. A daemon claims launches, spawns,
reaps and reconciles; a worker registers, heartbeats from one thread, polls and reports from
another; each call may lose its answer and each process may die (`MaxFaults`).
`ImplementsSessionJobs` is `SessionJobs!Spec` itself: the work's variables are the same.

### Governance

A conversation without a task and its v2 operation. `log` is `operation_events_v2`, whose
`seq` is the place in the sequence; `conv` is the conversation's row; `participants` grows
with every event's author and addressees. A request in a pool thread is two actions: it
reads the conversation's row, then writes under the lock, deciding still from the row as
read but from the log as it is (`Column` writes a column only where it differs from the row
read, as the session's flush does). `Attach` is `append_event`'s second transaction, which
adds the artifact or the intent. On the event loop, one at a time: handoff, the idle sweep
with its abandonment, the policy sweep (`PolicyPlan` plans, `_emit_defer` submits each
defer as a speech of its actor, to be admitted or refused like any) and the progression
sweep (`ProgressTick`, `emit_system_event`). Time is free: a sweep may find any silence long
enough. Left out: texts, private events, capabilities and tokens (any actor may call),
`operator_ratifies` can be chosen but never met, as in the code.

## The runs

| Run | Instance | Question |
|---|---|---|
| `kernel_tasks` | 2 tasks of 2 kinds and priorities, 2 workers, 3 claims, leases up to 2 units | Do tokens fence, are leases kept, is the order right, is it an exclusive lease? |
| `kernel_tasks_live` | 2 tasks, 1 worker, 3 kinds, fair | Does an abandoned row come free? |
| `kernel_tasks_terminal` | 1 of each | Is a finished row final? **Violated.** |
| `remote_tasks` | 1 task, 2 actors, 3 claims, 1 approval | Do both ownership records agree, are former holders' tokens refused? |
| `remote_codex` | a turn, its interrupt, a delete; 1 agent; fair | At most one execution, final results, no task under way for ever? |
| `chat_task` | 1 conversation, 2 actors, 2 threads, 2 claims, 1 approval, 1 broken call | Do conversation, operation and task agree under interleaving? |
| `chat_task_mirror` | 1 actor, 1 thread | Does the graph permit what the task service did? **Violated.** |
| `chat_task_closed` | 1 actor, 2 threads | Is a conversation closed once? **Violated.** |
| `session_jobs` | planner (curates too) and coder, 2 workers for either, 3 jobs, 2 cards of one scope, 2 handoffs, 1 reset | Is work handed out once, settled once, by its worker and in this epoch? |
| `session_jobs_late` | the same | Does a report on an old revision leave the card alone? **Violated.** |
| `sessions` | 1 agent, 2 processes, 1 launcher, 1 recovery at a time, 1 job, 1 fault; fair | Does the lifecycle keep the work's rules, take orphans over, serve again, drain? |
| `governance` | opener, addressee, outsider; 1 thread beside the loop; two openings; 3 client events, 2 nudges, 5 events in the sweep's window; fair | Caps, quorum and obligations under interleaving |

Why the bounds suffice. Rows of different resources, tasks or conversations do not
interact except through `claim_next`'s choice and its sweep, so one of each is enough
where there is no choice, and two (of different kind, priority and age) where there is
one. Two actors are needed for a succession; three claims let the first actor come back
after the second, with its old token still good for a late call. A lease of two units
(`kernel_tasks`) lets one lease run out while another does not; where
one thing is leased at a time, one unit gives both a lease that runs and one that is
over. Two threads give every pair of overlapping calls; the properties speak of one call
and one interferer. One broken call shows what stays behind. The proofs then remove the
bounds.

`session_jobs` (about 1.4 million states) has two agents because handoffs go from one to the
other, two processes because one must steal from the other, and a second epoch because a
reset needs work on both sides of it; three jobs are a card's job, its recovery and one
more. `PlannerByName` tells an agent called "planner", whose own failed handoff asks for no
recovery, from one found by its role, whose does; the runs have the first, the proofs both. `sessions` (about 190 000 states) has one agent: the status of a session is a
function of whether some agent lacks a worker, and the work of several agents is in
`session_jobs`. A process and its replacement are the two workers. `governance` (about
326 000 states) has a free opening with a cap of one (so a defer meets the cap) and
`requires_artifact`, and a quorum opening with two ratifiers and a cap of three (so a
ratification by one actor twice, a ratification by a third and one still without its intent
all occur). The window of five events is shorter than the log can grow, so events past it
occur too. A progression tick reads three later events (`LaterLimit`).

`CHECK_DEADLOCK FALSE` everywhere: when the bounds are used up and every row is settled
there is nothing left to do, as in a bridge nobody calls.

### Properties

- **KernelTasks**: `SupersededIsRejected`, `BestFirst` (steps);
  `ImplementsExclusiveLease` (refinement, the holder is the owner of a row whose lease
  runs); `AbandonedIsReleased` (liveness).
- **ResourceLeases**: `OnlyNewestIsLive`.
- **RemoteTasks**: `LeaseIsAssignment` (the two ownership records), `StatusAgreesWithLease`,
  `NoGhostApproval`, `PredecessorsTokenIsRefused` (report, approval request and heartbeat, the
  calls that present a token), `ImplementsLeases`.
- **RemoteCodex**: `RunAtMostOnce`, `TaskEndsOnce`, `WorkingEnds` (liveness).
- **ChatTask**: `MirrorFollowsTask` (nothing in the room runs ahead of the task),
  `CompletionIsEvidenced`, `CompletionIsAnnounced`, `ClosedIsFinal`.
- **SessionJobs**: `OneRunningJob`, `WorkIsCurrent` (nothing of an old epoch is open),
  `OpenHandoffIsNewest`, `CardInProgressIsHeld` (state); `SettledStays`,
  `SettledByItsWorker`, `CardSettledWithItsJob` (steps).
- **Sessions**: `ImplementsSessionJobs` (refinement); `TakenOnlyFromTheDead` (steps);
  `OrphanEnds`, `ServedAgain`, `ClosedDrains` (liveness).
- **Governance**: `SpeechWithinCap`, `ClosedByQuorum`, `AutoDeferOnce`; `ObligationEnds`
  (liveness).

Each is stated in words above its definition, and `PROJECT.json` names for each a change
to the model, the way a bug would change the code, that breaks it.

### Fairness

- `kernel_tasks_live`: time passes, and some worker keeps polling for some kind of work
  (`claim_next` in a loop is what workers do). Nothing else: the sweep has no loop of
  its own in the code, so without pollers an abandoned row stays leased, and the property
  holds because a poll of any kind sweeps first. The instance has more kinds than tasks:
  a poll that finds nothing to claim still sweeps, so the bound on claims does not stop
  the pollers.
- `remote_codex`: time passes; the agent goes on with the command in hand (its loop has no
  other wait); somebody keeps looking at each task, which is what runs the cleanup. No
  fairness for restarts, lost calls or the browser.
- `sessions`: the recovery loop comes round and decides (a background task every 5 s); a
  daemon's loop and a worker's main and heartbeat threads go on (each a `while` loop with a
  sleep); a silence is noticed (heartbeats grow old by the clock). For
  the daemon, the main thread and the aging it is their steps without a fault that are fair
  (`NoFault`), and faults are bounded: of a system that crashes for ever nothing can be
  promised. No
  fairness for the operator, for messages or for Discord.
- `governance`: the loop finishes what it has begun, and the policy sweep comes round (a
  background task every 30 s). No fairness for clients, nor for the progression and idle sweeps.
- The passing safety runs assume none, and neither do the violated ones, whose properties are
  about states and steps.

## What is proved

For every value of the constants that satisfies the named assumptions, with no bound on
claims, approvals, threads or broken calls other than that they are numbers.

**KernelTasks_proofs.** `IInv` is a conjunction over rows: the lease columns agree, the
token of a row is an index of `issued` that names the row and its owner, and no later
index names the row. Each action touches one row or sweeps a set, so a lemma about one row
and one about a swept row carry all actions. `SupersededAreRejected` follows because
`require_owned_row` compares tokens and the row's is the newest of its claims.
`Implementation` maps each action to `Grant`, `Lapse` or a stutter. `BestIsFirst` shows that
the row a claim takes is one that no other row, as the sweep left it, precedes.
`FinishedStaysWithHolder` is what is left of the lifecycle that `kernel_tasks_terminal` refutes:
a finished row is changed by nobody but a caller with the token it was finished under.
`EveryClaimCounts` says that the attempt count is the number of claims. All but the liveness
is proved.

**ResourceLeases_proofs.** `OnlyNewestIsLive` is not inductive: a heartbeat may name an old
row and extend it. `LeasesInv` adds that a row marked "expired" has no time left; with
it, a row that is not the newest is either released or marked, or has run out, and a
heartbeat refuses each of these.

**RemoteTasks_proofs.** The heart is `IInv`: only the last assignment of a task can be open;
the lease is live exactly when that one runs; holder, token and deadline are the same.
The claim needs its own case for the clock read twice: the old assignment then stays
"claimed" with a deadline of 0, and is harmless because the history ends in another
actor's or a newer one. `RemoteTasksUseLeases` gives the lease service's theorems for
tasks, among them `OneHolder`. All properties of `remote_tasks` are proved.

**ChatTask_proofs.** First, every step of the rooms is a step of the task service or leaves
it alone (`ChatUsesRemoteTasks`), so `IInv` above holds here too. Then `ChatInv` adds, for
each conversation, `RowInv` and, for each call under way, `CallInv`: what its earlier
transactions have seen is still true. That is the argument why interleaving does no harm:
assignments, approvals and evidence are never deleted (`StepKeepsHistory`), an operation
leaves "closed" by no edge of the graph, and the one thing that is not monotone, the open
state a close has read, is exactly what `ClosedIsFinal` excepts. All properties of
`chat_task` are proved. Two more say what is left of the comment that `chat_task_mirror`
refutes: a granted claim reaches its operation (`ClaimsReachTheRoom`), and only events before the
work has begun, or ahead of their claim's event, are refused (`OnlyEarlyEventsAreRefused`).
Their invariant, `EarlyInv`, needs that a task without assignments stays so in every step but
a claim (`UnclaimedStays`), and that no event leads to "verifying" or back to "open".
The theorems of RemoteTasks carry to the rooms only as far as the service's calls are
transactions; in the `/v2` thread pool two claims may overlap (see Limits), so one holder and one
record of ownership are not asserted of the rooms.

**RemoteCodex_proofs.** Every step of the queue, the cleanup and the agent is a step of the
task service or leaves it alone (`CodexUsesRemoteTasks`). `CodexInv` adds, per command,
that what is queued was never run and what completed was (`CommandInv`), and, for the agent,
that where it stands in `execute_next_command` says how often its command was run
(`Placed`). `RunAtMostOnce` needs that no command goes back to "queued"; `TaskEndsOnce`
needs that a task that is over has nobody assigned (`Unassigned`), so a late report is
refused. `TasksAreSafeForBrowsers` states for the browser's tasks, all of whose calls are made
on the event loop, one record of ownership, one holder and the refusal of a predecessor's token. All but the liveness is proved.

**SessionJobs_proofs.** `IInv` is one part per table: `JobsInv` (live jobs are of this epoch,
running ones have a worker, one per agent), `TasksInv` (cards that can be worked are of this
epoch, those being worked share no scope), `HandoffsInv` (open handoffs are of this epoch and
the newest of their card), `Held` (a card in progress has a job of its revision that is
live or was cancelled) and `ProcInv`. `Held` is what makes `CardInProgressIsHeld` inductive: a late
report may settle a card only if that card is no longer in progress under another job.
`ScopesStayDisjoint` is proved beyond the runs. All properties of the run are proved.

`EachRevisionOnce` (`RevisionWorkedOnce`) has an invariant of its own. A late report may
finish a card under a newer revision, so what keeps a revision from being worked twice is not
the card's state: `WorkInv` says that no job is ahead of its card, and that a job for the card's
present revision, unless cancelled, is unsettled, the assigned agent's, and leaves no
handoff of the card queued. A claim then meets the card with no such job or answers with the job
the agent has, and every report, a late one too, raises the revision of its card. That a
process works for one agent (`Serving`) is needed for the reports that hand on.

**Sessions_proofs.** Each action is shown to be an action of SessionJobs or to leave its
variables alone, using that a process that calls is registered (`SessionTypeOK`). The work's
theorems follow for the whole lifecycle (`WorkIsSafeInSessions`), whatever the recovery
has overwritten.

Two further theorems are about processes. `OneProcessOnAMachine`: at most one process of an
agent runs on a machine. It is not inductive, since a daemon that starts knows of none; `ProcessInv`
adds that what runs is on the books of a daemon that is up, which holds after a start because
the daemon kills what it finds of its own id (taken for granted: the list of processes is
complete and what is killed ends). `LiveKeepTheirJobs` (`TakenOnlyFromTheDead`): a job passes
from a process only when it has ended or another machine's has taken its place. It rests on that
and on `NamesInv`: a process that a running job names has registered, for the job's agent.

**Governance_proofs.** Two things are not inductive by themselves. A ratification counts
because of an artifact attached to an earlier event, and attaching comes later: so `IInv`
says that replies go back in the log (`Refs`) and that every pending attachment has an event of
its own that carries nothing yet (`Attaching`). And a defer is planned, read and written in
three transactions: `Deferring` says that what is planned or under way is in the log not yet. With
these, each call "advances" the log by lawful events, and one lemma per invariant
(`CapAppended`, `QuorumAppended`, `DeferAppended`) carries all calls. All but the liveness
is proved. `NudgesEnd` (`EscalatesOnce`) is the part of "no infinite nudge loop" that is
true: about one event @system nudges at most `MaxRetries` times among the `LaterLimit` events a
tick reads (500 in the code), and then defers once, for good. Its
invariant `Escalating` says that only the loop escalates, and that an escalation under way
is either a nudge within the limit or the first defer about its event.

What stays with TLC: liveness and fairness, which the prover does not handle
(`AbandonedIsReleased`, `WorkingEnds`, `OrphanEnds`, `ServedAgain`, `ClosedDrains`,
`ObligationEnds`), and the four violated properties, which are false.

Some properties are proved and are in no run; TLC checked each:
`FinishedAnswersToLastHolder` and `ClaimsCounted` on `MCKernelTasks.cfg`;
`RevisionWorkedOnce` on `MCSessionJobs.cfg` and, in part, with three agents and three workers;
`EscalatesOnce` on `MCGovernance` with four nudges and `LaterLimit` 2 (about 1.1 million states); `ClaimIsAnnounced` and
`RefusesOnlyEarlyEvents` on `MCChatTask.cfg`; `OneProcessPerAgent` (and `TakenOnlyFromTheDead`)
with two workers, two faults and `Restore` (810 000 states) and with two launchers and three
workers (5.8 million).

## Where code and documents disagree

Each is a run that TLC ends with a counterexample.

1. `kernel_tasks_terminal` - `complete`, `fail` and `cancel` leave the token on the row and
   `heartbeat` compares only the token: a late heartbeat takes a finished row back to
   executing, after which the work can be queued and done again. The module's docstring
   and a test describe terminal states as final. `FinishedStaysWithHolder` bounds it: only the
   worker that finished the row can do this.
2. `chat_task_mirror` - an approval requested directly after the claim blocks the task and
   is then refused by the operation's graph, which has no edge from "claimed" to
   "blocked_approval": the caller gets an error, the event is rolled back and the task
   stays blocked. The mirror's comment says the graph permits what the services permit.
   `OnlyEarlyEventsAreRefused` bounds it.
3. `chat_task_closed` - two closes that overlap both read "open" and both write; the second
   resolution stands. The protocol specification says the second is answered with 400.

4. `session_jobs_late` - a report settles its job's card without comparing revisions. When
   the card was handed on while the job ran, the late report sets it done; the newer handoff
   stays queued for a card that is no longer ready. `docs/architecture.md` says the stored
   revision, token and epoch prevent exactly this. `EachRevisionOnce` bounds it: no revision
   of a card is worked twice.

## Other observations

Behaviour the models contain, or that was met while writing them, that no run is about.

Leases and tasks. `claim_task` does not look at the status, so a settled task is claimed and
run again, although `docs/browser-first-remote-codex.md` says only queued tasks are
claimed. `task_coordinator.interrupt` says the lease is kept and the service releases it;
`resolve_approval` says a denied task cannot proceed, while its lease stays live and its
holder can heartbeat it back to executing; `add_evidence` asks for no assignment
(`remote_task_service.py:243-260`), so late evidence of a former holder takes a task that was
claimed again from "claimed" to "executing"; a heartbeat may set "blocked_approval" without an
approval record. Commands of remote codex and of remote Claude have no lease: one whose
claim's answer was lost stays running.

Sessions and jobs.
- After `session_jobs_late`'s report, the stale handoff is the oldest its agent looks at
  and hides the agent's other handoffs.
- An orphan put back to pending and then cancelled by a pause leaves its card in progress;
  `CardInProgressIsHeld` excepts cancelled jobs for this reason.
- A next_job answer that is lost leaves the job running with a live worker that does not know
  of it: nothing takes it over until that process ends.
- `register_worker`, `enqueue_restart` and a recovery that read before a close write a status
  onto a closed session; `ClosedDrains` shows its processes are stopped nevertheless.
- `_is_stalled_start` measures from `created_at`, so an old session is stalled at once
  when it starts again.
- Two live processes of one agent take `worker_id` from each other at every heartbeat.
- With several agents and `restore_last_session` off, a session that has lost one worker
  stays "launching" and is offered to nobody (`session_service.py:510`).

Governance.
- The progression sweep's own defer becomes the last speech and is addressed to the same
  silent actor, so nudges and defers repeat without end; `progression_sweeper.py:27` says
  there is no infinite nudge loop, which is true of each event while what follows it is in
  sight (`EscalatesOnce`): past 500 later events the nudges for it are not all counted, so they
  may go on. These events
  also ignore `max_rounds` and a closed
  state, against `docs/protocol-v3-spec.md:256-258`.
- The policy sweep fires as soon as the newest seq reaches `by_round_seq`; the specification
  (302-303) says "exceeds".
- Past the first 1000 events a defer is emitted again at every sweep, and ratifications no
  longer count.
- `requires_artifact` is met by the digest on the closing event of a concurrent
  abandonment, so a close can end as "accepted" with nothing delivered.
- The over_speech notice can be doubled or skipped through a stale count; "@bob" as
  expected speaker is not cleared by bob's speech; any earlier speech makes an outsider a
  participant, so `invite_only` does not keep out who spoke before joining; evidence with an
  invalid artifact is refused with 400 after its speech was committed.

Elsewhere. A stream drops a message whose cursor is lower than one it has sent
(`api/events.py:96`), and cursors are timestamps taken before the commit: publishing out of
order loses the older message for that reader. `mark_seen` compares before it locks, so two
calls can move a read cursor back.

## Limits

- The task service's calls are one transaction each, and in the model one action each, on
  whichever thread they run. pysqlite's reads are outside the write lock, so two `/v2`
  claims in two threads may both find no live lease and both insert one. `ChatTask`'s
  properties rest only on rows that are never deleted and would survive this, but
  `LeaseIsAssignment` and `OneHolder` are claims about calls made on the event loop.
- A running command whose agent died stays running: commands have no lease. `WorkingEnds`
  is about tasks.
- The bridge is one process; several bridges over one database are not considered.
- A report carries one handoff and one discussion at most in `SessionJobs`; the code takes up to
  `MAX_HANDOFFS_PER_COMPLETION` and `MAX_DISCUSSIONS_PER_COMPLETION` in one transaction, one
  after the other. Several in one report are neither checked nor proved.
- Clock jumps: time only passes forward and alike for all rows.
- `sessions` follows one recovery at a time and one agent; `governance` one request at a time
  beside the event loop in its run (its proofs are for any number of threads).

## Not modelled

`PROJECT.json` lists each with its reason. In short:

- **Subscription broker and event streams**, **chat participants**: in-memory queues and
  their readers; see the observation above.
- **Verification runs**, **remote Claude**: queues whose rows are claimed once without lease,
  token or retry, and about whose abandoned rows nothing is promised.
- **Remote executor runner**: makes the calls of RemoteTasks, where every order of them is
  already allowed; the lease it does not renew while it works is a late caller there.
- **v2 actors, tokens, inbox**, **kernel approvals, scratch, operations**: single reads and
  writes of keyed rows.
- **Claims from pool threads**: see the limits.
- **Files, texts, Discord, schemas, demonstrations and test drivers**: no protocol state.
