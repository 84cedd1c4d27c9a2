---------------------------- MODULE SessionJobs ----------------------------
(***************************************************************************)
(* The work of one workflow session: jobs, task cards and handoffs, as     *)
(* SessionService in nas_bridge/app/session_service.py hands them out, and *)
(* the worker processes (pc_launcher/worker_runtime.py) that carry them    *)
(* out.  Every call is one transaction on the event loop, one action.      *)
(*                                                                         *)
(* What surrounds the work is left open here: worker processes start and   *)
(* die, several may live for one agent, and work is cancelled at any       *)
(* moment, with the session paused or closed.  Module Sessions has the     *)
(* lifecycle that decides these things, that names one process the agent's *)
(* worker, and that refuses claims and messages in some of its states; it  *)
(* is shown to implement this module.                                      *)
(*                                                                         *)
(* Rows are numbered in the order of created_at.  A job's lease token is   *)
(* drawn once and kept, so it tells no two claims of the job apart and is  *)
(* left out, with the job's row in the lease table, which the job's agent  *)
(* alone uses.  Of a job's type only what the queries ask of it is kept; a  *)
(* verification job differs from a handoff job in its prompt only.         *)
(***************************************************************************)
EXTENDS Naturals, Sequences, FiniteSets

CONSTANTS
  Agents, Workers,    \* agents of the session, worker process ids
  Crew,               \* the agents in the order of their rows
  None,               \* an absent worker
  Role,               \* Role[a]: the role a manifest gives an agent
  Planner, Curator,   \* the agents in these parts (None, or one in both)
  PlannerByName,      \* Planner is named "planner", not found by its role
  MaxParallel,        \* policy.max_parallel_agents
  Scopes,             \* what task cards may touch: sets of files and topics
  MaxJobs, MaxTasks, MaxHandoffs, MaxEpoch  \* bounds on the rows and on resets;
                      \* the rows of a last reset may exceed MaxJobs

ASSUME SessionJobsAssumption ==
  /\ None \notin Agents \cup Workers
  /\ Crew \in Seq(Agents) /\ \A a \in Agents : \E i \in DOMAIN Crew : Crew[i] = a
  /\ Planner \in Agents \cup {None}
  /\ Curator \in Agents \cup {None}
  /\ PlannerByName \in BOOLEAN
  /\ MaxParallel \in Nat \ {0}
  /\ MaxEpoch \in Nat \ {0}
  /\ IsFiniteSet(Workers)

VARIABLES
  epoch,       \* sessions.session_epoch
  jobs,        \* the jobs table
  tasks,       \* the tasks table
  handoffs,    \* the handoffs table
  proc         \* the worker processes

vars == <<epoch, jobs, tasks, handoffs, proc>>

LiveStates     == {"pending", "in_progress"}
TerminalStates == {"completed", "failed", "cancelled"}
\* What the queries tell apart: "plain" are messages, restarts and discussions,
\* "planning" orchestration, routing and handoff_repair, "curation" events and sweeps.
JobKinds == {"plain", "planning", "recovery", "handoff", "curation"}

\* "ready" stands for review and verify as well: the queries ask for the three.
TaskStates     == {"ready", "in_progress", "done", "blocked_on_operator", "failed"}
OpenHandoff    == {"queued", "claimed"}
SettledHandoff == {"superseded", "consumed", "failed"}

\* A job with task 0 works no task card.
Jobs     == [agent : Agents, kind : JobKinds, status : LiveStates \cup TerminalStates,
             worker : Workers \cup {None}, epoch : Nat, task : Nat, revision : Nat,
             handoff : Nat]
Tasks    == [state : TaskStates, revision : Nat, epoch : Nat, assigned : Agents,
             scope : Scopes]
Handoffs == [task : Nat, target : Agents, state : OpenHandoff \cup SettledHandoff, epoch : Nat]
\* A process is gone, polls, works on a job, or has seen its report of the job fail.
Procs    == [state : {"gone", "idle", "working", "failing"},
             agent : Agents \cup {None}, job : Nat]

TypeOK ==
  /\ epoch \in 1 .. MaxEpoch
  /\ jobs \in Seq(Jobs)
  /\ tasks \in Seq(Tasks)
  /\ handoffs \in Seq(Handoffs)
  /\ proc \in [Workers -> Procs]

Gone == [state |-> "gone", agent |-> None, job |-> 0]

Init ==
  /\ epoch = 1
  /\ jobs = << >> /\ tasks = << >> /\ handoffs = << >>
  /\ proc = [w \in Workers |-> Gone]

-----------------------------------------------------------------------------
(* Rows *)

Live(j)    == jobs[j].status \in LiveStates
Running(a) == {j \in DOMAIN jobs : jobs[j].agent = a /\ jobs[j].status = "in_progress"}

Job(a, kind) == [agent |-> a, kind |-> kind, status |-> "pending", worker |-> None,
                 epoch |-> epoch, task |-> 0, revision |-> 0, handoff |-> 0]

Smallest(S) == CHOOSE x \in S : \A y \in S : x <= y

\* The rows of js with one of the states become cancelled.
Cancelled(js, states) ==
  [j \in DOMAIN js |-> IF js[j].status \in states THEN [js[j] EXCEPT !.status = "cancelled"]
                                                ELSE js[j]]

HasLiveJob(js, a, kinds) ==
  \E j \in DOMAIN js : js[j].agent = a /\ js[j].kind \in kinds /\ js[j].status \in LiveStates

-----------------------------------------------------------------------------
(* Work that comes from Discord *)

Fits(n) == Len(jobs) + n <= MaxJobs

route_discord_message(a, kind) ==
  /\ kind = "plain" \/ (kind = "planning" /\ a = Planner)
  /\ Fits(1)
  /\ jobs' = Append(jobs, Job(a, kind))
  /\ UNCHANGED <<epoch, tasks, handoffs, proc>>

enqueue_restart(a) ==
  /\ Fits(1)
  /\ jobs' = Append(jobs, Job(a, "plain"))
  /\ UNCHANGED <<epoch, tasks, handoffs, proc>>

\* Mutant: the cards and handoffs keep the epoch they were made in.
reset_jobs_only ==
  /\ epoch < MaxEpoch
  /\ Fits(1)
  /\ epoch' = epoch + 1
  /\ jobs' = Cancelled(jobs, LiveStates)
               \o [i \in DOMAIN Crew |-> [Job(Crew[i], "plain") EXCEPT !.epoch = epoch + 1]]
  /\ UNCHANGED <<tasks, handoffs, proc>>

\* Everything live is cancelled, task cards and handoffs that were being worked
\* are offered again under the new epoch, and every agent restarts.
reset_session ==
  /\ epoch < MaxEpoch
  /\ Fits(1)
  /\ epoch' = epoch + 1
  /\ jobs' = Cancelled(jobs, LiveStates)
               \o [i \in DOMAIN Crew |-> [Job(Crew[i], "plain") EXCEPT !.epoch = epoch + 1]]
  /\ tasks' = [t \in DOMAIN tasks |->
                 [tasks[t] EXCEPT !.epoch = epoch + 1,
                                  !.state = IF @ = "in_progress" THEN "ready" ELSE @]]
  /\ handoffs' = [h \in DOMAIN handoffs |->
                    [handoffs[h] EXCEPT !.epoch = epoch + 1,
                                        !.state = IF @ = "claimed" THEN "queued" ELSE @]]
  /\ UNCHANGED proc

-----------------------------------------------------------------------------
(* A worker asks for work: claim_next_job *)

\* The agent's job in progress was handed to another worker.
Orphaned(w, j) == jobs[j].worker \notin {None, w}

\* The answer of a granted claim reaches the worker, or is lost on the way.
Answered(w, j) ==
  \/ proc' = [proc EXCEPT ![w].state = "working", ![w].job = j]
  \/ proc' = proc

Started(row, w) ==
  [row EXCEPT !.status = "in_progress", !.worker = w, !.epoch = epoch]

AtLimit(js, a) ==
  /\ a # Curator
  /\ Cardinality({j \in DOMAIN js : js[j].status = "in_progress"}) >= MaxParallel

PendingOf(js, a) == {j \in DOMAIN js : js[j].agent = a /\ js[j].status = "pending"}

\* js are the jobs once an orphan has been put back; the agent runs none of them.
ClaimPending(w, js) ==
  LET a == proc[w].agent
      j == Smallest(PendingOf(js, a))
  IN  /\ ~ AtLimit(js, a)
      /\ PendingOf(js, a) # {}
      /\ jobs' = [js EXCEPT ![j] = Started(@, w)]
      /\ Answered(w, j)
      /\ UNCHANGED <<tasks, handoffs>>

Conflict(t, u) == tasks[t].scope \cap tasks[u].scope # {}

\* Its files and topic are free of every other card in progress.
_can_self_claim_task(t) ==
  \A u \in DOMAIN tasks \ {t} : tasks[u].state = "in_progress" => ~ Conflict(t, u)

\* Queued handoffs to the agent, or to the role it shares with the target.
HandoffsFor(a) ==
  {h \in DOMAIN handoffs :
     /\ handoffs[h].state = "queued" /\ handoffs[h].epoch = epoch
     /\ handoffs[h].target = a \/ Role[handoffs[h].target] \in {Role[a], a}
     /\ _can_self_claim_task(handoffs[h].task)}

TaskIsReady(t) == tasks[t].state = "ready" /\ tasks[t].epoch = epoch

\* Only the oldest of them is looked at: when its card is not ready, no other is
\* tried.
ReadyHandoff(a) ==
  {h \in HandoffsFor(a) : (\A g \in HandoffsFor(a) : h <= g) /\ TaskIsReady(handoffs[h].task)}

_claim_ready_task_job(w) ==
  \E h \in ReadyHandoff(proc[w].agent) :
    LET a == proc[w].agent
        t == handoffs[h].task
    IN  /\ Fits(1)
        /\ jobs' = Append(jobs, [Started(Job(a, "handoff"), w) EXCEPT
                                   !.task = t, !.revision = tasks[t].revision, !.handoff = h])
        /\ tasks' = [tasks EXCEPT ![t].state = "in_progress", ![t].assigned = a]
        /\ handoffs' = [handoffs EXCEPT ![h].state = "claimed"]
        /\ Answered(w, Len(jobs) + 1)

\* What a sweep finds depends on activity times and artifacts: it may find nothing.
_claim_curator_sweep_job(w) ==
  /\ proc[w].agent = Curator
  /\ ReadyHandoff(Curator) = {}
  /\ Fits(1)
  /\ jobs' = Append(jobs, Started(Job(Curator, "curation"), w))
  /\ Answered(w, Len(jobs) + 1)
  /\ UNCHANGED <<tasks, handoffs>>

\* The orphan goes back to pending, the jobs are counted again, and the oldest
\* pending job, the orphan or an older one, is claimed if the limit allows it.
ClaimAfterOrphan(w) ==
  \E j \in Running(proc[w].agent) :
    LET js == [jobs EXCEPT ![j].status = "pending", ![j].worker = None]
    IN  /\ Orphaned(w, j)
        /\ \/ ClaimPending(w, js)
           \/ /\ AtLimit(js, proc[w].agent)
              /\ jobs' = js
              /\ UNCHANGED <<tasks, handoffs, proc>>

\* Mutant: the agent's running job is not looked for.
ClaimAnyway(w) ==
  \/ ClaimPending(w, jobs)
  \/ /\ ~ AtLimit(jobs, proc[w].agent)
     /\ PendingOf(jobs, proc[w].agent) = {}
     /\ _claim_ready_task_job(w) \/ _claim_curator_sweep_job(w)

ClaimNew(w) ==
  LET a == proc[w].agent
  IN  /\ Running(a) = {}
      /\ \/ ClaimPending(w, jobs)
         \/ /\ ~ AtLimit(jobs, a)
            /\ PendingOf(jobs, a) = {}
            /\ _claim_ready_task_job(w) \/ _claim_curator_sweep_job(w)

\* A poll that is refused, or finds nothing, changes no row.
claim_next_job(w) ==
  /\ proc[w].state = "idle"
  /\ ClaimAfterOrphan(w) \/ ClaimNew(w)
  /\ UNCHANGED epoch

-----------------------------------------------------------------------------
(* A worker reports *)

\* The report is from the job's worker, or from anybody while it has none; the
\* job is not settled yet; and it is of the session's present epoch.
\* Mutant: the job's token is enough, and every claim of the job has the same.
OwnsByToken(w, j) == TRUE

Owns(w, j)    == jobs[j].worker \in {None, w}
\* Mutant: the job's status is not looked at.
SettlesAgain(w, j) == Owns(w, j) /\ jobs[j].epoch = epoch

Settles(w, j) == Owns(w, j) /\ Live(j) /\ jobs[j].epoch = epoch

\* A [[handoff]] block of the report: the card it names (0: none, or a new one),
\* whom it is for, and whether its text is the card's present text.
Requests(a) ==
  {r \in [task : 0 .. Len(tasks), target : Agents \ {a}, same : BOOLEAN, scope : Scopes] :
     r.same => r.task # 0 /\ r.scope = tasks[r.task].scope}

_is_duplicate_ready_handoff(r) ==
  /\ r.same
  /\ tasks[r.task].epoch = epoch
  /\ tasks[r.task].assigned = r.target
  /\ tasks[r.task].state \in {"ready", "in_progress"}
  /\ \E h \in DOMAIN handoffs : /\ handoffs[h].task = r.task /\ handoffs[h].target = r.target
                               /\ handoffs[h].state \in OpenHandoff

Card(r) == IF r.task = 0 THEN Len(tasks) + 1 ELSE r.task

\* The card is ready again under a new revision, its open handoffs are superseded.
_upsert_task_for_handoff(r) ==
  LET row == [state |-> "ready", epoch |-> epoch, assigned |-> r.target, scope |-> r.scope,
              revision |-> IF r.task = 0 THEN 1 ELSE tasks[r.task].revision + 1]
  IN  IF r.task = 0 THEN Append(tasks, row) ELSE [tasks EXCEPT ![r.task] = row]

\* Mutant: a handoff that was claimed is left to whoever claimed it.
QueuedBesideClaimed(r) ==
  Append([h \in DOMAIN handoffs |->
            IF handoffs[h].task = Card(r) /\ handoffs[h].state = "queued"
            THEN [handoffs[h] EXCEPT !.state = "superseded"] ELSE handoffs[h]],
         [task |-> Card(r), target |-> r.target, state |-> "queued", epoch |-> epoch])

QueuedHandoff(r) ==
  Append([h \in DOMAIN handoffs |->
            IF handoffs[h].task = Card(r) /\ handoffs[h].state \in OpenHandoff
            THEN [handoffs[h] EXCEPT !.state = "superseded"] ELSE handoffs[h]],
         [task |-> Card(r), target |-> r.target, state |-> "queued", epoch |-> epoch])

_queue_curator_event(js, a, when) ==
  IF when /\ Curator \in Agents \ {a} /\ ~ HasLiveJob(js, Curator, {"curation"})
  THEN Append(js, Job(Curator, "curation")) ELSE js

_queue_discussions(js, to) ==
  IF to = None THEN js ELSE Append(js, Job(to, "plain"))

_queue_planner_handoff_repair(js, a, rejected) ==
  IF rejected /\ Planner \in Agents \ {a} /\ ~ HasLiveJob(js, Planner, {"planning", "recovery"})
  THEN Append(js, Job(Planner, "planning")) ELSE js

\* The jobs a report adds: about its handoff, its discussion and what was rejected in it.
FollowUps(js, a, queued, to, rejected) ==
  LET handed    == _queue_curator_event(js, a, queued)
      discussed == _queue_curator_event(_queue_discussions(handed, to), a, to # None)
  IN  _queue_planner_handoff_repair(discussed, a, rejected)

Closed(hs, h, state) ==
  IF h # 0 /\ hs[h].state \in OpenHandoff THEN [hs EXCEPT ![h].state = state] ELSE hs

\* Mutant: the card gets the state of its job.
_synchronize_as_job(ts, t, handedOn, question) ==
  IF t = 0 THEN ts ELSE [ts EXCEPT ![t].state = "completed", ![t].revision = @ + 1]

\* Mutant: the card is looked up by its assignee.
_synchronize_by_assignee(ts, t, handedOn, question) ==
  IF t = 0 THEN ts
  ELSE [u \in DOMAIN ts |-> IF ts[u].assigned = ts[t].assigned
                            THEN [ts[u] EXCEPT !.state = "done", !.revision = @ + 1]
                            ELSE ts[u]]

\* The job's card, whatever has become of it since: handed on by this very report,
\* or else done, or waiting for the operator's answer.
_synchronize_completed_task(ts, t, handedOn, question) ==
  IF t = 0 THEN ts
  ELSE IF handedOn THEN [ts EXCEPT ![t].state = "ready"]
  ELSE [ts EXCEPT ![t].state = IF question THEN "blocked_on_operator" ELSE "done",
                  ![t].revision = @ + 1]

\* One report carries at most one handoff, here r, and one discussion, to agent to.
CompleteWith(j, r, queued, handedOn, question, to, rejected) ==
  LET a    == jobs[j].agent
      done == [jobs EXCEPT ![j].status = "completed"]
      ts   == IF queued THEN _upsert_task_for_handoff(r) ELSE tasks
      hs   == IF queued THEN QueuedHandoff(r) ELSE handoffs
  IN  /\ jobs' = FollowUps(done, a, queued, to, rejected)
      /\ Len(jobs') <= MaxJobs
      /\ tasks' = _synchronize_completed_task(ts, jobs[j].task, handedOn, question)
      /\ Len(tasks') <= MaxTasks
      /\ handoffs' = Closed(hs, jobs[j].handoff, "consumed")
      /\ Len(handoffs') <= MaxHandoffs

Reported(w, state) == proc' = [proc EXCEPT ![w].state = state, ![w].job = IF state = "idle" THEN 0 ELSE @]

\* A report that settles nothing (settled before, or of an older epoch) is
\* answered like one that does.
complete_job(w) ==
  LET j == proc[w].job
      a == proc[w].agent
  IN  /\ proc[w].state = "working"
      /\ \/ /\ Settles(w, j)
            /\ \E to \in Agents \cup {None}, rejected \in BOOLEAN, question \in BOOLEAN :
                 \/ \E r \in Requests(a) :
                      CompleteWith(j, r, ~ _is_duplicate_ready_handoff(r),
                                   r.task # 0 /\ r.task = jobs[j].task, question, to, rejected)
                 \/ CompleteWith(j, [task |-> 0], FALSE, FALSE, question, to, rejected)
            /\ Reported(w, "idle") \/ Reported(w, "failing")
         \/ /\ Owns(w, j) /\ ~ Settles(w, j)
            /\ Reported(w, "idle")
            /\ UNCHANGED <<jobs, tasks, handoffs>>
  /\ UNCHANGED epoch

\* The CLI fails, the report is refused, or it or its answer is lost.
RunFails(w) ==
  /\ proc[w].state = "working"
  /\ Reported(w, "failing")
  /\ UNCHANGED <<epoch, jobs, tasks, handoffs>>

_synchronize_failed_task(t) ==
  IF t = 0 THEN tasks
  ELSE [tasks EXCEPT ![t].state = "failed", ![t].revision = @ + 1]

\* A planner found by its role is asked to recover its own failure as well.
_queue_planner_recovery(js, a, kind) ==
  IF /\ kind = "handoff" /\ Planner \in Agents /\ (PlannerByName => a # Planner)
     /\ ~ HasLiveJob(js, Planner, {"recovery"})
  THEN Append(js, Job(Planner, "recovery")) ELSE js

\* Mutant: a failed job leaves its card to the planner's recovery job.
FailWithoutCard(j) ==
  /\ jobs' = _queue_planner_recovery([jobs EXCEPT ![j].status = "failed"],
                                     jobs[j].agent, jobs[j].kind)
  /\ Len(jobs') <= MaxJobs
  /\ handoffs' = Closed(handoffs, jobs[j].handoff, "failed")
  /\ UNCHANGED tasks

FailWith(j) ==
  /\ jobs' = _queue_planner_recovery([jobs EXCEPT ![j].status = "failed"],
                                     jobs[j].agent, jobs[j].kind)
  /\ Len(jobs') <= MaxJobs
  /\ tasks' = _synchronize_failed_task(jobs[j].task)
  /\ handoffs' = Closed(handoffs, jobs[j].handoff, "failed")

\* The worker gives the job up whether or not its report arrives.
fail_job(w) ==
  /\ proc[w].state = "failing"
  /\ \/ Settles(w, proc[w].job) /\ FailWith(proc[w].job)
     \/ UNCHANGED <<jobs, tasks, handoffs>>
  /\ Reported(w, "idle")
  /\ UNCHANGED epoch

-----------------------------------------------------------------------------
(* What surrounds the work *)

Unnamed(w) == \A j \in DOMAIN jobs : Live(j) => jobs[j].worker # w

\* A new process of the agent registers.  An id is used again once no live job
\* names it: it is as good as a new one.
WorkerStarts(w, a) ==
  /\ proc[w].state = "gone" /\ Unnamed(w)
  /\ proc' = [proc EXCEPT ![w] = [state |-> "idle", agent |-> a, job |-> 0]]
  /\ UNCHANGED <<epoch, jobs, tasks, handoffs>>

WorkerDies(w) ==
  /\ proc[w].state # "gone"
  /\ proc' = [proc EXCEPT ![w] = Gone]
  /\ UNCHANGED <<epoch, jobs, tasks, handoffs>>

\* A pause cancels what is pending, a close or a failed start all that is live.
WorkCancelled ==
  /\ jobs' \in {Cancelled(jobs, {"pending"}), Cancelled(jobs, LiveStates)}
  /\ UNCHANGED <<epoch, tasks, handoffs, proc>>

Next ==
  \/ \E a \in Agents : \/ \E kind \in {"plain", "planning"} :
                              route_discord_message(a, kind)
                        \/ enqueue_restart(a)
  \/ reset_session
  \/ \E w \in Workers : \/ claim_next_job(w) \/ complete_job(w) \/ RunFails(w) \/ fail_job(w)
                         \/ WorkerDies(w)
                         \/ \E a \in Agents : WorkerStarts(w, a)
  \/ WorkCancelled

Spec == Init /\ [][Next]_vars

-----------------------------------------------------------------------------
(* Properties *)

\* An agent has at most one job in progress, though an orphan is put back and
\* another job claimed in one call and workers are replaced at any moment.
OneRunningJob == \A a \in Agents : Cardinality(Running(a)) <= 1

\* A reset leaves no work of the epoch before it behind, and the cards and
\* handoffs it offers again carry the new epoch, so that they can be claimed.
WorkIsCurrent ==
  /\ \A j \in DOMAIN jobs : Live(j) => jobs[j].epoch = epoch
  /\ \A h \in DOMAIN handoffs : handoffs[h].state \in OpenHandoff => handoffs[h].epoch = epoch
  /\ \A t \in DOMAIN tasks : tasks[t].state \in {"ready", "in_progress"} => tasks[t].epoch = epoch

\* Of the handoffs of a card only the newest can be open: what an earlier one
\* asked for is never claimed after a later one, nor beside it.
OpenHandoffIsNewest ==
  \A h, g \in DOMAIN handoffs :
    /\ handoffs[h].task = handoffs[g].task
    /\ handoffs[h].state \in OpenHandoff
    => g <= h

\* A card in progress has a job for its present revision that is not settled, or
\* that was cancelled with its session's work: no report leaves a card behind.
CardInProgressIsHeld ==
  \A t \in DOMAIN tasks :
    tasks[t].state = "in_progress" =>
      \E j \in DOMAIN jobs : /\ jobs[j].task = t /\ jobs[j].revision = tasks[t].revision
                            /\ jobs[j].status \in LiveStates \cup {"cancelled"}

\* Cards in progress at the same time touch no file or topic in common, although
\* a handoff may widen what a card touches after it was claimed.
ScopesDisjoint ==
  \A t, u \in DOMAIN tasks :
    (t # u /\ tasks[t].state = "in_progress" /\ tasks[u].state = "in_progress") => ~ Conflict(t, u)

\* A settled job and a settled handoff never change again: neither a second report
\* (the answer to the first was lost) nor one after a reset or a close is applied.
SettledStays ==
  [][/\ \A j \in DOMAIN jobs : jobs[j].status \in TerminalStates => jobs'[j] = jobs[j]
     /\ \A h \in DOMAIN handoffs :
          handoffs[h].state \in SettledHandoff => handoffs'[h].state = handoffs[h].state]_vars

\* A job in progress is completed or failed by the worker it was handed to last,
\* never by the one it was taken from.
SettledByItsWorker ==
  [][\A j \in DOMAIN jobs :
       (jobs[j].status = "in_progress" /\ jobs'[j].status \in {"completed", "failed"}) =>
         \E w \in Workers : /\ jobs[j].worker = w
                            /\ proc[w].job = j /\ proc'[w] # proc[w]]_vars

\* A card is settled only together with a job that worked it in this epoch.
CardSettledWithItsJob ==
  [][\A t \in DOMAIN tasks :
       (tasks'[t].state # tasks[t].state /\ tasks'[t].state \in {"done", "failed"}) =>
         \E j \in DOMAIN jobs : /\ jobs[j].task = t /\ Live(j) /\ jobs[j].epoch = epoch
                               /\ jobs'[j].status \in {"completed", "failed"}]_vars

\* A revision of a card is worked by one job, unless that job was cancelled: no late
\* report, no orphan put back, no handoff that repeats an earlier one, and no answer
\* that was lost makes claim_next_job hand the same work out twice.
RevisionWorkedOnce ==
  \A i, j \in DOMAIN jobs :
    (/\ jobs[i].status # "cancelled" /\ jobs[j].status # "cancelled"
     /\ jobs[i].task = jobs[j].task /\ jobs[i].task # 0
     /\ jobs[i].revision = jobs[j].revision) => i = j

\* docs/architecture.md: "stale workers, duplicate callbacks, and late completions do
\* not overwrite current state": a report on an older revision of a card leaves
\* the card as it is.
LateReportKeepsCard ==
  [][\A j \in DOMAIN jobs :
       (/\ Live(j) /\ jobs'[j].status \in {"completed", "failed"}
        /\ jobs[j].task # 0 /\ jobs[j].revision < tasks[jobs[j].task].revision
        /\ Len(handoffs') = Len(handoffs)) =>
         tasks'[jobs[j].task].state = tasks[jobs[j].task].state]_vars

=============================================================================
