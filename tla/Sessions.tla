------------------------------ MODULE Sessions ------------------------------
(***************************************************************************)
(* The lifecycle of one workflow session around its work (SessionJobs):    *)
(*   - the operator's calls, the workers' calls and the launchers' calls   *)
(*     of nas_bridge/app/session_service.py and workflows/;                *)
(*   - the recovery of services/recovery_service.py, which the background  *)
(*     loop and two of the operator's calls run: it reads the session,     *)
(*     asks Discord about its thread, and decides from what it had read,   *)
(*     while other calls are served in between;                            *)
(*   - the launchers of pc_launcher/launcher.py, which start and kill the  *)
(*     worker processes.                                                   *)
(* The bridge serves its calls on one event loop: a call, or the part of   *)
(* one between two awaits, is an action.  Time is not counted: a heartbeat *)
(* grows old in a step of its own, and whether the time a start may take   *)
(* has run out is left open.  A probe of Discord is answered before        *)
(* heartbeats that keep coming have grown old, and a daemon acts on the    *)
(* session it has just read.  Of recoveries under way at once only one is  *)
(* followed; another is taken to fail at once.                             *)
(***************************************************************************)
EXTENDS SessionJobs

CONSTANTS
  Launchers,    \* launcher ids
  Host,         \* Host[w]: the launcher that starts process w
  RestoreLastSession,  \* the manifest's startup option
  MaxFaults     \* bound on crashes, lost answers and silences

ASSUME SessionsAssumption ==
  /\ Host \in [Workers -> Launchers]
  /\ RestoreLastSession \in BOOLEAN
  /\ MaxFaults \in Nat

VARIABLES
  session,      \* the row: status, desired_status and whether closed_at is set
  worker,       \* agents.worker_id
  heard,        \* the agents with a recent last_heartbeat_at
  recovery,     \* what the recovery under way has read
  online,       \* a launcher was heard of lately
  launcher,     \* the launchers' daemons
  managed,      \* the process a daemon has for each agent
  booting,      \* processes that have not registered yet, and their agents
  faults        \* faults so far

lifecycle   == <<session, worker, heard, recovery>>
machine     == <<online, launcher, managed, booting>>
sessionVars == <<vars, lifecycle, machine, faults>>

StartupStatuses == {"requested", "waking_execution_plane", "awaiting_launcher",
                    "waiting_for_workers", "launching"}
Statuses   == StartupStatuses \cup {"ready", "resuming_jobs", "paused", "closed", "failed_start"}
SessionRow == [status : Statuses, desired : {"ready", "paused", "closed"},
               closed : BOOLEAN]

WorkerIds  == [Agents -> Workers \cup {None}]
NotReading == [reading |-> FALSE]
Snapshots  == [reading : {TRUE}, status : Statuses, desired : {"ready", "paused", "closed"},
               worker : WorkerIds, heard : SUBSET Agents, wake : BOOLEAN]

SessionTypeOK ==
  /\ session \in SessionRow
  /\ worker \in WorkerIds
  /\ heard \in SUBSET Agents
  /\ recovery \in Snapshots \cup {NotReading}
  /\ online \in BOOLEAN
  /\ launcher \in [Launchers -> {"down", "up", "launching"}]
  /\ managed \in [Launchers -> WorkerIds]
  /\ booting \in [Workers -> Agents \cup {None}]
  /\ faults \in 0 .. MaxFaults

Nobody == [a \in Agents |-> None]

SessionInit ==
  /\ Init
  /\ session = [status |-> "requested", desired |-> "ready", closed |-> FALSE]
  /\ worker = Nobody
  /\ heard = {}
  /\ recovery = NotReading
  /\ online = TRUE
  /\ launcher = [l \in Launchers |-> "up"]
  /\ managed = [l \in Launchers |-> Nobody]
  /\ booting = [w \in Workers |-> None]
  /\ faults = 0

Fault   == faults < MaxFaults /\ faults' = faults + 1
NoFault == UNCHANGED faults

AnyLive == \E j \in DOMAIN jobs : Live(j)

-----------------------------------------------------------------------------
(* The operator *)

OperatorSends ==
  /\ \/ /\ session.status \notin {"closed", "paused"} /\ session.desired # "paused"
        /\ \E a \in Agents, kind \in {"plain", "planning"} : route_discord_message(a, kind)
     \/ \E a \in Agents : enqueue_restart(a)
     \/ reset_session
  /\ UNCHANGED <<lifecycle, machine, faults>>

\* Mutant: what is cancelled has failed.
FailJobs(states) ==
  /\ jobs' = [j \in DOMAIN jobs |-> IF jobs[j].status \in states
                                    THEN [jobs[j] EXCEPT !.status = "failed"] ELSE jobs[j]]
  /\ UNCHANGED <<epoch, tasks, handoffs, proc>>

CancelJobs(states) == jobs' = Cancelled(jobs, states) /\ UNCHANGED <<epoch, tasks, handoffs, proc>>

close_session ==
  /\ session' = [session EXCEPT !.status = "closed", !.desired = "closed", !.closed = TRUE]
  /\ CancelJobs(LiveStates)
  /\ UNCHANGED <<worker, heard, recovery, machine, faults>>

pause ==
  /\ session' = [session EXCEPT !.status = "paused", !.desired = "paused"]
  /\ CancelJobs({"pending"})
  /\ UNCHANGED <<worker, heard, recovery, machine, faults>>

Snapshot(wakes, desired) ==
  [reading |-> TRUE, status |-> session.status, desired |-> desired,
   worker |-> worker, heard |-> heard, wake |-> wakes]

\* A resume, or a start that finds the session open, wants it ready and recovers it
\* at once.
resume ==
  /\ session' = [session EXCEPT !.desired = "ready"]
  /\ recovery' = IF session.closed \/ recovery.reading THEN recovery ELSE Snapshot(TRUE, "ready")
  /\ UNCHANGED <<vars, worker, heard, machine, faults>>

-----------------------------------------------------------------------------
(* Recovery *)

RecoverBegins ==
  /\ ~ recovery.reading /\ ~ session.closed
  /\ recovery' = Snapshot(FALSE, session.desired)
  /\ UNCHANGED <<vars, session, worker, heard, machine, faults>>

\* Of a row that was read as old, only columns whose value changes are written.
Written(old, new, current) == IF new # old THEN new ELSE current

WrittenWorkers(s, new) == [a \in Agents |-> Written(s.worker[a], new[a], worker[a])]

\* Mutant: a worker id stays until another replaces it.
_clear_no_workers(s) == s.worker

_clear_stale_workers(s) == [a \in Agents |-> IF a \in s.heard THEN s.worker[a] ELSE None]

Attached(s) == {a \in Agents : _clear_stale_workers(s)[a] # None \/ a \in s.heard}

\* If the time a start may take has run out as well, the start is given up.
_is_stalled_start(s) == s.status \in StartupStatuses /\ Attached(s) = {}

\* A missing thread, or a start that never came to anything, ends the session.
EndSession(s, status) ==
  /\ session' = [session EXCEPT !.status = Written(s.status, status, @),
                               !.desired = Written(s.desired, "closed", @),
                               !.closed = TRUE]
  /\ worker' = WrittenWorkers(s, Nobody)
  /\ CancelJobs(LiveStates)

\* Mutant: a session whose agents are all attached is online.
RecoveredAsOnline(s) == IF Attached(s) = Agents THEN "online" ELSE "waiting_for_workers"

RecoveredStatus(s) ==
  IF ~ online THEN IF s.wake THEN "waking_execution_plane" ELSE "awaiting_launcher"
  ELSE IF Attached(s) = {} THEN "waiting_for_workers"
  ELSE IF Attached(s) # Agents THEN "launching"
  ELSE IF AnyLive THEN "resuming_jobs" ELSE "ready"

SetStatus(s, status) ==
  session' = [session EXCEPT !.status = Written(s.status, status, @)] /\ UNCHANGED vars

RecoverDecides ==
  LET s == recovery
  IN  /\ s.reading
      /\ \/ EndSession(s, "closed")       \* the thread is missing
         \/ /\ s.desired = "paused"
            /\ SetStatus(s, "paused")
            /\ UNCHANGED worker
         \/ /\ s.desired # "paused" /\ _is_stalled_start(s)
            /\ EndSession(s, "failed_start")
         \/ /\ s.desired # "paused"
            /\ SetStatus(s, RecoveredStatus(s))
            /\ worker' = WrittenWorkers(s, _clear_stale_workers(s))
      /\ recovery' = NotReading
      /\ UNCHANGED <<heard, machine, faults>>

\* The probe raises, or the bridge restarts.
RecoveryFails ==
  /\ recovery.reading
  /\ recovery' = NotReading
  /\ Fault
  /\ UNCHANGED <<vars, session, worker, heard, machine>>

-----------------------------------------------------------------------------
(* The worker processes *)

\* A worker id is enough, or a recent heartbeat (120 s here, 90 s in the recovery).
HasSignal(a) == worker'[a] # None \/ a \in heard'

_refresh_session_startup_state ==
  IF session.desired = "paused" THEN "paused"
  ELSE IF \A a \in Agents : HasSignal(a) THEN IF AnyLive THEN "resuming_jobs" ELSE "ready"
  ELSE "launching"

Hears(w, a) ==
  /\ worker' = [worker EXCEPT ![a] = w]
  /\ heard' = heard \cup {a}

\* A closed session is not refreshed, and is left launching or paused.  The answer
\* may be lost: the process registers again.
register_worker(w) ==
  LET a == booting[w]
  IN  /\ a # None
      /\ Hears(w, a)
      /\ session' = [session EXCEPT !.status = IF ~ session.closed
                                               THEN _refresh_session_startup_state
                                               ELSE IF session.desired = "paused"
                                               THEN "paused" ELSE "launching"]
      /\ \/ WorkerStarts(w, a) /\ booting' = [booting EXCEPT ![w] = None] /\ NoFault
         \/ UNCHANGED <<vars, booting>> /\ Fault
      /\ UNCHANGED <<recovery, online, launcher, managed>>

heartbeat(w) ==
  /\ proc[w].state # "gone"
  /\ Hears(w, proc[w].agent)
  /\ session' = [session EXCEPT !.status = IF session.closed THEN @
                                           ELSE _refresh_session_startup_state]
  /\ UNCHANGED <<vars, recovery, machine, faults>>

HandsOut ==
  /\ session.status \notin {"closed", "paused", "awaiting_launcher", "waking_execution_plane"}
  /\ session.desired # "paused"

\* Only the agent's worker is given what another has in progress.
WorkerClaims(w) ==
  /\ HandsOut
  /\ Running(proc[w].agent) # {} => worker[proc[w].agent] = w
  /\ claim_next_job(w)
  /\ UNCHANGED <<lifecycle, machine, faults>>

\* A report that is applied counts as a heartbeat.
WorkerReports(w) ==
  /\ complete_job(w) \/ RunFails(w) \/ fail_job(w)
  /\ heard' = IF jobs' # jobs THEN heard \cup {proc[w].agent} ELSE heard
  /\ UNCHANGED <<session, worker, recovery, machine, faults>>

Alive(w) == booting[w] # None \/ proc[w].state # "gone"

\* A process ends, registered or not.
Ends(w) ==
  /\ Alive(w)
  /\ booting' = [booting EXCEPT ![w] = None]
  /\ IF proc[w].state = "gone" THEN UNCHANGED vars ELSE WorkerDies(w)

ProcessDies(w) == Ends(w) /\ Fault /\ UNCHANGED <<lifecycle, online, launcher, managed>>

-----------------------------------------------------------------------------
(* The launchers *)

\* Mutant: a session is launched once.
ClaimableOnce == session.status \in {"requested", "awaiting_launcher"}
                 /\ session.desired # "paused" /\ ~ session.closed

\* A session that is launching, or that has lost some of its workers, is offered
\* again only with the option.
Claimable ==
  /\ session.status \in {"requested", "waiting_for_workers", "awaiting_launcher"}
                        \cup (IF RestoreLastSession THEN {"launching"} ELSE {})
  /\ session.desired # "paused"
  /\ ~ session.closed

\* The daemon asks for sessions to launch; asking shows that it is there.
claim_launches(l) ==
  /\ launcher[l] = "up"
  /\ online' = TRUE
  /\ \/ /\ Claimable
        /\ session' = [session EXCEPT !.status = "launching"]
        /\ \/ launcher' = [launcher EXCEPT ![l] = "launching"] /\ NoFault
           \/ UNCHANGED launcher /\ Fault
     \/ ~ Claimable /\ UNCHANGED <<session, launcher, faults>>
  /\ UNCHANGED <<vars, worker, heard, recovery, managed, booting>>

\* An id that nothing names is as good as a new one.
Fresh(w) ==
  /\ ~ Alive(w) /\ Unnamed(w)
  /\ \A a \in Agents : worker[a] # w /\ \A l \in Launchers : managed[l][a] # w
  /\ recovery.reading => \A a \in Agents : recovery.worker[a] # w

\* Agents for which the daemon has no live process.
Needs(l) == {a \in Agents : \A w \in Workers : managed[l][a] = w => ~ Alive(w)}

_ensure_session_workers(l) ==
  /\ launcher[l] = "launching"
  /\ \/ \E a \in Needs(l), w \in Workers :
          /\ Fresh(w) /\ Host[w] = l
          /\ booting' = [booting EXCEPT ![w] = a]
          /\ managed' = [managed EXCEPT ![l][a] = w]
          /\ UNCHANGED launcher
     \/ /\ Needs(l) = {}
        /\ launcher' = [launcher EXCEPT ![l] = "up"]
        /\ UNCHANGED <<booting, managed>>
  /\ UNCHANGED <<vars, lifecycle, online, faults>>

\* Mutant: a process is only stopped when another has replaced it.
OverWhenReplaced(a, w) == worker[a] \notin {None, w}

Over(a, w) ==
  \/ session.status \in {"closed", "failed_start"}
  \/ session.desired = "closed"
  \/ worker[a] \notin {None, w}

\* The daemon compares a process of its with the bridge's record and drops it.
Reconcile(l, a) ==
  LET w == managed[l][a]
  IN  /\ launcher[l] = "up" /\ w # None
      /\ IF Alive(w) THEN Over(a, w) /\ Ends(w) ELSE UNCHANGED <<vars, booting>>
      /\ managed' = [managed EXCEPT ![l][a] = None]
      /\ UNCHANGED <<lifecycle, online, launcher, faults>>

\* A crash leaves the processes running.
LauncherCrashes(l) ==
  /\ launcher[l] # "down"
  /\ launcher' = [launcher EXCEPT ![l] = "down"]
  /\ managed' = [managed EXCEPT ![l] = Nobody]
  /\ Fault
  /\ UNCHANGED <<vars, lifecycle, online, booting>>

\* Mutant: a daemon that starts leaves the processes it finds to themselves.
LauncherStartsBeside(l) ==
  /\ launcher[l] = "down"
  /\ launcher' = [launcher EXCEPT ![l] = "up"]
  /\ UNCHANGED <<vars, lifecycle, online, managed, booting, faults>>

\* A daemon that starts kills whatever processes it finds of its own id.  That the
\* machine lists them all, and that what is killed ends, is taken for granted.
LauncherStarts(l) ==
  /\ launcher[l] = "down"
  /\ \/ \E w \in Workers : Host[w] = l /\ Ends(w) /\ UNCHANGED launcher
     \/ /\ \A w \in Workers : Host[w] = l => ~ Alive(w)
        /\ launcher' = [launcher EXCEPT ![l] = "up"]
        /\ UNCHANGED <<vars, booting>>
  /\ UNCHANGED <<lifecycle, online, managed, faults>>

-----------------------------------------------------------------------------
(* Time *)

Beats(a) == \E w \in Workers : proc[w].state # "gone" /\ proc[w].agent = a

\* No heartbeat of the agent arrives for a while: nobody sends one, or they are lost.
HeardAges(a) ==
  /\ a \in heard
  /\ heard' = heard \ {a}
  /\ recovery' = IF recovery.reading THEN [recovery EXCEPT !.heard = @ \ {a}] ELSE recovery
  /\ IF Beats(a) THEN Fault ELSE NoFault
  /\ UNCHANGED <<vars, session, worker, machine>>

\* No daemon asks for a while: they are down, or kept from asking.
LaunchersSilent ==
  /\ online
  /\ online' = FALSE
  /\ IF \A l \in Launchers : launcher[l] = "down" THEN NoFault ELSE Fault
  /\ UNCHANGED <<vars, lifecycle, launcher, managed, booting>>

-----------------------------------------------------------------------------
Operator == OperatorSends \/ close_session \/ pause \/ resume
Recovery == RecoverBegins \/ RecoverDecides \/ RecoveryFails
Process(w) == \/ register_worker(w) \/ heartbeat(w) \/ WorkerClaims(w) \/ WorkerReports(w)
              \/ ProcessDies(w)
Daemon(l) == \/ claim_launches(l) \/ _ensure_session_workers(l)
             \/ (\E a \in Agents : Reconcile(l, a))
             \/ LauncherCrashes(l) \/ LauncherStarts(l)
Time == (\E a \in Agents : HeardAges(a)) \/ LaunchersSilent

SessionNext == \/ Operator \/ Recovery \/ Time
               \/ \E w \in Workers : Process(w)
               \/ \E l \in Launchers : Daemon(l)

SessionSpec == SessionInit /\ [][SessionNext]_sessionVars

MainThread(w) == register_worker(w) \/ WorkerClaims(w) \/ WorkerReports(w)

DaemonLoop(l) == \/ claim_launches(l) \/ _ensure_session_workers(l) \/ LauncherStarts(l)
                 \/ \E a \in Agents : Reconcile(l, a)

\* Each loop goes round: the recovery's, a daemon's (which is started again after a
\* crash), a process's main thread and its heartbeat thread.  What nobody renews
\* grows old.
SessionFairSpec ==
  /\ SessionSpec
  /\ WF_sessionVars(RecoverBegins \/ RecoverDecides)
  /\ \A a \in Agents : WF_sessionVars(NoFault /\ HeardAges(a))
  /\ \A l \in Launchers : WF_sessionVars(NoFault /\ DaemonLoop(l))
  /\ \A w \in Workers : /\ WF_sessionVars(NoFault /\ MainThread(w))
                         /\ WF_sessionVars(heartbeat(w))

-----------------------------------------------------------------------------
(* Properties *)

\* Whatever the lifecycle does, the work is handed out and settled as SessionJobs
\* says, with all that holds there.
ImplementsSessionJobs == Spec

\* The agent a process was started for.
AgentOf(w) == IF booting[w] # None THEN booting[w] ELSE proc[w].agent

\* A launcher's machine runs at most one process of an agent, registered or not,
\* although the daemon forgets all its processes in a crash, and drops one from its
\* books when the bridge names another.
OneProcessPerAgent ==
  \A v, w \in Workers :
    Alive(v) /\ Alive(w) /\ Host[v] = Host[w] /\ AgentOf(v) = AgentOf(w) => v = w

\* _recover_orphaned_job takes a job in progress from a process only once that process
\* is dead, or for the agent's present worker, a process of another launcher.
TakenOnlyFromTheDead ==
  [][\A j \in DOMAIN jobs, w \in Workers :
       jobs[j].status = "in_progress" /\ jobs[j].worker = w /\ jobs'[j].worker # w =>
         \/ ~ Alive(w)
         \/ \E v \in Workers : /\ worker[jobs[j].agent] = v /\ Host[v] # Host[w]
                               /\ proc[v].state # "gone" /\ proc[v].agent = jobs[j].agent]_sessionVars

Wanted == ~ session.closed /\ session.desired = "ready"

\* A job does not stay in progress with a process that is gone, while the session
\* is wanted: the heartbeat grows old, a process is started in its place,
\* and its poll takes the job over.
OrphanEnds ==
  \A a \in Agents :
    (\E w \in Workers, j \in Running(a) : jobs[j].worker = w /\ ~ Alive(w)) ~>
      (~ Wanted \/ \A j \in Running(a) : \E w \in Workers : jobs[j].worker = w /\ Alive(w))

Served == /\ session.status \in {"ready", "resuming_jobs"}
          /\ \A a \in Agents : \E w \in Workers : worker[a] = w /\ proc[w].state # "gone"

\* A session that is wanted is served again after crashes, losses and silences, unless
\* its start is given up.  With several agents this takes RestoreLastSession: without
\* it, a session that has lost one worker of several is not offered to a launcher.
ServedAgain == Wanted ~> (~ Wanted \/ Served)

\* The processes of a session that was closed are stopped, those too that were being
\* started while it was closed.
ClosedDrains ==
  session.desired = "closed" ~> (session.desired # "closed" \/ \A w \in Workers : ~ Alive(w))

=============================================================================
