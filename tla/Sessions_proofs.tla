-------------------------- MODULE Sessions_proofs --------------------------
(***************************************************************************)
(* Sessions implements SessionJobs, for every set of agents, workers and   *)
(* launchers: what is proved of the work holds under the whole lifecycle.  *)
(***************************************************************************)
EXTENDS Sessions, SessionJobs_proofs

-----------------------------------------------------------------------------
(* Every step is a step of the work, or leaves it alone *)

\* An operator's call sends work, resets it or cancels it.
LEMMA OperatorWorks ==
  ASSUME Operator
  PROVE  [Next]_vars
<1>1. CASE OperatorSends
  BY <1>1 DEF OperatorSends, Next
<1>2. CASE close_session \/ pause
  BY <1>2 DEF close_session, pause, CancelJobs, Next, WorkCancelled
<1>3. CASE resume
  BY <1>3 DEF resume
<1> QED
  BY <1>1, <1>2, <1>3 DEF Operator

\* The recovery cancels what is live, or leaves the work alone.
LEMMA RecoveryWorks ==
  ASSUME Recovery
  PROVE  [Next]_vars
<1>1. CASE RecoverBegins \/ RecoveryFails
  BY <1>1 DEF RecoverBegins, RecoveryFails
<1>2. CASE RecoverDecides
  <2>1. CancelJobs(LiveStates) => WorkCancelled
    BY DEF CancelJobs, WorkCancelled
  <2>2. CancelJobs(LiveStates) \/ UNCHANGED vars
    BY <1>2 DEF RecoverDecides, EndSession, SetStatus
  <2> QED
    BY <2>1, <2>2 DEF Next
<1> QED
  BY <1>1, <1>2 DEF Recovery

\* A process that ends is a worker that dies, or one that never registered.
LEMMA EndingWorks ==
  ASSUME NEW w \in Workers, Ends(w)
  PROVE  [Next]_vars
BY DEF Ends, Next

\* What a process calls is what SessionJobs has it call, and only when the session's
\* state allows it.
LEMMA ProcessWorks ==
  ASSUME SessionTypeOK, NEW w \in Workers, Process(w)
  PROVE  [Next]_vars
<1>1. CASE register_worker(w)
  <2>1. booting[w] \in Agents
    BY <1>1 DEF register_worker, SessionTypeOK
  <2>2. WorkerStarts(w, booting[w]) \/ UNCHANGED vars
    BY <1>1 DEF register_worker
  <2> QED
    BY <2>1, <2>2 DEF Next
<1>2. CASE heartbeat(w)
  BY <1>2 DEF heartbeat
<1>3. CASE WorkerClaims(w)
  BY <1>3 DEF WorkerClaims, Next
<1>4. CASE WorkerReports(w)
  BY <1>4 DEF WorkerReports, Next
<1>5. CASE ProcessDies(w)
  BY <1>5, EndingWorks DEF ProcessDies
<1> QED
  BY <1>1, <1>2, <1>3, <1>4, <1>5 DEF Process

\* A daemon touches the work only by ending processes.
LEMMA DaemonWorks ==
  ASSUME SessionTypeOK, NEW l \in Launchers, Daemon(l)
  PROVE  [Next]_vars
<1>1. CASE claim_launches(l)
  BY <1>1 DEF claim_launches
<1>2. CASE _ensure_session_workers(l)
  BY <1>2 DEF _ensure_session_workers
<1>3. ASSUME NEW a \in Agents, Reconcile(l, a)
      PROVE  [Next]_vars
  <2>1. managed[l][a] # None
    BY <1>3 DEF Reconcile
  <2>2. managed[l][a] \in Workers
    BY <2>1 DEF SessionTypeOK, WorkerIds
  <2>3. Ends(managed[l][a]) \/ UNCHANGED vars
    BY <1>3 DEF Reconcile
  <2> QED
    BY <2>2, <2>3, EndingWorks
<1>4. CASE LauncherCrashes(l)
  BY <1>4 DEF LauncherCrashes
<1>5. CASE LauncherStarts(l)
  BY <1>5, EndingWorks DEF LauncherStarts
<1> QED
  BY <1>1, <1>2, <1>3, <1>4, <1>5 DEF Daemon

\* Every step of the lifecycle is a step of the work, or leaves it alone.
LEMMA StepWorks ==
  ASSUME SessionTypeOK, [SessionNext]_sessionVars
  PROVE  [Next]_vars
<1>1. CASE UNCHANGED sessionVars
  BY <1>1 DEF sessionVars
<1>2. CASE Time
  BY <1>2 DEF Time, HeardAges, LaunchersSilent
<1> QED
  BY <1>1, <1>2, OperatorWorks, RecoveryWorks, ProcessWorks, DaemonWorks DEF SessionNext

-----------------------------------------------------------------------------
(* The rows of the lifecycle keep their types *)

\* An operator's call, and what the recovery reads.
LEMMA OperatorTypes ==
  ASSUME SessionTypeOK, Operator
  PROVE  SessionTypeOK'
<1>1. CASE OperatorSends
  BY <1>1 DEF OperatorSends, SessionTypeOK, lifecycle, machine
<1>2. CASE close_session \/ pause
  BY <1>2 DEF close_session, pause, SessionTypeOK, machine, SessionRow, Statuses
<1>3. CASE resume
  BY <1>3 DEF resume, SessionTypeOK, machine, SessionRow, Snapshot, Snapshots
<1> QED
  BY <1>1, <1>2, <1>3 DEF Operator

\* The recovery writes statuses and worker ids it has read or decided.
LEMMA RecoveryTypes ==
  ASSUME SessionTypeOK, Recovery
  PROVE  SessionTypeOK'
<1>1. CASE RecoverBegins
  BY <1>1 DEF RecoverBegins, SessionTypeOK, machine, SessionRow, Snapshot, Snapshots
<1>2. CASE RecoveryFails
  BY <1>2, SessionsAssumption DEF RecoveryFails, Fault, SessionTypeOK, machine
<1>3. CASE RecoverDecides
  <2>1. /\ recovery \in Snapshots /\ recovery' = NotReading
        /\ UNCHANGED <<heard, machine, faults>>
    BY <1>3 DEF RecoverDecides, SessionTypeOK, NotReading
  <2>2. recovery.worker \in WorkerIds /\ worker \in WorkerIds /\ session \in SessionRow
    BY <2>1 DEF Snapshots, SessionTypeOK
  <2>3. /\ Nobody \in WorkerIds /\ _clear_stale_workers(recovery) \in WorkerIds
    BY <2>2 DEF Nobody, _clear_stale_workers, WorkerIds
  <2>4. ASSUME NEW new \in WorkerIds
        PROVE  WrittenWorkers(recovery, new) \in WorkerIds
    BY <2>2, <2>4 DEF WrittenWorkers, Written, WorkerIds
  <2>5. worker' \in WorkerIds
    BY <1>3, <2>2, <2>3, <2>4 DEF RecoverDecides, EndSession
  <2>6. RecoveredStatus(recovery) \in Statuses
    BY DEF RecoveredStatus, Statuses, StartupStatuses
  <2>7. ASSUME NEW status \in Statuses, SetStatus(recovery, status) \/ EndSession(recovery, status)
        PROVE  session' \in SessionRow
    BY <2>2, <2>7 DEF SetStatus, EndSession, Written, SessionRow
  <2>8. session' \in SessionRow
    <3>1. "closed" \in Statuses /\ "paused" \in Statuses /\ "failed_start" \in Statuses
      BY DEF Statuses
    <3> QED
      BY <1>3, <2>6, <2>7, <3>1 DEF RecoverDecides
  <2> QED
    BY <2>1, <2>5, <2>8 DEF SessionTypeOK, machine
<1> QED
  BY <1>1, <1>2, <1>3 DEF Recovery

\* An agent that is heard of has a worker id, and the session a status.
LEMMA HearingTypes ==
  ASSUME SessionTypeOK, NEW w \in Workers, NEW a \in Agents, Hears(w, a)
  PROVE  /\ worker' \in WorkerIds /\ heard' \in SUBSET Agents
         /\ _refresh_session_startup_state \in Statuses
<1>1. worker' \in WorkerIds
  BY DEF Hears, SessionTypeOK, WorkerIds
<1>2. heard' \in SUBSET Agents
  BY DEF Hears, SessionTypeOK
<1>3. _refresh_session_startup_state \in Statuses
  BY DEF _refresh_session_startup_state, Statuses, StartupStatuses
<1> QED
  BY <1>1, <1>2, <1>3

\* A process's calls.
LEMMA ProcessTypes ==
  ASSUME SessionTypeOK, IInv, NEW w \in Workers, Process(w)
  PROVE  SessionTypeOK'
<1>1. CASE register_worker(w)
  <2>1. booting[w] \in Agents
    BY <1>1 DEF register_worker, SessionTypeOK
  <2>2. /\ worker' \in WorkerIds /\ heard' \in SUBSET Agents
        /\ _refresh_session_startup_state \in Statuses
    BY <1>1, <2>1, HearingTypes DEF register_worker
  <2>3. session' \in SessionRow
    BY <1>1, <2>2 DEF register_worker, SessionTypeOK, SessionRow, Statuses, StartupStatuses
  <2>4. booting' \in [Workers -> Agents \cup {None}]
    BY <1>1 DEF register_worker, SessionTypeOK
  <2>5. faults' \in 0 .. MaxFaults
    BY <1>1, SessionsAssumption DEF register_worker, NoFault, Fault, SessionTypeOK
  <2> QED
    BY <1>1, <2>2, <2>3, <2>4, <2>5 DEF register_worker, SessionTypeOK
<1>2. CASE heartbeat(w)
  <2>1. proc[w].agent \in Agents
    BY <1>2 DEF heartbeat, IInv, ProcInv
  <2>2. /\ worker' \in WorkerIds /\ heard' \in SUBSET Agents
        /\ _refresh_session_startup_state \in Statuses
    BY <1>2, <2>1, HearingTypes DEF heartbeat
  <2>3. session' \in SessionRow
    BY <1>2, <2>2 DEF heartbeat, SessionTypeOK, SessionRow
  <2> QED
    BY <1>2, <2>2, <2>3 DEF heartbeat, SessionTypeOK, machine
<1>3. CASE WorkerClaims(w)
  BY <1>3 DEF WorkerClaims, SessionTypeOK, lifecycle, machine
<1>4. CASE WorkerReports(w)
  <2>1. proc[w].state # "gone"
    BY <1>4 DEF WorkerReports, complete_job, RunFails, fail_job
  <2>2. proc[w].agent \in Agents
    BY <2>1 DEF IInv, ProcInv
  <2>3. heard' \in SUBSET Agents
    BY <1>4, <2>2 DEF WorkerReports, SessionTypeOK
  <2> QED
    BY <1>4, <2>3 DEF WorkerReports, SessionTypeOK, machine
<1>5. CASE ProcessDies(w)
  <2>1. booting' \in [Workers -> Agents \cup {None}]
    BY <1>5 DEF ProcessDies, Ends, SessionTypeOK
  <2>2. faults' \in 0 .. MaxFaults
    BY <1>5, SessionsAssumption DEF ProcessDies, Fault, SessionTypeOK
  <2> QED
    BY <1>5, <2>1, <2>2 DEF ProcessDies, SessionTypeOK, lifecycle
<1> QED
  BY <1>1, <1>2, <1>3, <1>4, <1>5 DEF Process

\* A daemon's calls and the processes it starts and stops.
LEMMA DaemonTypes ==
  ASSUME SessionTypeOK, NEW l \in Launchers, Daemon(l)
  PROVE  SessionTypeOK'
<1>1. CASE claim_launches(l)
  <2>1. session' \in SessionRow
    BY <1>1 DEF claim_launches, SessionTypeOK, SessionRow, Statuses, StartupStatuses
  <2>2. launcher' \in [Launchers -> {"down", "up", "launching"}]
    BY <1>1 DEF claim_launches, SessionTypeOK
  <2>3. faults' \in 0 .. MaxFaults
    BY <1>1, SessionsAssumption DEF claim_launches, NoFault, Fault, SessionTypeOK
  <2> QED
    BY <1>1, <2>1, <2>2, <2>3 DEF claim_launches, SessionTypeOK
<1>2. CASE _ensure_session_workers(l)
  <2>1. ASSUME NEW a \in Needs(l), NEW w \in Workers,
               booting' = [booting EXCEPT ![w] = a], managed' = [managed EXCEPT ![l][a] = w]
        PROVE  booting' \in [Workers -> Agents \cup {None}] /\ managed' \in [Launchers -> WorkerIds]
    <3>1. a \in Agents
      BY DEF Needs
    <3>2. [managed[l] EXCEPT ![a] = w] \in WorkerIds
      BY DEF SessionTypeOK, WorkerIds
    <3> QED
      BY <2>1, <3>1, <3>2 DEF SessionTypeOK
  <2>2. booting' \in [Workers -> Agents \cup {None}] /\ managed' \in [Launchers -> WorkerIds]
    BY <1>2, <2>1 DEF _ensure_session_workers, SessionTypeOK
  <2>3. launcher' \in [Launchers -> {"down", "up", "launching"}]
    BY <1>2 DEF _ensure_session_workers, SessionTypeOK
  <2> QED
    BY <1>2, <2>2, <2>3 DEF _ensure_session_workers, SessionTypeOK, lifecycle
<1>3. ASSUME NEW a \in Agents, Reconcile(l, a)
      PROVE  SessionTypeOK'
  <2>1. [managed[l] EXCEPT ![a] = None] \in WorkerIds
    BY DEF SessionTypeOK, WorkerIds
  <2>2. managed' \in [Launchers -> WorkerIds]
    BY <1>3, <2>1 DEF Reconcile, SessionTypeOK
  <2>3. booting' \in [Workers -> Agents \cup {None}]
    BY <1>3 DEF Reconcile, Ends, SessionTypeOK
  <2> QED
    BY <1>3, <2>2, <2>3 DEF Reconcile, SessionTypeOK, lifecycle
<1>4. CASE LauncherCrashes(l)
  <2>1. Nobody \in WorkerIds
    BY DEF Nobody, WorkerIds
  <2>2. managed' \in [Launchers -> WorkerIds]
    BY <1>4, <2>1 DEF LauncherCrashes, SessionTypeOK
  <2>3. launcher' \in [Launchers -> {"down", "up", "launching"}]
    BY <1>4 DEF LauncherCrashes, SessionTypeOK
  <2>4. faults' \in 0 .. MaxFaults
    BY <1>4, SessionsAssumption DEF LauncherCrashes, Fault, SessionTypeOK
  <2> QED
    BY <1>4, <2>2, <2>3, <2>4 DEF LauncherCrashes, SessionTypeOK, lifecycle
<1>5. CASE LauncherStarts(l)
  <2>1. launcher' \in [Launchers -> {"down", "up", "launching"}]
    BY <1>5 DEF LauncherStarts, SessionTypeOK
  <2>2. booting' \in [Workers -> Agents \cup {None}]
    BY <1>5 DEF LauncherStarts, Ends, SessionTypeOK
  <2> QED
    BY <1>5, <2>1, <2>2 DEF LauncherStarts, SessionTypeOK, lifecycle
<1> QED
  BY <1>1, <1>2, <1>3, <1>4, <1>5 DEF Daemon

\* Heartbeats and launchers that grow old.
LEMMA TimeTypes ==
  ASSUME SessionTypeOK, Time
  PROVE  SessionTypeOK'
<1>1. faults' \in 0 .. MaxFaults
  BY SessionsAssumption DEF Time, HeardAges, LaunchersSilent, NoFault, Fault, SessionTypeOK
<1>2. ASSUME NEW a \in Agents, HeardAges(a)
      PROVE  SessionTypeOK'
  <2>1. heard' \in SUBSET Agents
    BY <1>2 DEF HeardAges, SessionTypeOK
  <2>2. recovery' \in Snapshots \cup {NotReading}
    <3>1. CASE recovery.reading
      <4>1. recovery \in Snapshots
        BY <3>1 DEF SessionTypeOK, NotReading
      <4> QED
        BY <1>2, <3>1, <4>1 DEF HeardAges, Snapshots
    <3>2. CASE ~ recovery.reading
      BY <1>2, <3>2 DEF HeardAges, SessionTypeOK
    <3> QED
      BY <3>1, <3>2
  <2> QED
    BY <1>1, <1>2, <2>1, <2>2 DEF HeardAges, SessionTypeOK, machine
<1>3. CASE LaunchersSilent
  BY <1>1, <1>3 DEF LaunchersSilent, SessionTypeOK, lifecycle
<1> QED
  BY <1>2, <1>3 DEF Time

-----------------------------------------------------------------------------
(* The theorems *)

\* The lifecycle's rows and the work's invariant, together: the agent a process
\* heartbeats for is an agent because of the latter.
LEMMA SessionStep ==
  ASSUME SessionTypeOK, IInv, [SessionNext]_sessionVars
  PROVE  SessionTypeOK' /\ IInv'
<1>1. IInv'
  <2>1. [Next]_vars
    BY StepWorks
  <2>2. CASE Next
    BY <2>2, NextStep DEF StepOK
  <2>3. CASE UNCHANGED vars
    BY <2>3 DEF vars, IInv
  <2> QED
    BY <2>1, <2>2, <2>3
<1>2. ASSUME UNCHANGED sessionVars
      PROVE  SessionTypeOK'
  BY <1>2 DEF sessionVars, lifecycle, machine, SessionTypeOK
<1>3. ASSUME Operator \/ Recovery \/ Time
      PROVE  SessionTypeOK'
  BY <1>3, OperatorTypes, RecoveryTypes, TimeTypes
<1>4. ASSUME NEW w \in Workers, Process(w)
      PROVE  SessionTypeOK'
  BY <1>4, ProcessTypes
<1>5. ASSUME NEW l \in Launchers, Daemon(l)
      PROVE  SessionTypeOK'
  BY <1>5, DaemonTypes
<1>6. ASSUME SessionNext
      PROVE  SessionTypeOK'
  BY <1>3, <1>4, <1>5, <1>6 DEF SessionNext
<1> QED
  BY <1>1, <1>2, <1>6

\* A session starts with no work and nobody working.
LEMMA SessionInitInv == SessionInit => SessionTypeOK /\ IInv
<1> SUFFICES ASSUME SessionInit PROVE SessionTypeOK /\ IInv
  OBVIOUS
<1>1. IInv
  BY InitInv DEF SessionInit
<1>2. Nobody \in WorkerIds
  BY DEF Nobody, WorkerIds
<1>3. session \in SessionRow /\ recovery \in Snapshots \cup {NotReading}
  BY DEF SessionInit, SessionRow, Statuses, StartupStatuses
<1> QED
  BY <1>1, <1>2, <1>3, SessionsAssumption DEF SessionInit, SessionTypeOK

\* The invariant the theorems below rest on.
THEOREM SessionInvariance == SessionSpec => [](SessionTypeOK /\ IInv)
<1>1. (SessionTypeOK /\ IInv) /\ [SessionNext]_sessionVars => (SessionTypeOK /\ IInv)'
  BY SessionStep
<1> QED
  BY <1>1, SessionInitInv, PTL DEF SessionSpec

\* The session's row, worker ids, snapshots and daemons keep their types, although a
\* recovery writes what it had read before other calls were served.
THEOREM SessionTypeCorrect == SessionSpec => []SessionTypeOK
BY SessionInvariance, PTL

\* Recoveries that decide from old rows, processes that outlive their replacement,
\* lost answers, crashes and silences hand out and settle work only as SessionJobs
\* does.
THEOREM SessionsImplementJobs == SessionSpec => ImplementsSessionJobs
<1>1. SessionInit => Init
  BY DEF SessionInit
<1>2. (SessionTypeOK /\ IInv) /\ [SessionNext]_sessionVars => [Next]_vars
  BY StepWorks
<1> QED
  BY <1>1, <1>2, SessionInvariance, PTL DEF SessionSpec, Spec, ImplementsSessionJobs

\* What that gives: under the whole lifecycle no agent has two jobs in progress, no
\* settled job changes, no worker settles a job taken from it, and no revision of a
\* card is handed out twice.
THEOREM WorkIsSafeInSessions ==
  SessionSpec => /\ []OneRunningJob /\ []CardInProgressIsHeld /\ []RevisionWorkedOnce
                 /\ SettledStays /\ SettledByItsWorker
BY SessionsImplementJobs, OneRunningJobAtATime, CardsAreHeld, EachRevisionOnce,
   SettledForGood, OnlyItsWorkerSettles, PTL DEF ImplementsSessionJobs

-----------------------------------------------------------------------------
(* Who is handed which job *)

\* A job in progress keeps its worker, and none is put in progress.
Undisturbed(js, new) ==
  /\ \A i \in 1 .. Len(js) : js[i].status = "in_progress" => new[i].worker = js[i].worker
  /\ \A i \in 1 .. Len(new) : new[i].status = "in_progress" =>
       /\ i \in 1 .. Len(js) /\ js[i].status = "in_progress"
       /\ new[i].worker = js[i].worker /\ new[i].agent = js[i].agent

\* What is in progress afterwards was so before, or is agent a's, with worker w.
HandedTo(js, new, w, a) ==
  \A i \in 1 .. Len(new) : new[i].status = "in_progress" =>
    \/ /\ i \in 1 .. Len(js) /\ js[i].status = "in_progress"
       /\ new[i].worker = js[i].worker /\ new[i].agent = js[i].agent
    \/ new[i].worker = w /\ new[i].agent = a

\* Messages and restarts add a pending job.
LEMMA RoutedDisturbsNobody ==
  ASSUME IInv, NEW a \in Agents, NEW kind \in {"plain", "planning"},
         route_discord_message(a, kind) \/ enqueue_restart(a)
  PROVE  Undisturbed(jobs, jobs')
<1>1. PICK k \in JobKinds : jobs' = Append(jobs, Job(a, k))
  BY DEF route_discord_message, enqueue_restart, JobKinds
<1>2. Extends(jobs, jobs')
  BY <1>1, ExtendsByJob DEF IInv
<1>3. Len(jobs) \in Nat
  BY Lengths
<1> QED
  BY <1>2, <1>3 DEF Extends, Undisturbed

\* What is cancelled is no longer in progress.
LEMMA CancelDisturbsNobody ==
  ASSUME IInv, NEW states \in {{"pending"}, LiveStates}
  PROVE  /\ Undisturbed(jobs, Cancelled(jobs, states))
         /\ Len(Cancelled(jobs, states)) = Len(jobs)
<1>1. /\ Len(Cancelled(jobs, states)) = Len(jobs)
      /\ \A i \in 1 .. Len(jobs) :
           Cancelled(jobs, states)[i] = IF jobs[i].status \in states
                                        THEN [jobs[i] EXCEPT !.status = "cancelled"] ELSE jobs[i]
  BY CancelledJobs DEF IInv
<1>2. \A i \in 1 .. Len(jobs) : jobs[i] \in Jobs
  BY ARow
<1>3. ASSUME NEW i \in 1 .. Len(jobs)
      PROVE  /\ Cancelled(jobs, states)[i].worker = jobs[i].worker
             /\ Cancelled(jobs, states)[i].agent = jobs[i].agent
             /\ Cancelled(jobs, states)[i].status = "in_progress"
                  => jobs[i].status = "in_progress"
  BY <1>1, <1>2 DEF Jobs
<1> QED
  BY <1>1, <1>3 DEF Undisturbed

\* A reset cancels what is live and adds pending jobs.
LEMMA ResetDisturbsNobody ==
  ASSUME IInv, reset_session
  PROVE  Undisturbed(jobs, jobs')
<1> DEFINE old   == Cancelled(jobs, LiveStates)
           fresh == [i \in DOMAIN Crew |-> [Job(Crew[i], "plain") EXCEPT !.epoch = epoch + 1]]
<1>1. jobs' = old \o fresh
  BY DEF reset_session
<1>2. Undisturbed(jobs, old) /\ Len(old) = Len(jobs) /\ Len(jobs) \in Nat
  BY CancelDisturbsNobody, Lengths
<1>3. old \in Seq(Jobs)
  BY CancelledJobs DEF IInv, JobsInv
<1>4. Crew \in Seq(Agents) /\ DOMAIN Crew = 1 .. Len(Crew) /\ Len(Crew) \in Nat
  BY LenProperties, SessionJobsAssumption
<1>5. ASSUME NEW i \in 1 .. Len(Crew)
      PROVE  fresh[i] \in Jobs /\ fresh[i].status = "pending"
  <2>1. i \in DOMAIN Crew /\ Crew[i] \in Agents
    BY <1>4, ElementOfSeq
  <2>2. Job(Crew[i], "plain") \in Jobs /\ epoch + 1 \in Nat
    BY <2>1, NewJob, Lengths DEF JobKinds
  <2>3. [Job(Crew[i], "plain") EXCEPT !.epoch = epoch + 1] \in Jobs
    BY <2>2 DEF Jobs
  <2>4. fresh[i] = [Job(Crew[i], "plain") EXCEPT !.epoch = epoch + 1]
    BY <2>1
  <2> QED
    BY <2>3, <2>4 DEF Job
<1>6. fresh \in Seq(Jobs) /\ Len(fresh) = Len(Crew)
  <2>1. fresh = [i \in DOMAIN Crew |-> fresh[i]]
    OBVIOUS
  <2> HIDE DEF fresh
  <2> QED
    BY <1>4, <1>5, <2>1, MappedSequence
<1> HIDE DEF old, fresh
<1>7. /\ Len(jobs') = Len(jobs) + Len(Crew)
      /\ \A i \in 1 .. Len(jobs) + Len(Crew) :
           jobs'[i] = IF i <= Len(jobs) THEN old[i] ELSE fresh[i - Len(jobs)]
  <2>1. /\ Len(old \o fresh) = Len(old) + Len(fresh)
        /\ \A i \in 1 .. Len(old) + Len(fresh) :
             (old \o fresh)[i] = IF i <= Len(old) THEN old[i] ELSE fresh[i - Len(old)]
    BY <1>3, <1>6, ConcatProperties
  <2> QED
    BY <1>1, <1>2, <1>6, <2>1
<1>8. ASSUME NEW i \in 1 .. Len(jobs'), i \notin 1 .. Len(jobs)
      PROVE  jobs'[i].status = "pending"
  <2>1. i - Len(jobs) \in 1 .. Len(Crew) /\ ~ (i <= Len(jobs))
    BY <1>2, <1>4, <1>7, <1>8
  <2> QED
    BY <1>5, <1>7, <2>1
<1>9. \A i \in 1 .. Len(jobs) : jobs'[i] = old[i]
  BY <1>2, <1>4, <1>7
<1> QED
  BY <1>2, <1>8, <1>9 DEF Undisturbed

\* A report settles one job and adds pending ones.
LEMMA SettlingDisturbsNobody ==
  ASSUME IInv, NEW j \in 1 .. Len(jobs), NEW status \in {"completed", "failed"},
         Extends([jobs EXCEPT ![j].status = status], jobs')
  PROVE  Undisturbed(jobs, jobs')
<1> DEFINE row == [jobs[j] EXCEPT !.status = status]
           js  == [jobs EXCEPT ![j] = row]
<1>1. jobs[j] \in Jobs /\ JobsInv(jobs, epoch) /\ Len(jobs) \in Nat
  BY ARow, Lengths DEF IInv
<1>2. /\ row \in Jobs /\ row.status = status /\ row.worker = jobs[j].worker
      /\ row.status # "in_progress" /\ row.status \notin LiveStates
  BY <1>1 DEF Jobs, TerminalStates, LiveStates
<1>3. Extends(js, jobs')
  OBVIOUS
<1> HIDE DEF row
<1>4. /\ Len(js) = Len(jobs) /\ js[j] = row
      /\ \A i \in 1 .. Len(jobs) : i # j => js[i] = jobs[i]
  BY <1>1, <1>2, ReplacedJob
<1> HIDE DEF js
<1>5. ASSUME NEW i \in 1 .. Len(jobs)
      PROVE  /\ jobs'[i].worker = jobs[i].worker
             /\ jobs'[i].status = "in_progress" => jobs'[i] = jobs[i]
  BY <1>2, <1>3, <1>4 DEF Extends
<1>6. \A i \in 1 .. Len(jobs') : i > Len(jobs) => jobs'[i].status = "pending"
  BY <1>3, <1>4 DEF Extends
<1>7. \A i \in 1 .. Len(jobs') : i \in 1 .. Len(jobs) \/ i > Len(jobs)
  BY <1>1
<1> QED
  BY <1>5, <1>6, <1>7 DEF Undisturbed

\* A report touches no running job but its own.
LEMMA ReportDisturbsNobody ==
  ASSUME IInv, NEW w \in Workers, complete_job(w) \/ RunFails(w) \/ fail_job(w)
  PROVE  Undisturbed(jobs, jobs')
<1> DEFINE j == proc[w].job
<1>1. UNCHANGED jobs => Undisturbed(jobs, jobs')
  BY DEF Undisturbed
<1>2. proc[w].state \in {"working", "failing"}
  BY DEF complete_job, RunFails, fail_job
<1>3. j \in 1 .. Len(jobs)
  BY <1>2 DEF IInv, ProcInv
<1>4. ASSUME NEW r, NEW queued, NEW handedOn, NEW question, NEW rejected,
             NEW to \in Agents \cup {None},
             CompleteWith(j, r, queued, handedOn, question, to, rejected)
      PROVE  Undisturbed(jobs, jobs')
  <2>1. jobs' = FollowUps([jobs EXCEPT ![j].status = "completed"], jobs[j].agent, queued, to, rejected)
    BY <1>4 DEF CompleteWith
  <2>2. JobsInv([jobs EXCEPT ![j].status = "completed"], epoch)
    BY <1>3, SettledTable
  <2>3. Extends([jobs EXCEPT ![j].status = "completed"], jobs')
    BY <2>1, <2>2, FollowUpsExtend
  <2> QED
    BY <1>3, <2>3, SettlingDisturbsNobody
<1>5. CASE FailWith(j)
  <2>1. JobsInv([jobs EXCEPT ![j].status = "failed"], epoch)
    BY <1>3, SettledTable
  <2>2. Extends([jobs EXCEPT ![j].status = "failed"], jobs')
    BY <1>5, <2>1, RecoveryExtends DEF FailWith
  <2> QED
    BY <1>3, <2>2, SettlingDisturbsNobody
<1>6. CASE complete_job(w)
  BY <1>1, <1>4, <1>6 DEF complete_job
<1>7. CASE RunFails(w) \/ fail_job(w)
  BY <1>1, <1>5, <1>7 DEF RunFails, fail_job
<1> QED
  BY <1>6, <1>7

\* The pending job that is handed out.
LEMMA PendingHandedTo ==
  ASSUME IInv, NEW w \in Workers, NEW js, Back(js, proc[w].agent), ClaimPending(w, js)
  PROVE  /\ HandedTo(js, jobs', w, proc[w].agent)
         /\ \A i \in 1 .. Len(js) : js[i].status = "in_progress" => jobs'[i].worker = js[i].worker
<1> DEFINE a == proc[w].agent
           j == Smallest(PendingOf(js, a))
<1>1. jobs' = [js EXCEPT ![j] = Started(js[j], w)] /\ PendingOf(js, a) # {}
  BY DEF ClaimPending
<1>2. js \in Seq(Jobs) /\ DOMAIN js = 1 .. Len(js) /\ Len(js) \in Nat
  BY LenProperties DEF Back, JobsInv
<1>3. j \in PendingOf(js, a)
  <2>1. PendingOf(js, a) \subseteq Nat
    BY <1>2 DEF PendingOf
  <2> QED
    BY <1>1, <2>1, SmallestIsElement
<1>4. j \in 1 .. Len(js) /\ js[j].agent = a /\ js[j].status = "pending" /\ js[j] \in Jobs
  BY <1>2, <1>3, ElementOfSeq DEF PendingOf
<1>5. Started(js[j], w).worker = w /\ Started(js[j], w).agent = a
  BY <1>4 DEF Started, Jobs
<1> HIDE DEF j
<1>6. /\ Len(jobs') = Len(js) /\ jobs'[j] = Started(js[j], w)
      /\ \A i \in 1 .. Len(js) : i # j => jobs'[i] = js[i]
  BY <1>1, <1>2, <1>4
<1>7. HandedTo(js, jobs', w, a)
  BY <1>5, <1>6 DEF HandedTo
<1>8. \A i \in 1 .. Len(js) : js[i].status = "in_progress" => jobs'[i].worker = js[i].worker
  BY <1>4, <1>6
<1> QED
  BY <1>7, <1>8

\* A new row is added for the claimer.
LEMMA AddedHandedTo ==
  ASSUME IInv, NEW row, NEW w, jobs' = Append(jobs, row), row.worker = w
  PROVE  /\ HandedTo(jobs, jobs', w, row.agent)
         /\ \A i \in 1 .. Len(jobs) : jobs'[i] = jobs[i]
<1>1. Len(jobs) \in Nat /\ jobs \in Seq(Jobs)
  BY Lengths
<1>2. /\ Len(jobs') = Len(jobs) + 1 /\ jobs'[Len(jobs) + 1] = row
      /\ \A i \in 1 .. Len(jobs) : jobs'[i] = jobs[i]
  BY <1>1
<1>3. \A i \in 1 .. Len(jobs') : i \in 1 .. Len(jobs) \/ i = Len(jobs) + 1
  BY <1>1, <1>2
<1> QED
  BY <1>2, <1>3 DEF HandedTo

\* claim_next_job hands work to the caller only, and takes a job in progress from
\* another only when it was the caller's agent's.
LEMMA ClaimHandsTo ==
  ASSUME IInv, NEW w \in Workers, claim_next_job(w)
  PROVE  /\ HandedTo(jobs, jobs', w, proc[w].agent)
         /\ \A i \in 1 .. Len(jobs) :
              jobs[i].status = "in_progress" /\ jobs'[i].worker # jobs[i].worker =>
                jobs[i].agent = proc[w].agent /\ jobs[i].worker # w
<1> DEFINE a == proc[w].agent
<1>1. Len(jobs) \in Nat /\ DOMAIN jobs = 1 .. Len(jobs) /\ jobs \in Seq(Jobs)
  BY Lengths
<1>2. CASE ClaimNew(w)
  <2>1. Running(a) = {}
    BY <1>2 DEF ClaimNew
  <2>2. CASE ClaimPending(w, jobs)
    BY <2>1, <2>2, NothingToPutBack, PendingHandedTo
  <2>3. CASE _claim_ready_task_job(w)
    <3>1. PICK h : jobs' = Append(jobs, [Started(Job(a, "handoff"), w) EXCEPT
                                           !.task = handoffs[h].task,
                                           !.revision = tasks[handoffs[h].task].revision,
                                           !.handoff = h])
      BY <2>3 DEF _claim_ready_task_job
    <3> DEFINE row == [Started(Job(a, "handoff"), w) EXCEPT
                         !.task = handoffs[h].task,
                         !.revision = tasks[handoffs[h].task].revision,
                         !.handoff = h]
    <3>2. row.worker = w /\ row.agent = a
      BY DEF Started, Job
    <3> HIDE DEF row
    <3>3. jobs' = Append(jobs, row)
      BY <3>1 DEF row
    <3> QED
      BY <3>2, <3>3, AddedHandedTo
  <2>4. CASE _claim_curator_sweep_job(w)
    <3> DEFINE row == Started(Job(Curator, "curation"), w)
    <3>1. jobs' = Append(jobs, row) /\ a = Curator
      BY <2>4 DEF _claim_curator_sweep_job
    <3>2. row.worker = w /\ row.agent = Curator
      BY DEF Started, Job
    <3> HIDE DEF row
    <3> QED
      BY <3>1, <3>2, AddedHandedTo
  <2> QED
    BY <1>2, <2>2, <2>3, <2>4 DEF ClaimNew
<1>3. CASE ClaimAfterOrphan(w)
  <2>1. PICK j \in Running(a) :
          LET js == [jobs EXCEPT ![j].status = "pending", ![j].worker = None]
          IN  /\ Orphaned(w, j)
              /\ ClaimPending(w, js) \/ jobs' = js
    BY <1>3 DEF ClaimAfterOrphan
  <2> DEFINE js == [jobs EXCEPT ![j].status = "pending", ![j].worker = None]
  <2>2. /\ j \in 1 .. Len(jobs) /\ jobs[j].agent = a /\ jobs[j].worker # w
        /\ jobs[j] \in Jobs
    BY <1>1, <2>1, ARow DEF Running, Orphaned
  <2>3. Back(js, a)
    BY PutBack
  <2>4. /\ Len(js) = Len(jobs)
        /\ js[j].status = "pending"
        /\ \A i \in 1 .. Len(jobs) : i # j => js[i] = jobs[i]
    BY <1>1, <2>2 DEF Jobs
  <2> HIDE DEF js
  <2>5. /\ HandedTo(js, jobs', w, a)
        /\ \A i \in 1 .. Len(js) : js[i].status = "in_progress" => jobs'[i].worker = js[i].worker
    <3>1. CASE ClaimPending(w, js)
      BY <2>3, <3>1, PendingHandedTo
    <3>2. CASE jobs' = js
      BY <3>2 DEF HandedTo
    <3> QED
      BY <2>1, <3>1, <3>2 DEF js
  <2>6. HandedTo(jobs, jobs', w, a)
    BY <2>4, <2>5 DEF HandedTo
  <2>7. \A i \in 1 .. Len(jobs) :
          jobs[i].status = "in_progress" /\ jobs'[i].worker # jobs[i].worker => i = j
    BY <2>4, <2>5
  <2> QED
    BY <2>2, <2>6, <2>7
<1> QED
  BY <1>2, <1>3 DEF claim_next_job
-----------------------------------------------------------------------------
(* Which processes live *)

\* No process changes its agent, none starts and none ends.
SameProcesses ==
  \A w \in Workers : /\ proc'[w].agent = proc[w].agent
                     /\ (proc'[w].state = "gone") <=> (proc[w].state = "gone")

\* What a process does with its work leaves it what it is.
LEMMA WorkKeepsProcesses ==
  ASSUME IInv, NEW w \in Workers,
         claim_next_job(w) \/ complete_job(w) \/ RunFails(w) \/ fail_job(w)
  PROVE  SameProcesses
<1>1. proc \in [Workers -> Procs]
  BY DEF IInv, ProcInv
<1>2. proc[w].state # "gone"
  BY DEF claim_next_job, complete_job, RunFails, fail_job
<1>3. CASE claim_next_job(w)
  <2>1. \/ proc' = proc
        \/ \E j : proc' = [proc EXCEPT ![w].state = "working", ![w].job = j]
    BY <1>3 DEF claim_next_job, ClaimAfterOrphan, ClaimNew, ClaimPending,
                _claim_ready_task_job, _claim_curator_sweep_job, Answered
  <2> QED
    BY <1>1, <1>2, <2>1 DEF SameProcesses, Procs
<1>4. CASE complete_job(w) \/ RunFails(w) \/ fail_job(w)
  <2>1. PICK state \in {"idle", "failing"} : Reported(w, state)
    BY <1>4 DEF complete_job, RunFails, fail_job
  <2> QED
    BY <1>1, <1>2, <2>1 DEF Reported, SameProcesses, Procs
<1> QED
  BY <1>3, <1>4

\* A live process is booting or registered, is on its daemon's books unless the
\* daemon is down, and is the only one of its agent on the machine.
ProcessInv ==
  /\ \A w \in Workers : booting[w] # None => proc[w].state = "gone"
  /\ \A w \in Workers :
       Alive(w) /\ launcher[Host[w]] # "down" => managed[Host[w]][AgentOf(w)] = w
  /\ OneProcessPerAgent

\* A process that a job in progress names has registered, and serves the job's agent.
NamesInv(js) ==
  \A i \in 1 .. Len(js), w \in Workers :
    js[i].status = "in_progress" /\ js[i].worker = w =>
      /\ booting[w] = None
      /\ proc[w].state # "gone" => proc[w].agent = js[i].agent

\* A process has one agent all its life, and a live one an agent at all.
LEMMA LiveHasAgent ==
  ASSUME SessionTypeOK, IInv, NEW w \in Workers, Alive(w)
  PROVE  AgentOf(w) \in Agents
BY SessionJobsAssumption DEF SessionTypeOK, IInv, ProcInv, Alive, AgentOf

\* Steps that start and end no process, and leave the books and the daemons alone.
LEMMA NobodyStarts ==
  ASSUME ProcessInv, SameProcesses, UNCHANGED <<booting, launcher, managed>>
  PROVE  ProcessInv'
<1>1. \A w \in Workers : Alive(w)' = Alive(w) /\ AgentOf(w)' = AgentOf(w)
  BY DEF SameProcesses, Alive, AgentOf
<1> QED
  BY <1>1 DEF ProcessInv, SameProcesses, OneProcessPerAgent

\* A process that ends takes nothing from the others; its daemon may strike it off.
LEMMA EndingKeepsProcesses ==
  ASSUME SessionTypeOK, IInv, ProcessInv, NEW w \in Workers, Ends(w), UNCHANGED launcher,
         \/ UNCHANGED managed
         \/ \E l \in Launchers, a \in Agents :
              managed[l][a] = w /\ managed' = [managed EXCEPT ![l][a] = None]
  PROVE  ProcessInv'
<1>1. proc \in [Workers -> Procs] /\ booting \in [Workers -> Agents \cup {None}]
  BY DEF IInv, ProcInv, SessionTypeOK
<1>2. /\ booting' = [booting EXCEPT ![w] = None]
      /\ \/ proc' = [proc EXCEPT ![w] = Gone]
         \/ proc' = proc /\ proc[w].state = "gone"
  BY DEF Ends, WorkerDies, vars
<1>3. ~ Alive(w)' /\ proc'[w].state = "gone"
  BY <1>1, <1>2 DEF Alive, Gone
<1>4. \A v \in Workers : v # w => /\ Alive(v)' = Alive(v) /\ AgentOf(v)' = AgentOf(v)
                                  /\ booting'[v] = booting[v] /\ proc'[v] = proc[v]
  BY <1>1, <1>2 DEF Alive, AgentOf
<1>5. ASSUME NEW v \in Workers, Alive(v)', launcher'[Host[v]] # "down"
      PROVE  managed'[Host[v]][AgentOf(v)'] = v
  <2>1. v # w /\ Alive(v) /\ AgentOf(v)' = AgentOf(v)
    BY <1>3, <1>4, <1>5
  <2>2. managed[Host[v]][AgentOf(v)] = v
    BY <1>5, <2>1 DEF ProcessInv
  <2>3. managed \in [Launchers -> WorkerIds] /\ Host[v] \in Launchers
    BY SessionsAssumption DEF SessionTypeOK
  <2>4. AgentOf(v) \in Agents
    BY <2>1, LiveHasAgent
  <2>5. CASE UNCHANGED managed
    BY <2>1, <2>2, <2>5
  <2>6. ASSUME NEW l \in Launchers, NEW a \in Agents,
               managed[l][a] = w, managed' = [managed EXCEPT ![l][a] = None]
        PROVE  managed'[Host[v]][AgentOf(v)] = v
    <3>1. Host[v] # l \/ AgentOf(v) # a
      BY <2>1, <2>2, <2>6
    <3> QED
      BY <2>2, <2>3, <2>4, <2>6, <3>1 DEF WorkerIds
  <2> QED
    BY <2>1, <2>5, <2>6
<1>6. OneProcessPerAgent'
  BY <1>3, <1>4 DEF ProcessInv, OneProcessPerAgent
<1>7. \A v \in Workers : booting'[v] # None => proc'[v].state = "gone"
  BY <1>3, <1>4 DEF ProcessInv
<1> QED
  BY <1>5, <1>6, <1>7 DEF ProcessInv

\* A daemon starts a process for an agent of which it has no live one.
LEMMA StartKeepsProcesses ==
  ASSUME SessionTypeOK, IInv, ProcessInv, NEW l \in Launchers, launcher[l] = "launching",
         NEW a \in Needs(l), NEW w \in Workers, Fresh(w), Host[w] = l,
         booting' = [booting EXCEPT ![w] = a], managed' = [managed EXCEPT ![l][a] = w],
         UNCHANGED <<launcher, proc>>
  PROVE  ProcessInv'
<1>1. /\ booting \in [Workers -> Agents \cup {None}] /\ a \in Agents /\ a # None
      /\ managed \in [Launchers -> WorkerIds] /\ proc[w].state = "gone"
      /\ ~ Alive(w)
  BY SessionJobsAssumption DEF SessionTypeOK, Needs, Fresh, Alive
<1>2. /\ Alive(w)' /\ AgentOf(w)' = a
      /\ \A v \in Workers : v # w => /\ Alive(v)' = Alive(v) /\ AgentOf(v)' = AgentOf(v)
                                     /\ booting'[v] = booting[v]
  BY <1>1 DEF Alive, AgentOf
<1>3. ASSUME NEW v \in Workers, Alive(v), Host[v] = l
      PROVE  AgentOf(v) # a
  <2>1. managed[l][AgentOf(v)] = v
    BY <1>3 DEF ProcessInv
  <2> QED
    BY <1>3, <2>1 DEF Needs
<1>4. /\ managed'[l][a] = w
      /\ \A m \in Launchers, b \in Agents :
           (m # l \/ b # a) => managed'[m][b] = managed[m][b]
  BY <1>1 DEF WorkerIds
<1>5. ASSUME NEW v \in Workers, Alive(v)', launcher'[Host[v]] # "down"
      PROVE  managed'[Host[v]][AgentOf(v)'] = v
  <2>1. CASE v = w
    BY <1>2, <1>4, <2>1
  <2>2. CASE v # w
    <3>1. Alive(v) /\ AgentOf(v)' = AgentOf(v)
      BY <1>2, <1>5, <2>2
    <3>2. managed[Host[v]][AgentOf(v)] = v
      BY <1>5, <3>1 DEF ProcessInv
    <3>3. AgentOf(v) \in Agents /\ Host[v] \in Launchers
      BY <3>1, LiveHasAgent, SessionsAssumption
    <3>4. Host[v] # l \/ AgentOf(v) # a
      BY <1>3, <3>1
    <3> QED
      BY <1>4, <3>1, <3>2, <3>3, <3>4
  <2> QED
    BY <2>1, <2>2
<1>6. OneProcessPerAgent'
  <2> SUFFICES ASSUME NEW u \in Workers, NEW v \in Workers, Alive(u)', Alive(v)',
                      Host[u] = Host[v], AgentOf(u)' = AgentOf(v)'
               PROVE  u = v
    BY DEF OneProcessPerAgent
  <2>1. CASE u = w /\ v # w
    BY <1>2, <1>3, <2>1
  <2>2. CASE u # w /\ v = w
    BY <1>2, <1>3, <2>2
  <2>3. CASE u # w /\ v # w
    BY <1>2, <2>3 DEF ProcessInv, OneProcessPerAgent
  <2> QED
    BY <2>1, <2>2, <2>3
<1>7. \A v \in Workers : booting'[v] # None => proc'[v].state = "gone"
  BY <1>1, <1>2 DEF ProcessInv
<1> QED
  BY <1>5, <1>6, <1>7 DEF ProcessInv

\* A process that registers stays the process it is.
LEMMA RegisteringKeepsProcesses ==
  ASSUME SessionTypeOK, IInv, ProcessInv, NEW w \in Workers, register_worker(w)
  PROVE  ProcessInv'
<1> DEFINE a == booting[w]
<1>1. CASE UNCHANGED <<vars, booting>>
  <2>1. SameProcesses
    BY <1>1 DEF SameProcesses, vars
  <2> QED
    BY <1>1, <2>1, NobodyStarts DEF register_worker
<1>2. CASE WorkerStarts(w, a) /\ booting' = [booting EXCEPT ![w] = None]
  <2>1. /\ proc \in [Workers -> Procs] /\ booting \in [Workers -> Agents \cup {None}]
        /\ a \in Agents /\ a # None
    BY DEF IInv, ProcInv, SessionTypeOK, register_worker
  <2>2. proc' = [proc EXCEPT ![w] = [state |-> "idle", agent |-> a, job |-> 0]]
    BY <1>2 DEF WorkerStarts
  <2>3. \A v \in Workers : /\ Alive(v)' = Alive(v) /\ AgentOf(v)' = AgentOf(v)
                           /\ booting'[v] # None => proc'[v].state = "gone"
    BY <1>2, <2>1, <2>2 DEF Alive, AgentOf, ProcessInv
  <2> QED
    BY <2>3 DEF ProcessInv, OneProcessPerAgent, register_worker
<1> QED
  BY <1>1, <1>2 DEF register_worker

\* The machine's processes under every step of a daemon.
LEMMA DaemonKeepsProcesses ==
  ASSUME SessionTypeOK, IInv, ProcessInv, NEW l \in Launchers, Daemon(l)
  PROVE  ProcessInv'
<1>1. UNCHANGED vars => SameProcesses
  BY DEF SameProcesses, vars
<1>2. CASE claim_launches(l)
  <2>1. SameProcesses /\ UNCHANGED <<booting, managed>>
    BY <1>1, <1>2 DEF claim_launches
  <2>2. \A m \in Launchers : launcher'[m] # "down" => launcher[m] # "down"
    BY <1>2 DEF claim_launches, SessionTypeOK
  <2>3. \A w \in Workers : Alive(w)' = Alive(w) /\ AgentOf(w)' = AgentOf(w)
    BY <2>1 DEF SameProcesses, Alive, AgentOf
  <2> QED
    BY <2>1, <2>2, <2>3, SessionsAssumption DEF ProcessInv, SameProcesses, OneProcessPerAgent
<1>3. CASE _ensure_session_workers(l)
  <2>1. launcher[l] = "launching" /\ UNCHANGED vars
    BY <1>3 DEF _ensure_session_workers
  <2>2. CASE UNCHANGED <<booting, managed>> /\ launcher' = [launcher EXCEPT ![l] = "up"]
    <3>1. \A m \in Launchers : launcher'[m] # "down" => launcher[m] # "down"
      BY <2>1, <2>2 DEF SessionTypeOK
    <3>2. \A w \in Workers : Alive(w)' = Alive(w) /\ AgentOf(w)' = AgentOf(w)
      BY <1>1, <2>1, <2>2 DEF SameProcesses, Alive, AgentOf
    <3> QED
      BY <1>1, <2>1, <2>2, <3>1, <3>2, SessionsAssumption
         DEF ProcessInv, SameProcesses, OneProcessPerAgent
  <2>3. ASSUME NEW a \in Needs(l), NEW w \in Workers, Fresh(w), Host[w] = l,
               booting' = [booting EXCEPT ![w] = a], managed' = [managed EXCEPT ![l][a] = w],
               UNCHANGED launcher
        PROVE  ProcessInv'
    BY <2>1, <2>3, StartKeepsProcesses DEF vars
  <2> QED
    BY <1>3, <2>2, <2>3 DEF _ensure_session_workers
<1>4. ASSUME NEW a \in Agents, Reconcile(l, a)
      PROVE  ProcessInv'
  <2> DEFINE w == managed[l][a]
  <2>1. /\ w # None /\ UNCHANGED launcher
        /\ managed' = [managed EXCEPT ![l][a] = None]
    BY <1>4 DEF Reconcile
  <2>2. w \in Workers
    BY <2>1 DEF SessionTypeOK, WorkerIds
  <2>3. CASE Ends(w)
    BY <2>1, <2>2, <2>3, EndingKeepsProcesses
  <2>4. CASE ~ Alive(w) /\ UNCHANGED <<vars, booting>>
    <3>1. \A v \in Workers : Alive(v)' = Alive(v) /\ AgentOf(v)' = AgentOf(v)
      BY <2>4 DEF Alive, AgentOf, vars
    <3>2. ASSUME NEW v \in Workers, Alive(v), launcher[Host[v]] # "down"
          PROVE  managed'[Host[v]][AgentOf(v)] = v
      <4>1. managed[Host[v]][AgentOf(v)] = v /\ v # w
        BY <2>4, <3>2 DEF ProcessInv
      <4>2. managed \in [Launchers -> WorkerIds]
        BY DEF SessionTypeOK
      <4> QED
        BY <2>1, <4>1, <4>2 DEF WorkerIds
    <3> QED
      BY <2>1, <2>4, <3>1, <3>2 DEF ProcessInv, OneProcessPerAgent, vars
  <2> QED
    BY <1>4, <2>3, <2>4 DEF Reconcile
<1>5. CASE LauncherCrashes(l)
  <2>1. \A w \in Workers : Alive(w)' = Alive(w) /\ AgentOf(w)' = AgentOf(w)
    BY <1>5 DEF LauncherCrashes, Alive, AgentOf, vars
  <2>2. \A w \in Workers : launcher'[Host[w]] # "down" =>
          launcher[Host[w]] # "down" /\ managed'[Host[w]] = managed[Host[w]]
    BY <1>5, SessionsAssumption DEF LauncherCrashes, SessionTypeOK
  <2> QED
    BY <1>5, <2>1, <2>2 DEF ProcessInv, OneProcessPerAgent, LauncherCrashes, vars
<1>6. CASE LauncherStarts(l)
  <2>1. ASSUME NEW w \in Workers, Ends(w), UNCHANGED launcher
        PROVE  ProcessInv'
    BY <1>6, <2>1, EndingKeepsProcesses DEF LauncherStarts
  <2>2. ASSUME \A w \in Workers : Host[w] = l => ~ Alive(w),
               launcher' = [launcher EXCEPT ![l] = "up"], UNCHANGED <<vars, booting>>
        PROVE  ProcessInv'
    <3>1. \A w \in Workers : Alive(w)' = Alive(w) /\ AgentOf(w)' = AgentOf(w)
      BY <2>2 DEF Alive, AgentOf, vars
    <3>2. \A w \in Workers : Alive(w) => launcher'[Host[w]] = launcher[Host[w]]
      BY <2>2, SessionsAssumption DEF SessionTypeOK
    <3> QED
      BY <1>6, <2>2, <3>1, <3>2 DEF ProcessInv, OneProcessPerAgent, LauncherStarts, vars
  <2> QED
    BY <1>6, <2>1, <2>2 DEF LauncherStarts
<1> QED
  BY <1>2, <1>3, <1>4, <1>5, <1>6 DEF Daemon

\* No step brings two processes of one agent to life on one machine.
LEMMA ProcessesKept ==
  ASSUME SessionTypeOK, IInv, ProcessInv, [SessionNext]_sessionVars
  PROVE  ProcessInv'
<1>1. UNCHANGED proc => SameProcesses
  BY DEF SameProcesses
<1>2. CASE Operator
  <2>1. UNCHANGED machine /\ UNCHANGED proc
    BY <1>2 DEF Operator, OperatorSends, route_discord_message, enqueue_restart, reset_session,
                close_session, pause, CancelJobs, resume, vars
  <2> QED
    BY <1>1, <2>1, NobodyStarts DEF machine
<1>3. CASE Recovery
  <2>1. UNCHANGED machine /\ UNCHANGED proc
    BY <1>3 DEF Recovery, RecoverBegins, RecoverDecides, RecoveryFails, EndSession, SetStatus,
                CancelJobs, vars
  <2> QED
    BY <1>1, <2>1, NobodyStarts DEF machine
<1>4. CASE Time
  <2>1. UNCHANGED <<booting, launcher, managed, proc>>
    BY <1>4 DEF Time, HeardAges, LaunchersSilent, machine, vars
  <2> QED
    BY <1>1, <2>1, NobodyStarts
<1>5. ASSUME NEW w \in Workers, Process(w)
      PROVE  ProcessInv'
  <2>1. CASE register_worker(w)
    BY <2>1, RegisteringKeepsProcesses
  <2>2. CASE heartbeat(w)
    BY <1>1, <2>2, NobodyStarts DEF heartbeat, machine, vars
  <2>3. CASE WorkerClaims(w) \/ WorkerReports(w)
    <3>1. SameProcesses
      BY <2>3, WorkKeepsProcesses DEF WorkerClaims, WorkerReports
    <3> QED
      BY <2>3, <3>1, NobodyStarts DEF WorkerClaims, WorkerReports, machine
  <2>4. CASE ProcessDies(w)
    BY <2>4, EndingKeepsProcesses DEF ProcessDies
  <2> QED
    BY <1>5, <2>1, <2>2, <2>3, <2>4 DEF Process
<1>6. CASE UNCHANGED sessionVars
  BY <1>1, <1>6, NobodyStarts DEF sessionVars, vars, machine
<1> QED
  BY <1>2, <1>3, <1>4, <1>5, <1>6, DaemonKeepsProcesses DEF SessionNext
-----------------------------------------------------------------------------
(* From whom a job is taken *)

\* Only a claim puts a job in progress, or takes one from its worker.
LEMMA OnlyClaimsDisturb ==
  ASSUME SessionTypeOK, IInv, [SessionNext]_sessionVars
  PROVE  Undisturbed(jobs, jobs') \/ \E w \in Workers : WorkerClaims(w)
<1>1. UNCHANGED jobs => Undisturbed(jobs, jobs')
  BY DEF Undisturbed
<1>2. ASSUME NEW states \in {{"pending"}, LiveStates}, CancelJobs(states)
      PROVE  Undisturbed(jobs, jobs')
  BY <1>2, CancelDisturbsNobody DEF CancelJobs
<1>3. CASE Operator
  <2>1. CASE OperatorSends
    <3>1. \/ \E a \in Agents, kind \in {"plain", "planning"} :
               route_discord_message(a, kind) \/ enqueue_restart(a)
          \/ reset_session
      BY <2>1 DEF OperatorSends
    <3> QED
      BY <3>1, RoutedDisturbsNobody, ResetDisturbsNobody
  <2>2. CASE close_session \/ pause
    BY <1>2, <2>2 DEF close_session, pause
  <2>3. CASE resume
    BY <1>1, <2>3 DEF resume, vars
  <2> QED
    BY <1>3, <2>1, <2>2, <2>3 DEF Operator
<1>4. CASE Recovery
  <2>1. UNCHANGED jobs \/ CancelJobs(LiveStates)
    BY <1>4 DEF Recovery, RecoverBegins, RecoverDecides, RecoveryFails, EndSession, SetStatus, vars
  <2> QED
    BY <1>1, <1>2, <2>1
<1>5. CASE Time
  BY <1>1, <1>5 DEF Time, HeardAges, LaunchersSilent, vars
<1>6. ASSUME NEW w \in Workers, Process(w)
      PROVE  Undisturbed(jobs, jobs') \/ WorkerClaims(w)
  <2>1. CASE WorkerReports(w)
    BY <2>1, ReportDisturbsNobody DEF WorkerReports
  <2>2. CASE register_worker(w) \/ heartbeat(w) \/ ProcessDies(w)
    <3>1. UNCHANGED jobs
      BY <2>2 DEF register_worker, heartbeat, ProcessDies, Ends, WorkerStarts, WorkerDies, vars
    <3> QED
      BY <1>1, <3>1
  <2> QED
    BY <1>6, <2>1, <2>2 DEF Process
<1>7. ASSUME NEW l \in Launchers, Daemon(l)
      PROVE  Undisturbed(jobs, jobs')
  <2>1. UNCHANGED jobs
    BY <1>7 DEF Daemon, claim_launches, _ensure_session_workers, Reconcile, LauncherCrashes,
                LauncherStarts, Ends, WorkerDies, vars
  <2> QED
    BY <1>1, <2>1
<1>8. CASE UNCHANGED sessionVars
  BY <1>1, <1>8 DEF sessionVars, vars
<1> QED
  BY <1>3, <1>4, <1>5, <1>6, <1>7, <1>8 DEF SessionNext

\* A process a job names is not started anew, and while it lives keeps its agent.
KeepsNamed ==
  \A i \in 1 .. Len(jobs), w \in Workers :
    jobs[i].status = "in_progress" /\ jobs[i].worker = w /\ booting[w] = None =>
      /\ booting'[w] = None
      /\ proc'[w].state # "gone" => proc[w].state # "gone" /\ proc'[w].agent = proc[w].agent

\* Ids are used again only once no live job names them.
LEMMA NamedAreKept ==
  ASSUME SessionTypeOK, IInv, [SessionNext]_sessionVars
  PROVE  KeepsNamed
<1>1. /\ proc \in [Workers -> Procs] /\ booting \in [Workers -> Agents \cup {None}]
      /\ DOMAIN jobs = 1 .. Len(jobs)
  BY Lengths DEF IInv, ProcInv, SessionTypeOK
<1>2. SameProcesses /\ UNCHANGED booting => KeepsNamed
  BY DEF SameProcesses, KeepsNamed
<1>3. UNCHANGED proc => SameProcesses
  BY DEF SameProcesses
<1>4. ASSUME NEW w \in Workers, Ends(w)
      PROVE  KeepsNamed
  <2>1. /\ booting' = [booting EXCEPT ![w] = None]
        /\ \/ proc' = [proc EXCEPT ![w] = Gone]
           \/ proc' = proc
    BY <1>4 DEF Ends, WorkerDies, vars
  <2>2. \A v \in Workers : /\ booting[v] = None => booting'[v] = None
                           /\ proc'[v].state # "gone" => proc'[v] = proc[v]
    BY <1>1, <2>1 DEF Gone
  <2> QED
    BY <2>2 DEF KeepsNamed
<1>5. CASE Operator \/ Recovery \/ Time
  <2>1. UNCHANGED <<booting, proc>>
    BY <1>5 DEF Operator, OperatorSends, route_discord_message, enqueue_restart, reset_session,
                close_session, pause, CancelJobs, resume, Recovery, RecoverBegins, RecoverDecides,
                RecoveryFails, EndSession, SetStatus, Time, HeardAges, LaunchersSilent, machine, vars
  <2> QED
    BY <1>2, <1>3, <2>1
<1>6. ASSUME NEW w \in Workers, Process(w)
      PROVE  KeepsNamed
  <2>1. CASE register_worker(w)
    <3>1. CASE UNCHANGED <<vars, booting>>
      BY <1>2, <1>3, <3>1 DEF vars
    <3>2. CASE WorkerStarts(w, booting[w]) /\ booting' = [booting EXCEPT ![w] = None]
      <4>1. booting[w] # None
        BY <2>1 DEF register_worker
      <4>2. \A v \in Workers \ {w} : booting'[v] = booting[v] /\ proc'[v] = proc[v]
        BY <1>1, <3>2 DEF WorkerStarts
      <4> QED
        BY <4>1, <4>2 DEF KeepsNamed
    <3> QED
      BY <2>1, <3>1, <3>2 DEF register_worker
  <2>2. CASE heartbeat(w)
    BY <1>2, <1>3, <2>2 DEF heartbeat, machine, vars
  <2>3. CASE WorkerClaims(w) \/ WorkerReports(w)
    <3>1. SameProcesses
      BY <2>3, WorkKeepsProcesses DEF WorkerClaims, WorkerReports
    <3> QED
      BY <1>2, <2>3, <3>1 DEF WorkerClaims, WorkerReports, machine
  <2>4. CASE ProcessDies(w)
    BY <1>4, <2>4 DEF ProcessDies
  <2> QED
    BY <1>6, <2>1, <2>2, <2>3, <2>4 DEF Process
<1>7. ASSUME NEW l \in Launchers, Daemon(l)
      PROVE  KeepsNamed
  <2>1. CASE claim_launches(l) \/ LauncherCrashes(l)
    BY <1>2, <1>3, <2>1 DEF claim_launches, LauncherCrashes, vars
  <2>2. CASE _ensure_session_workers(l)
    <3>1. UNCHANGED proc
      BY <2>2 DEF _ensure_session_workers, vars
    <3>2. ASSUME NEW a, NEW w \in Workers, Fresh(w), booting' = [booting EXCEPT ![w] = a]
          PROVE  KeepsNamed
      <4>1. \A i \in 1 .. Len(jobs) : jobs[i].status = "in_progress" => jobs[i].worker # w
        BY <1>1, <3>2 DEF Fresh, Unnamed, Live, LiveStates
      <4>2. \A v \in Workers \ {w} : booting'[v] = booting[v]
        BY <1>1, <3>2
      <4> QED
        BY <3>1, <4>1, <4>2 DEF KeepsNamed
    <3> QED
      BY <1>2, <1>3, <2>2, <3>1, <3>2 DEF _ensure_session_workers
  <2>3. ASSUME NEW a \in Agents, Reconcile(l, a)
        PROVE  KeepsNamed
    <3>1. managed[l][a] \in Workers
      BY <2>3 DEF Reconcile, SessionTypeOK, WorkerIds
    <3>2. Ends(managed[l][a]) \/ UNCHANGED <<vars, booting>>
      BY <2>3 DEF Reconcile
    <3> QED
      BY <1>2, <1>3, <1>4, <3>1, <3>2 DEF vars
  <2>4. CASE LauncherStarts(l)
    BY <1>2, <1>3, <1>4, <2>4 DEF LauncherStarts, vars
  <2> QED
    BY <1>7, <2>1, <2>2, <2>3, <2>4 DEF Daemon
<1>8. CASE UNCHANGED sessionVars
  BY <1>2, <1>3, <1>8 DEF sessionVars, vars, machine
<1> QED
  BY <1>5, <1>6, <1>7, <1>8 DEF SessionNext

\* Every job in progress goes on naming a process of its agent, or a dead one.
LEMMA NamesKept ==
  ASSUME SessionTypeOK, IInv, ProcessInv, NamesInv(jobs), [SessionNext]_sessionVars
  PROVE  NamesInv(jobs)'
<1>1. KeepsNamed
  BY NamedAreKept
<1>2. CASE Undisturbed(jobs, jobs')
  BY <1>1, <1>2 DEF Undisturbed, KeepsNamed, NamesInv
<1>3. ASSUME NEW w \in Workers, WorkerClaims(w)
      PROVE  NamesInv(jobs)'
  <2>1. HandedTo(jobs, jobs', w, proc[w].agent)
    BY <1>3, ClaimHandsTo DEF WorkerClaims
  <2>2. proc[w].state = "idle" /\ UNCHANGED booting /\ SameProcesses
    BY <1>3, WorkKeepsProcesses DEF WorkerClaims, claim_next_job, machine
  <2>3. booting'[w] = None /\ proc'[w].agent = proc[w].agent
    BY <2>2 DEF ProcessInv, SameProcesses
  <2> QED
    BY <1>1, <2>1, <2>3 DEF HandedTo, KeepsNamed, NamesInv
<1> QED
  BY <1>2, <1>3, OnlyClaimsDisturb

\* A claim that takes a job from a live process is one of another launcher's process.
LEMMA TakenFromTheDead ==
  ASSUME SessionTypeOK, IInv, ProcessInv, NamesInv(jobs), [SessionNext]_sessionVars,
         NEW j \in DOMAIN jobs, NEW w \in Workers, jobs[j].status = "in_progress",
         jobs[j].worker = w, jobs'[j].worker # w
  PROVE  \/ ~ Alive(w)
         \/ \E v \in Workers : /\ worker[jobs[j].agent] = v /\ Host[v] # Host[w]
                               /\ proc[v].state # "gone" /\ proc[v].agent = jobs[j].agent
<1>1. j \in 1 .. Len(jobs) /\ DOMAIN jobs = 1 .. Len(jobs)
  BY Lengths
<1>2. PICK v \in Workers : WorkerClaims(v)
  BY <1>1, OnlyClaimsDisturb DEF Undisturbed
<1>3. jobs[j].agent = proc[v].agent /\ w # v
  BY <1>1, <1>2, ClaimHandsTo DEF WorkerClaims
<1>4. proc[v].state = "idle" /\ worker[proc[v].agent] = v
  BY <1>1, <1>2, <1>3 DEF WorkerClaims, claim_next_job, Running
<1>5. Alive(v) /\ AgentOf(v) = proc[v].agent
  BY <1>4 DEF Alive, AgentOf, ProcessInv
<1>6. Alive(w) => AgentOf(w) = jobs[j].agent
  BY <1>1 DEF NamesInv, Alive, AgentOf
<1>7. Alive(w) => Host[v] # Host[w]
  BY <1>3, <1>5, <1>6 DEF ProcessInv, OneProcessPerAgent
<1> QED
  BY <1>3, <1>4, <1>7

\* The processes of the machines, on top of the work and the rows.
THEOREM MachineInvariance ==
  SessionSpec => [](SessionTypeOK /\ IInv /\ ProcessInv /\ NamesInv(jobs))
<1>1. SessionInit => ProcessInv /\ NamesInv(jobs)
  <2> SUFFICES ASSUME SessionInit PROVE ProcessInv /\ NamesInv(jobs)
    OBVIOUS
  <2>1. \A w \in Workers : ~ Alive(w) /\ booting[w] = None
    BY DEF SessionInit, Init, Alive, Gone
  <2>2. Len(jobs) = 0
    BY DEF SessionInit, Init
  <2> QED
    BY <2>1, <2>2 DEF ProcessInv, OneProcessPerAgent, NamesInv
<1>2. (SessionTypeOK /\ IInv) /\ (ProcessInv /\ NamesInv(jobs)) /\ [SessionNext]_sessionVars
        => (ProcessInv /\ NamesInv(jobs))'
  BY ProcessesKept, NamesKept
<1> QED
  BY <1>1, <1>2, SessionInvariance, PTL DEF SessionSpec

\* Crashes of daemons, lost answers and workers the bridge has replaced never leave
\* two processes of one agent running on one machine.
THEOREM OneProcessOnAMachine == SessionSpec => []OneProcessPerAgent
<1>1. ProcessInv => OneProcessPerAgent
  BY DEF ProcessInv
<1> QED
  BY <1>1, MachineInvariance, PTL

\* No live process loses its job to another one of its own launcher.
THEOREM LiveKeepTheirJobs == SessionSpec => TakenOnlyFromTheDead
<1>1. (SessionTypeOK /\ IInv /\ ProcessInv /\ NamesInv(jobs)) /\ [SessionNext]_sessionVars =>
        [\A j \in DOMAIN jobs, w \in Workers :
           jobs[j].status = "in_progress" /\ jobs[j].worker = w /\ jobs'[j].worker # w =>
             \/ ~ Alive(w)
             \/ \E v \in Workers :
                  /\ worker[jobs[j].agent] = v /\ Host[v] # Host[w]
                  /\ proc[v].state # "gone" /\ proc[v].agent = jobs[j].agent]_sessionVars
  BY TakenFromTheDead
<1> QED
  BY <1>1, MachineInvariance, PTL DEF SessionSpec, TakenOnlyFromTheDead
=============================================================================
