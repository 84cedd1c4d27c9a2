------------------------ MODULE SessionJobs_proofs ------------------------
(***************************************************************************)
(* Proofs about SessionJobs for every set of agents, workers and scopes,   *)
(* every crew, limit and bound.                                            *)
(***************************************************************************)
EXTENDS SessionJobs, SequenceTheorems, FiniteSetTheorems, WellFoundedInduction, TLAPS

\* Live jobs are of epoch e, a job in progress has a worker, and no agent has two.
JobsInv(js, e) ==
  /\ js \in Seq(Jobs)
  /\ \A i \in 1 .. Len(js) :
       /\ js[i].status \in LiveStates => js[i].epoch = e
       /\ js[i].status = "in_progress" => js[i].worker \in Workers
  /\ \A i, k \in 1 .. Len(js) :
       (/\ js[i].status = "in_progress" /\ js[k].status = "in_progress"
        /\ js[i].agent = js[k].agent) => i = k

\* Cards that can be claimed or are being worked are of epoch e, and those being
\* worked touch nothing in common.
TasksInv(ts, e) ==
  /\ ts \in Seq(Tasks)
  /\ \A t \in 1 .. Len(ts) : ts[t].state \in {"ready", "in_progress"} => ts[t].epoch = e
  /\ \A t, u \in 1 .. Len(ts) :
       (t # u /\ ts[t].state = "in_progress" /\ ts[u].state = "in_progress")
         => ts[t].scope \cap ts[u].scope = {}

\* Open handoffs are of epoch e and of one of n cards, the newest of its card.
HandoffsInv(hs, e, n) ==
  /\ hs \in Seq(Handoffs)
  /\ \A h \in 1 .. Len(hs) :
       /\ hs[h].task \in 1 .. n
       /\ hs[h].state \in OpenHandoff => hs[h].epoch = e
  /\ \A h, g \in 1 .. Len(hs) :
       (hs[h].task = hs[g].task /\ hs[h].state \in OpenHandoff) => g <= h

\* A job that may still hold its card, or lost it with the session's work.
Holding(job) == job.status \in LiveStates \cup {"cancelled"}

\* Every card being worked is held by a job for its present revision.
Held(ts, js) ==
  \A t \in 1 .. Len(ts) :
    ts[t].state = "in_progress" =>
      \E i \in 1 .. Len(js) : /\ js[i].task = t /\ js[i].revision = ts[t].revision
                              /\ Holding(js[i])

\* A process has an agent, and the job it works is one of n jobs.
ProcInv(ps, n) ==
  /\ ps \in [Workers -> Procs]
  /\ \A w \in Workers : /\ ps[w].state # "gone" => ps[w].agent \in Agents
                        /\ ps[w].state \in {"working", "failing"} => ps[w].job \in 1 .. n

IInv ==
  /\ epoch \in 1 .. MaxEpoch
  /\ JobsInv(jobs, epoch)
  /\ TasksInv(tasks, epoch)
  /\ HandoffsInv(handoffs, epoch, Len(tasks))
  /\ Held(tasks, jobs)
  /\ ProcInv(proc, Len(jobs))

\* What no step undoes: a job keeps its agent, its card and its handoff, and a
\* settled job is not touched.
JobsKept(js, new) ==
  /\ Len(js) <= Len(new)
  /\ \A i \in 1 .. Len(js) :
       /\ new[i].agent = js[i].agent
       /\ new[i].task = js[i].task /\ new[i].revision = js[i].revision
       /\ js[i].status \in TerminalStates => new[i] = js[i]

HandoffsKept(hs, new) ==
  /\ Len(hs) <= Len(new)
  /\ \A h \in 1 .. Len(hs) : hs[h].state \in SettledHandoff => new[h].state = hs[h].state

\* The job works its card's present revision and was not cancelled.
Present(job, ts) ==
  job.task # 0 /\ job.status # "cancelled" /\ job.revision = ts[job.task].revision

\* No job is ahead of its card.  The job for a card's present revision is not settled, is
\* the assigned agent's, and is the only one: no queued handoff offers the card to
\* another.  Of an earlier revision there never was more than one.
WorkInv(js, ts, hs) ==
  /\ \A i \in 1 .. Len(js) :
       js[i].task # 0 => js[i].task \in 1 .. Len(ts) /\ js[i].revision <= ts[js[i].task].revision
  /\ \A i \in 1 .. Len(js) :
       Present(js[i], ts) =>
         /\ js[i].status \in LiveStates
         /\ ts[js[i].task].assigned = js[i].agent
         /\ \A h \in 1 .. Len(hs) : hs[h].task = js[i].task => hs[h].state # "queued"
  /\ \A i, k \in 1 .. Len(js) :
       (/\ js[i].status # "cancelled" /\ js[k].status # "cancelled" /\ js[i].task # 0
        /\ js[i].task = js[k].task /\ js[i].revision = js[k].revision) => i = k

\* A process works a job of its agent.
Serving ==
  \A w \in Workers : proc[w].state \in {"working", "failing"} => jobs[proc[w].job].agent = proc[w].agent

-----------------------------------------------------------------------------
(* Sequences and numbers *)

\* A function on the positions of a sequence is a sequence.
LEMMA MappedSequence ==
  ASSUME NEW S, NEW s \in Seq(S), NEW T, NEW f,
         f = [i \in DOMAIN s |-> f[i]], \A i \in 1 .. Len(s) : f[i] \in T
  PROVE  f \in Seq(T) /\ Len(f) = Len(s) /\ DOMAIN f = 1 .. Len(s)
<1>1. Len(s) \in Nat /\ DOMAIN s = 1 .. Len(s)
  BY LenProperties
<1>2. f \in [1 .. Len(s) -> T]
  BY <1>1
<1>3. f \in Seq(T)
  BY <1>1, <1>2
<1> QED
  BY <1>1, <1>2, <1>3, LenProperties

\* Changing one element of a sequence.
LEMMA ReplacedElement ==
  ASSUME NEW S, NEW s \in Seq(S), NEW k, NEW x, k \in 1 .. Len(s) => x \in S
  PROVE  /\ [s EXCEPT ![k] = x] \in Seq(S)
         /\ Len([s EXCEPT ![k] = x]) = Len(s)
         /\ \A i \in 1 .. Len(s) : [s EXCEPT ![k] = x][i] = IF i = k THEN x ELSE s[i]
<1>1. Len(s) \in Nat /\ DOMAIN s = 1 .. Len(s)
  BY LenProperties
<1>2. CASE k \in 1 .. Len(s)
  BY <1>2, ExceptSeq
<1>3. CASE k \notin 1 .. Len(s)
  <2>1. [s EXCEPT ![k] = x] = s
    BY <1>1, <1>3
  <2> QED
    BY <1>3, <2>1
<1> QED
  BY <1>2, <1>3

\* The oldest of a set of rows is one of them.
LEMMA SmallestIsElement ==
  ASSUME NEW S, S \subseteq Nat, S # {}
  PROVE  Smallest(S) \in S
<1>1. PICK x \in S : \A y \in S : ~ (<<y, x>> \in OpToRel(<, Nat))
  BY NatLessThanWellFounded, WFMin
<1>2. ASSUME NEW y \in S PROVE x <= y
  <2>1. x \in Nat /\ y \in Nat
    OBVIOUS
  <2>2. ~ (<<y, x>> \in {ss \in Nat \X Nat : ss[1] < ss[2]})
    BY <1>1 DEF OpToRel
  <2>3. ~ (y < x)
    BY <2>1, <2>2
  <2> QED
    BY <2>1, <2>3
<1> QED
  BY <1>2 DEF Smallest

-----------------------------------------------------------------------------
(* What the invariants say of the tables *)

\* The tables are sequences.
LEMMA Lengths ==
  ASSUME IInv
  PROVE  /\ jobs \in Seq(Jobs) /\ Len(jobs) \in Nat /\ DOMAIN jobs = 1 .. Len(jobs)
         /\ tasks \in Seq(Tasks) /\ Len(tasks) \in Nat /\ DOMAIN tasks = 1 .. Len(tasks)
         /\ handoffs \in Seq(Handoffs) /\ Len(handoffs) \in Nat
         /\ DOMAIN handoffs = 1 .. Len(handoffs)
         /\ epoch \in Nat
<1>1. jobs \in Seq(Jobs) /\ tasks \in Seq(Tasks) /\ handoffs \in Seq(Handoffs)
  BY DEF IInv, JobsInv, TasksInv, HandoffsInv
<1>2. epoch \in Nat
  BY SessionJobsAssumption DEF IInv
<1> QED
  BY <1>1, <1>2, LenProperties

\* The rows have their types.
LEMMA ARow ==
  ASSUME IInv
  PROVE  /\ \A i \in 1 .. Len(jobs) : jobs[i] \in Jobs
         /\ \A t \in 1 .. Len(tasks) : tasks[t] \in Tasks
         /\ \A h \in 1 .. Len(handoffs) : handoffs[h] \in Handoffs
  BY Lengths, ElementOfSeq

-----------------------------------------------------------------------------
(* Changing the jobs table *)

\* One row is changed: what it may become.
LEMMA ReplacedJob ==
  ASSUME NEW js, NEW e, JobsInv(js, e), NEW k \in 1 .. Len(js), NEW row \in Jobs,
         row.status \in LiveStates => row.epoch = e,
         row.status = "in_progress" =>
           /\ row.worker \in Workers
           /\ \A i \in 1 .. Len(js) : (i # k /\ js[i].agent = row.agent) => js[i].status # "in_progress"
  PROVE  /\ JobsInv([js EXCEPT ![k] = row], e)
         /\ Len([js EXCEPT ![k] = row]) = Len(js)
         /\ [js EXCEPT ![k] = row][k] = row
         /\ \A i \in 1 .. Len(js) : i # k => [js EXCEPT ![k] = row][i] = js[i]
<1> DEFINE new == [js EXCEPT ![k] = row]
<1>1. js \in Seq(Jobs)
  BY DEF JobsInv
<1>2. /\ new \in Seq(Jobs) /\ Len(new) = Len(js)
      /\ \A i \in 1 .. Len(js) : new[i] = IF i = k THEN row ELSE js[i]
  BY <1>1, ReplacedElement
<1> HIDE DEF new
<1>3. \A i \in 1 .. Len(js) : /\ new[i].status \in LiveStates => new[i].epoch = e
                              /\ new[i].status = "in_progress" => new[i].worker \in Workers
  BY <1>2 DEF JobsInv
<1>4. \A i, m \in 1 .. Len(js) :
        (/\ new[i].status = "in_progress" /\ new[m].status = "in_progress"
         /\ new[i].agent = new[m].agent) => i = m
  BY <1>2 DEF JobsInv
<1>5. JobsInv(new, e)
  BY <1>2, <1>3, <1>4 DEF JobsInv
<1> QED
  BY <1>2, <1>5 DEF new

\* A row is added at the end.
LEMMA AppendedJob ==
  ASSUME NEW js, NEW e, JobsInv(js, e), NEW row \in Jobs,
         row.status \in LiveStates => row.epoch = e,
         row.status = "in_progress" =>
           /\ row.worker \in Workers
           /\ \A i \in 1 .. Len(js) : js[i].agent = row.agent => js[i].status # "in_progress"
  PROVE  /\ JobsInv(Append(js, row), e)
         /\ Len(js) \in Nat
         /\ Len(Append(js, row)) = Len(js) + 1
         /\ Append(js, row)[Len(js) + 1] = row
         /\ \A i \in 1 .. Len(js) : Append(js, row)[i] = js[i]
<1> DEFINE new == Append(js, row)
<1>1. js \in Seq(Jobs) /\ Len(js) \in Nat
  BY LenProperties DEF JobsInv
<1>2. /\ new \in Seq(Jobs) /\ Len(new) = Len(js) + 1
      /\ \A i \in 1 .. Len(js) : new[i] = js[i]
      /\ new[Len(js) + 1] = row
  BY <1>1, AppendProperties
<1> HIDE DEF new
<1>3. \A i \in 1 .. Len(js) + 1 : i \in 1 .. Len(js) \/ i = Len(js) + 1
  BY <1>1
<1>4. \A i \in 1 .. Len(js) + 1 : /\ new[i].status \in LiveStates => new[i].epoch = e
                                  /\ new[i].status = "in_progress" => new[i].worker \in Workers
  BY <1>2, <1>3 DEF JobsInv
<1>5. \A i, m \in 1 .. Len(js) + 1 :
        (/\ new[i].status = "in_progress" /\ new[m].status = "in_progress"
         /\ new[i].agent = new[m].agent) => i = m
  BY <1>2, <1>3 DEF JobsInv
<1>6. JobsInv(new, e)
  BY <1>2, <1>4, <1>5 DEF JobsInv
<1> QED
  BY <1>1, <1>2, <1>6 DEF new

\* Rows are cancelled; with all the live ones cancelled the epoch is free.
LEMMA CancelledJobs ==
  ASSUME NEW js, NEW e, NEW f, JobsInv(js, e), NEW states \in {{"pending"}, LiveStates},
         states = LiveStates \/ f = e
  PROVE  /\ JobsInv(Cancelled(js, states), f)
         /\ Len(Cancelled(js, states)) = Len(js)
         /\ \A i \in 1 .. Len(js) :
              Cancelled(js, states)[i] = IF js[i].status \in states
                                         THEN [js[i] EXCEPT !.status = "cancelled"] ELSE js[i]
<1> DEFINE new == Cancelled(js, states)
<1>1. js \in Seq(Jobs) /\ DOMAIN js = 1 .. Len(js)
  BY LenProperties DEF JobsInv
<1>2. \A i \in 1 .. Len(js) : js[i] \in Jobs
  BY <1>1, ElementOfSeq
<1>3. \A i \in 1 .. Len(js) :
        new[i] = IF js[i].status \in states THEN [js[i] EXCEPT !.status = "cancelled"] ELSE js[i]
  BY <1>1 DEF Cancelled
<1>4. ASSUME NEW i \in 1 .. Len(js) PROVE new[i] \in Jobs
  <2>1. js[i] \in Jobs
    BY <1>2
  <2>2. [js[i] EXCEPT !.status = "cancelled"] \in Jobs
    BY <2>1 DEF Jobs, TerminalStates
  <2> QED
    BY <1>3, <2>1, <2>2
<1>5. new = [i \in DOMAIN js |-> new[i]]
  BY <1>1 DEF Cancelled
<1>6. new \in Seq(Jobs) /\ Len(new) = Len(js)
  BY <1>1, <1>4, <1>5, MappedSequence
<1>7. \A i \in 1 .. Len(js) :
        /\ new[i].status \in LiveStates => new[i] = js[i] /\ states # LiveStates
        /\ new[i].status = "in_progress" => new[i] = js[i]
  BY <1>2, <1>3 DEF LiveStates, Jobs
<1> HIDE DEF new
<1>8. JobsInv(new, f)
  BY <1>6, <1>7 DEF JobsInv
<1> QED
  BY <1>3, <1>6, <1>8 DEF new

-----------------------------------------------------------------------------
(* Cards that are worked stay held *)

\* A card is worked after a change only if it was before, under the same revision,
\* and the change settles no job of that card.
LEMMA HeldKept ==
  ASSUME NEW ts, NEW js, NEW tsNew, NEW jsNew, Held(ts, js), JobsKept(js, jsNew),
         Len(js) \in Nat, Len(jsNew) \in Nat,
         \A t \in 1 .. Len(tsNew) :
           tsNew[t].state = "in_progress" =>
             /\ t \in 1 .. Len(ts) /\ ts[t].state = "in_progress"
             /\ tsNew[t].revision = ts[t].revision
             /\ \A i \in 1 .. Len(js) : (js[i].task = t /\ Holding(js[i])) => Holding(jsNew[i])
  PROVE  Held(tsNew, jsNew)
<1> SUFFICES ASSUME NEW t \in 1 .. Len(tsNew), tsNew[t].state = "in_progress"
             PROVE  \E i \in 1 .. Len(jsNew) : /\ jsNew[i].task = t
                                              /\ jsNew[i].revision = tsNew[t].revision
                                              /\ Holding(jsNew[i])
  BY DEF Held
<1>1. PICK i \in 1 .. Len(js) : /\ js[i].task = t /\ js[i].revision = ts[t].revision
                                /\ Holding(js[i])
  BY DEF Held
<1>2. i \in 1 .. Len(jsNew)
  BY DEF JobsKept
<1>3. jsNew[i].task = t /\ jsNew[i].revision = tsNew[t].revision /\ Holding(jsNew[i])
  BY <1>1 DEF JobsKept
<1> QED
  BY <1>2, <1>3

-----------------------------------------------------------------------------
(* A revision is worked once *)

\* A handoff that is queued after a step was queued before it, or offers a card that is
\* new or under a new revision.
OffersNewWork ==
  \A h \in 1 .. Len(handoffs') :
    handoffs'[h].state = "queued" =>
      \/ \E g \in 1 .. Len(handoffs) : /\ handoffs[g].state = "queued"
                                       /\ handoffs[g].task = handoffs'[h].task
      \/ handoffs'[h].task \notin 1 .. Len(tasks)
      \/ tasks'[handoffs'[h].task].revision > tasks[handoffs'[h].task].revision

\* Revisions grow, and a card passes to another agent under a new one only.
RevisionsGrow ==
  \A t \in 1 .. Len(tasks) :
    /\ t \in 1 .. Len(tasks')
    /\ tasks'[t].revision >= tasks[t].revision
    /\ tasks'[t].revision = tasks[t].revision => tasks'[t].assigned = tasks[t].assigned

\* A step that adds no job of a card, and settles a job of a card's present revision
\* only with that revision, keeps WorkInv.
LEMMA WorkCarried ==
  ASSUME IInv, tasks' \in Seq(Tasks), WorkInv(jobs, tasks, handoffs), JobsKept(jobs, jobs'),
         Len(jobs') \in Nat, RevisionsGrow, OffersNewWork,
         \A i \in 1 .. Len(jobs') : i > Len(jobs) => jobs'[i].task = 0,
         \A i \in 1 .. Len(jobs) : Present(jobs'[i], tasks') => jobs'[i].status \in LiveStates
  PROVE  WorkInv(jobs', tasks', handoffs')
<1>1. /\ Len(jobs) \in Nat /\ \A i \in 1 .. Len(jobs) : jobs[i].revision \in Nat
      /\ \A t \in 1 .. Len(tasks) : tasks[t].revision \in Nat
      /\ \A t \in 1 .. Len(tasks') : tasks'[t].revision \in Nat
  <2>1. \A t \in 1 .. Len(tasks') : tasks'[t] \in Tasks
    BY ElementOfSeq
  <2> QED
    BY <2>1, Lengths, ARow DEF Jobs, Tasks
<1>2. \A i \in 1 .. Len(jobs') : jobs'[i].task # 0 => i \in 1 .. Len(jobs)
  BY <1>1
<1>3. ASSUME NEW i \in 1 .. Len(jobs)
      PROVE  /\ jobs'[i].agent = jobs[i].agent
             /\ jobs'[i].task = jobs[i].task /\ jobs'[i].revision = jobs[i].revision
             /\ jobs'[i].status # "cancelled" => jobs[i].status # "cancelled"
  BY DEF JobsKept, TerminalStates
<1>4. ASSUME NEW i \in 1 .. Len(jobs'), jobs'[i].task # 0
      PROVE  jobs'[i].task \in 1 .. Len(tasks') /\ jobs'[i].revision <= tasks'[jobs'[i].task].revision
  <2>1. /\ i \in 1 .. Len(jobs) /\ jobs[i].task \in 1 .. Len(tasks)
        /\ jobs[i].revision <= tasks[jobs[i].task].revision
        /\ jobs'[i].task = jobs[i].task /\ jobs'[i].revision = jobs[i].revision
    BY <1>2, <1>3, <1>4 DEF WorkInv
  <2> QED
    BY <1>1, <2>1 DEF RevisionsGrow
<1>5. ASSUME NEW i \in 1 .. Len(jobs'), Present(jobs'[i], tasks')
      PROVE  /\ jobs'[i].status \in LiveStates
             /\ tasks'[jobs'[i].task].assigned = jobs'[i].agent
             /\ \A h \in 1 .. Len(handoffs') : handoffs'[h].task = jobs'[i].task
                                                 => handoffs'[h].state # "queued"
  <2> DEFINE t == jobs[i].task
  <2>1. i \in 1 .. Len(jobs)
    BY <1>2, <1>5 DEF Present
  <2>2. /\ jobs'[i].agent = jobs[i].agent /\ jobs'[i].task = t /\ t # 0
        /\ jobs[i].status # "cancelled" /\ jobs[i].revision = tasks'[t].revision
    BY <1>3, <1>5, <2>1 DEF Present
  <2>3. t \in 1 .. Len(tasks) /\ jobs[i].revision <= tasks[t].revision
    BY <2>1, <2>2 DEF WorkInv
  <2>4. t \in 1 .. Len(tasks') /\ tasks'[t].revision = tasks[t].revision
    BY <1>1, <2>1, <2>2, <2>3 DEF RevisionsGrow
  <2>5. Present(jobs[i], tasks)
    BY <2>2, <2>4 DEF Present
  <2>6. tasks[t].assigned = jobs[i].agent
        /\ \A h \in 1 .. Len(handoffs) : handoffs[h].task = t => handoffs[h].state # "queued"
    BY <2>1, <2>5 DEF WorkInv
  <2>7. tasks'[t].assigned = jobs'[i].agent
    BY <2>2, <2>3, <2>4, <2>6 DEF RevisionsGrow
  <2>8. ASSUME NEW h \in 1 .. Len(handoffs'), handoffs'[h].task = t, handoffs'[h].state = "queued"
        PROVE  FALSE
    <3>1. ~ (tasks'[t].revision > tasks[t].revision)
      BY <1>1, <2>3, <2>4
    <3>2. ~ \E g \in 1 .. Len(handoffs) : handoffs[g].state = "queued" /\ handoffs[g].task = t
      BY <2>6
    <3> HIDE DEF t
    <3> QED
      BY <2>3, <2>8, <3>1, <3>2 DEF OffersNewWork
  <2> QED
    BY <1>5, <2>1, <2>2, <2>7, <2>8
<1>6. ASSUME NEW i \in 1 .. Len(jobs'), NEW k \in 1 .. Len(jobs'),
             jobs'[i].status # "cancelled", jobs'[k].status # "cancelled", jobs'[i].task # 0,
             jobs'[i].task = jobs'[k].task, jobs'[i].revision = jobs'[k].revision
      PROVE  i = k
  BY <1>2, <1>3, <1>6 DEF WorkInv
<1> QED
  BY <1>4, <1>5, <1>6 DEF WorkInv

-----------------------------------------------------------------------------
(* The steps: what each of them keeps *)

\* The bodies of SettledByItsWorker and CardSettledWithItsJob.
SettlesOwnJob ==
  \A j \in DOMAIN jobs :
    (jobs[j].status = "in_progress" /\ jobs'[j].status \in {"completed", "failed"}) =>
      \E w \in Workers : /\ jobs[j].worker = w
                         /\ proc[w].job = j /\ proc'[w] # proc[w]

SettlesItsCard ==
  \A t \in DOMAIN tasks :
    (tasks'[t].state # tasks[t].state /\ tasks'[t].state \in {"done", "failed"}) =>
      \E j \in DOMAIN jobs : /\ jobs[j].task = t /\ Live(j) /\ jobs[j].epoch = epoch
                            /\ jobs'[j].status \in {"completed", "failed"}

\* No card's revision is handed out twice.
WorkKept ==
  WorkInv(jobs, tasks, handoffs) /\ Serving => WorkInv(jobs', tasks', handoffs')

StepOK ==
  /\ IInv'
  /\ WorkKept
  /\ JobsKept(jobs, jobs')
  /\ HandoffsKept(handoffs, handoffs')
  /\ SettlesOwnJob
  /\ SettlesItsCard

\* A job made for an agent is a job.
LEMMA NewJob ==
  ASSUME IInv, NEW a \in Agents, NEW kind \in JobKinds
  PROVE  Job(a, kind) \in Jobs
<1>1. epoch \in Nat
  BY Lengths
<1> QED
  BY <1>1 DEF Job, Jobs, LiveStates

\* Jobs change and none of them is settled; cards and handoffs stay.
LEMMA JobsOnly ==
  ASSUME IInv, UNCHANGED <<epoch, tasks, handoffs>>,
         JobsInv(jobs', epoch), JobsKept(jobs, jobs'), ProcInv(proc', Len(jobs')),
         \A i \in 1 .. Len(jobs) : /\ jobs'[i].status \in {"completed", "failed"} => jobs'[i] = jobs[i]
                                   /\ Holding(jobs[i]) => Holding(jobs'[i]),
         \A i \in 1 .. Len(jobs') : i > Len(jobs) => jobs'[i].task = 0
  PROVE  StepOK
<1>1. /\ Len(jobs) \in Nat /\ DOMAIN jobs = 1 .. Len(jobs)
      /\ DOMAIN tasks = 1 .. Len(tasks) /\ Len(handoffs) \in Nat
  BY Lengths
<1>2. Len(jobs') \in Nat
  BY LenProperties DEF JobsInv
<1>3. Held(tasks, jobs')
  BY <1>1, <1>2, HeldKept DEF IInv
<1>4. IInv'
  BY <1>3 DEF IInv
<1>5. HandoffsKept(handoffs, handoffs')
  BY <1>1 DEF HandoffsKept
<1>6. SettlesOwnJob
  BY <1>1 DEF SettlesOwnJob
<1>7. SettlesItsCard
  BY DEF SettlesItsCard
<1>8. ASSUME WorkInv(jobs, tasks, handoffs)
      PROVE  WorkInv(jobs', tasks', handoffs')
  <2>1. tasks' \in Seq(Tasks) /\ \A t \in 1 .. Len(tasks) : tasks[t].revision \in Nat
    BY Lengths, ARow DEF Tasks
  <2>2. RevisionsGrow /\ OffersNewWork
    BY <2>1 DEF RevisionsGrow, OffersNewWork
  <2>3. ASSUME NEW i \in 1 .. Len(jobs), Present(jobs'[i], tasks')
        PROVE  jobs'[i].status \in LiveStates
    <3>1. jobs'[i] \in Jobs
      <4>1. i \in 1 .. Len(jobs') /\ jobs' \in Seq(Jobs)
        BY <1>1, <1>2 DEF JobsKept, JobsInv
      <4> QED
        BY <4>1, ElementOfSeq
    <3>2. jobs'[i].status \in {"completed", "failed"} => Present(jobs[i], tasks) /\ jobs'[i] = jobs[i]
      BY <2>3 DEF Present
    <3>3. jobs'[i].status \notin {"completed", "failed"}
      BY <1>8, <3>2 DEF WorkInv, LiveStates
    <3> QED
      BY <2>3, <3>1, <3>3 DEF Present, Jobs, TerminalStates
  <2> QED
    BY <1>2, <1>8, <2>1, <2>2, <2>3, WorkCarried
<1> QED
  BY <1>4, <1>5, <1>6, <1>7, <1>8 DEF StepOK, WorkKept

\* Only a process changes.
LEMMA ProcOnly ==
  ASSUME IInv, UNCHANGED <<epoch, jobs, tasks, handoffs>>, ProcInv(proc', Len(jobs))
  PROVE  StepOK
<1>1. JobsKept(jobs, jobs') /\ Len(jobs) \in Nat
  BY Lengths DEF JobsKept
<1>2. \A i \in 1 .. Len(jobs') : ~ (i > Len(jobs))
  BY <1>1
<1> QED
  BY <1>1, <1>2, JobsOnly DEF IInv

\* Jobs are never deleted, so a process keeps naming one.
LEMMA ProcKept ==
  ASSUME NEW n \in Nat, NEW m \in Nat, n <= m, NEW ps, ProcInv(ps, n)
  PROVE  ProcInv(ps, m)
  BY DEF ProcInv

\* A step that adds one pending job.
LEMMA AddedJob ==
  ASSUME IInv, NEW a \in Agents, NEW kind \in JobKinds,
         jobs' = Append(jobs, Job(a, kind)), UNCHANGED <<epoch, tasks, handoffs, proc>>
  PROVE  StepOK
<1>1. Job(a, kind) \in Jobs
  BY NewJob
<1>2. Job(a, kind).status = "pending" /\ Job(a, kind).epoch = epoch /\ Job(a, kind).task = 0
  BY DEF Job
<1>3. /\ JobsInv(jobs', epoch)
      /\ Len(jobs) \in Nat /\ Len(jobs') = Len(jobs) + 1
      /\ jobs'[Len(jobs) + 1] = Job(a, kind)
      /\ \A i \in 1 .. Len(jobs) : jobs'[i] = jobs[i]
  BY <1>1, <1>2, AppendedJob DEF IInv
<1>4. JobsKept(jobs, jobs')
  BY <1>3 DEF JobsKept
<1>5. ProcInv(proc', Len(jobs'))
  BY <1>3, ProcKept DEF IInv
<1>6. \A i \in 1 .. Len(jobs') : i > Len(jobs) => i = Len(jobs) + 1
  BY <1>3
<1> QED
  BY <1>2, <1>3, <1>4, <1>5, <1>6, JobsOnly

\* route_discord_message and enqueue_restart.
LEMMA RouteStep ==
  ASSUME IInv, NEW a \in Agents, NEW kind \in {"plain", "planning"},
         route_discord_message(a, kind) \/ enqueue_restart(a)
  PROVE  StepOK
<1>1. kind \in JobKinds /\ "plain" \in JobKinds
  BY DEF JobKinds
<1>2. UNCHANGED <<epoch, tasks, handoffs, proc>>
  BY DEF route_discord_message, enqueue_restart
<1>3. jobs' = Append(jobs, Job(a, kind)) \/ jobs' = Append(jobs, Job(a, "plain"))
  BY DEF route_discord_message, enqueue_restart
<1> QED
  BY <1>1, <1>2, <1>3, AddedJob

\* A pause, a close or a failed start cancels jobs.
LEMMA CancelStep ==
  ASSUME IInv, WorkCancelled
  PROVE  StepOK
<1>1. PICK states \in {{"pending"}, LiveStates} : jobs' = Cancelled(jobs, states)
  BY DEF WorkCancelled, LiveStates
<1>2. UNCHANGED <<epoch, tasks, handoffs, proc>>
  BY DEF WorkCancelled
<1>3. JobsInv(jobs, epoch) /\ ProcInv(proc, Len(jobs)) /\ Len(jobs) \in Nat
  BY Lengths DEF IInv
<1>4. /\ JobsInv(jobs', epoch) /\ Len(jobs') = Len(jobs)
      /\ \A i \in 1 .. Len(jobs) :
           jobs'[i] = IF jobs[i].status \in states
                      THEN [jobs[i] EXCEPT !.status = "cancelled"] ELSE jobs[i]
  <2>1. states = LiveStates \/ epoch = epoch
    OBVIOUS
  <2>2. JobsInv(Cancelled(jobs, states), epoch) /\ Len(Cancelled(jobs, states)) = Len(jobs)
    BY <1>3, <2>1, CancelledJobs
  <2>3. \A i \in 1 .. Len(jobs) :
          Cancelled(jobs, states)[i] = IF jobs[i].status \in states
                                       THEN [jobs[i] EXCEPT !.status = "cancelled"] ELSE jobs[i]
    BY <1>3, <2>1, CancelledJobs
  <2> QED
    BY <1>1, <2>2, <2>3
<1>5. \A i \in 1 .. Len(jobs) : jobs[i] \in Jobs
  BY ARow
<1>6. ASSUME NEW i \in 1 .. Len(jobs)
      PROVE  /\ jobs'[i].agent = jobs[i].agent
             /\ jobs'[i].task = jobs[i].task /\ jobs'[i].revision = jobs[i].revision
             /\ jobs[i].status \in TerminalStates => jobs'[i] = jobs[i]
             /\ jobs'[i].status \in {"completed", "failed"} => jobs'[i] = jobs[i]
             /\ Holding(jobs[i]) => Holding(jobs'[i])
  BY <1>4, <1>5 DEF Jobs, LiveStates, TerminalStates, Holding
<1>7. JobsKept(jobs, jobs') /\ \A i \in 1 .. Len(jobs') : ~ (i > Len(jobs))
  BY <1>3, <1>4, <1>6 DEF JobsKept
<1> QED
  BY <1>2, <1>3, <1>4, <1>6, <1>7, JobsOnly

\* A process starts, dies, or sees its run fail.
LEMMA ProcessSteps ==
  ASSUME IInv, NEW w \in Workers,
         RunFails(w) \/ WorkerDies(w) \/ \E a \in Agents : WorkerStarts(w, a)
  PROVE  StepOK
<1>1. UNCHANGED <<epoch, jobs, tasks, handoffs>>
  BY DEF RunFails, WorkerDies, WorkerStarts
<1>2. Len(jobs) \in Nat /\ ProcInv(proc, Len(jobs))
  BY Lengths DEF IInv
<1>3. CASE RunFails(w)
  BY <1>1, <1>2, <1>3, ProcOnly DEF RunFails, Reported, ProcInv, Procs
<1>4. CASE WorkerDies(w)
  BY <1>1, <1>2, <1>4, ProcOnly DEF WorkerDies, Gone, ProcInv, Procs
<1>5. CASE \E a \in Agents : WorkerStarts(w, a)
  BY <1>1, <1>2, <1>5, ProcOnly DEF WorkerStarts, ProcInv, Procs
<1> QED
  BY <1>3, <1>4, <1>5

\* reset_session: rows of the old epoch are cancelled or carried into the new one.
LEMMA ResetStep ==
  ASSUME IInv, reset_session
  PROVE  StepOK
<1> DEFINE old   == Cancelled(jobs, LiveStates)
           e     == epoch + 1
           fresh == [i \in DOMAIN Crew |-> [Job(Crew[i], "plain") EXCEPT !.epoch = epoch + 1]]
<1>1. /\ epoch' = e /\ e \in 1 .. MaxEpoch /\ e \in Nat
      /\ jobs' = old \o fresh
      /\ UNCHANGED proc
  <2>1. epoch' = epoch + 1 /\ epoch < MaxEpoch /\ UNCHANGED proc
    BY DEF reset_session
  <2>2. epoch \in 1 .. MaxEpoch /\ MaxEpoch \in Nat
    BY SessionJobsAssumption DEF IInv
  <2>3. jobs' = old \o fresh
    BY DEF reset_session
  <2> QED
    BY <2>1, <2>2, <2>3
<1>2. JobsInv(jobs, epoch) /\ ProcInv(proc, Len(jobs)) /\ Len(jobs) \in Nat
  BY Lengths DEF IInv
<1>3. /\ JobsInv(old, e) /\ Len(old) = Len(jobs)
      /\ \A i \in 1 .. Len(jobs) :
           old[i] = IF jobs[i].status \in LiveStates
                    THEN [jobs[i] EXCEPT !.status = "cancelled"] ELSE jobs[i]
  BY <1>2, CancelledJobs
<1>4. Crew \in Seq(Agents) /\ Len(Crew) \in Nat
  BY LenProperties, SessionJobsAssumption
<1>5. ASSUME NEW i \in 1 .. Len(Crew)
      PROVE  /\ fresh[i] \in Jobs /\ fresh[i].status = "pending" /\ fresh[i].epoch = e
             /\ fresh[i].task = 0
  <2>1. i \in DOMAIN Crew /\ Crew[i] \in Agents
    BY <1>4, ElementOfSeq, LenProperties
  <2>2. Job(Crew[i], "plain") \in Jobs
    BY <2>1, NewJob DEF JobKinds
  <2>3. [Job(Crew[i], "plain") EXCEPT !.epoch = epoch + 1] \in Jobs
    BY <1>1, <2>2 DEF Jobs
  <2>4. fresh[i] = [Job(Crew[i], "plain") EXCEPT !.epoch = epoch + 1]
    BY <2>1
  <2> QED
    BY <2>2, <2>3, <2>4 DEF Job
<1>6. fresh \in Seq(Jobs) /\ Len(fresh) = Len(Crew)
  <2>1. fresh = [i \in DOMAIN Crew |-> fresh[i]]
    OBVIOUS
  <2> HIDE DEF fresh
  <2> QED
    BY <1>4, <1>5, <2>1, MappedSequence
<1>7. \A i \in 1 .. Len(jobs) :
        /\ jobs[i] \in Jobs
        /\ old[i].agent = jobs[i].agent
        /\ old[i].task = jobs[i].task /\ old[i].revision = jobs[i].revision
        /\ jobs[i].status \in TerminalStates => old[i] = jobs[i]
        /\ old[i].status \in {"completed", "failed"} => old[i] = jobs[i]
        /\ old[i].status \notin LiveStates
  BY <1>3, ARow DEF Jobs, LiveStates, TerminalStates
<1> HIDE DEF old, fresh
<1>8. /\ jobs' \in Seq(Jobs) /\ Len(jobs') = Len(jobs) + Len(Crew)
      /\ \A i \in 1 .. Len(jobs) + Len(Crew) :
           jobs'[i] = IF i <= Len(jobs) THEN old[i] ELSE fresh[i - Len(jobs)]
  <2>1. old \in Seq(Jobs)
    BY <1>3 DEF JobsInv
  <2>2. /\ old \o fresh \in Seq(Jobs)
        /\ Len(old \o fresh) = Len(old) + Len(fresh)
        /\ \A i \in 1 .. Len(old) + Len(fresh) :
             (old \o fresh)[i] = IF i <= Len(old) THEN old[i] ELSE fresh[i - Len(old)]
    BY <1>6, <2>1, ConcatProperties
  <2> QED
    BY <1>1, <1>3, <1>6, <2>2
<1>9. \A i \in 1 .. Len(jobs) : jobs'[i] = old[i]
  BY <1>2, <1>4, <1>8
<1>10. \A i \in 1 .. Len(jobs') : /\ jobs'[i].status \in LiveStates => jobs'[i].epoch = e
                                  /\ jobs'[i].status # "in_progress"
  <2> SUFFICES ASSUME NEW i \in 1 .. Len(jobs')
               PROVE  /\ jobs'[i].status \in LiveStates => jobs'[i].epoch = e
                      /\ jobs'[i].status # "in_progress"
    OBVIOUS
  <2>1. CASE i \in 1 .. Len(jobs)
    BY <1>7, <1>9, <2>1 DEF LiveStates
  <2>2. CASE i - Len(jobs) \in 1 .. Len(Crew)
    BY <1>2, <1>4, <1>5, <1>8, <2>2
  <2> QED
    BY <1>2, <1>4, <1>8, <2>1, <2>2
<1>11. JobsInv(jobs', e)
  BY <1>8, <1>10 DEF JobsInv
<1>12. JobsKept(jobs, jobs')
  BY <1>2, <1>4, <1>7, <1>8, <1>9 DEF JobsKept
<1>13. ProcInv(proc', Len(jobs'))
  <2>1. Len(jobs') \in Nat /\ Len(jobs) <= Len(jobs')
    BY <1>2, <1>4, <1>8
  <2> QED
    BY <1>1, <1>2, <2>1, ProcKept
<1>14. /\ TasksInv(tasks', e) /\ Len(tasks') = Len(tasks)
       /\ \A t \in 1 .. Len(tasks) : /\ tasks'[t].revision = tasks[t].revision
                                     /\ tasks'[t].state # "in_progress"
                                     /\ tasks'[t].state \in {"done", "failed"}
                                          => tasks'[t].state = tasks[t].state
  <2>1. /\ tasks \in Seq(Tasks) /\ DOMAIN tasks = 1 .. Len(tasks)
        /\ \A t \in 1 .. Len(tasks) : tasks[t] \in Tasks
    BY Lengths, ARow
  <2>2. tasks' = [t \in DOMAIN tasks |->
                   [tasks[t] EXCEPT !.epoch = epoch + 1,
                                    !.state = IF @ = "in_progress" THEN "ready" ELSE @]]
    BY DEF reset_session
  <2>3. \A t \in 1 .. Len(tasks) :
          tasks'[t] = [tasks[t] EXCEPT !.epoch = epoch + 1,
                                       !.state = IF @ = "in_progress" THEN "ready" ELSE @]
    BY <2>1, <2>2
  <2>4. \A t \in 1 .. Len(tasks) :
          /\ tasks'[t] \in Tasks /\ tasks'[t].epoch = e
          /\ tasks'[t].revision = tasks[t].revision
          /\ tasks'[t].state = IF tasks[t].state = "in_progress" THEN "ready" ELSE tasks[t].state
    BY <1>1, <2>1, <2>3 DEF Tasks, TaskStates
  <2>5. tasks' = [t \in DOMAIN tasks |-> tasks'[t]]
    BY <2>2
  <2>6. tasks' \in Seq(Tasks) /\ Len(tasks') = Len(tasks)
    BY <2>1, <2>4, <2>5, MappedSequence
  <2> QED
    BY <2>4, <2>6 DEF TasksInv
<1>15. /\ HandoffsInv(handoffs', e, Len(tasks')) /\ HandoffsKept(handoffs, handoffs')
  <2>1. /\ handoffs \in Seq(Handoffs) /\ DOMAIN handoffs = 1 .. Len(handoffs)
        /\ Len(handoffs) \in Nat
        /\ \A h \in 1 .. Len(handoffs) : handoffs[h] \in Handoffs
    BY Lengths, ARow
  <2>2. handoffs' = [h \in DOMAIN handoffs |->
                      [handoffs[h] EXCEPT !.epoch = epoch + 1,
                                          !.state = IF @ = "claimed" THEN "queued" ELSE @]]
    BY DEF reset_session
  <2>3. \A h \in 1 .. Len(handoffs) :
          handoffs'[h] = [handoffs[h] EXCEPT !.epoch = epoch + 1,
                                             !.state = IF @ = "claimed" THEN "queued" ELSE @]
    BY <2>1, <2>2
  <2>4. \A h \in 1 .. Len(handoffs) :
          /\ handoffs'[h] \in Handoffs /\ handoffs'[h].epoch = e
          /\ handoffs'[h].task = handoffs[h].task
          /\ handoffs'[h].state = IF handoffs[h].state = "claimed" THEN "queued"
                                                                  ELSE handoffs[h].state
    BY <1>1, <2>1, <2>3 DEF Handoffs, OpenHandoff
  <2>5. handoffs' = [h \in DOMAIN handoffs |-> handoffs'[h]]
    BY <2>2
  <2>6. handoffs' \in Seq(Handoffs) /\ Len(handoffs') = Len(handoffs)
    BY <2>1, <2>4, <2>5, MappedSequence
  <2>7. \A h \in 1 .. Len(handoffs) : /\ handoffs'[h].state \in OpenHandoff
                                           => handoffs[h].state \in OpenHandoff
                                      /\ handoffs[h].state \in SettledHandoff
                                           => handoffs'[h].state = handoffs[h].state
    BY <2>4 DEF OpenHandoff, SettledHandoff
  <2>8. HandoffsInv(handoffs, epoch, Len(tasks))
    BY DEF IInv
  <2> QED
    BY <1>14, <2>1, <2>4, <2>6, <2>7, <2>8 DEF HandoffsInv, HandoffsKept
<1>16. Held(tasks', jobs')
  BY <1>14 DEF Held
<1>17. IInv'
  BY <1>1, <1>11, <1>13, <1>14, <1>15, <1>16 DEF IInv
<1>18. SettlesOwnJob
  <2>1. \A j \in 1 .. Len(jobs) :
          ~ (jobs[j].status = "in_progress" /\ jobs'[j].status \in {"completed", "failed"})
    BY <1>7, <1>9
  <2> QED
    BY <2>1, Lengths DEF SettlesOwnJob
<1>19. SettlesItsCard
  BY <1>14, Lengths DEF SettlesItsCard
<1>20. ASSUME WorkInv(jobs, tasks, handoffs)
       PROVE  WorkInv(jobs', tasks', handoffs')
  <2>1. ASSUME NEW i \in 1 .. Len(jobs'), jobs'[i].task # 0
        PROVE  i \in 1 .. Len(jobs)
    <3>1. i - Len(jobs) \in 1 .. Len(Crew) => jobs'[i] = fresh[i - Len(jobs)]
      BY <1>2, <1>4, <1>8
    <3> QED
      BY <1>2, <1>4, <1>5, <1>8, <2>1, <3>1
  <2>2. ASSUME NEW i \in 1 .. Len(jobs), jobs'[i].status # "cancelled"
        PROVE  jobs'[i] = jobs[i] /\ jobs[i].status \notin LiveStates
    <3>1. jobs'[i] = old[i] /\ jobs[i] \in Jobs
      BY <1>7, <1>9
    <3>2. jobs[i].status \in LiveStates => old[i].status = "cancelled"
      BY <1>3, <3>1 DEF Jobs
    <3> QED
      BY <1>3, <2>2, <3>1, <3>2
  <2>3. \A i \in 1 .. Len(jobs) :
          jobs'[i].task = jobs[i].task /\ jobs'[i].revision = jobs[i].revision
    BY <1>7, <1>9
  <2>4. \A i \in 1 .. Len(jobs') :
          jobs'[i].task # 0 => /\ jobs'[i].task \in 1 .. Len(tasks')
                               /\ jobs'[i].revision <= tasks'[jobs'[i].task].revision
    BY <1>14, <1>20, <2>1, <2>3 DEF WorkInv
  <2>5. ASSUME NEW i \in 1 .. Len(jobs'), Present(jobs'[i], tasks')
        PROVE  FALSE
    <3>1. i \in 1 .. Len(jobs) /\ jobs'[i].status # "cancelled"
      BY <2>1, <2>5 DEF Present
    <3>2. jobs[i].task \in 1 .. Len(tasks) /\ jobs'[i] = jobs[i] /\ jobs[i].status \notin LiveStates
      BY <1>20, <2>2, <2>5, <3>1 DEF WorkInv, Present
    <3>3. Present(jobs[i], tasks)
      BY <1>14, <2>5, <3>2 DEF Present
    <3> QED
      BY <1>20, <3>1, <3>2, <3>3 DEF WorkInv
  <2>6. \A i, k \in 1 .. Len(jobs') :
          (/\ jobs'[i].status # "cancelled" /\ jobs'[k].status # "cancelled" /\ jobs'[i].task # 0
           /\ jobs'[i].task = jobs'[k].task /\ jobs'[i].revision = jobs'[k].revision) => i = k
    BY <1>20, <2>1, <2>2 DEF WorkInv
  <2> QED
    BY <2>4, <2>5, <2>6 DEF WorkInv
<1> QED
  BY <1>12, <1>15, <1>17, <1>18, <1>19, <1>20 DEF StepOK, WorkKept

-----------------------------------------------------------------------------
(* A worker's claim *)

\* js are the jobs with agent a's job in progress, if there was one, put back.
Back(js, a) ==
  /\ JobsInv(js, epoch) /\ Len(js) = Len(jobs)
  /\ \A i \in 1 .. Len(jobs) :
       /\ js[i].agent = jobs[i].agent
       /\ js[i].task = jobs[i].task /\ js[i].revision = jobs[i].revision
       /\ js[i].agent = a => js[i].status # "in_progress"
       /\ jobs[i].status \in TerminalStates => js[i] = jobs[i]
       /\ js[i].status \in {"completed", "failed"} => js[i] = jobs[i]
       /\ Holding(jobs[i]) => Holding(js[i])

\* An agent that runs nothing has no orphan.
LEMMA NothingToPutBack ==
  ASSUME IInv, NEW a, Running(a) = {}
  PROVE  Back(jobs, a)
<1>1. DOMAIN jobs = 1 .. Len(jobs) /\ JobsInv(jobs, epoch)
  BY Lengths DEF IInv
<1>2. \A i \in 1 .. Len(jobs) : jobs[i].agent = a => jobs[i].status # "in_progress"
  BY <1>1 DEF Running
<1> QED
  BY <1>1, <1>2 DEF Back

\* The orphan is put back to pending.
LEMMA PutBack ==
  ASSUME IInv, NEW a, NEW j \in Running(a)
  PROVE  Back([jobs EXCEPT ![j].status = "pending", ![j].worker = None], a)
<1> DEFINE row == [jobs[j] EXCEPT !.status = "pending", !.worker = None]
           js  == [jobs EXCEPT ![j] = row]
<1>1. /\ j \in 1 .. Len(jobs) /\ jobs[j].agent = a /\ jobs[j].status = "in_progress"
      /\ jobs[j] \in Jobs /\ JobsInv(jobs, epoch)
  BY Lengths, ARow DEF Running, IInv
<1>2. /\ row \in Jobs /\ row.status = "pending" /\ row.epoch = jobs[j].epoch
      /\ row.agent = jobs[j].agent /\ row.task = jobs[j].task /\ row.revision = jobs[j].revision
  BY <1>1 DEF Jobs, LiveStates
<1>3. row.epoch = epoch
  BY <1>1, <1>2 DEF JobsInv, LiveStates
<1> HIDE DEF row
<1>4. /\ JobsInv(js, epoch) /\ Len(js) = Len(jobs) /\ js[j] = row
      /\ \A i \in 1 .. Len(jobs) : i # j => js[i] = jobs[i]
  BY <1>1, <1>2, <1>3, ReplacedJob
<1> HIDE DEF js
<1>5. \A i \in 1 .. Len(jobs) : (jobs[i].status = "in_progress" /\ jobs[i].agent = a) => i = j
  BY <1>1 DEF JobsInv
<1>6. ASSUME NEW i \in 1 .. Len(jobs)
      PROVE  /\ js[i].agent = jobs[i].agent
             /\ js[i].task = jobs[i].task /\ js[i].revision = jobs[i].revision
             /\ js[i].agent = a => js[i].status # "in_progress"
             /\ jobs[i].status \in TerminalStates => js[i] = jobs[i]
             /\ js[i].status \in {"completed", "failed"} => js[i] = jobs[i]
             /\ Holding(jobs[i]) => Holding(js[i])
  <2>1. CASE i = j
    BY <1>1, <1>2, <1>4, <2>1 DEF TerminalStates, LiveStates, Holding
  <2>2. CASE i # j
    BY <1>4, <1>5, <2>2
  <2> QED
    BY <2>1, <2>2
<1>7. Back(js, a)
  BY <1>4, <1>6 DEF Back
<1>8. js = [jobs EXCEPT ![j].status = "pending", ![j].worker = None]
  BY <1>1 DEF js, row
<1> QED
  BY <1>7, <1>8

\* The process after a granted claim, whether or not the answer reached it.
LEMMA AnsweredProc ==
  ASSUME IInv, NEW w \in Workers, proc[w].state = "idle", NEW n \in Nat, Len(jobs) <= n,
         NEW j \in 1 .. n, Answered(w, j)
  PROVE  ProcInv(proc', n)
<1>1. ProcInv(proc, n) /\ proc[w].agent \in Agents /\ proc \in [Workers -> Procs]
  BY Lengths, ProcKept DEF IInv, ProcInv
<1>2. CASE proc' = [proc EXCEPT ![w].state = "working", ![w].job = j]
  <2>1. proc' = [proc EXCEPT ![w] = [@ EXCEPT !.state = "working", !.job = j]]
    BY <1>2
  <2>2. proc[w] \in Procs /\ j \in Nat
    BY <1>1
  <2>3. [proc[w] EXCEPT !.state = "working", !.job = j] \in Procs
    BY <2>2 DEF Procs
  <2> QED
    BY <1>1, <2>1, <2>2, <2>3 DEF ProcInv, Procs
<1> QED
  BY <1>1, <1>2 DEF Answered

\* A pending job is handed out.
LEMMA ClaimPendingStep ==
  ASSUME IInv, NEW w \in Workers, proc[w].state = "idle", UNCHANGED epoch,
         NEW js, Back(js, proc[w].agent), ClaimPending(w, js)
  PROVE  StepOK
<1> DEFINE a   == proc[w].agent
           S   == PendingOf(js, a)
           j   == Smallest(S)
           row == Started(js[j], w)
<1>1. /\ jobs' = [js EXCEPT ![j] = row] /\ Answered(w, j) /\ S # {}
      /\ UNCHANGED <<tasks, handoffs>>
  BY DEF ClaimPending
<1>2. /\ JobsInv(js, epoch) /\ js \in Seq(Jobs) /\ DOMAIN js = 1 .. Len(js)
      /\ Len(js) = Len(jobs) /\ Len(jobs) \in Nat
  BY Lengths, LenProperties DEF Back, JobsInv
<1>3. j \in 1 .. Len(jobs) /\ js[j].agent = a /\ js[j].status = "pending"
  <2>1. S \subseteq 1 .. Len(jobs) /\ S \subseteq Nat
    BY <1>2 DEF PendingOf
  <2>2. j \in S
    BY <1>1, <2>1, SmallestIsElement
  <2> QED
    BY <1>2, <2>2 DEF PendingOf
<1>4. js[j] \in Jobs /\ epoch \in Nat
  BY <1>2, <1>3, ElementOfSeq, Lengths
<1>5. /\ row \in Jobs /\ row.status = "in_progress" /\ row.epoch = epoch /\ row.worker = w
      /\ row.agent = a /\ row.task = js[j].task /\ row.revision = js[j].revision
  BY <1>3, <1>4 DEF Started, Jobs, LiveStates
<1>6. \A i \in 1 .. Len(jobs) :
        /\ js[i].agent = jobs[i].agent
        /\ js[i].task = jobs[i].task /\ js[i].revision = jobs[i].revision
        /\ js[i].agent = a => js[i].status # "in_progress"
        /\ jobs[i].status \in TerminalStates => js[i] = jobs[i]
        /\ js[i].status \in {"completed", "failed"} => js[i] = jobs[i]
        /\ Holding(jobs[i]) => Holding(js[i])
  BY DEF Back
<1> HIDE DEF a, S, j, row
<1>7. /\ JobsInv(jobs', epoch) /\ Len(jobs') = Len(jobs) /\ jobs'[j] = row
      /\ \A i \in 1 .. Len(jobs) : i # j => jobs'[i] = js[i]
  <2>1. /\ j \in 1 .. Len(js)
        /\ row.status \in LiveStates => row.epoch = epoch
        /\ row.status = "in_progress" =>
             /\ row.worker \in Workers
             /\ \A i \in 1 .. Len(js) : (i # j /\ js[i].agent = row.agent) => js[i].status # "in_progress"
    BY <1>2, <1>3, <1>5, <1>6
  <2>2. /\ JobsInv([js EXCEPT ![j] = row], epoch)
        /\ Len([js EXCEPT ![j] = row]) = Len(js)
        /\ [js EXCEPT ![j] = row][j] = row
        /\ \A i \in 1 .. Len(js) : i # j => [js EXCEPT ![j] = row][i] = js[i]
    <3>1. JobsInv(js, epoch) /\ row \in Jobs
      BY <1>2, <1>5
    <3> QED
      BY <2>1, <3>1, ReplacedJob
  <2> QED
    BY <1>1, <1>2, <2>2
<1>8. ASSUME NEW i \in 1 .. Len(jobs)
      PROVE  /\ jobs'[i].agent = jobs[i].agent
             /\ jobs'[i].task = jobs[i].task /\ jobs'[i].revision = jobs[i].revision
             /\ jobs[i].status \in TerminalStates => jobs'[i] = jobs[i]
             /\ jobs'[i].status \in {"completed", "failed"} => jobs'[i] = jobs[i]
             /\ Holding(jobs[i]) => Holding(jobs'[i])
  <2>1. CASE i = j
    <3>1. jobs[j].status \notin TerminalStates
      BY <1>3, <1>6 DEF TerminalStates
    <3> QED
      BY <1>3, <1>5, <1>6, <1>7, <2>1, <3>1 DEF Holding, LiveStates
  <2>2. CASE i # j
    BY <1>6, <1>7, <2>2
  <2> QED
    BY <2>1, <2>2
<1>9. JobsKept(jobs, jobs') /\ \A i \in 1 .. Len(jobs') : ~ (i > Len(jobs))
  BY <1>2, <1>7, <1>8 DEF JobsKept
<1>10. ProcInv(proc', Len(jobs'))
  BY <1>1, <1>2, <1>3, <1>7, AnsweredProc
<1> QED
  BY <1>1, <1>7, <1>8, <1>9, <1>10, JobsOnly

\* An orphan is put back, and perhaps a job is handed out.
LEMMA ClaimAfterOrphanStep ==
  ASSUME IInv, NEW w \in Workers, proc[w].state = "idle", UNCHANGED epoch, ClaimAfterOrphan(w)
  PROVE  StepOK
<1> DEFINE a == proc[w].agent
<1>1. PICK j \in Running(a) :
        LET js == [jobs EXCEPT ![j].status = "pending", ![j].worker = None]
        IN  \/ ClaimPending(w, js)
            \/ jobs' = js /\ UNCHANGED <<tasks, handoffs, proc>>
  BY DEF ClaimAfterOrphan
<1> DEFINE js == [jobs EXCEPT ![j].status = "pending", ![j].worker = None]
<1>2. Back(js, a)
  BY PutBack
<1>3. CASE ClaimPending(w, js)
  BY <1>2, <1>3, ClaimPendingStep
<1>4. CASE jobs' = js /\ UNCHANGED <<tasks, handoffs, proc>>
  <2>1. Back(jobs', a)
    BY <1>2, <1>4
  <2>2. JobsInv(jobs', epoch) /\ Len(jobs') = Len(jobs) /\ Len(jobs) \in Nat
    BY <2>1, Lengths DEF Back
  <2>3. \A i \in 1 .. Len(jobs) :
          /\ jobs'[i].agent = jobs[i].agent
          /\ jobs'[i].task = jobs[i].task /\ jobs'[i].revision = jobs[i].revision
          /\ jobs[i].status \in TerminalStates => jobs'[i] = jobs[i]
          /\ jobs'[i].status \in {"completed", "failed"} => jobs'[i] = jobs[i]
          /\ Holding(jobs[i]) => Holding(jobs'[i])
    BY <2>1 DEF Back
  <2>4. JobsKept(jobs, jobs') /\ \A i \in 1 .. Len(jobs') : ~ (i > Len(jobs))
    BY <2>2, <2>3 DEF JobsKept
  <2>5. ProcInv(proc', Len(jobs'))
    BY <1>4, <2>2 DEF IInv
  <2> QED
    BY <1>4, <2>2, <2>3, <2>4, <2>5, JobsOnly
<1> QED
  BY <1>1, <1>3, <1>4

\* The curator gets a sweep.
LEMMA CuratorSweepStep ==
  ASSUME IInv, NEW w \in Workers, proc[w].state = "idle", Running(proc[w].agent) = {},
         UNCHANGED epoch, _claim_curator_sweep_job(w)
  PROVE  StepOK
<1> DEFINE row == Started(Job(Curator, "curation"), w)
<1>1. /\ jobs' = Append(jobs, row) /\ Answered(w, Len(jobs) + 1)
      /\ UNCHANGED <<tasks, handoffs>> /\ proc[w].agent = Curator
  BY DEF _claim_curator_sweep_job
<1>2. Curator \in Agents /\ Len(jobs) \in Nat /\ JobsInv(jobs, epoch) /\ epoch \in Nat
  BY <1>1, Lengths DEF IInv, ProcInv
<1>3. Job(Curator, "curation") \in Jobs
  BY <1>2, NewJob DEF JobKinds
<1>4. /\ row \in Jobs /\ row.epoch = epoch /\ row.status = "in_progress" /\ row.worker = w
      /\ row.agent = Curator /\ row.task = 0
  BY <1>2, <1>3 DEF Started, Jobs, LiveStates, Job
<1>5. \A i \in 1 .. Len(jobs) : jobs[i].agent = Curator => jobs[i].status # "in_progress"
  BY <1>1, Lengths DEF Running
<1> HIDE DEF row
<1>6. /\ JobsInv(jobs', epoch) /\ Len(jobs') = Len(jobs) + 1 /\ jobs'[Len(jobs) + 1] = row
      /\ \A i \in 1 .. Len(jobs) : jobs'[i] = jobs[i]
  BY <1>1, <1>2, <1>4, <1>5, AppendedJob
<1>7. JobsKept(jobs, jobs')
  BY <1>2, <1>6 DEF JobsKept
<1>8. ProcInv(proc', Len(jobs'))
  BY <1>1, <1>2, <1>6, AnsweredProc
<1>9. \A i \in 1 .. Len(jobs') : i > Len(jobs) => jobs'[i].task = 0
  BY <1>2, <1>4, <1>6
<1> QED
  BY <1>1, <1>6, <1>7, <1>8, <1>9, JobsOnly

\* The card of the oldest handoff is handed out: free of every card in progress.
LEMMA ClaimReadyTaskStep ==
  ASSUME IInv, NEW w \in Workers, proc[w].state = "idle", Running(proc[w].agent) = {},
         UNCHANGED epoch, _claim_ready_task_job(w)
  PROVE  StepOK
<1> DEFINE a == proc[w].agent
<1>1. PICK h \in ReadyHandoff(a) :
        LET t == handoffs[h].task
        IN  /\ jobs' = Append(jobs, [Started(Job(a, "handoff"), w) EXCEPT
                                       !.task = t, !.revision = tasks[t].revision, !.handoff = h])
            /\ tasks' = [tasks EXCEPT ![t].state = "in_progress", ![t].assigned = a]
            /\ handoffs' = [handoffs EXCEPT ![h].state = "claimed"]
            /\ Answered(w, Len(jobs) + 1)
  BY DEF _claim_ready_task_job
<1> DEFINE t    == handoffs[h].task
           row  == [Started(Job(a, "handoff"), w) EXCEPT
                      !.task = t, !.revision = tasks[t].revision, !.handoff = h]
           card == [tasks[t] EXCEPT !.state = "in_progress", !.assigned = a]
           note == [handoffs[h] EXCEPT !.state = "claimed"]
<1>2. /\ Len(jobs) \in Nat /\ JobsInv(jobs, epoch) /\ epoch \in Nat /\ a \in Agents
      /\ TasksInv(tasks, epoch) /\ HandoffsInv(handoffs, epoch, Len(tasks))
      /\ Held(tasks, jobs)
  BY Lengths DEF IInv, ProcInv
<1>3. /\ h \in 1 .. Len(handoffs) /\ h \in Nat /\ handoffs[h].state = "queued"
      /\ handoffs[h].epoch = epoch /\ handoffs[h] \in Handoffs
      /\ TaskIsReady(t) /\ _can_self_claim_task(t)
  BY Lengths, ARow DEF ReadyHandoff, HandoffsFor
<1>4. t \in 1 .. Len(tasks) /\ t \in Nat
  BY <1>2, <1>3, Lengths DEF HandoffsInv
<1>5. tasks[t] \in Tasks /\ tasks[t].state = "ready" /\ tasks[t].epoch = epoch
  BY <1>3, <1>4, ARow DEF TaskIsReady
<1>6. /\ row \in Jobs /\ row.epoch = epoch /\ row.status = "in_progress" /\ row.worker = w
      /\ row.agent = a /\ row.task = t /\ row.revision = tasks[t].revision
  <2>1. Job(a, "handoff") \in Jobs
    BY <1>2, NewJob DEF JobKinds
  <2>2. tasks[t].revision \in Nat
    BY <1>5 DEF Tasks
  <2>3. /\ Started(Job(a, "handoff"), w) \in Jobs
        /\ Started(Job(a, "handoff"), w).epoch = epoch
        /\ Started(Job(a, "handoff"), w).status = "in_progress"
        /\ Started(Job(a, "handoff"), w).worker = w
        /\ Started(Job(a, "handoff"), w).agent = a
    BY <1>2, <2>1 DEF Started, Jobs, LiveStates, Job
  <2> QED
    BY <1>3, <1>4, <2>2, <2>3 DEF Jobs
<1>7. \A i \in 1 .. Len(jobs) : jobs[i].agent = a => jobs[i].status # "in_progress"
  BY Lengths DEF Running
<1>8. /\ card \in Tasks /\ card.state = "in_progress" /\ card.epoch = epoch
      /\ card.scope = tasks[t].scope /\ card.revision = tasks[t].revision
      /\ card.assigned = a
  BY <1>2, <1>5 DEF Tasks, TaskStates
<1>9. tasks' = [tasks EXCEPT ![t] = card]
  BY <1>1
<1>10. note \in Handoffs /\ note.state = "claimed" /\ note.epoch = epoch /\ note.task = t
  BY <1>3 DEF Handoffs, OpenHandoff
<1>11. handoffs' = [handoffs EXCEPT ![h] = note]
  BY <1>1
<1>12. jobs' = Append(jobs, row) /\ Answered(w, Len(jobs) + 1)
  BY <1>1
<1> HIDE DEF row, card, note
<1>13. /\ JobsInv(jobs', epoch) /\ Len(jobs') = Len(jobs) + 1 /\ jobs'[Len(jobs) + 1] = row
       /\ \A i \in 1 .. Len(jobs) : jobs'[i] = jobs[i]
  BY <1>2, <1>6, <1>7, <1>12, AppendedJob
<1>14. JobsKept(jobs, jobs')
  BY <1>2, <1>13 DEF JobsKept
<1>15. ProcInv(proc', Len(jobs'))
  BY <1>2, <1>12, <1>13, AnsweredProc
<1>16. /\ tasks' \in Seq(Tasks) /\ Len(tasks') = Len(tasks)
       /\ \A u \in 1 .. Len(tasks) : tasks'[u] = IF u = t THEN card ELSE tasks[u]
  BY <1>4, <1>8, <1>9, Lengths, ReplacedElement
<1>17. TasksInv(tasks', epoch)
  <2>1. \A u \in 1 .. Len(tasks) : tasks'[u].state \in {"ready", "in_progress"} => tasks'[u].epoch = epoch
    BY <1>2, <1>8, <1>16 DEF TasksInv
  <2>2. \A u \in 1 .. Len(tasks) :
          (u # t /\ tasks[u].state = "in_progress") => tasks[t].scope \cap tasks[u].scope = {}
    BY <1>3, Lengths DEF _can_self_claim_task, Conflict
  <2>3. \A u, v \in 1 .. Len(tasks) :
          (u # v /\ tasks'[u].state = "in_progress" /\ tasks'[v].state = "in_progress")
            => tasks'[u].scope \cap tasks'[v].scope = {}
    <3> SUFFICES ASSUME NEW u \in 1 .. Len(tasks), NEW v \in 1 .. Len(tasks), u # v,
                        tasks'[u].state = "in_progress", tasks'[v].state = "in_progress"
                 PROVE  tasks'[u].scope \cap tasks'[v].scope = {}
      OBVIOUS
    <3>1. CASE u = t
      BY <1>8, <1>16, <2>2, <3>1
    <3>2. CASE v = t
      BY <1>8, <1>16, <2>2, <3>2
    <3>3. CASE u # t /\ v # t
      BY <1>2, <1>16, <3>3 DEF TasksInv
    <3> QED
      BY <3>1, <3>2, <3>3
  <2> QED
    BY <1>16, <2>1, <2>3 DEF TasksInv
<1>18. /\ handoffs' \in Seq(Handoffs) /\ Len(handoffs') = Len(handoffs)
       /\ \A g \in 1 .. Len(handoffs) : handoffs'[g] = IF g = h THEN note ELSE handoffs[g]
  BY <1>3, <1>10, <1>11, Lengths, ReplacedElement
<1>19. HandoffsInv(handoffs', epoch, Len(tasks'))
  <2>1. \A g \in 1 .. Len(handoffs) :
          /\ handoffs'[g].task = handoffs[g].task
          /\ handoffs'[g].state \in OpenHandoff => handoffs[g].state \in OpenHandoff
          /\ handoffs'[g].epoch = handoffs[g].epoch
    BY <1>3, <1>10, <1>18 DEF OpenHandoff
  <2> QED
    BY <1>2, <1>16, <1>18, <2>1 DEF HandoffsInv
<1>20. Held(tasks', jobs')
  <2> SUFFICES ASSUME NEW u \in 1 .. Len(tasks), tasks'[u].state = "in_progress"
               PROVE  \E i \in 1 .. Len(jobs') : /\ jobs'[i].task = u
                                                /\ jobs'[i].revision = tasks'[u].revision
                                                /\ Holding(jobs'[i])
    BY <1>16 DEF Held
  <2>1. CASE u = t
    <3>1. /\ Len(jobs) + 1 \in 1 .. Len(jobs')
          /\ jobs'[Len(jobs) + 1].task = u
          /\ jobs'[Len(jobs) + 1].revision = tasks'[u].revision
      BY <1>2, <1>6, <1>8, <1>13, <1>16, <2>1
    <3>2. Holding(jobs'[Len(jobs) + 1])
      BY <1>6, <1>13 DEF Holding, LiveStates
    <3> QED
      BY <3>1, <3>2
  <2>2. CASE u # t
    <3>1. PICK i \in 1 .. Len(jobs) : /\ jobs[i].task = u /\ jobs[i].revision = tasks[u].revision
                                      /\ Holding(jobs[i])
      BY <1>2, <1>16, <2>2 DEF Held
    <3>2. i \in 1 .. Len(jobs') /\ jobs'[i] = jobs[i]
      BY <1>2, <1>13
    <3> QED
      BY <1>16, <2>2, <3>1, <3>2
  <2> QED
    BY <2>1, <2>2
<1>21. IInv'
  BY <1>13, <1>15, <1>17, <1>19, <1>20 DEF IInv
<1>22. HandoffsKept(handoffs, handoffs')
  BY <1>3, <1>18, Lengths DEF HandoffsKept, SettledHandoff
<1>23. SettlesOwnJob
  BY <1>13, Lengths DEF SettlesOwnJob
<1>24. SettlesItsCard
  BY <1>8, <1>16, Lengths DEF SettlesItsCard
<1>25. ASSUME WorkInv(jobs, tasks, handoffs)
       PROVE  WorkInv(jobs', tasks', handoffs')
  <2> DEFINE n == Len(jobs) + 1
  <2>1. \A i \in 1 .. Len(jobs') : i \in 1 .. Len(jobs) \/ i = n
    BY <1>2, <1>13
  <2>2. n \notin 1 .. Len(jobs) /\ jobs'[n] = row /\ t # 0
    BY <1>2, <1>4, <1>13
  <2>3. \A u \in 1 .. Len(tasks) : tasks'[u].revision = tasks[u].revision
    BY <1>8, <1>16
  <2>4. \A g \in 1 .. Len(handoffs') :
          handoffs'[g].state = "queued" =>
            /\ g \in 1 .. Len(handoffs) /\ g # h /\ handoffs'[g] = handoffs[g]
            /\ handoffs[g].task # t
    <3>1. ASSUME NEW g \in 1 .. Len(handoffs), handoffs[g].state = "queued", handoffs[g].task = t
          PROVE  g = h
      <4>1. g <= h /\ h <= g
        BY <1>2, <1>3, <3>1 DEF HandoffsInv, OpenHandoff
      <4> QED
        BY <1>3, <4>1
    <3> QED
      BY <1>10, <1>18, <3>1
  <2>5. ASSUME NEW i \in 1 .. Len(jobs), jobs[i].task = t, jobs[i].status # "cancelled"
        PROVE  jobs[i].revision # tasks[t].revision
    BY <1>3, <1>25, <2>2, <2>5 DEF WorkInv, Present
  <2>6. ASSUME NEW i \in 1 .. Len(jobs'), jobs'[i].task # 0
        PROVE  /\ jobs'[i].task \in 1 .. Len(tasks')
               /\ jobs'[i].revision <= tasks'[jobs'[i].task].revision
    <3>1. CASE i = n
      <4>1. tasks[t].revision \in Nat
        BY <1>5 DEF Tasks
      <4> QED
        BY <1>4, <1>6, <1>16, <2>2, <2>3, <3>1, <4>1
    <3>2. CASE i \in 1 .. Len(jobs)
      BY <1>13, <1>16, <1>25, <2>3, <2>6, <3>2 DEF WorkInv
    <3> QED
      BY <2>1, <3>1, <3>2
  <2>7. ASSUME NEW i \in 1 .. Len(jobs'), Present(jobs'[i], tasks')
        PROVE  /\ jobs'[i].status \in LiveStates
               /\ tasks'[jobs'[i].task].assigned = jobs'[i].agent
               /\ \A g \in 1 .. Len(handoffs') : handoffs'[g].task = jobs'[i].task
                                                   => handoffs'[g].state # "queued"
    <3>1. CASE i = n
      BY <1>4, <1>6, <1>8, <1>16, <2>2, <2>4, <3>1 DEF LiveStates
    <3>2. CASE i \in 1 .. Len(jobs)
      <4>1. /\ jobs'[i] = jobs[i] /\ jobs[i].task # 0 /\ jobs[i].status # "cancelled"
            /\ jobs[i].revision = tasks'[jobs[i].task].revision
        BY <1>13, <2>7, <3>2 DEF Present
      <4>2. jobs[i].task \in 1 .. Len(tasks)
        BY <1>25, <3>2, <4>1 DEF WorkInv
      <4>3. Present(jobs[i], tasks)
        BY <2>3, <4>1, <4>2 DEF Present
      <4>4. jobs[i].task # t
        BY <2>3, <2>5, <3>2, <4>1, <4>2
      <4>5. tasks'[jobs[i].task] = tasks[jobs[i].task]
        BY <1>16, <4>2, <4>4
      <4> QED
        BY <1>25, <2>4, <3>2, <4>1, <4>3, <4>5 DEF WorkInv
    <3> QED
      BY <2>1, <3>1, <3>2
  <2>8. ASSUME NEW i \in 1 .. Len(jobs'), NEW k \in 1 .. Len(jobs'),
               jobs'[i].status # "cancelled", jobs'[k].status # "cancelled", jobs'[i].task # 0,
               jobs'[i].task = jobs'[k].task, jobs'[i].revision = jobs'[k].revision
        PROVE  i = k
    <3>1. CASE i = n /\ k \in 1 .. Len(jobs)
      BY <1>6, <1>13, <2>2, <2>5, <2>8, <3>1
    <3>2. CASE k = n /\ i \in 1 .. Len(jobs)
      BY <1>6, <1>13, <2>2, <2>5, <2>8, <3>2
    <3>3. CASE i \in 1 .. Len(jobs) /\ k \in 1 .. Len(jobs)
      BY <1>13, <1>25, <2>8, <3>3 DEF WorkInv
    <3> QED
      BY <2>1, <3>1, <3>2, <3>3
  <2> QED
    BY <2>6, <2>7, <2>8 DEF WorkInv
<1> QED
  BY <1>14, <1>21, <1>22, <1>23, <1>24, <1>25 DEF StepOK, WorkKept

\* claim_next_job, every way it hands work out.
LEMMA ClaimStep ==
  ASSUME IInv, NEW w \in Workers, claim_next_job(w)
  PROVE  StepOK
<1>1. proc[w].state = "idle" /\ UNCHANGED epoch
  BY DEF claim_next_job
<1>2. CASE ClaimAfterOrphan(w)
  BY <1>1, <1>2, ClaimAfterOrphanStep
<1>3. CASE ClaimNew(w)
  <2>1. Running(proc[w].agent) = {}
    BY <1>3 DEF ClaimNew
  <2>2. CASE ClaimPending(w, jobs)
    BY <1>1, <2>1, <2>2, NothingToPutBack, ClaimPendingStep
  <2>3. CASE _claim_ready_task_job(w)
    BY <1>1, <2>1, <2>3, ClaimReadyTaskStep
  <2>4. CASE _claim_curator_sweep_job(w)
    BY <1>1, <2>1, <2>4, CuratorSweepStep
  <2> QED
    BY <1>3, <2>2, <2>3, <2>4 DEF ClaimNew
<1> QED
  BY <1>2, <1>3 DEF claim_next_job

-----------------------------------------------------------------------------
(* A worker's report: the jobs *)

\* new is js with pending jobs of the present epoch and of no card added.
Extends(js, new) ==
  /\ JobsInv(new, epoch)
  /\ Len(js) <= Len(new)
  /\ \A i \in 1 .. Len(js) : new[i] = js[i]
  /\ \A i \in 1 .. Len(new) : i > Len(js) => new[i].status = "pending" /\ new[i].task = 0

\* Nothing need be added.
LEMMA ExtendsItself ==
  ASSUME NEW js, JobsInv(js, epoch)
  PROVE  Extends(js, js)
<1>1. Len(js) \in Nat
  BY LenProperties DEF JobsInv
<1> QED
  BY <1>1 DEF Extends

\* Jobs are added one after the other.
LEMMA ExtendsTransitively ==
  ASSUME NEW js, NEW mid, NEW new, JobsInv(js, epoch), Extends(js, mid), Extends(mid, new)
  PROVE  Extends(js, new)
<1>1. Len(js) \in Nat /\ Len(mid) \in Nat /\ Len(new) \in Nat
  BY LenProperties DEF JobsInv, Extends
<1> QED
  BY <1>1 DEF Extends

\* One pending job is added.
LEMMA ExtendsByJob ==
  ASSUME IInv, NEW js, JobsInv(js, epoch), NEW a \in Agents, NEW kind \in JobKinds
  PROVE  Extends(js, Append(js, Job(a, kind)))
<1>1. Job(a, kind) \in Jobs
  BY NewJob
<1>2. Job(a, kind).status = "pending" /\ Job(a, kind).epoch = epoch /\ Job(a, kind).task = 0
  BY DEF Job
<1>3. /\ JobsInv(Append(js, Job(a, kind)), epoch) /\ Len(js) \in Nat
      /\ Len(Append(js, Job(a, kind))) = Len(js) + 1
      /\ Append(js, Job(a, kind))[Len(js) + 1] = Job(a, kind)
      /\ \A i \in 1 .. Len(js) : Append(js, Job(a, kind))[i] = js[i]
  BY <1>1, <1>2, AppendedJob
<1>4. \A i \in 1 .. Len(js) + 1 : i > Len(js) => i = Len(js) + 1
  BY <1>3
<1> QED
  BY <1>2, <1>3, <1>4 DEF Extends

\* The curator may be told of the report.
LEMMA CuratorEventExtends ==
  ASSUME IInv, NEW js, JobsInv(js, epoch), NEW a, NEW when
  PROVE  Extends(js, _queue_curator_event(js, a, when))
<1>1. CASE when /\ Curator \in Agents \ {a} /\ ~ HasLiveJob(js, Curator, {"curation"})
  BY <1>1, ExtendsByJob DEF _queue_curator_event, JobKinds
<1>2. CASE ~ (when /\ Curator \in Agents \ {a} /\ ~ HasLiveJob(js, Curator, {"curation"}))
  BY <1>2, ExtendsItself DEF _queue_curator_event
<1> QED
  BY <1>1, <1>2

\* A discussion is passed on.
LEMMA DiscussionExtends ==
  ASSUME IInv, NEW js, JobsInv(js, epoch), NEW to \in Agents \cup {None}
  PROVE  Extends(js, _queue_discussions(js, to))
<1>1. CASE to = None
  BY <1>1, ExtendsItself DEF _queue_discussions
<1>2. CASE to # None
  BY <1>2, ExtendsByJob DEF _queue_discussions, JobKinds
<1> QED
  BY <1>1, <1>2

\* The planner may be asked to repair a handoff.
LEMMA RepairExtends ==
  ASSUME IInv, NEW js, JobsInv(js, epoch), NEW a, NEW rejected
  PROVE  Extends(js, _queue_planner_handoff_repair(js, a, rejected))
<1> DEFINE due == /\ rejected /\ Planner \in Agents \ {a}
                  /\ ~ HasLiveJob(js, Planner, {"planning", "recovery"})
<1>1. CASE due
  BY <1>1, ExtendsByJob DEF _queue_planner_handoff_repair, JobKinds
<1>2. CASE ~ due
  BY <1>2, ExtendsItself DEF _queue_planner_handoff_repair
<1> QED
  BY <1>1, <1>2

\* The planner may be asked to recover a failed handoff.
LEMMA RecoveryExtends ==
  ASSUME IInv, NEW js, JobsInv(js, epoch), NEW a, NEW kind
  PROVE  Extends(js, _queue_planner_recovery(js, a, kind))
<1> DEFINE due == /\ kind = "handoff" /\ Planner \in Agents /\ (PlannerByName => a # Planner)
                  /\ ~ HasLiveJob(js, Planner, {"recovery"})
<1>1. CASE due
  BY <1>1, ExtendsByJob DEF _queue_planner_recovery, JobKinds
<1>2. CASE ~ due
  BY <1>2, ExtendsItself DEF _queue_planner_recovery
<1> QED
  BY <1>1, <1>2

\* All that a report adds to the jobs.
LEMMA FollowUpsExtend ==
  ASSUME IInv, NEW js, JobsInv(js, epoch), NEW a, NEW queued, NEW rejected,
         NEW to \in Agents \cup {None}
  PROVE  Extends(js, FollowUps(js, a, queued, to, rejected))
<1> DEFINE handed    == _queue_curator_event(js, a, queued)
           talked    == _queue_discussions(handed, to)
           discussed == _queue_curator_event(talked, a, to # None)
           all       == _queue_planner_handoff_repair(discussed, a, rejected)
<1>1. Extends(js, handed)
  BY CuratorEventExtends
<1>2. JobsInv(handed, epoch)
  BY <1>1 DEF Extends
<1>3. Extends(handed, talked)
  BY <1>2, DiscussionExtends
<1>4. JobsInv(talked, epoch)
  BY <1>3 DEF Extends
<1>5. Extends(talked, discussed)
  BY <1>4, CuratorEventExtends
<1>6. JobsInv(discussed, epoch)
  BY <1>5 DEF Extends
<1>7. Extends(discussed, all)
  BY <1>6, RepairExtends
<1>8. FollowUps(js, a, queued, to, rejected) = all
  BY DEF FollowUps
<1> HIDE DEF handed, talked, discussed, all
<1>9. Extends(js, talked)
  BY <1>1, <1>3, ExtendsTransitively
<1>10. Extends(js, discussed)
  BY <1>5, <1>9, ExtendsTransitively
<1>11. Extends(js, all)
  BY <1>7, <1>10, ExtendsTransitively
<1> QED
  BY <1>8, <1>11

\* Job j is settled, perhaps with more jobs added.
Settled(j, status) ==
  /\ JobsInv(jobs', epoch)
  /\ JobsKept(jobs, jobs')
  /\ jobs'[j].status = status
  /\ \A i \in 1 .. Len(jobs) : i # j => jobs'[i] = jobs[i]
  /\ \A i \in 1 .. Len(jobs') : i > Len(jobs) => jobs'[i].task = 0

\* The job a report settles keeps its card and the others their rows.
LEMMA SettledJob ==
  ASSUME IInv, NEW j \in 1 .. Len(jobs), Live(j), NEW status \in {"completed", "failed"},
         Extends([jobs EXCEPT ![j].status = status], jobs')
  PROVE  Settled(j, status)
<1> DEFINE row == [jobs[j] EXCEPT !.status = status]
           js  == [jobs EXCEPT ![j] = row]
<1>1. jobs[j] \in Jobs /\ JobsInv(jobs, epoch) /\ Len(jobs) \in Nat
  BY ARow, Lengths DEF IInv
<1>2. /\ row \in Jobs /\ row.status = status /\ row.agent = jobs[j].agent
      /\ row.task = jobs[j].task /\ row.revision = jobs[j].revision
  BY <1>1 DEF Jobs, TerminalStates
<1>3. Extends(js, jobs')
  OBVIOUS
<1>4. status \notin LiveStates /\ jobs[j].status \notin TerminalStates
  BY DEF Live, LiveStates, TerminalStates
<1> HIDE DEF row
<1>5. /\ Len(js) = Len(jobs) /\ js[j] = row
      /\ \A i \in 1 .. Len(jobs) : i # j => js[i] = jobs[i]
  <2>1. row.status # "in_progress" /\ row.status \notin LiveStates
    BY <1>2, <1>4 DEF LiveStates
  <2> QED
    BY <1>1, <1>2, <2>1, ReplacedJob
<1> HIDE DEF js
<1>6. /\ JobsInv(jobs', epoch) /\ Len(jobs) <= Len(jobs') /\ jobs'[j] = row
      /\ \A i \in 1 .. Len(jobs) : i # j => jobs'[i] = jobs[i]
      /\ \A i \in 1 .. Len(jobs') : i > Len(jobs) => jobs'[i].task = 0
  BY <1>3, <1>5 DEF Extends
<1>7. JobsKept(jobs, jobs')
  BY <1>2, <1>4, <1>6 DEF JobsKept
<1> QED
  BY <1>2, <1>6, <1>7 DEF Settled

\* The jobs with one of them settled.
LEMMA SettledTable ==
  ASSUME IInv, NEW j \in 1 .. Len(jobs), NEW status \in {"completed", "failed"}
  PROVE  JobsInv([jobs EXCEPT ![j].status = status], epoch)
<1> DEFINE row == [jobs[j] EXCEPT !.status = status]
<1>1. jobs[j] \in Jobs /\ JobsInv(jobs, epoch)
  BY ARow DEF IInv
<1>2. row \in Jobs /\ row.status # "in_progress" /\ row.status \notin LiveStates
  BY <1>1 DEF Jobs, TerminalStates, LiveStates
<1> HIDE DEF row
<1>3. JobsInv([jobs EXCEPT ![j] = row], epoch)
  BY <1>1, <1>2, ReplacedJob
<1> QED
  BY <1>3 DEF row

-----------------------------------------------------------------------------
(* A worker's report: the cards and the handoffs *)

\* One card is changed to what nobody is working.
LEMMA RestedCard ==
  ASSUME NEW ts, NEW e, TasksInv(ts, e), NEW t, NEW new \in Seq(Tasks), Len(new) = Len(ts),
         \A u \in 1 .. Len(ts) : u # t => new[u] = ts[u],
         \A u \in 1 .. Len(ts) : u = t => new[u].state # "in_progress",
         \A u \in 1 .. Len(ts) : (u = t /\ new[u].state = "ready") => new[u].epoch = e
  PROVE  TasksInv(new, e)
<1>1. \A u \in 1 .. Len(ts) : new[u].state \in {"ready", "in_progress"} => new[u].epoch = e
  BY DEF TasksInv
<1>2. \A u \in 1 .. Len(ts) : new[u].state = "in_progress" => new[u] = ts[u]
  OBVIOUS
<1>3. \A u, v \in 1 .. Len(ts) :
        (u # v /\ new[u].state = "in_progress" /\ new[v].state = "in_progress")
          => new[u].scope \cap new[v].scope = {}
  BY <1>2 DEF TasksInv
<1> QED
  BY <1>1, <1>3 DEF TasksInv

\* The cards with one of them settled.
SettledCards(ts, t, state) == [ts EXCEPT ![t].state = state, ![t].revision = @ + 1]

\* The card of a settled job.
LEMMA SettledCard ==
  ASSUME NEW ts, NEW e, TasksInv(ts, e), NEW t, NEW state \in {"done", "blocked_on_operator", "failed"}
  PROVE  /\ TasksInv(SettledCards(ts, t, state), e)
         /\ Len(SettledCards(ts, t, state)) = Len(ts)
         /\ \A u \in 1 .. Len(ts) : u # t => SettledCards(ts, t, state)[u] = ts[u]
         /\ \A u \in 1 .. Len(ts) : u = t => SettledCards(ts, t, state)[u].state = state
         /\ \A u \in 1 .. Len(ts) : u = t =>
              /\ SettledCards(ts, t, state)[u].revision = ts[u].revision + 1
              /\ SettledCards(ts, t, state)[u].assigned = ts[u].assigned
<1> DEFINE card == [ts[t] EXCEPT !.state = state, !.revision = @ + 1]
           new  == [ts EXCEPT ![t] = card]
<1>1. ts \in Seq(Tasks)
  BY DEF TasksInv
<1>2. t \in 1 .. Len(ts) => /\ card \in Tasks /\ card.state = state
                             /\ card.revision = ts[t].revision + 1 /\ card.assigned = ts[t].assigned
  <2> SUFFICES ASSUME t \in 1 .. Len(ts)
               PROVE  /\ card \in Tasks /\ card.state = state
                      /\ card.revision = ts[t].revision + 1 /\ card.assigned = ts[t].assigned
    OBVIOUS
  <2>1. ts[t] \in Tasks
    BY <1>1, ElementOfSeq
  <2>2. ts[t].revision + 1 \in Nat /\ state \in TaskStates
    BY <2>1 DEF Tasks, TaskStates
  <2> QED
    BY <2>1, <2>2 DEF Tasks
<1>3. SettledCards(ts, t, state) = new
  BY DEF SettledCards
<1> HIDE DEF card
<1>4. /\ new \in Seq(Tasks) /\ Len(new) = Len(ts)
      /\ \A u \in 1 .. Len(ts) : new[u] = IF u = t THEN card ELSE ts[u]
  BY <1>1, <1>2, ReplacedElement
<1> HIDE DEF new
<1>5. /\ \A u \in 1 .. Len(ts) : u # t => new[u] = ts[u]
      /\ \A u \in 1 .. Len(ts) : u = t => new[u].state = state
      /\ \A u \in 1 .. Len(ts) : u = t => /\ new[u].revision = ts[u].revision + 1
                                           /\ new[u].assigned = ts[u].assigned
  BY <1>2, <1>4
<1>6. TasksInv(new, e)
  <2>1. \A u \in 1 .. Len(ts) : u = t => new[u].state # "in_progress"
    BY <1>5
  <2>2. \A u \in 1 .. Len(ts) : (u = t /\ new[u].state = "ready") => new[u].epoch = e
    BY <1>5
  <2> QED
    BY <1>4, <1>5, <2>1, <2>2, RestedCard
<1> QED
  BY <1>3, <1>4, <1>5, <1>6

\* A new card.
LEMMA AddedCard ==
  ASSUME NEW ts, NEW e, TasksInv(ts, e), NEW card \in Tasks,
         card.state = "ready", card.epoch = e
  PROVE  /\ TasksInv(Append(ts, card), e) /\ Len(ts) \in Nat
         /\ Len(Append(ts, card)) = Len(ts) + 1
         /\ \A u \in 1 .. Len(ts) + 1 :
              Append(ts, card)[u] = IF u = Len(ts) + 1 THEN card ELSE ts[u]
<1> DEFINE new == Append(ts, card)
<1>1. ts \in Seq(Tasks) /\ Len(ts) \in Nat
  BY LenProperties DEF TasksInv
<1>2. /\ new \in Seq(Tasks) /\ Len(new) = Len(ts) + 1
      /\ \A u \in 1 .. Len(ts) : new[u] = ts[u]
      /\ new[Len(ts) + 1] = card
  BY <1>1, AppendProperties
<1> HIDE DEF new
<1>3. \A u \in 1 .. Len(ts) + 1 : u \in 1 .. Len(ts) \/ u = Len(ts) + 1
  BY <1>1
<1>4. \A u \in 1 .. Len(ts) + 1 : new[u].state \in {"ready", "in_progress"} => new[u].epoch = e
  BY <1>2, <1>3 DEF TasksInv
<1>5. \A u \in 1 .. Len(ts) + 1 :
        new[u].state = "in_progress" => u \in 1 .. Len(ts) /\ new[u] = ts[u]
  BY <1>2, <1>3
<1>6. \A u, v \in 1 .. Len(ts) + 1 :
        (u # v /\ new[u].state = "in_progress" /\ new[v].state = "in_progress")
          => new[u].scope \cap new[v].scope = {}
  BY <1>5 DEF TasksInv
<1>7. TasksInv(new, e)
  BY <1>2, <1>4, <1>6 DEF TasksInv
<1>8. \A u \in 1 .. Len(ts) + 1 : new[u] = IF u = Len(ts) + 1 THEN card ELSE ts[u]
  BY <1>1, <1>2, <1>3
<1> QED
  BY <1>1, <1>2, <1>7, <1>8 DEF new

\* Closing a handoff opens none and leaves the settled ones.
LEMMA ClosedHandoff ==
  ASSUME NEW hs, NEW e, NEW n, HandoffsInv(hs, e, n), NEW h, NEW state \in {"consumed", "failed"},
         NEW m, Len(hs) \in Nat, \A x \in 1 .. n : x \in 1 .. m
  PROVE  /\ HandoffsInv(Closed(hs, h, state), e, m) /\ HandoffsKept(hs, Closed(hs, h, state))
         /\ Len(Closed(hs, h, state)) = Len(hs)
         /\ \A g \in 1 .. Len(hs) :
              Closed(hs, h, state)[g].state = "queued" => Closed(hs, h, state)[g] = hs[g]
<1> DEFINE new == Closed(hs, h, state)
<1>1. hs \in Seq(Handoffs) /\ \A g \in 1 .. Len(hs) : hs[g] \in Handoffs
  BY ElementOfSeq DEF HandoffsInv
<1>2. CASE h \in 1 .. Len(hs) /\ h # 0 /\ hs[h].state \in OpenHandoff
  <2> DEFINE note == [hs[h] EXCEPT !.state = state]
  <2>1. note \in Handoffs /\ note.state = state /\ note.task = hs[h].task
    BY <1>1, <1>2 DEF Handoffs, SettledHandoff
  <2>2. new = [hs EXCEPT ![h] = note]
    BY <1>2 DEF Closed
  <2> HIDE DEF note, new
  <2>3. /\ new \in Seq(Handoffs) /\ Len(new) = Len(hs)
        /\ \A g \in 1 .. Len(hs) : new[g] = IF g = h THEN note ELSE hs[g]
    BY <1>1, <2>1, <2>2, ReplacedElement
  <2>4. \A g \in 1 .. Len(hs) :
          /\ new[g].task = hs[g].task
          /\ new[g].state \in OpenHandoff => new[g] = hs[g]
          /\ hs[g].state \in SettledHandoff => new[g].state = hs[g].state
    BY <1>2, <2>1, <2>3 DEF OpenHandoff, SettledHandoff
  <2>5. HandoffsInv(new, e, m)
    BY <2>3, <2>4 DEF HandoffsInv
  <2>6. HandoffsKept(hs, new)
    BY <2>3, <2>4 DEF HandoffsKept
  <2> QED
    BY <2>3, <2>4, <2>5, <2>6 DEF new, OpenHandoff
<1>3. CASE new = hs
  <2>1. HandoffsInv(hs, e, m) /\ HandoffsKept(hs, hs)
    BY DEF HandoffsInv, HandoffsKept
  <2> QED
    BY <1>3, <2>1
<1>4. CASE h \notin 1 .. Len(hs) /\ h # 0 /\ hs[h].state \in OpenHandoff
  <2>1. DOMAIN hs = 1 .. Len(hs)
    BY <1>1, LenProperties
  <2>2. new = hs
    BY <1>1, <1>4, <2>1 DEF Closed
  <2> QED
    BY <1>3, <2>2
<1>5. (h = 0 \/ hs[h].state \notin OpenHandoff) => new = hs
  BY DEF Closed
<1> QED
  BY <1>2, <1>3, <1>4, <1>5

\* A card handed on has one open handoff, the new one.
LEMMA QueuedHandoffIsNewest ==
  ASSUME IInv, NEW a, NEW r \in Requests(a), NEW m \in Nat, Len(tasks) <= m, Card(r) \in 1 .. m
  PROVE  /\ HandoffsInv(QueuedHandoff(r), epoch, m) /\ HandoffsKept(handoffs, QueuedHandoff(r))
         /\ Len(QueuedHandoff(r)) \in Nat
         /\ \A h \in 1 .. Len(QueuedHandoff(r)) :
              (QueuedHandoff(r)[h].state = "queued" /\ QueuedHandoff(r)[h].task # Card(r))
                => h \in 1 .. Len(handoffs) /\ handoffs[h] = QueuedHandoff(r)[h]
<1> DEFINE kept == [h \in DOMAIN handoffs |->
                      IF handoffs[h].task = Card(r) /\ handoffs[h].state \in OpenHandoff
                      THEN [handoffs[h] EXCEPT !.state = "superseded"] ELSE handoffs[h]]
           note == [task |-> Card(r), target |-> r.target, state |-> "queued", epoch |-> epoch]
           new  == Append(kept, note)
<1>1. /\ handoffs \in Seq(Handoffs) /\ DOMAIN handoffs = 1 .. Len(handoffs)
      /\ Len(handoffs) \in Nat /\ epoch \in Nat /\ Len(tasks) \in Nat
      /\ \A h \in 1 .. Len(handoffs) : handoffs[h] \in Handoffs
      /\ HandoffsInv(handoffs, epoch, Len(tasks))
  BY Lengths, ARow DEF IInv
<1>2. \A h \in 1 .. Len(handoffs) :
        kept[h] = IF handoffs[h].task = Card(r) /\ handoffs[h].state \in OpenHandoff
                  THEN [handoffs[h] EXCEPT !.state = "superseded"] ELSE handoffs[h]
  BY <1>1
<1>3. ASSUME NEW h \in 1 .. Len(handoffs)
      PROVE  /\ kept[h] \in Handoffs /\ kept[h].task = handoffs[h].task
             /\ kept[h].state \in OpenHandoff => kept[h] = handoffs[h] /\ kept[h].task # Card(r)
             /\ handoffs[h].state \in SettledHandoff => kept[h].state = handoffs[h].state
  <2>1. handoffs[h] \in Handoffs
    BY <1>1
  <2>2. /\ [handoffs[h] EXCEPT !.state = "superseded"] \in Handoffs
        /\ [handoffs[h] EXCEPT !.state = "superseded"].state = "superseded"
        /\ [handoffs[h] EXCEPT !.state = "superseded"].task = handoffs[h].task
    BY <2>1 DEF Handoffs, SettledHandoff
  <2> QED
    BY <1>2, <2>1, <2>2 DEF OpenHandoff, SettledHandoff
<1>4. kept = [h \in DOMAIN handoffs |-> kept[h]]
  OBVIOUS
<1>5. note \in Handoffs /\ note.state = "queued" /\ note.task = Card(r) /\ note.epoch = epoch
  BY <1>1 DEF Handoffs, OpenHandoff, Requests
<1>6. QueuedHandoff(r) = new
  BY DEF QueuedHandoff
<1> HIDE DEF kept, note
<1>7. kept \in Seq(Handoffs) /\ Len(kept) = Len(handoffs)
  BY <1>1, <1>3, <1>4, MappedSequence
<1>8. /\ new \in Seq(Handoffs) /\ Len(new) = Len(handoffs) + 1
      /\ \A h \in 1 .. Len(handoffs) : new[h] = kept[h]
      /\ new[Len(handoffs) + 1] = note
  BY <1>5, <1>7, AppendProperties
<1> HIDE DEF new
<1>9. \A h \in 1 .. Len(handoffs) + 1 : h \in 1 .. Len(handoffs) \/ h = Len(handoffs) + 1
  BY <1>1
<1>10. \A h \in 1 .. Len(handoffs) + 1 :
         /\ new[h].task \in 1 .. m
         /\ new[h].state \in OpenHandoff => new[h].epoch = epoch
  BY <1>1, <1>3, <1>5, <1>8, <1>9 DEF HandoffsInv
<1>11. \A h, g \in 1 .. Len(handoffs) + 1 :
         (new[h].task = new[g].task /\ new[h].state \in OpenHandoff) => g <= h
  <2> SUFFICES ASSUME NEW h \in 1 .. Len(handoffs) + 1, NEW g \in 1 .. Len(handoffs) + 1,
                      new[h].task = new[g].task, new[h].state \in OpenHandoff
               PROVE  g <= h
    OBVIOUS
  <2>1. CASE h = Len(handoffs) + 1
    BY <1>1, <2>1
  <2>2. CASE h \in 1 .. Len(handoffs) /\ g \in 1 .. Len(handoffs)
    BY <1>1, <1>3, <1>8, <2>2 DEF HandoffsInv
  <2>3. CASE h \in 1 .. Len(handoffs) /\ g = Len(handoffs) + 1
    BY <1>3, <1>5, <1>8, <2>3
  <2> QED
    BY <1>9, <2>1, <2>2, <2>3
<1>12. HandoffsInv(new, epoch, m)
  BY <1>8, <1>10, <1>11 DEF HandoffsInv
<1>13. HandoffsKept(handoffs, new)
  BY <1>1, <1>3, <1>8 DEF HandoffsKept
<1>14. \A h \in 1 .. Len(new) :
         (new[h].state = "queued" /\ new[h].task # Card(r))
           => h \in 1 .. Len(handoffs) /\ handoffs[h] = new[h]
  BY <1>3, <1>5, <1>8, <1>9 DEF OpenHandoff
<1> QED
  BY <1>1, <1>6, <1>8, <1>12, <1>13, <1>14

-----------------------------------------------------------------------------
(* A worker's report: the steps *)

\* A process that reported has changed.
LEMMA ReportedProc ==
  ASSUME IInv, NEW w \in Workers, NEW state \in {"idle", "failing"},
         proc[w].state \in {"working", "failing"}, proc[w].state # state,
         Reported(w, state), NEW n \in Nat, Len(jobs) <= n
  PROVE  ProcInv(proc', n) /\ proc'[w] # proc[w]
<1> DEFINE row == [proc[w] EXCEPT !.state = state, !.job = IF state = "idle" THEN 0 ELSE @]
<1>1. /\ ProcInv(proc, n) /\ proc \in [Workers -> Procs]
      /\ proc[w] \in Procs /\ proc[w].agent \in Agents
      /\ proc[w].job \in 1 .. n
  BY Lengths, ProcKept DEF IInv, ProcInv
<1>2. /\ row \in Procs /\ row.state = state /\ row.agent \in Agents
      /\ state = "failing" => row.job = proc[w].job
  BY <1>1 DEF Procs
<1>3. proc' = [proc EXCEPT ![w] = row]
  BY DEF Reported
<1> HIDE DEF row
<1>4. /\ proc' \in [Workers -> Procs] /\ proc'[w] = row
      /\ \A x \in Workers : x # w => proc'[x] = proc[x]
  BY <1>1, <1>2, <1>3
<1>5. ProcInv(proc', n)
  BY <1>1, <1>2, <1>4 DEF ProcInv
<1> QED
  BY <1>2, <1>4, <1>5

\* What is left to show of a report that settles its job.
LEMMA ReportOK ==
  ASSUME IInv, UNCHANGED epoch, NEW w \in Workers, NEW j \in 1 .. Len(jobs), proc[w].job = j,
         Settles(w, j), NEW status \in {"completed", "failed"}, Settled(j, status),
         TasksInv(tasks', epoch), HandoffsInv(handoffs', epoch, Len(tasks')),
         HandoffsKept(handoffs, handoffs'), ProcInv(proc', Len(jobs')), proc'[w] # proc[w],
         \A u \in 1 .. Len(tasks') :
           tasks'[u].state = "in_progress" =>
             u \in 1 .. Len(tasks) /\ u # jobs[j].task /\ tasks'[u] = tasks[u],
         \A u \in 1 .. Len(tasks) :
           (tasks'[u].state # tasks[u].state /\ tasks'[u].state \in {"done", "failed"})
             => u = jobs[j].task,
         RevisionsGrow, OffersNewWork,
         (WorkInv(jobs, tasks, handoffs) /\ Serving /\ jobs[j].task # 0) =>
           tasks'[jobs[j].task].revision # jobs[j].revision
  PROVE  StepOK
<1>1. /\ Len(jobs) \in Nat /\ DOMAIN jobs = 1 .. Len(jobs) /\ DOMAIN tasks = 1 .. Len(tasks)
      /\ Len(jobs') \in Nat
  BY Lengths, LenProperties DEF Settled, JobsInv
<1>2. /\ JobsInv(jobs', epoch) /\ JobsKept(jobs, jobs') /\ jobs'[j].status = status
      /\ \A i \in 1 .. Len(jobs) : i # j => jobs'[i] = jobs[i]
  BY DEF Settled
<1>3. Held(tasks', jobs')
  <2>1. ASSUME NEW u \in 1 .. Len(tasks'), tasks'[u].state = "in_progress"
        PROVE  /\ u \in 1 .. Len(tasks) /\ tasks[u].state = "in_progress"
               /\ tasks'[u].revision = tasks[u].revision
               /\ \A i \in 1 .. Len(jobs) : (jobs[i].task = u /\ Holding(jobs[i])) => Holding(jobs'[i])
    BY <1>2, <2>1
  <2> QED
    BY <1>1, <1>2, <2>1, HeldKept DEF IInv
<1>4. IInv'
  BY <1>2, <1>3 DEF IInv
<1>5. SettlesOwnJob
  <2> SUFFICES ASSUME NEW i \in 1 .. Len(jobs), jobs[i].status = "in_progress",
                      jobs'[i].status \in {"completed", "failed"}
               PROVE  \E x \in Workers : /\ jobs[i].worker = x
                                         /\ proc[x].job = i /\ proc'[x] # proc[x]
    BY <1>1 DEF SettlesOwnJob
  <2>1. i = j
    BY <1>2
  <2>2. jobs[j].worker \in Workers
    BY <2>1 DEF IInv, JobsInv
  <2>3. jobs[j].worker = w
    BY <2>2, SessionJobsAssumption DEF Settles, Owns
  <2> QED
    BY <2>1, <2>3
<1>6. SettlesItsCard
  <2> SUFFICES ASSUME NEW t \in 1 .. Len(tasks), tasks'[t].state # tasks[t].state,
                      tasks'[t].state \in {"done", "failed"}
               PROVE  \E i \in DOMAIN jobs : /\ jobs[i].task = t /\ Live(i) /\ jobs[i].epoch = epoch
                                            /\ jobs'[i].status \in {"completed", "failed"}
    BY <1>1 DEF SettlesItsCard
  <2>1. t = jobs[j].task
    OBVIOUS
  <2> QED
    BY <1>1, <1>2, <2>1 DEF Settles
<1>7. ASSUME WorkInv(jobs, tasks, handoffs), Serving
      PROVE  WorkInv(jobs', tasks', handoffs')
  <2>1. ASSUME NEW i \in 1 .. Len(jobs), Present(jobs'[i], tasks')
        PROVE  jobs'[i].status \in LiveStates
    <3>1. /\ jobs'[i].task = jobs[i].task /\ jobs'[i].revision = jobs[i].revision
          /\ jobs[i].task # 0 /\ jobs'[i].revision = tasks'[jobs'[i].task].revision
          /\ jobs[i].status # "cancelled"
      BY <1>2, <2>1 DEF Present, JobsKept, TerminalStates
    <3>2. i # j
      BY <1>7, <3>1
    <3>3. jobs'[i] = jobs[i] /\ jobs[i].task \in 1 .. Len(tasks)
          /\ jobs[i].revision <= tasks[jobs[i].task].revision
      BY <1>2, <1>7, <3>1, <3>2 DEF WorkInv
    <3>4. jobs[i].revision = tasks[jobs[i].task].revision
      <4>1. tasks' \in Seq(Tasks)
        BY DEF TasksInv
      <4>2. /\ jobs[i].revision \in Nat /\ tasks[jobs[i].task].revision \in Nat
            /\ tasks'[jobs[i].task].revision \in Nat
        <5>1. jobs[i].task \in 1 .. Len(tasks')
          BY <3>3 DEF RevisionsGrow
        <5>2. tasks'[jobs[i].task] \in Tasks /\ tasks[jobs[i].task] \in Tasks /\ jobs[i] \in Jobs
          BY <3>3, <4>1, <5>1, ARow, ElementOfSeq
        <5> QED
          BY <5>2 DEF Jobs, Tasks
      <4> QED
        BY <3>1, <3>3, <4>2 DEF RevisionsGrow
    <3> QED
      BY <1>7, <3>1, <3>3, <3>4 DEF WorkInv, Present
  <2>2. tasks' \in Seq(Tasks)
    BY DEF TasksInv
  <2>3. \A i \in 1 .. Len(jobs') : i > Len(jobs) => jobs'[i].task = 0
    BY DEF Settled
  <2> QED
    BY <1>1, <1>2, <1>7, <2>1, <2>2, <2>3, WorkCarried
<1> QED
  BY <1>2, <1>4, <1>5, <1>6, <1>7 DEF StepOK, WorkKept

\* fail_job, applied or refused.
LEMMA FailStep ==
  ASSUME IInv, NEW w \in Workers, fail_job(w)
  PROVE  StepOK
<1> DEFINE j == proc[w].job
           t == jobs[j].task
<1>1. proc[w].state = "failing" /\ Reported(w, "idle") /\ UNCHANGED epoch
  BY DEF fail_job
<1>2. j \in 1 .. Len(jobs) /\ Len(jobs) \in Nat /\ JobsInv(jobs, epoch)
  BY <1>1, Lengths DEF IInv, ProcInv
<1>3. CASE UNCHANGED <<jobs, tasks, handoffs>>
  <2>1. ProcInv(proc', Len(jobs))
    BY <1>1, <1>2, ReportedProc
  <2> QED
    BY <1>1, <1>3, <2>1, ProcOnly
<1>4. CASE Settles(w, j) /\ FailWith(j)
  <2>1. /\ jobs' = _queue_planner_recovery([jobs EXCEPT ![j].status = "failed"],
                                           jobs[j].agent, jobs[j].kind)
        /\ tasks' = _synchronize_failed_task(t)
        /\ handoffs' = Closed(handoffs, jobs[j].handoff, "failed")
    BY <1>4 DEF FailWith
  <2>2. Settled(j, "failed")
    <3>1. JobsInv([jobs EXCEPT ![j].status = "failed"], epoch)
      BY <1>2, SettledTable
    <3>2. Extends([jobs EXCEPT ![j].status = "failed"], jobs')
      BY <2>1, <3>1, RecoveryExtends
    <3>3. Live(j)
      BY <1>4 DEF Settles
    <3> QED
      BY <1>2, <3>2, <3>3, SettledJob
  <2>3. /\ TasksInv(tasks', epoch) /\ Len(tasks') = Len(tasks)
        /\ \A u \in 1 .. Len(tasks) : /\ u # t => tasks'[u] = tasks[u]
                                      /\ u = t => tasks'[u].state = "failed"
                                      /\ u = t => /\ tasks'[u].revision = tasks[u].revision + 1
                                                  /\ tasks'[u].assigned = tasks[u].assigned
    <3>1. TasksInv(tasks, epoch)
      BY DEF IInv
    <3>2. CASE t = 0
      BY <2>1, <3>1, <3>2 DEF _synchronize_failed_task
    <3>3. CASE t # 0
      <4> DEFINE state == "failed"
      <4>1. state \in {"done", "blocked_on_operator", "failed"}
        OBVIOUS
      <4>2. tasks' = SettledCards(tasks, t, state)
        BY <2>1, <3>3 DEF _synchronize_failed_task, SettledCards
      <4>3. SUFFICES /\ TasksInv(tasks', epoch) /\ Len(tasks') = Len(tasks)
                     /\ \A u \in 1 .. Len(tasks) : u # t => tasks'[u] = tasks[u]
                     /\ \A u \in 1 .. Len(tasks) : u = t => tasks'[u].state = state
                     /\ \A u \in 1 .. Len(tasks) : u = t =>
                          /\ tasks'[u].revision = tasks[u].revision + 1
                          /\ tasks'[u].assigned = tasks[u].assigned
        OBVIOUS
      <4> HIDE DEF j, t, state
      <4>4. /\ TasksInv(SettledCards(tasks, t, state), epoch)
            /\ Len(SettledCards(tasks, t, state)) = Len(tasks)
            /\ \A u \in 1 .. Len(tasks) : u # t => SettledCards(tasks, t, state)[u] = tasks[u]
            /\ \A u \in 1 .. Len(tasks) : u = t => SettledCards(tasks, t, state)[u].state = state
            /\ \A u \in 1 .. Len(tasks) : u = t =>
                 /\ SettledCards(tasks, t, state)[u].revision = tasks[u].revision + 1
                 /\ SettledCards(tasks, t, state)[u].assigned = tasks[u].assigned
        BY <3>1, <4>1, SettledCard
      <4> QED
        BY <4>2, <4>4
    <3> QED
      BY <3>2, <3>3
  <2>4. /\ HandoffsInv(handoffs', epoch, Len(tasks')) /\ HandoffsKept(handoffs, handoffs')
        /\ Len(handoffs') = Len(handoffs)
        /\ \A g \in 1 .. Len(handoffs) : handoffs'[g].state = "queued" => handoffs'[g] = handoffs[g]
    <3>1. HandoffsInv(handoffs, epoch, Len(tasks)) /\ Len(handoffs) \in Nat
      BY Lengths DEF IInv
    <3>2. \A x \in 1 .. Len(tasks) : x \in 1 .. Len(tasks')
      BY <2>3
    <3> DEFINE new == Closed(handoffs, jobs[j].handoff, "failed")
    <3>3. /\ HandoffsInv(new, epoch, Len(tasks')) /\ HandoffsKept(handoffs, new)
          /\ Len(new) = Len(handoffs)
          /\ \A g \in 1 .. Len(handoffs) : new[g].state = "queued" => new[g] = handoffs[g]
      BY <3>1, <3>2, ClosedHandoff
    <3> QED
      BY <2>1, <3>3
  <2>5. Len(jobs') \in Nat /\ Len(jobs) <= Len(jobs')
    BY <2>2, LenProperties DEF Settled, JobsInv, JobsKept
  <2>6. ProcInv(proc', Len(jobs')) /\ proc'[w] # proc[w]
    BY <1>1, <2>5, ReportedProc
  <2>7. \A u \in 1 .. Len(tasks') :
          tasks'[u].state = "in_progress" =>
            u \in 1 .. Len(tasks) /\ u # jobs[j].task /\ tasks'[u] = tasks[u]
    BY <2>3
  <2>8. \A u \in 1 .. Len(tasks) :
          (tasks'[u].state # tasks[u].state /\ tasks'[u].state \in {"done", "failed"})
            => u = jobs[j].task
    BY <2>3
  <2>9. \A u \in 1 .. Len(tasks) : tasks[u].revision \in Nat
    BY ARow DEF Tasks
  <2>10. RevisionsGrow
    BY <2>3, <2>9 DEF RevisionsGrow
  <2>11. OffersNewWork
    BY <2>4 DEF OffersNewWork
  <2>12. (WorkInv(jobs, tasks, handoffs) /\ Serving /\ jobs[j].task # 0) =>
           tasks'[jobs[j].task].revision # jobs[j].revision
    <3> SUFFICES ASSUME WorkInv(jobs, tasks, handoffs), jobs[j].task # 0
                 PROVE  tasks'[t].revision # jobs[j].revision
      OBVIOUS
    <3>1. t \in 1 .. Len(tasks) /\ jobs[j].revision <= tasks[t].revision
      BY <1>2 DEF WorkInv
    <3>2. tasks'[t].revision = tasks[t].revision + 1 /\ jobs[j].revision \in Nat
      BY <1>2, <2>3, <3>1, ARow DEF Jobs
    <3> QED
      BY <2>9, <3>1, <3>2
  <2> QED
    BY <1>1, <1>2, <1>4, <2>2, <2>3, <2>4, <2>6, <2>7, <2>8, <2>10, <2>11, <2>12, ReportOK
<1> QED
  BY <1>3, <1>4 DEF fail_job

\* What a report may have done to the cards before its job's own card is settled:
\* a card is made ready under a new revision, none is put in progress.
Offered(ts) ==
  /\ TasksInv(ts, epoch)
  /\ Len(tasks) <= Len(ts)
  /\ \A u \in 1 .. Len(ts) :
       ts[u].state = "in_progress" => u \in 1 .. Len(tasks) /\ ts[u] = tasks[u]
  /\ \A u \in 1 .. Len(tasks) :
       ts[u] = tasks[u] \/ (ts[u].state = "ready" /\ ts[u].revision > tasks[u].revision)

\* A handoff block offers its card, a new one or one that was there.
LEMMA UpsertOffers ==
  ASSUME IInv, NEW a, NEW r \in Requests(a)
  PROVE  /\ Offered(_upsert_task_for_handoff(r))
         /\ Card(r) \in 1 .. Len(_upsert_task_for_handoff(r))
         /\ _upsert_task_for_handoff(r)[Card(r)].epoch = epoch
         /\ Card(r) \in 1 .. Len(tasks) =>
              _upsert_task_for_handoff(r)[Card(r)].revision > tasks[Card(r)].revision
<1> DEFINE card == [state |-> "ready", epoch |-> epoch, assigned |-> r.target, scope |-> r.scope,
                    revision |-> IF r.task = 0 THEN 1 ELSE tasks[r.task].revision + 1]
           new  == _upsert_task_for_handoff(r)
<1>1. /\ TasksInv(tasks, epoch) /\ tasks \in Seq(Tasks) /\ Len(tasks) \in Nat
      /\ \A u \in 1 .. Len(tasks) : tasks[u] \in Tasks
      /\ epoch \in Nat
  BY Lengths, ARow DEF IInv
<1>2. r.task \in 0 .. Len(tasks) /\ r.target \in Agents /\ r.scope \in Scopes
  BY DEF Requests
<1>3. card.revision \in Nat
  <2>1. CASE r.task = 0
    BY <2>1
  <2>2. CASE r.task # 0
    <3>1. tasks[r.task] \in Tasks
      BY <1>1, <1>2, <2>2
    <3> QED
      BY <2>2, <3>1 DEF Tasks
  <2> QED
    BY <2>1, <2>2
<1>4. card \in Tasks /\ card.state = "ready" /\ card.epoch = epoch
  BY <1>1, <1>2, <1>3 DEF Tasks, TaskStates
<1>5. r.task \in 1 .. Len(tasks) => card.revision > tasks[r.task].revision
  <2> SUFFICES ASSUME r.task \in 1 .. Len(tasks) PROVE card.revision > tasks[r.task].revision
    OBVIOUS
  <2>1. tasks[r.task].revision \in Nat /\ r.task # 0
    BY <1>1 DEF Tasks
  <2> QED
    BY <2>1
<1>6. new = IF r.task = 0 THEN Append(tasks, card) ELSE [tasks EXCEPT ![r.task] = card]
  BY DEF _upsert_task_for_handoff
<1> HIDE DEF card, new
<1>7. CASE r.task = 0
  <2>1. Card(r) = Len(tasks) + 1
    BY <1>7 DEF Card
  <2>2. /\ TasksInv(new, epoch) /\ Len(new) = Len(tasks) + 1
        /\ \A u \in 1 .. Len(tasks) + 1 : new[u] = IF u = Len(tasks) + 1 THEN card ELSE tasks[u]
    BY <1>1, <1>4, <1>6, <1>7, AddedCard
  <2>3. Offered(new)
    BY <1>1, <1>4, <2>2 DEF Offered
  <2>4. Card(r) \in 1 .. Len(new) /\ new[Card(r)].epoch = epoch /\ Card(r) \notin 1 .. Len(tasks)
    BY <1>1, <1>4, <2>1, <2>2
  <2> QED
    BY <2>3, <2>4 DEF new
<1>8. CASE r.task # 0
  <2>1. Card(r) = r.task /\ r.task \in 1 .. Len(tasks)
    BY <1>1, <1>2, <1>8 DEF Card
  <2>2. /\ new \in Seq(Tasks) /\ Len(new) = Len(tasks)
        /\ \A u \in 1 .. Len(tasks) : new[u] = IF u = r.task THEN card ELSE tasks[u]
    BY <1>1, <1>4, <1>6, <1>8, ReplacedElement
  <2>3. TasksInv(new, epoch)
    <3>1. /\ \A u \in 1 .. Len(tasks) : u # r.task => new[u] = tasks[u]
          /\ \A u \in 1 .. Len(tasks) : u = r.task => new[u].state # "in_progress"
          /\ \A u \in 1 .. Len(tasks) : (u = r.task /\ new[u].state = "ready") => new[u].epoch = epoch
      BY <1>4, <2>2
    <3> QED
      BY <1>1, <2>2, <3>1, RestedCard
  <2>4. Offered(new)
    BY <1>1, <1>4, <1>5, <2>1, <2>2, <2>3 DEF Offered
  <2>5. /\ Card(r) \in 1 .. Len(new) /\ new[Card(r)].epoch = epoch
        /\ new[Card(r)].revision > tasks[Card(r)].revision
    BY <1>1, <1>4, <1>5, <2>1, <2>2
  <2> QED
    BY <2>4, <2>5 DEF new
<1> QED
  BY <1>7, <1>8

\* The card of a completed job: nobody works it, and it alone is settled.
LEMMA SynchronizedCards ==
  ASSUME IInv, NEW ts, Offered(ts), NEW t \in Nat, NEW handedOn, NEW question,
         (handedOn /\ t \in 1 .. Len(ts)) => ts[t].epoch = epoch,
         tasks' = _synchronize_completed_task(ts, t, handedOn, question)
  PROVE  /\ TasksInv(tasks', epoch) /\ Len(tasks') = Len(ts)
         /\ \A u \in 1 .. Len(tasks') :
              tasks'[u].state = "in_progress" =>
                u \in 1 .. Len(tasks) /\ u # t /\ tasks'[u] = tasks[u]
         /\ \A u \in 1 .. Len(tasks) :
              (tasks'[u].state # tasks[u].state /\ tasks'[u].state \in {"done", "failed"}) => u = t
         /\ \A u \in 1 .. Len(ts) :
              /\ tasks'[u].assigned = ts[u].assigned
              /\ tasks'[u].revision = IF u = t /\ ~ handedOn THEN ts[u].revision + 1
                                                             ELSE ts[u].revision
<1>1. /\ TasksInv(ts, epoch) /\ ts \in Seq(Tasks) /\ Len(ts) \in Nat
      /\ Len(tasks) \in Nat /\ Len(tasks) <= Len(ts)
  BY Lengths, LenProperties DEF Offered, TasksInv
<1>2. CASE t = 0
  <2>1. tasks' = ts
    BY <1>2 DEF _synchronize_completed_task
  <2>2. \A u \in 1 .. Len(ts) : u # t
    BY <1>2
  <2> QED
    BY <1>1, <2>1, <2>2 DEF Offered
<1>3. CASE t # 0 /\ handedOn
  <2> DEFINE card == [ts[t] EXCEPT !.state = "ready"]
  <2>1. t \in 1 .. Len(ts) => /\ card \in Tasks /\ card.state = "ready" /\ card.epoch = epoch
                              /\ card.assigned = ts[t].assigned /\ card.revision = ts[t].revision
    <3> SUFFICES ASSUME t \in 1 .. Len(ts)
                 PROVE  /\ card \in Tasks /\ card.state = "ready" /\ card.epoch = epoch
                        /\ card.assigned = ts[t].assigned /\ card.revision = ts[t].revision
      OBVIOUS
    <3>1. ts[t] \in Tasks /\ ts[t].epoch = epoch
      BY <1>1, <1>3, ElementOfSeq
    <3> QED
      BY <3>1 DEF Tasks, TaskStates
  <2>2. tasks' = [ts EXCEPT ![t] = card]
    BY <1>3 DEF _synchronize_completed_task
  <2> HIDE DEF card
  <2>3. /\ tasks' \in Seq(Tasks) /\ Len(tasks') = Len(ts)
        /\ \A u \in 1 .. Len(ts) : tasks'[u] = IF u = t THEN card ELSE ts[u]
    BY <1>1, <2>1, <2>2, ReplacedElement
  <2>4. TasksInv(tasks', epoch)
    <3>1. /\ \A u \in 1 .. Len(ts) : u # t => tasks'[u] = ts[u]
          /\ \A u \in 1 .. Len(ts) : u = t => tasks'[u].state # "in_progress"
          /\ \A u \in 1 .. Len(ts) : (u = t /\ tasks'[u].state = "ready") => tasks'[u].epoch = epoch
      BY <2>1, <2>3
    <3> QED
      BY <1>1, <2>3, <3>1, RestedCard
  <2>5. \A u \in 1 .. Len(ts) : /\ tasks'[u].assigned = ts[u].assigned
                                /\ tasks'[u].revision = ts[u].revision
    BY <2>1, <2>3
  <2>6. \A u \in 1 .. Len(ts) :
          tasks'[u].state = "in_progress" => u \in 1 .. Len(tasks) /\ u # t /\ tasks'[u] = tasks[u]
    BY <2>1, <2>3 DEF Offered
  <2>7. \A u \in 1 .. Len(tasks) :
          (tasks'[u].state # tasks[u].state /\ tasks'[u].state \in {"done", "failed"}) => u = t
    BY <1>1, <2>1, <2>3 DEF Offered
  <2> QED
    BY <1>3, <2>3, <2>4, <2>5, <2>6, <2>7
<1>4. CASE t # 0 /\ ~ handedOn
  <2> DEFINE state == IF question THEN "blocked_on_operator" ELSE "done"
  <2>1. state \in {"done", "blocked_on_operator", "failed"}
    OBVIOUS
  <2>2. tasks' = SettledCards(ts, t, state)
    BY <1>4 DEF _synchronize_completed_task, SettledCards
  <2> HIDE DEF state
  <2>3. /\ TasksInv(tasks', epoch) /\ Len(tasks') = Len(ts)
        /\ \A u \in 1 .. Len(ts) : u # t => tasks'[u] = ts[u]
        /\ \A u \in 1 .. Len(ts) : u = t => tasks'[u].state = state
        /\ \A u \in 1 .. Len(ts) : u = t => /\ tasks'[u].revision = ts[u].revision + 1
                                             /\ tasks'[u].assigned = ts[u].assigned
    <3>1. /\ TasksInv(SettledCards(ts, t, state), epoch) /\ Len(SettledCards(ts, t, state)) = Len(ts)
          /\ \A u \in 1 .. Len(ts) : u # t => SettledCards(ts, t, state)[u] = ts[u]
          /\ \A u \in 1 .. Len(ts) : u = t => SettledCards(ts, t, state)[u].state = state
          /\ \A u \in 1 .. Len(ts) : u = t =>
               /\ SettledCards(ts, t, state)[u].revision = ts[u].revision + 1
               /\ SettledCards(ts, t, state)[u].assigned = ts[u].assigned
      BY <1>1, <2>1, SettledCard
    <3> QED
      BY <2>2, <3>1
  <2>4. \A u \in 1 .. Len(ts) :
          /\ tasks'[u].assigned = ts[u].assigned
          /\ tasks'[u].revision = IF u = t /\ ~ handedOn THEN ts[u].revision + 1 ELSE ts[u].revision
    BY <1>4, <2>3
  <2> QED
    BY <1>1, <2>1, <2>3, <2>4 DEF Offered
<1> QED
  BY <1>2, <1>3, <1>4

\* A report that settles its job, with or without a handoff to queue.
LEMMA CompleteWithStep ==
  ASSUME IInv, UNCHANGED epoch, NEW w \in Workers, NEW j \in 1 .. Len(jobs), proc[w].job = j,
         proc[w].state = "working", Settles(w, j), Reported(w, "idle") \/ Reported(w, "failing"),
         NEW r, NEW queued \in BOOLEAN, NEW handedOn, NEW question, NEW rejected,
         NEW to \in Agents \cup {None},
         NEW by, queued => r \in Requests(by),
         handedOn => r.task = jobs[j].task,
         (handedOn /\ queued) => Card(r) = r.task,
         (handedOn /\ ~ queued) => tasks[jobs[j].task].epoch = epoch,
         (handedOn /\ ~ queued /\ Serving) => tasks[jobs[j].task].assigned # jobs[j].agent,
         CompleteWith(j, r, queued, handedOn, question, to, rejected)
  PROVE  StepOK
<1> DEFINE a    == jobs[j].agent
           t    == jobs[j].task
           done == [jobs EXCEPT ![j].status = "completed"]
           ts   == IF queued THEN _upsert_task_for_handoff(r) ELSE tasks
           hs   == IF queued THEN QueuedHandoff(r) ELSE handoffs
<1>1. /\ jobs' = FollowUps(done, a, queued, to, rejected)
      /\ tasks' = _synchronize_completed_task(ts, t, handedOn, question)
      /\ handoffs' = Closed(hs, jobs[j].handoff, "consumed")
  BY DEF CompleteWith
<1>2. /\ Len(jobs) \in Nat /\ JobsInv(jobs, epoch) /\ t \in Nat
      /\ TasksInv(tasks, epoch) /\ Len(tasks) \in Nat
      /\ HandoffsInv(handoffs, epoch, Len(tasks)) /\ Len(handoffs) \in Nat
  BY Lengths, ARow DEF IInv, Jobs
<1>3. Settled(j, "completed")
  <2>1. JobsInv(done, epoch)
    BY SettledTable
  <2>2. Extends(done, jobs')
    BY <1>1, <2>1, FollowUpsExtend
  <2>3. Live(j)
    BY DEF Settles
  <2> QED
    BY <2>2, <2>3, SettledJob
<1>4. /\ Offered(ts)
      /\ queued => /\ Card(r) \in 1 .. Len(ts) /\ ts[Card(r)].epoch = epoch
                   /\ Card(r) \in 1 .. Len(tasks) => ts[Card(r)].revision > tasks[Card(r)].revision
      /\ ~ queued => ts = tasks
  <2>1. CASE queued
    BY <2>1, UpsertOffers
  <2>2. CASE ~ queued
    BY <1>2, <2>2 DEF Offered
  <2> QED
    BY <2>1, <2>2
<1>5. (handedOn /\ t \in 1 .. Len(ts)) => ts[t].epoch = epoch
  BY <1>4
<1> HIDE DEF ts, t
<1>6. /\ TasksInv(tasks', epoch) /\ Len(tasks') = Len(ts)
      /\ \A u \in 1 .. Len(tasks') :
           tasks'[u].state = "in_progress" =>
             u \in 1 .. Len(tasks) /\ u # t /\ tasks'[u] = tasks[u]
      /\ \A u \in 1 .. Len(tasks) :
           (tasks'[u].state # tasks[u].state /\ tasks'[u].state \in {"done", "failed"}) => u = t
      /\ \A u \in 1 .. Len(ts) :
           /\ tasks'[u].assigned = ts[u].assigned
           /\ tasks'[u].revision = IF u = t /\ ~ handedOn THEN ts[u].revision + 1 ELSE ts[u].revision
  BY <1>1, <1>2, <1>4, <1>5, SynchronizedCards
<1>7. Len(ts) \in Nat /\ Len(tasks) <= Len(ts) /\ Len(tasks') = Len(ts)
  BY <1>4, <1>6, LenProperties DEF Offered, TasksInv
<1>8. /\ HandoffsInv(hs, epoch, Len(tasks')) /\ HandoffsKept(handoffs, hs) /\ Len(hs) \in Nat
      /\ \A h \in 1 .. Len(hs) :
           (hs[h].state = "queued" /\ ~ (queued /\ hs[h].task = Card(r)))
             => h \in 1 .. Len(handoffs) /\ handoffs[h] = hs[h]
  <2>1. CASE queued
    BY <1>4, <1>7, <2>1, QueuedHandoffIsNewest
  <2>2. CASE ~ queued
    <3>1. \A x \in 1 .. Len(tasks) : x \in 1 .. Len(tasks')
      BY <1>2, <1>7
    <3> QED
      BY <1>2, <2>2, <3>1 DEF HandoffsInv, HandoffsKept
  <2> QED
    BY <2>1, <2>2
<1> HIDE DEF hs
<1>9. /\ HandoffsInv(handoffs', epoch, Len(tasks')) /\ HandoffsKept(hs, handoffs')
      /\ Len(handoffs') = Len(hs)
      /\ \A h \in 1 .. Len(hs) : handoffs'[h].state = "queued" => handoffs'[h] = hs[h]
  BY <1>1, <1>8, ClosedHandoff
<1>10. HandoffsKept(handoffs, handoffs')
  <2>1. Len(handoffs') \in Nat
    BY <1>9, LenProperties DEF HandoffsInv
  <2> QED
    BY <1>2, <1>8, <1>9, <2>1 DEF HandoffsKept, SettledHandoff
<1>11. Len(jobs') \in Nat /\ Len(jobs) <= Len(jobs')
  BY <1>3, LenProperties DEF Settled, JobsInv, JobsKept
<1>12. ProcInv(proc', Len(jobs')) /\ proc'[w] # proc[w]
  <2>1. CASE Reported(w, "idle")
    BY <1>11, <2>1, ReportedProc
  <2>2. CASE Reported(w, "failing")
    BY <1>11, <2>2, ReportedProc
  <2> QED
    BY <2>1, <2>2
<1>13. /\ \A u \in 1 .. Len(tasks) : tasks[u].revision \in Nat
       /\ \A u \in 1 .. Len(ts) : ts[u].revision \in Nat
  <2>1. ts \in Seq(Tasks)
    BY <1>4 DEF Offered, TasksInv
  <2>2. \A u \in 1 .. Len(ts) : ts[u] \in Tasks
    BY <2>1, ElementOfSeq
  <2> QED
    BY <2>2, ARow DEF Tasks
<1>14. \A u \in 1 .. Len(tasks) :
         /\ u \in 1 .. Len(ts) /\ tasks'[u].revision >= ts[u].revision
         /\ ts[u] = tasks[u] \/ ts[u].revision > tasks[u].revision
         /\ (u = t /\ ~ handedOn) => tasks'[u].revision > ts[u].revision
  <2> SUFFICES ASSUME NEW u \in 1 .. Len(tasks)
               PROVE  /\ u \in 1 .. Len(ts) /\ tasks'[u].revision >= ts[u].revision
                      /\ ts[u] = tasks[u] \/ ts[u].revision > tasks[u].revision
                      /\ (u = t /\ ~ handedOn) => tasks'[u].revision > ts[u].revision
    OBVIOUS
  <2>1. u \in 1 .. Len(ts)
    BY <1>2, <1>7
  <2>2. ts[u].revision \in Nat
    BY <1>13, <2>1
  <2>3. tasks'[u].revision = IF u = t /\ ~ handedOn THEN ts[u].revision + 1 ELSE ts[u].revision
    BY <1>6, <2>1
  <2>4. ts[u] = tasks[u] \/ ts[u].revision > tasks[u].revision
    BY <1>4 DEF Offered
  <2> QED
    BY <2>1, <2>2, <2>3, <2>4
<1>15. RevisionsGrow
  <2> SUFFICES ASSUME NEW u \in 1 .. Len(tasks)
               PROVE  /\ u \in 1 .. Len(tasks') /\ tasks'[u].revision >= tasks[u].revision
                      /\ tasks'[u].revision = tasks[u].revision => tasks'[u].assigned = tasks[u].assigned
    BY DEF RevisionsGrow
  <2>1. tasks'[u].revision \in Nat
    BY <1>6, <1>13, <1>14
  <2> QED
    BY <1>6, <1>7, <1>13, <1>14, <2>1
<1>16. OffersNewWork
  <2> SUFFICES ASSUME NEW h \in 1 .. Len(handoffs'), handoffs'[h].state = "queued"
               PROVE  \/ \E g \in 1 .. Len(handoffs) : /\ handoffs[g].state = "queued"
                                                       /\ handoffs[g].task = handoffs'[h].task
                      \/ handoffs'[h].task \notin 1 .. Len(tasks)
                      \/ tasks'[handoffs'[h].task].revision > tasks[handoffs'[h].task].revision
    BY DEF OffersNewWork
  <2>1. h \in 1 .. Len(hs) /\ handoffs'[h] = hs[h]
    BY <1>9
  <2>2. CASE queued /\ hs[h].task = Card(r) /\ Card(r) \in 1 .. Len(tasks)
    <3>1. ts[Card(r)].revision > tasks[Card(r)].revision
      BY <1>4, <2>2
    <3>2. tasks'[Card(r)].revision \in Nat /\ tasks'[Card(r)].revision >= ts[Card(r)].revision
      BY <1>6, <1>13, <1>14, <2>2
    <3>3. tasks[Card(r)].revision \in Nat /\ ts[Card(r)].revision \in Nat
      BY <1>13, <1>14, <2>2
    <3>4. tasks'[Card(r)].revision > tasks[Card(r)].revision
      BY <3>1, <3>2, <3>3
    <3> QED
      BY <2>1, <2>2, <3>4
  <2>3. CASE queued /\ hs[h].task = Card(r) /\ Card(r) \notin 1 .. Len(tasks)
    BY <2>1, <2>3
  <2>4. CASE ~ (queued /\ hs[h].task = Card(r))
    BY <1>8, <2>1, <2>4
  <2> QED
    BY <2>2, <2>3, <2>4
<1>17. ASSUME WorkInv(jobs, tasks, handoffs), Serving, t # 0
       PROVE  tasks'[t].revision # jobs[j].revision
  <2>1. t \in 1 .. Len(tasks) /\ jobs[j].revision <= tasks[t].revision /\ jobs[j].revision \in Nat
    BY <1>17, ARow DEF WorkInv, t, Jobs
  <2>2. tasks'[t].revision \in Nat
    BY <1>6, <1>13, <1>14, <2>1
  <2>3. CASE ~ handedOn
    BY <1>13, <1>14, <2>1, <2>2, <2>3
  <2>4. CASE handedOn /\ queued
    <3>1. Card(r) = t
      BY <2>4 DEF t
    <3> QED
      BY <1>4, <1>13, <1>14, <2>1, <2>2, <2>4, <3>1
  <2>5. CASE handedOn /\ ~ queued
    <3>1. tasks[t].assigned # jobs[j].agent
      BY <1>17, <2>5 DEF t
    <3>2. ~ Present(jobs[j], tasks)
      BY <1>17, <3>1 DEF WorkInv, t
    <3>3. jobs[j].status # "cancelled"
      BY DEF Settles, Live, LiveStates
    <3>4. jobs[j].revision # tasks[t].revision
      BY <1>17, <3>2, <3>3 DEF Present, t
    <3>5. ts[t] = tasks[t] /\ tasks'[t].revision >= tasks[t].revision
      BY <1>4, <1>14, <2>1, <2>5
    <3>6. tasks[t].revision \in Nat
      BY <1>13, <2>1
    <3> QED
      BY <2>1, <2>2, <3>4, <3>5, <3>6
  <2> QED
    BY <2>3, <2>4, <2>5
<1> QED
  BY <1>3, <1>6, <1>9, <1>10, <1>12, <1>15, <1>16, <1>17, ReportOK DEF t

\* complete_job, with any handoff, discussion and question in the report.
LEMMA CompleteStep ==
  ASSUME IInv, NEW w \in Workers, complete_job(w)
  PROVE  StepOK
<1> DEFINE j == proc[w].job
           a == proc[w].agent
<1>1. proc[w].state = "working" /\ UNCHANGED epoch
  BY DEF complete_job
<1>2. j \in 1 .. Len(jobs) /\ Len(jobs) \in Nat
  BY <1>1, Lengths DEF IInv, ProcInv
<1>3. CASE UNCHANGED <<jobs, tasks, handoffs>> /\ Reported(w, "idle")
  <2>1. ProcInv(proc', Len(jobs))
    BY <1>1, <1>2, <1>3, ReportedProc
  <2> QED
    BY <1>1, <1>3, <2>1, ProcOnly
<1>4. ASSUME Settles(w, j), Reported(w, "idle") \/ Reported(w, "failing"),
             NEW to \in Agents \cup {None}, NEW rejected \in BOOLEAN, NEW question \in BOOLEAN,
             NEW r \in Requests(a),
             CompleteWith(j, r, ~ _is_duplicate_ready_handoff(r),
                          r.task # 0 /\ r.task = jobs[j].task, question, to, rejected)
      PROVE  StepOK
  <2> DEFINE queued   == ~ _is_duplicate_ready_handoff(r)
             handedOn == r.task # 0 /\ r.task = jobs[j].task
  <2>1. queued \in BOOLEAN
    BY DEF _is_duplicate_ready_handoff
  <2>2. handedOn => r.task = jobs[j].task
    OBVIOUS
  <2>3. (handedOn /\ queued) => Card(r) = r.task
    BY DEF Card
  <2>4. (handedOn /\ ~ queued) => tasks[jobs[j].task].epoch = epoch
    BY DEF _is_duplicate_ready_handoff
  <2>5. CompleteWith(j, r, queued, handedOn, question, to, rejected)
    BY <1>4
  <2>6. (handedOn /\ ~ queued /\ Serving) => tasks[jobs[j].task].assigned # jobs[j].agent
    BY <1>1 DEF _is_duplicate_ready_handoff, Requests, Serving
  <2> HIDE DEF queued, handedOn
  <2> QED
    BY <1>1, <1>2, <1>4, <2>1, <2>2, <2>3, <2>4, <2>5, <2>6, CompleteWithStep
<1>5. ASSUME Settles(w, j), Reported(w, "idle") \/ Reported(w, "failing"),
             NEW to \in Agents \cup {None}, NEW rejected \in BOOLEAN, NEW question \in BOOLEAN,
             CompleteWith(j, [task |-> 0], FALSE, FALSE, question, to, rejected)
      PROVE  StepOK
  BY <1>1, <1>2, <1>5, CompleteWithStep
<1> QED
  BY <1>3, <1>4, <1>5 DEF complete_job

-----------------------------------------------------------------------------
(* The invariant *)

\* No session starts with work.
LEMMA InitInv == Init => IInv
<1> SUFFICES ASSUME Init PROVE IInv
  OBVIOUS
<1>1. << >> \in Seq(Jobs) /\ << >> \in Seq(Tasks) /\ << >> \in Seq(Handoffs) /\ Len(<< >>) = 0
  OBVIOUS
<1>2. Len(jobs) = 0 /\ Len(tasks) = 0 /\ Len(handoffs) = 0
  BY <1>1 DEF Init
<1>3. JobsInv(jobs, epoch) /\ TasksInv(tasks, epoch) /\ HandoffsInv(handoffs, epoch, Len(tasks))
  BY <1>1, <1>2 DEF Init, JobsInv, TasksInv, HandoffsInv
<1>4. Held(tasks, jobs)
  BY <1>2 DEF Held
<1>5. ProcInv(proc, Len(jobs))
  BY DEF Init, Gone, ProcInv, Procs
<1>6. epoch \in 1 .. MaxEpoch
  BY SessionJobsAssumption DEF Init
<1> QED
  BY <1>3, <1>4, <1>5, <1>6 DEF IInv

\* Every step keeps the invariant and what StepOK promises.
LEMMA NextStep ==
  ASSUME IInv, Next
  PROVE  StepOK
<1>1. CASE \E a \in Agents : \/ \E kind \in {"plain", "planning"} : route_discord_message(a, kind)
                             \/ enqueue_restart(a)
  BY <1>1, RouteStep
<1>2. CASE reset_session
  BY <1>2, ResetStep
<1>3. ASSUME NEW w \in Workers, claim_next_job(w)
      PROVE  StepOK
  BY <1>3, ClaimStep
<1>4. ASSUME NEW w \in Workers, complete_job(w)
      PROVE  StepOK
  BY <1>4, CompleteStep
<1>5. ASSUME NEW w \in Workers, fail_job(w)
      PROVE  StepOK
  BY <1>5, FailStep
<1>6. ASSUME NEW w \in Workers,
             RunFails(w) \/ WorkerDies(w) \/ \E a \in Agents : WorkerStarts(w, a)
      PROVE  StepOK
  BY <1>6, ProcessSteps
<1>7. CASE WorkCancelled
  BY <1>7, CancelStep
<1> QED
  BY <1>1, <1>2, <1>3, <1>4, <1>5, <1>6, <1>7 DEF Next

\* A pending job is handed to a process of its agent.
LEMMA PendingIsTheAgents ==
  ASSUME IInv, NEW w \in Workers, NEW js, Back(js, proc[w].agent), ClaimPending(w, js)
  PROVE  \E j \in 1 .. Len(jobs) : Answered(w, j) /\ jobs'[j].agent = proc[w].agent
<1> DEFINE S == PendingOf(js, proc[w].agent)
           j == Smallest(S)
<1>1. /\ jobs' = [js EXCEPT ![j] = Started(js[j], w)] /\ Answered(w, j) /\ S # {}
  BY DEF ClaimPending
<1>2. /\ js \in Seq(Jobs) /\ DOMAIN js = 1 .. Len(jobs)
  BY LenProperties DEF Back, JobsInv
<1>3. j \in 1 .. Len(jobs) /\ js[j].agent = proc[w].agent
  <2>1. S \subseteq 1 .. Len(jobs) /\ S \subseteq Nat
    BY <1>2 DEF PendingOf
  <2>2. j \in S
    BY <1>1, <2>1, SmallestIsElement
  <2> QED
    BY <1>2, <2>2 DEF PendingOf
<1>4. js[j] \in Jobs
  BY <1>2, <1>3, ElementOfSeq
<1> HIDE DEF j
<1>5. jobs'[j] = Started(js[j], w)
  BY <1>1, <1>2, <1>3
<1>6. Started(js[j], w).agent = js[j].agent
  BY <1>4 DEF Started, Jobs
<1> QED
  BY <1>1, <1>3, <1>5, <1>6

\* claim_next_job hands a process a job of its own agent.
LEMMA ClaimedJobIsTheAgents ==
  ASSUME IInv, NEW w \in Workers, claim_next_job(w)
  PROVE  \/ proc' = proc
         \/ \E j \in Nat : Answered(w, j) /\ jobs'[j].agent = proc[w].agent
<1> DEFINE a == proc[w].agent
           n == Len(jobs) + 1
<1>1. /\ jobs \in Seq(Jobs) /\ Len(jobs) \in Nat /\ epoch \in Nat /\ proc[w].state = "idle"
      /\ a \in Agents
  BY Lengths DEF claim_next_job, IInv, ProcInv
<1>2. ASSUME NEW row, jobs' = Append(jobs, row), row.agent = a, Answered(w, n)
      PROVE  \E j \in Nat : Answered(w, j) /\ jobs'[j].agent = a
  <2>1. jobs'[n] = row /\ n \in Nat
    BY <1>1, <1>2
  <2> QED
    BY <1>2, <2>1
<1>3. CASE ClaimAfterOrphan(w)
  <2>1. PICK k \in Running(a) :
          LET js == [jobs EXCEPT ![k].status = "pending", ![k].worker = None]
          IN  ClaimPending(w, js) \/ proc' = proc
    BY <1>3 DEF ClaimAfterOrphan
  <2> DEFINE js == [jobs EXCEPT ![k].status = "pending", ![k].worker = None]
  <2>2. Back(js, a)
    BY PutBack
  <2>3. CASE ClaimPending(w, js)
    BY <1>1, <2>2, <2>3, PendingIsTheAgents
  <2> QED
    BY <2>1, <2>3
<1>4. CASE ClaimPending(w, jobs) /\ Running(a) = {}
  BY <1>1, <1>4, NothingToPutBack, PendingIsTheAgents
<1>5. CASE _claim_ready_task_job(w)
  <2>1. PICK h \in ReadyHandoff(a) :
          LET t == handoffs[h].task
          IN  /\ jobs' = Append(jobs, [Started(Job(a, "handoff"), w) EXCEPT
                                         !.task = t, !.revision = tasks[t].revision, !.handoff = h])
              /\ Answered(w, n)
    BY <1>5 DEF _claim_ready_task_job
  <2> DEFINE row == [Started(Job(a, "handoff"), w) EXCEPT
                       !.task = handoffs[h].task,
                       !.revision = tasks[handoffs[h].task].revision, !.handoff = h]
  <2>2. row.agent = a
    BY DEF Started, Job
  <2>3. jobs' = Append(jobs, row) /\ Answered(w, n)
    BY <2>1
  <2> HIDE DEF row
  <2> QED
    BY <1>2, <2>2, <2>3
<1>6. CASE _claim_curator_sweep_job(w)
  <2>1. /\ jobs' = Append(jobs, Started(Job(Curator, "curation"), w)) /\ a = Curator
        /\ Answered(w, n)
    BY <1>6 DEF _claim_curator_sweep_job
  <2>2. Started(Job(Curator, "curation"), w).agent = Curator
    BY DEF Started, Job
  <2> QED
    BY <1>2, <2>1, <2>2
<1> QED
  BY <1>3, <1>4, <1>5, <1>6 DEF claim_next_job, ClaimNew

\* A process never works for another agent.
LEMMA ServingStep ==
  ASSUME IInv, Serving, Next
  PROVE  Serving'
<1>1. JobsKept(jobs, jobs') /\ ProcInv(proc, Len(jobs)) /\ Len(jobs) \in Nat
  BY NextStep, Lengths DEF StepOK, IInv
<1>2. ASSUME NEW v \in Workers, proc[v].state \in {"working", "failing"}
      PROVE  jobs'[proc[v].job].agent = proc[v].agent
  <2>1. proc[v].job \in 1 .. Len(jobs) /\ jobs[proc[v].job].agent = proc[v].agent
    BY <1>1, <1>2 DEF ProcInv, Serving
  <2> QED
    BY <1>1, <2>1 DEF JobsKept
<1>3. ASSUME NEW w \in Workers, \A v \in Workers \ {w} : proc'[v] = proc[v],
             proc'[w].state \in {"working", "failing"} => jobs'[proc'[w].job].agent = proc'[w].agent
      PROVE  Serving'
  BY <1>2, <1>3 DEF Serving
<1>4. ASSUME proc' = proc
      PROVE  Serving'
  BY <1>2, <1>4 DEF Serving
<1>5. proc \in [Workers -> Procs]
  BY <1>1 DEF ProcInv
<1>6. ASSUME NEW w \in Workers, claim_next_job(w)
      PROVE  Serving'
  <2>1. ASSUME NEW j \in Nat, proc' = [proc EXCEPT ![w].state = "working", ![w].job = j],
               jobs'[j].agent = proc[w].agent
        PROVE  Serving'
    <3>1. proc' = [proc EXCEPT ![w] = [@ EXCEPT !.state = "working", !.job = j]]
      BY <2>1
    <3>2. proc[w] \in Procs
      BY <1>5
    <3>3. [proc[w] EXCEPT !.state = "working", !.job = j].agent = proc[w].agent
          /\ [proc[w] EXCEPT !.state = "working", !.job = j].job = j
      BY <3>2 DEF Procs
    <3> QED
      BY <1>3, <1>5, <2>1, <3>1, <3>3
  <2> QED
    BY <1>4, <1>6, <2>1, ClaimedJobIsTheAgents DEF Answered
<1>7. ASSUME NEW w \in Workers, Reported(w, "idle") \/ Reported(w, "failing"),
             proc[w].state \in {"working", "failing"}
      PROVE  Serving'
  <2>1. proc[w] \in Procs
    BY <1>5
  <2>2. CASE Reported(w, "idle")
    <3>1. proc' = [proc EXCEPT ![w] = [@ EXCEPT !.state = "idle", !.job = 0]]
      BY <2>2 DEF Reported
    <3>2. [proc[w] EXCEPT !.state = "idle", !.job = 0].state = "idle"
      BY <2>1 DEF Procs
    <3> QED
      BY <1>3, <1>5, <3>1, <3>2
  <2>3. CASE Reported(w, "failing")
    <3>1. proc' = [proc EXCEPT ![w] = [@ EXCEPT !.state = "failing", !.job = proc[w].job]]
      BY <1>5, <2>3 DEF Reported
    <3>2. /\ [proc[w] EXCEPT !.state = "failing", !.job = proc[w].job].agent = proc[w].agent
          /\ [proc[w] EXCEPT !.state = "failing", !.job = proc[w].job].job = proc[w].job
      BY <2>1 DEF Procs
    <3> QED
      BY <1>2, <1>3, <1>5, <1>7, <3>1, <3>2
  <2> QED
    BY <1>7, <2>2, <2>3
<1>8. ASSUME NEW w \in Workers, complete_job(w) \/ RunFails(w) \/ fail_job(w)
      PROVE  Serving'
  BY <1>7, <1>8 DEF complete_job, RunFails, fail_job, CompleteWith
<1>9. ASSUME NEW w \in Workers, WorkerDies(w) \/ \E a \in Agents : WorkerStarts(w, a)
      PROVE  Serving'
  BY <1>3, <1>5, <1>9 DEF WorkerDies, WorkerStarts, Gone
<1>10. CASE \/ \E a \in Agents : \/ \E kind \in {"plain", "planning"} : route_discord_message(a, kind)
                                 \/ enqueue_restart(a)
            \/ reset_session
            \/ WorkCancelled
  BY <1>4, <1>10 DEF route_discord_message, enqueue_restart, reset_session, WorkCancelled
<1> QED
  BY <1>6, <1>8, <1>9, <1>10 DEF Next

\* What is known of the jobs of each card, beside the invariant.
OnceInv == WorkInv(jobs, tasks, handoffs) /\ Serving

\* No session starts with a card.
LEMMA InitOnce == Init => OnceInv
<1> SUFFICES ASSUME Init PROVE OnceInv
  OBVIOUS
<1>1. Len(jobs) = 0
  BY DEF Init
<1> QED
  BY <1>1 DEF Init, OnceInv, WorkInv, Serving, Gone

\* The invariant the theorems below rest on.
THEOREM Invariance == Spec => []IInv
<1>1. IInv /\ [Next]_vars => IInv'
  <2>1. IInv /\ Next => IInv'
    BY NextStep DEF StepOK
  <2>2. IInv /\ UNCHANGED vars => IInv'
    BY DEF vars, IInv
  <2> QED
    BY <2>1, <2>2
<1> QED
  BY <1>1, InitInv, PTL DEF Spec

-----------------------------------------------------------------------------
(* What follows *)

\* Rows in progress of one agent are one row.
LEMMA OneRunning ==
  ASSUME IInv, NEW a \in Agents
  PROVE  Cardinality(Running(a)) <= 1
<1>1. \A i, k \in Running(a) : i = k
  BY Lengths DEF IInv, JobsInv, Running
<1>2. CASE Running(a) = {}
  BY <1>2, FS_EmptySet
<1>3. CASE Running(a) # {}
  <2>1. PICK i : Running(a) = {i}
    BY <1>1, <1>3
  <2>2. Cardinality({i}) = 1
    BY FS_Singleton, Zenon
  <2> QED
    BY <2>1, <2>2
<1> QED
  BY <1>2, <1>3

\* The invariant says all that the runs check.
LEMMA InvImplies ==
  IInv => /\ TypeOK /\ OneRunningJob /\ WorkIsCurrent
          /\ OpenHandoffIsNewest /\ CardInProgressIsHeld /\ ScopesDisjoint
<1> SUFFICES ASSUME IInv
             PROVE  /\ TypeOK /\ OneRunningJob /\ WorkIsCurrent
                    /\ OpenHandoffIsNewest /\ CardInProgressIsHeld /\ ScopesDisjoint
  OBVIOUS
<1>1. /\ DOMAIN jobs = 1 .. Len(jobs) /\ DOMAIN tasks = 1 .. Len(tasks)
      /\ DOMAIN handoffs = 1 .. Len(handoffs)
  BY Lengths
<1>2. TypeOK
  BY DEF IInv, JobsInv, TasksInv, HandoffsInv, ProcInv, TypeOK
<1>3. OneRunningJob
  BY OneRunning DEF OneRunningJob
<1>4. WorkIsCurrent
  BY <1>1 DEF WorkIsCurrent, IInv, JobsInv, TasksInv, HandoffsInv, Live
<1>5. OpenHandoffIsNewest
  BY <1>1 DEF OpenHandoffIsNewest, IInv, HandoffsInv
<1>6. CardInProgressIsHeld
  BY <1>1 DEF CardInProgressIsHeld, IInv, Held, Holding
<1>7. ScopesDisjoint
  BY <1>1 DEF ScopesDisjoint, Conflict, IInv, TasksInv
<1> QED
  BY <1>2, <1>3, <1>4, <1>5, <1>6, <1>7

\* Every row and process keeps its type, through any number of claims, reports,
\* handoffs, resets and replaced workers.
THEOREM TypeCorrect == Spec => []TypeOK
BY Invariance, InvImplies, PTL

\* claim_next_job never gives an agent a second job beside the one it runs, whether
\* it hands out a pending job, an orphan, a handoff or a sweep.
THEOREM OneRunningJobAtATime == Spec => []OneRunningJob
BY Invariance, InvImplies, PTL

\* What reset_session leaves claimable is of the session's present epoch.
THEOREM WorkStaysCurrent == Spec => []WorkIsCurrent
BY Invariance, InvImplies, PTL

\* A card is never offered to two agents: queueing a handoff supersedes every open
\* one of its card.
THEOREM NewestHandoffOnly == Spec => []OpenHandoffIsNewest
BY Invariance, InvImplies, PTL

\* No report, late ones included, leaves a card in progress that nobody holds.
THEOREM CardsAreHeld == Spec => []CardInProgressIsHeld
BY Invariance, InvImplies, PTL

\* _can_self_claim_task keeps the cards being worked apart, whatever the scopes.
THEOREM ScopesStayDisjoint == Spec => []ScopesDisjoint
BY Invariance, InvImplies, PTL

\* What a step does to settled jobs and handoffs, and to whom it settles.
LEMMA StepKeeps ==
  ASSUME IInv, Next
  PROVE  /\ \A j \in DOMAIN jobs : jobs[j].status \in TerminalStates => jobs'[j] = jobs[j]
         /\ \A h \in DOMAIN handoffs :
              handoffs[h].state \in SettledHandoff => handoffs'[h].state = handoffs[h].state
         /\ SettlesOwnJob /\ SettlesItsCard
<1>1. StepOK
  BY NextStep
<1> QED
  BY <1>1, Lengths DEF StepOK, JobsKept, HandoffsKept

\* complete_job and fail_job apply no report to a job or a handoff that is settled.
THEOREM SettledForGood == Spec => SettledStays
<1>1. IInv /\ [Next]_vars =>
        [/\ \A j \in DOMAIN jobs : jobs[j].status \in TerminalStates => jobs'[j] = jobs[j]
         /\ \A h \in DOMAIN handoffs :
              handoffs[h].state \in SettledHandoff => handoffs'[h].state = handoffs[h].state]_vars
  BY StepKeeps
<1> QED
  BY <1>1, Invariance, PTL DEF Spec, SettledStays

\* A job taken from a worker as an orphan is no longer settled by it.
THEOREM OnlyItsWorkerSettles == Spec => SettledByItsWorker
<1>1. IInv /\ [Next]_vars =>
        [\A j \in DOMAIN jobs :
           (jobs[j].status = "in_progress" /\ jobs'[j].status \in {"completed", "failed"}) =>
             \E w \in Workers : /\ jobs[j].worker = w
                                /\ proc[w].job = j /\ proc'[w] # proc[w]]_vars
  BY StepKeeps DEF SettlesOwnJob
<1> QED
  BY <1>1, Invariance, PTL DEF Spec, SettledByItsWorker

\* A card becomes done or failed only in the transaction that settles a live job of
\* the present epoch that worked it.
THEOREM CardsSettleWithJobs == Spec => CardSettledWithItsJob
<1>1. IInv /\ [Next]_vars =>
        [\A t \in DOMAIN tasks :
           (tasks'[t].state # tasks[t].state /\ tasks'[t].state \in {"done", "failed"}) =>
             \E j \in DOMAIN jobs : /\ jobs[j].task = t /\ Live(j) /\ jobs[j].epoch = epoch
                                   /\ jobs'[j].status \in {"completed", "failed"}]_vars
  BY StepKeeps DEF SettlesItsCard
<1> QED
  BY <1>1, Invariance, PTL DEF Spec, CardSettledWithItsJob

-----------------------------------------------------------------------------
(* How often a card's revision is worked *)

\* The jobs of a card follow its revisions.
LEMMA OnceInvariance == Spec => [](IInv /\ OnceInv)
<1>1. IInv /\ OnceInv /\ [Next]_vars => IInv' /\ OnceInv'
  <2>1. IInv /\ OnceInv /\ Next => IInv' /\ OnceInv'
    BY NextStep, ServingStep DEF StepOK, WorkKept, OnceInv
  <2>2. IInv /\ OnceInv /\ UNCHANGED vars => IInv' /\ OnceInv'
    BY DEF vars, IInv, OnceInv, Serving
  <2> QED
    BY <2>1, <2>2
<1> QED
  BY <1>1, InitInv, InitOnce, PTL DEF Spec

\* The revision a handoff gave its card is worked by one job: neither a late report,
\* an orphan put back, a lost answer nor a duplicate handoff hands it out again.
THEOREM EachRevisionOnce == Spec => []RevisionWorkedOnce
<1>1. IInv /\ OnceInv => RevisionWorkedOnce
  BY Lengths DEF OnceInv, WorkInv, RevisionWorkedOnce
<1> QED
  BY <1>1, OnceInvariance, PTL
=============================================================================
