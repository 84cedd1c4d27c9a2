----------------------------- MODULE Governance -----------------------------
(***************************************************************************)
(* One conversation without a task and its protocol-v2 operation: speech,  *)
(* attachments, the close policy, the handoff, the idle sweep and the two  *)
(* background sweepers.  Code: nas_bridge/app/behaviors/chat/              *)
(* conversation_service.py, nas_bridge/app/api/v2_operations.py and        *)
(* kernel/v2/{policy_engine,policy_sweeper,progression_sweeper,            *)
(* operation_mirror,repository,contract}.py.                               *)
(*                                                                         *)
(* The /v2 endpoints run in a pool of threads.  Handoff, idle sweep and    *)
(* sweepers run on the event loop, one at a time.  (So do the v1 chat      *)
(* endpoints; what they may do is part of what a thread may do.)  SQLite   *)
(* locks the database at a transaction's first write and pysqlite opens no *)
(* transaction for a SELECT: a call therefore has a step that reads the    *)
(* conversation's row and a step that writes, which still decides from the *)
(* row as read, but sees the log and the participants as they are.  The    *)
(* row's columns are written only where they differ from the row as read.  *)
(*                                                                         *)
(* Time is free: nobody may have spoken for as long as a sweep asks for.   *)
(*                                                                         *)
(* Left out: texts, private events, capabilities and tokens (any actor may *)
(* call), speech_count and the time stamps that only listings show, reply  *)
(* links by v1 ids.                                                        *)
(***************************************************************************)
EXTENDS Integers, Sequences, FiniteSets

CONSTANTS
  Actors,      \* the registered actors other than @system
  Opener,      \* opener_actor
  System,      \* the actor @system
  None,        \* no actor, no bound, no resolution
  Threads,     \* the threads that serve requests
  Loop,        \* the event loop
  Openings,    \* how the operation may have been opened: its policy and its addressee
  Requests,    \* the speeches clients may submit
  Closings,    \* the resolutions they may close with
  Heirs,       \* the actors they may hand the conversation to
  Threshold,   \* over_speech_threshold
  MaxRetries,  \* progression_nudge_max_retries
  ScanLimit,   \* how many events list_events returns at most
  LaterLimit,  \* how many events after a trigger the progression sweeper reads
  MaxEvents,   \* bound: clients write while the log is shorter
  MaxNudges    \* bound: events the progression sweeper emits

SPEECH_KINDS == {"claim", "question", "answer", "propose", "agree", "object", "evidence", "block", "defer",
                 "summarize", "react", "move_close", "ratify", "invite", "join"}
OtherKinds   == {"opened", "closed", "handoff", "idle_warning", "over_speech", "nudge"}
UniversalKinds == {"defer", "evidence", "object"}
Wildcard     == "*"
ClosePolicies == {"opener_unilateral", "any_participant", "quorum", "operator_ratifies"}
JoinPolicies == {"invite_only", "self_or_invite", "open"}
Resolutions  == {"accepted", "rejected", "withdrawn", "superseded", "abandoned"}
NonSuccess   == {"withdrawn", "superseded", "abandoned"}
Everyone     == Actors \cup {System}

Expectations == [from  : Seq(Actors),                       \* from_actor_handles
                 kinds : SUBSET (SPEECH_KINDS \cup {Wildcard}),
                 by    : Nat \cup {None}]                   \* by_round_seq
NoExpectation == [from |-> <<>>, kinds |-> {}, by |-> None]

\* A speech as submitted.  at: the addressee is written with its "@".  note: what the
\* endpoint adds to the event afterwards.  auto: it is the policy sweeper's.
Speeches == [by : Actors, kind : SPEECH_KINDS, to : Seq(Actors), at : BOOLEAN, reply : Nat,
             expects : Expectations, note : {"none", "close", "artifact"}, auto : BOOLEAN]

\* An event of the log; its seq is its place.  reply is the seq of another event, or 0.
EventRows == [by : Everyone, kind : SPEECH_KINDS \cup OtherKinds, to : Seq(Everyone), reply : Nat,
           expects : Expectations, note : {"none", "close", "artifact"}, auto : BOOLEAN]

NoSlot == [who |-> None, at |-> FALSE]
Slots  == [who : Actors, at : BOOLEAN] \cup {NoSlot}        \* expected_speaker, a text

PolicyRows == [max_rounds : Nat,           \* 0: no cap
               close_policy : ClosePolicies, min_ratifiers : Nat,
               requires_artifact : BOOLEAN, join_policy : JoinPolicies]

ASSUME GovernanceAssumption ==
  /\ IsFiniteSet(Actors)
  /\ Opener \in Actors /\ System \notin Actors /\ None \notin Everyone /\ None \notin Nat
  /\ None \notin Resolutions
  /\ Loop \notin Threads
  /\ Openings \subseteq [policy : PolicyRows, expected : Slots]
  /\ Requests \subseteq Speeches
  /\ \A r \in Requests : ~r.auto
  /\ Closings \subseteq Resolutions /\ Heirs \subseteq Actors
  /\ Threshold \in Nat \ {0} /\ MaxRetries \in Nat /\ ScanLimit \in Nat \ {0}
  /\ LaterLimit \in Nat \ {0}
  /\ MaxEvents \in Nat /\ MaxNudges \in Nat

VARIABLES
  policy,        \* operations_v2.metadata.policy
  conv,          \* the row of chat_conversations; its state is the operation's too
  participants,  \* the actors with a row in operation_participants_v2
  log,           \* operation_events_v2
  calls,         \* per thread and for the loop: the call under way
  agenda         \* the policy sweep's planned defers

vars == <<policy, conv, participants, log, calls, agenda>>

Processes == Threads \cup {Loop}
ConversationRows == [state : {"open", "closed"}, owner : Actors, expected : Slots,
                     noise : Nat,        \* unaddressed_speech_count
                     warned : 0..3,      \* idle_warning_count
                     resolution : Resolutions \cup {None}, closed_by : Everyone \cup {None}]

Idle == [call |-> "none"]
CallRows ==
  {Idle} \cup [call : {"speech"}, request : Speeches, row : ConversationRows]
         \cup [call : {"attach"}, event : Nat, note : {"close", "artifact"}]
         \cup [call : {"close"}, by : Actors, resolution : Resolutions]
         \cup [call : {"abandon", "expired"}]
         \cup [call : {"handoff"}, by : Actors, new : Actors, row : ConversationRows]
         \cup [call : {"sweep"}, tier : 1..3, row : ConversationRows]
         \cup [call : {"emit"}, kind : {"nudge", "defer"}, to : Everyone, reply : Nat]

Elems(s) == {s[i] : i \in DOMAIN s}
Smaller(m, n) == IF m < n THEN m ELSE n

is_speech_kind(e) == e.kind \in SPEECH_KINDS
count_speech_events(l) == Cardinality({i \in DOMAIN l : is_speech_kind(l[i])})
Scanned == 1 .. Smaller(ScanLimit, Len(log))                \* what list_events returns

\* A column: the row as read had was, the call sets it to new, now is in the database.
Column(now, was, new) == IF new = was THEN now ELSE new

\* mirror_message makes the speaker and the addressees of an event participants.
SystemEvent(by, kind, to, reply) ==
  [by |-> by, kind |-> kind, to |-> to, reply |-> reply, expects |-> NoExpectation, note |-> "none", auto |-> FALSE]
EventOf(r) ==
  [by |-> r.by, kind |-> r.kind, to |-> r.to, reply |-> r.reply, expects |-> r.expects, note |-> "none", auto |-> r.auto]
Named(events) == UNION {{e.by} \cup Elems(e.to) : e \in Elems(events)}
Written(events) == log' = log \o events /\ participants' = participants \cup Named(events)
AddressOf(slot) == IF slot = NoSlot THEN <<>> ELSE <<slot.who>>

\* open_conversation
Init ==
  /\ \E o \in Openings :
       /\ policy = o.policy
       /\ conv = [state |-> "open", owner |-> Opener, expected |-> o.expected, noise |-> 0, warned |-> 0,
                  resolution |-> None, closed_by |-> None]
       /\ log = <<SystemEvent(Opener, "opened", AddressOf(o.expected), 0)>>
       /\ participants = Named(log)
  /\ calls = [p \in Processes |-> Idle]
  /\ agenda = {}

Goes(p, call) == calls' = [calls EXCEPT ![p] = call]
Asked(p)      == calls[p] = Idle /\ conv.state = "open"
LoopFree      == Asked(Loop) /\ agenda = {}
Bounded       == Len(log) < MaxEvents

---------------------------------------------------------------------------
(* submit_speech *)

\* Mutant: the cap is met only when it is exceeded.
check_speech_late(r) ==
  policy.max_rounds = 0 \/ count_speech_events(log) <= policy.max_rounds

check_speech_admissible(r) ==
  /\ policy.max_rounds = 0 \/ count_speech_events(log) < policy.max_rounds
  /\ r.kind \notin UniversalKinds /\ r.reply # 0
       => LET kinds == log[r.reply].expects.kinds IN kinds = {} \/ kinds \cap {Wildcard, r.kind} # {}

check_membership(r) ==
  r.kind = "invite" \/ (r.kind = "join" /\ policy.join_policy = "invite_only") => r.by \in participants

\* Mutant: the whole list of addressees goes into the slot.
AddressedAll(r) ==
  IF r.to \o r.expects.from = <<>> THEN NoSlot ELSE [who |-> r.to \o r.expects.from, at |-> r.at]

\* _compute_effective_addr
Addressed(r) ==
  IF r.to # <<>> THEN [who |-> Head(r.to), at |-> r.at]
  ELSE IF r.expects.from # <<>> THEN [who |-> Head(r.expects.from), at |-> r.at]
  ELSE NoSlot

\* The speaker is told from the slot by its bare name.
Overtalks(row, r) == Addressed(r) = NoSlot /\ row.expected \notin {NoSlot, [who |-> r.by, at |-> FALSE]}

Turn(row, r) ==
  IF Overtalks(row, r) THEN [expected |-> row.expected, noise |-> row.noise + 1]
  ELSE [expected |-> Addressed(r), noise |-> IF Addressed(r) = row.expected THEN row.noise ELSE 0]

OverSpeech(row, r) ==
  IF Overtalks(row, r) /\ row.noise + 1 = Threshold
  THEN <<SystemEvent(System, "over_speech", AddressOf(row.expected), 0)>> ELSE <<>>

Reads(p, r) == Goes(p, [call |-> "speech", request |-> r, row |-> conv])

BeginSpeech(t) ==
  /\ Asked(t) /\ Bounded
  /\ \E r \in Requests : r.reply <= Len(log) /\ Reads(t, r)
  /\ UNCHANGED <<policy, conv, participants, log, agenda>>

Admitted(p) == check_speech_admissible(calls[p].request) /\ check_membership(calls[p].request)

WriteSpeech(p) ==
  /\ calls[p].call = "speech"
  /\ Admitted(p)
  /\ LET r == calls[p].request  row == calls[p].row  turn == Turn(row, r) IN
       /\ Written(<<EventOf(r)>> \o OverSpeech(row, r))
       /\ conv' = [conv EXCEPT !.expected = Column(@, row.expected, turn.expected),
                               !.noise = Column(@, row.noise, turn.noise)]
       /\ Goes(p, IF r.note = "none" THEN Idle ELSE [call |-> "attach", event |-> Len(log) + 1, note |-> r.note])
  /\ UNCHANGED <<policy, agenda>>

RefuseSpeech(p) ==
  /\ calls[p].call = "speech"
  /\ ~Admitted(p)
  /\ Goes(p, Idle)
  /\ UNCHANGED <<policy, conv, participants, log, agenda>>

\* append_event's second transaction: the artifact of an evidence, the intent of a ratify.
Attach(t) ==
  /\ calls[t].call = "attach"
  /\ log' = [log EXCEPT ![calls[t].event].note = calls[t].note]
  /\ Goes(t, Idle)
  /\ UNCHANGED <<policy, conv, participants, agenda>>

---------------------------------------------------------------------------
(* close_conversation *)

_is_close_intent_ratify(i) ==
  /\ log[i].kind = "ratify"
  /\ \/ log[i].note = "close"
     \/ log[i].reply # 0 /\ (log[log[i].reply].kind = "move_close" \/ log[log[i].reply].note = "artifact")
     \/ \E j \in 1..i : log[j].note = "artifact"

\* Mutant: ratifications are counted, not ratifiers.
_ratify_events == {i \in Scanned : _is_close_intent_ratify(i)}

_ratify_events_by_actor == {log[i].by : i \in {j \in Scanned : _is_close_intent_ratify(j)}}

\* No call gives a participant the role "operator".
check_close_admissible(a, resolution) ==
  /\ policy.requires_artifact /\ resolution \notin NonSuccess => \E i \in DOMAIN log : log[i].note = "artifact"
  /\ \/ policy.close_policy = "opener_unilateral"
     \/ policy.close_policy = "any_participant" /\ a \in participants
     \/ policy.close_policy = "quorum" /\ Cardinality(_ratify_events_by_actor) >= policy.min_ratifiers

\* The closing event carries the digest, an artifact.
Closes(by, resolution, warned) ==
  /\ conv' = [conv EXCEPT !.state = "closed", !.resolution = resolution, !.closed_by = by, !.warned = warned]
  /\ Written(<<[SystemEvent(by, "closed", <<>>, 0) EXCEPT !.note = "artifact"]>>)

BeginClose(t) ==
  /\ Asked(t)
  /\ \E a \in {Opener, conv.owner}, resolution \in Closings :
       Goes(t, [call |-> "close", by |-> a, resolution |-> resolution])
  /\ UNCHANGED <<policy, conv, participants, log, agenda>>

\* The policy is looked at after ensure_actor_by_handle has written, the state is not looked at again.
WriteClose(t) ==
  /\ calls[t].call = "close"
  /\ IF check_close_admissible(calls[t].by, calls[t].resolution)
     THEN Closes(calls[t].by, calls[t].resolution, conv.warned)
     ELSE UNCHANGED <<conv, participants, log>>
  /\ Goes(t, Idle)
  /\ UNCHANGED <<policy, agenda>>

\* admin_abandon, or what the idle sweep goes on to do at its third tier.
BeginAbandon(p) ==
  /\ conv.state = "open"
  /\ IF p = Loop THEN calls[p].call = "expired" ELSE calls[p] = Idle
  /\ Goes(p, [call |-> "abandon"])
  /\ UNCHANGED <<policy, conv, participants, log, agenda>>

\* The bypass reads the operation's state again, still without the lock.
WriteAbandon(p) ==
  /\ calls[p].call = "abandon"
  /\ \/ Closes(System, "abandoned", IF p = Loop THEN 3 ELSE conv.warned)
     \/ conv.state = "closed" /\ UNCHANGED <<conv, participants, log>>
  /\ Goes(p, Idle)
  /\ UNCHANGED <<policy, agenda>>

---------------------------------------------------------------------------
(* transfer_owner and sweep_idle_conversations, on the loop *)

BeginHandoff ==
  /\ LoopFree /\ Bounded
  /\ \E a \in {Opener, conv.owner}, new \in Heirs :
       Goes(Loop, [call |-> "handoff", by |-> a, new |-> new, row |-> conv])
  /\ UNCHANGED <<policy, conv, participants, log, agenda>>

WriteHandoff ==
  /\ calls[Loop].call = "handoff"
  /\ LET c == calls[Loop] IN
       /\ conv' = [conv EXCEPT !.owner = Column(@, c.row.owner, c.new),
                               !.expected = Column(@, c.row.expected, [who |-> c.new, at |-> FALSE])]
       /\ Written(<<SystemEvent(c.by, "handoff", <<c.new>>, 0)>>)
  /\ Goes(Loop, Idle)
  /\ UNCHANGED <<policy, agenda>>

BeginSweep ==
  /\ LoopFree
  /\ \E tier \in conv.warned + 1 .. 3 : Goes(Loop, [call |-> "sweep", tier |-> tier, row |-> conv])
  /\ UNCHANGED <<policy, conv, participants, log, agenda>>

\* One warning per tier passed over; the third tier is the abandonment.
WriteSweep ==
  /\ calls[Loop].call = "sweep"
  /\ LET row == calls[Loop].row  tier == calls[Loop].tier  level == Smaller(tier, 2) IN
       /\ Written([i \in 1 .. level - row.warned |->
                     SystemEvent(System, "idle_warning", AddressOf(row.expected), 0)])
       /\ conv' = [conv EXCEPT !.warned = IF level > row.warned THEN level ELSE @]
       /\ Goes(Loop, IF tier = 3 THEN [call |-> "expired"] ELSE Idle)
  /\ UNCHANGED <<policy, agenda>>

\* The conversation was closed in the meantime: close_conversation raises.
SpareClosed ==
  /\ calls[Loop].call = "expired" /\ conv.state = "closed"
  /\ Goes(Loop, Idle)
  /\ UNCHANGED <<policy, conv, participants, log, agenda>>

---------------------------------------------------------------------------
(* PolicySweeper *)

\* Actor a was to answer event i by an event that has come.
Overdue(i, a) ==
  /\ log[i].expects.by # None
  /\ Smaller(ScanLimit, Len(log)) >= log[i].expects.by
  /\ a \in Elems(log[i].expects.from) \cap participants

\* Mutant: only answers are looked up, not earlier defers.
RepliedInWords(i, a) == \E j \in Scanned : log[j].reply = i /\ log[j].by = a /\ log[j].kind \in SPEECH_KINDS \ {"defer"}

\* existing_defers and explicit_replies
Replied(i, a) == \E j \in Scanned : log[j].reply = i /\ log[j].by = a /\ is_speech_kind(log[j])

\* Mutant: anybody's reply settles the trigger.
_plan_defers_for_silence ==
  {p \in [to : Actors, trigger : Scanned] :
     Overdue(p.trigger, p.to) /\ \A a \in Everyone : ~Replied(p.trigger, a)}

_plan_defers_for_op == {p \in [to : Actors, trigger : Scanned] : Overdue(p.trigger, p.to) /\ ~Replied(p.trigger, p.to)}

PolicyPlan ==
  /\ LoopFree
  /\ _plan_defers_for_op # {}
  /\ agenda' = _plan_defers_for_op
  /\ UNCHANGED <<policy, conv, participants, log, calls>>

DeferOf(p) == [by |-> p.to, kind |-> "defer", to |-> <<>>, at |-> FALSE, reply |-> p.trigger,
               expects |-> NoExpectation, note |-> "none", auto |-> TRUE]

\* A defer for a closed conversation is refused, logged and forgotten.
_emit_defer ==
  /\ calls[Loop] = Idle
  /\ \E p \in agenda :
       /\ \A q \in agenda : p.trigger <= q.trigger
       /\ agenda' = agenda \ {p}
       /\ IF conv.state = "open" THEN Reads(Loop, DeferOf(p)) ELSE UNCHANGED calls
  /\ UNCHANGED <<policy, conv, participants, log>>

---------------------------------------------------------------------------
(* ProgressionSweeper and ProgressionRunner *)

IsLastSpeech(i) == is_speech_kind(log[i]) /\ \A j \in i + 1 .. Len(log) : ~is_speech_kind(log[j])

infer_implicit_responder(e) ==
  IF e.expects.from # <<>> THEN Head(e.expects.from)
  ELSE IF e.to # <<>> THEN Head(e.to)
  ELSE IF e.reply # 0 THEN log[e.reply].by
  ELSE None

Later(i)  == i + 1 .. Smaller(i + LaterLimit, Len(log))
Nudges(i) == {j \in Later(i) : log[j].kind = "nudge" /\ log[j].reply = i}

ProgressTick ==
  /\ LoopFree
  /\ Cardinality({i \in DOMAIN log : log[i].by = System /\ log[i].kind \in {"nudge", "defer"}}) < MaxNudges
  /\ \E i \in DOMAIN log :
       LET target == infer_implicit_responder(log[i]) IN
       /\ IsLastSpeech(i)
       /\ target \notin {None, log[i].by}
       /\ \A j \in Later(i) : log[j].by # target
       /\ Goes(Loop, [call |-> "emit", kind |-> IF Cardinality(Nudges(i)) >= MaxRetries THEN "defer" ELSE "nudge",
                      to |-> target, reply |-> i])
  /\ UNCHANGED <<policy, conv, participants, log, agenda>>

\* Neither the state nor the policy is looked at; the turn-taking columns stay.
emit_system_event ==
  /\ calls[Loop].call = "emit"
  /\ LET c == calls[Loop] IN
       Written(<<SystemEvent(System, c.kind, <<c.to>>, c.reply)>>)
  /\ Goes(Loop, Idle)
  /\ UNCHANGED <<policy, conv, agenda>>

---------------------------------------------------------------------------

\* The loop goes on with what it has begun.
LoopStep == \/ _emit_defer \/ WriteSpeech(Loop) \/ RefuseSpeech(Loop) \/ WriteHandoff \/ WriteSweep
            \/ BeginAbandon(Loop) \/ WriteAbandon(Loop) \/ SpareClosed \/ emit_system_event

Next ==
  \/ \E t \in Threads : \/ BeginSpeech(t) \/ WriteSpeech(t) \/ RefuseSpeech(t) \/ Attach(t)
                        \/ BeginClose(t) \/ WriteClose(t) \/ BeginAbandon(t) \/ WriteAbandon(t)
  \/ BeginHandoff \/ BeginSweep \/ PolicyPlan \/ ProgressTick
  \/ LoopStep

Spec == Init /\ [][Next]_vars

\* The loop finishes what it has begun, and the policy sweep comes round again.
FairSpec == Spec /\ WF_vars(LoopStep) /\ WF_vars(PolicyPlan)

---------------------------------------------------------------------------
(* Properties *)

\* Every row, event and call is of its type; what is being attached belongs to an
\* event of the log (models.py, contract.py).
GovTypeOK ==
  /\ policy \in PolicyRows
  /\ conv \in ConversationRows
  /\ participants \subseteq Everyone
  /\ log \in Seq(EventRows)
  /\ calls \in [Processes -> CallRows]
  /\ agenda \subseteq [to : Actors, trigger : Nat]
  /\ \A p \in Processes : calls[p].call = "attach" => calls[p].event \in DOMAIN log

\* However the calls interleave, nobody's speech is accepted once max_rounds speech events
\* are in the log (check_speech_admissible); the progression sweeper's own events are no such speech.
SpeechWithinCap ==
  \A i \in DOMAIN log :
    is_speech_kind(log[i]) /\ log[i].by # System /\ policy.max_rounds # 0
      => Cardinality({j \in 1 .. i - 1 : is_speech_kind(log[j])}) < policy.max_rounds

\* A quorum closing by an actor has min_ratifiers different actors' ratifications, meant for the
\* closing, before it in the log (check_close_admissible, _require_quorum_ratify).
ClosedByQuorum ==
  \A i \in DOMAIN log :
    log[i].kind = "closed" /\ log[i].by # System /\ policy.close_policy = "quorum"
      => Cardinality({log[j].by : j \in {k \in 1 .. i - 1 : _is_close_intent_ratify(k)}}) >= policy.min_ratifiers

\* The policy sweep defers at most once for an actor and a trigger, among the events it can
\* see (_plan_defers_for_op: "duplicate ticks are harmless").
AutoDeferOnce ==
  \A i, j \in Scanned :
    log[i].auto /\ log[j].auto /\ log[i].by = log[j].by /\ log[i].reply = log[j].reply => i = j

\* Whatever is said while a nudge is on its way, at most MaxRetries of the events a tick reads are
\* @system's nudges for one event, and it gives up once, by a defer after which nothing more is sent
\* about that event (progression_sweeper.py: "no infinite nudge loop", which holds of one event
\* while what comes after it is in sight: nudges past LaterLimit are counted by nobody).
Escalations(i) == {j \in DOMAIN log : log[j].by = System /\ log[j].kind \in {"nudge", "defer"} /\ log[j].reply = i}
EscalatesOnce ==
  \A i \in DOMAIN log :
    /\ Cardinality(Nudges(i)) <= MaxRetries
    /\ \A j, k \in Escalations(i) : log[j].kind = "defer" => k <= j

\* Whoever lets a by_round_seq go by is, in the end, on record with an answer or a defer, unless the
\* operation is closed or its rounds are used up (policy_sweeper.py: by_round_seq is no mere label).
Settled(i, a) == \/ \E j \in DOMAIN log : log[j].reply = i /\ log[j].by = a /\ is_speech_kind(log[j])
                 \/ conv.state = "closed"
                 \/ policy.max_rounds # 0 /\ count_speech_events(log) >= policy.max_rounds
Expected == UNION {Elems(r.expects.from) : r \in Requests}
ObligationEnds ==
  \A i \in 2..ScanLimit, a \in Expected : (i \in DOMAIN log /\ Overdue(i, a)) ~> Settled(i, a)

=============================================================================
