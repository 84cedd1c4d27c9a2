------------------------- MODULE Governance_proofs -------------------------
(***************************************************************************)
(* Proofs about Governance for every set of actors and threads, every      *)
(* policy, any number of events and any speeches clients may submit.       *)
(***************************************************************************)
EXTENDS Governance, FiniteSetTheorems, TLAPS

-----------------------------------------------------------------------------
(* The invariant *)

\* Replies go back in the log, and whatever is under way replies to what is there.
Refs ==
  /\ \A i \in DOMAIN log : log[i].reply < i
  /\ \A p \in Processes : calls[p].call = "speech" => calls[p].request.reply <= Len(log)
  /\ \A p \in Processes : calls[p].call = "emit" => calls[p].reply \in DOMAIN log
  /\ \A d \in agenda : d.trigger \in DOMAIN log

\* What is still to be attached belongs to an event of its own, which has nothing yet.
Attaching ==
  \A p \in Processes : calls[p].call = "attach" =>
    /\ calls[p].event \in DOMAIN log
    /\ log[calls[p].event].note = "none"
    /\ \A q \in Processes \ {p} : calls[q].call = "attach" => calls[q].event # calls[p].event

\* No automatic defer of actor a for event i is in sight of the sweep.
Undeferred(a, i) == \A j \in Scanned : log[j].auto /\ log[j].by = a => log[j].reply # i

\* The defers planned, and the one being written, are not in the log yet.
Deferring ==
  /\ \A i \in DOMAIN log : log[i].auto => is_speech_kind(log[i])
  /\ \A p \in Processes : calls[p].call = "speech" /\ calls[p].request.auto =>
       /\ p = Loop
       /\ Undeferred(calls[p].request.by, calls[p].request.reply)
       /\ \A d \in agenda : d.to = calls[p].request.by => d.trigger # calls[p].request.reply
  /\ \A d \in agenda : Undeferred(d.to, d.trigger)

IInv == /\ GovTypeOK /\ Refs /\ Attaching /\ Deferring
        /\ SpeechWithinCap /\ ClosedByQuorum /\ AutoDeferOnce

-----------------------------------------------------------------------------
(* Appending to the log *)

\* An addressee list of actors is one of actors and @system.
LEMMA ActorsAreEveryone ==
  ASSUME NEW s \in Seq(Actors)
  PROVE  s \in Seq(Everyone)
BY DEF Everyone

\* The events the bridge itself writes are rows.
LEMMA SystemEventType ==
  ASSUME NEW by \in Everyone, NEW kind \in SPEECH_KINDS \cup OtherKinds, NEW to \in Seq(Everyone), NEW reply \in Nat
  PROVE  SystemEvent(by, kind, to, reply) \in EventRows
<1>1. NoExpectation \in Expectations
  BY DEF NoExpectation, Expectations
<1> QED
  BY <1>1 DEF SystemEvent, EventRows

\* The event of a speech is a row.
LEMMA SpeechEventType ==
  ASSUME NEW r \in Speeches
  PROVE  /\ EventOf(r) \in EventRows
         /\ is_speech_kind(EventOf(r))
<1>1. r.to \in Seq(Everyone)
  BY ActorsAreEveryone DEF Speeches
<1> QED
  BY <1>1 DEF EventOf, EventRows, Speeches, is_speech_kind, Everyone

\* What is appended follows what was there.
LEMMA AppendedLog ==
  ASSUME log \in Seq(EventRows), NEW new \in Seq(EventRows), log' = log \o new
  PROVE  /\ log' \in Seq(EventRows)
         /\ Len(log') = Len(log) + Len(new) /\ Len(log) \in Nat /\ Len(new) \in Nat
         /\ DOMAIN log = 1 .. Len(log) /\ DOMAIN log' = 1 .. Len(log')
         /\ \A i \in DOMAIN log : i \in DOMAIN log' /\ log'[i] = log[i]
         /\ \A i \in DOMAIN log' \ DOMAIN log : i - Len(log) \in DOMAIN new /\ log'[i] = new[i - Len(log)]
OBVIOUS

\* Who speaks or is addressed in a list of events is known.
LEMMA NamedType ==
  ASSUME NEW new \in Seq(EventRows)
  PROVE  Named(new) \subseteq Everyone
<1> SUFFICES ASSUME NEW i \in DOMAIN new
             PROVE  {new[i].by} \cup Elems(new[i].to) \subseteq Everyone
  BY DEF Named, Elems
<1>1. new[i] \in EventRows
  OBVIOUS
<1>2. new[i].by \in Everyone /\ new[i].to \in Seq(Everyone)
  BY <1>1 DEF EventRows
<1> QED
  BY <1>2 DEF Elems
\* The ratifications meant for the closing that precede place i.
Ratified(i) == {log[j].by : j \in {k \in 1 .. i - 1 : _is_close_intent_ratify(k)}}

\* At most the first of the events appended is somebody's speech, and then the cap is not met.
LEMMA CapAppended ==
  ASSUME log \in Seq(EventRows), NEW new \in Seq(EventRows), log' = log \o new, policy' = policy,
         SpeechWithinCap,
         \A i \in DOMAIN new : is_speech_kind(new[i]) /\ new[i].by # System =>
           i = 1 /\ (policy.max_rounds = 0 \/ count_speech_events(log) < policy.max_rounds)
  PROVE  SpeechWithinCap'
<1> SUFFICES ASSUME NEW i \in DOMAIN log',
                    is_speech_kind(log'[i]), log'[i].by # System, policy.max_rounds # 0
             PROVE  Cardinality({j \in 1 .. i - 1 : is_speech_kind(log'[j])}) < policy.max_rounds
  BY DEF SpeechWithinCap, is_speech_kind
<1>1. CASE i \in DOMAIN log
  <2>1. {j \in 1 .. i - 1 : is_speech_kind(log'[j])} = {j \in 1 .. i - 1 : is_speech_kind(log[j])}
    BY <1>1, AppendedLog DEF is_speech_kind
  <2>2. is_speech_kind(log[i]) /\ log[i].by # System
    BY <1>1, AppendedLog DEF is_speech_kind
  <2> QED
    BY <1>1, <2>1, <2>2 DEF SpeechWithinCap
<1>2. CASE i \notin DOMAIN log
  <2>1. i - Len(log) \in DOMAIN new /\ log'[i] = new[i - Len(log)]
    BY <1>2, AppendedLog
  <2>2. i - Len(log) = 1 /\ count_speech_events(log) < policy.max_rounds
    BY <2>1 DEF is_speech_kind
  <2>3. i - 1 = Len(log)
    BY <2>2, AppendedLog
  <2>4. {j \in 1 .. i - 1 : is_speech_kind(log'[j])} = {j \in DOMAIN log : is_speech_kind(log[j])}
    BY <2>3, AppendedLog DEF is_speech_kind
  <2> QED
    BY <2>2, <2>4 DEF count_speech_events
<1> QED
  BY <1>1, <1>2

\* What was ratified stays ratified, and nothing else becomes so at that place.
LEMMA RatifiedAppended ==
  ASSUME log \in Seq(EventRows), Refs, NEW new \in Seq(EventRows), log' = log \o new,
         NEW i \in 1 .. Len(log) + 1
  PROVE  Ratified(i)' = Ratified(i)
<1>1. \A k \in 1 .. i - 1 : _is_close_intent_ratify(k)' <=> _is_close_intent_ratify(k)
  <2> SUFFICES ASSUME NEW k \in 1 .. i - 1
               PROVE  _is_close_intent_ratify(k)' <=> _is_close_intent_ratify(k)
    OBVIOUS
  <2>1. k \in DOMAIN log /\ 1 .. k \subseteq DOMAIN log
    BY AppendedLog
  <2>2. log[k].reply < k /\ log[k].reply \in Nat
    <3>1. log[k] \in EventRows
      BY <2>1
    <3> QED
      BY <2>1, <3>1 DEF Refs, EventRows
  <2>3. log[k].reply # 0 => log[k].reply \in DOMAIN log
    BY <2>1, <2>2, AppendedLog
  <2>4. \A j \in DOMAIN log : log'[j] = log[j]
    BY AppendedLog
  <2> QED
    BY <2>1, <2>3, <2>4 DEF _is_close_intent_ratify
<1>2. \A k \in 1 .. i - 1 : log'[k] = log[k]
  BY AppendedLog
<1> QED
  BY <1>1, <1>2 DEF Ratified

\* At most the first of the events appended is somebody's closing, and then there is a quorum.
LEMMA QuorumAppended ==
  ASSUME log \in Seq(EventRows), Refs, NEW new \in Seq(EventRows), log' = log \o new, policy' = policy,
         ClosedByQuorum,
         \A i \in DOMAIN new : new[i].kind = "closed" /\ new[i].by # System =>
           /\ i = 1
           /\ policy.close_policy = "quorum" => Cardinality(Ratified(Len(log) + 1)) >= policy.min_ratifiers
  PROVE  ClosedByQuorum'
<1> SUFFICES ASSUME NEW i \in DOMAIN log', log'[i].kind = "closed", log'[i].by # System,
                    policy.close_policy = "quorum"
             PROVE  Cardinality(Ratified(i)') >= policy.min_ratifiers
  BY DEF ClosedByQuorum, Ratified
<1>1. CASE i \in DOMAIN log
  <2>1. i \in 1 .. Len(log) + 1 /\ log'[i] = log[i]
    BY <1>1, AppendedLog
  <2>2. Cardinality(Ratified(i)) >= policy.min_ratifiers
    BY <1>1, <2>1 DEF ClosedByQuorum, Ratified
  <2> QED
    BY <2>1, <2>2, RatifiedAppended
<1>2. CASE i \notin DOMAIN log
  <2>1. i - Len(log) \in DOMAIN new /\ log'[i] = new[i - Len(log)]
    BY <1>2, AppendedLog
  <2>2. i = Len(log) + 1 /\ Cardinality(Ratified(Len(log) + 1)) >= policy.min_ratifiers
    BY <2>1, AppendedLog
  <2>3. Len(log) + 1 \in 1 .. Len(log) + 1
    BY AppendedLog
  <2> QED
    BY <2>2, <2>3, RatifiedAppended
<1> QED
  BY <1>1, <1>2

\* At most the first of the events appended is an automatic defer, and then it is the first of its kind.
LEMMA DeferAppended ==
  ASSUME log \in Seq(EventRows), NEW new \in Seq(EventRows), log' = log \o new, AutoDeferOnce,
         \A i \in DOMAIN log : log[i].auto => is_speech_kind(log[i]),
         \A i \in DOMAIN new : new[i].auto =>
           i = 1 /\ is_speech_kind(new[i]) /\ Undeferred(new[i].by, new[i].reply)
  PROVE  /\ AutoDeferOnce'
         /\ (\A i \in DOMAIN log : log[i].auto => is_speech_kind(log[i]))'
<1>1. Scanned = 1 .. Smaller(ScanLimit, Len(log)) /\ Scanned' = 1 .. Smaller(ScanLimit, Len(log'))
  BY DEF Scanned
<1>2. ScanLimit \in Nat
  BY GovernanceAssumption
<1>3. \A j \in Scanned' : j \in DOMAIN log' /\ (j \in DOMAIN log => j \in Scanned)
  BY <1>1, <1>2, AppendedLog DEF Smaller
<1>4. \A j \in DOMAIN log : log'[j] = log[j]
  BY AppendedLog
<1>5. \A j \in DOMAIN log' \ DOMAIN log : log'[j].auto =>
        j = Len(log) + 1 /\ Undeferred(log'[j].by, log'[j].reply)
  BY AppendedLog
<1>6. AutoDeferOnce'
  <2> SUFFICES ASSUME NEW i \in Scanned', NEW j \in Scanned', log'[i].auto, log'[j].auto,
                      log'[i].by = log'[j].by, log'[i].reply = log'[j].reply
               PROVE  i = j
    BY DEF AutoDeferOnce
  <2>1. CASE i \in DOMAIN log /\ j \in DOMAIN log
    BY <2>1, <1>3, <1>4 DEF AutoDeferOnce
  <2>2. CASE i \notin DOMAIN log /\ j \notin DOMAIN log
    BY <2>2, <1>3, <1>5
  <2>3. CASE i \in DOMAIN log /\ j \notin DOMAIN log
    <3>1. Undeferred(log'[j].by, log'[j].reply)
      BY <2>3, <1>3, <1>5
    <3>2. i \in Scanned /\ log[i] = log'[i]
      BY <2>3, <1>3, <1>4
    <3> QED
      BY <3>1, <3>2 DEF Undeferred
  <2>4. CASE i \notin DOMAIN log /\ j \in DOMAIN log
    <3>1. Undeferred(log'[i].by, log'[i].reply)
      BY <2>4, <1>3, <1>5
    <3>2. j \in Scanned /\ log[j] = log'[j]
      BY <2>4, <1>3, <1>4
    <3> QED
      BY <3>1, <3>2 DEF Undeferred
  <2> QED
    BY <2>1, <2>2, <2>3, <2>4
<1>7. \A i \in DOMAIN log' : log'[i].auto => is_speech_kind(log'[i])
  BY AppendedLog DEF is_speech_kind
<1> QED
  BY <1>6, <1>7 DEF is_speech_kind

\* An event nobody's defer answers in sight stays so while no such defer is appended.
LEMMA UndeferredAppended ==
  ASSUME log \in Seq(EventRows), NEW new \in Seq(EventRows), log' = log \o new, NEW a, NEW i,
         Undeferred(a, i), \A k \in DOMAIN new : new[k].auto /\ new[k].by = a => new[k].reply # i
  PROVE  Undeferred(a, i)'
<1>1. ScanLimit \in Nat
  BY GovernanceAssumption
<1>2. \A j \in Scanned' : j \in DOMAIN log' /\ (j \in DOMAIN log => j \in Scanned)
  BY <1>1, AppendedLog DEF Smaller, Scanned
<1> QED
  BY <1>2, AppendedLog DEF Undeferred

-----------------------------------------------------------------------------
(* The calls under way *)

\* What a call carries is of the type its kind has.
LEMMA CallFields ==
  ASSUME NEW c \in CallRows
  PROVE  /\ c.call = "speech" => c.request \in Speeches /\ c.row \in ConversationRows
         /\ c.call = "attach" => c.event \in Nat /\ c.note \in {"close", "artifact"}
         /\ c.call = "close" => c.by \in Actors /\ c.resolution \in Resolutions
         /\ c.call = "handoff" => c.by \in Actors /\ c.new \in Actors /\ c.row \in ConversationRows
         /\ c.call = "sweep" => c.tier \in 1..3 /\ c.row \in ConversationRows
         /\ c.call = "emit" => c.kind \in {"nudge", "defer"} /\ c.to \in Everyone /\ c.reply \in Nat
BY DEF CallRows, Idle

\* The safety invariants read the policy and the log only.
LEMMA SafetyKept ==
  ASSUME SpeechWithinCap, ClosedByQuorum, AutoDeferOnce, UNCHANGED <<policy, log>>
  PROVE  SpeechWithinCap' /\ ClosedByQuorum' /\ AutoDeferOnce'
BY DEF SpeechWithinCap, ClosedByQuorum, AutoDeferOnce, is_speech_kind, _is_close_intent_ratify, Scanned

\* What call p may append as the i-th event, e: nothing but its own speech, if that is
\* automatic, and no speech above the cap and no closing without its quorum.
Lawful(i, e, p) ==
  /\ e.reply <= Len(log)
  /\ is_speech_kind(e) /\ e.by # System =>
       i = 1 /\ (policy.max_rounds = 0 \/ count_speech_events(log) < policy.max_rounds)
  /\ e.kind = "closed" /\ e.by # System =>
       /\ i = 1
       /\ policy.close_policy = "quorum" => Cardinality(Ratified(Len(log) + 1)) >= policy.min_ratifiers
  /\ e.auto =>
       /\ i = 1 /\ is_speech_kind(e)
       /\ calls[p].call = "speech" /\ calls[p].request.auto
       /\ e.by = calls[p].request.by /\ e.reply = calls[p].request.reply

\* What call p may go on to, c, when it has appended new.
Follows(p, c, new) ==
  /\ c.call = "speech" =>
       /\ c.request.reply <= Len(log)
       /\ c.request.auto => /\ p = Loop /\ new = << >>
                            /\ Undeferred(c.request.by, c.request.reply)
                            /\ \A d \in agenda' : d.to = c.request.by => d.trigger # c.request.reply
  /\ c.call = "emit" => c.reply \in DOMAIN log
  /\ c.call = "attach" => c.event = Len(log) + 1 /\ new # << >> /\ new[1].note = "none"

\* One call, p, goes on to c, appends events and may take defers off the agenda.
Advances(p, c, new) ==
  /\ Goes(p, c) /\ log' = log \o new
  /\ participants' \subseteq Everyone /\ conv' \in ConversationRows
  /\ policy' = policy /\ agenda' \subseteq agenda
  /\ \A i \in DOMAIN new : Lawful(i, new[i], p)
  /\ Follows(p, c, new)

\* Replies go back in the log after a call that advances, too.
LEMMA RefsAdvance ==
  ASSUME IInv, NEW p \in Processes, NEW c \in CallRows, NEW new \in Seq(EventRows), Advances(p, c, new)
  PROVE  Refs'
<1>1. log \in Seq(EventRows) /\ calls \in [Processes -> CallRows]
  BY DEF IInv, GovTypeOK
<1>2. log' = log \o new /\ calls' = [calls EXCEPT ![p] = c] /\ agenda' \subseteq agenda
  BY DEF Advances, Goes
<1>3. \A q \in Processes : calls'[q] = IF q = p THEN c ELSE calls[q]
  BY <1>1, <1>2
<1>4. (\A i \in DOMAIN log : log[i].reply < i)'
  <2> SUFFICES ASSUME NEW i \in DOMAIN log' PROVE log'[i].reply < i
    OBVIOUS
  <2>1. CASE i \in DOMAIN log
    BY <2>1, <1>1, <1>2, AppendedLog DEF IInv, Refs
  <2>2. CASE i \notin DOMAIN log
    <3>1. i - Len(log) \in DOMAIN new /\ log'[i] = new[i - Len(log)]
      BY <2>2, <1>1, <1>2, AppendedLog
    <3>2. log'[i].reply <= Len(log)
      BY <3>1 DEF Advances, Lawful
    <3>3. log'[i] \in EventRows /\ i > Len(log)
      BY <3>1, <2>2, <1>1, <1>2, AppendedLog
    <3> QED
      BY <3>2, <3>3, <1>1, AppendedLog, <1>2 DEF EventRows
  <2> QED
    BY <2>1, <2>2
<1>5. \A q \in Processes : calls'[q].call = "speech" => calls'[q].request.reply <= Len(log')
  <2> SUFFICES ASSUME NEW q \in Processes, calls'[q].call = "speech"
               PROVE  calls'[q].request.reply <= Len(log')
    OBVIOUS
  <2>1. calls'[q] \in CallRows
    BY <1>1, <1>3
  <2>2. calls'[q].request.reply \in Nat
    BY <2>1, CallFields DEF Speeches
  <2>3. calls'[q].request.reply <= Len(log)
    BY <1>3 DEF Advances, Follows, IInv, Refs
  <2> QED
    BY <2>2, <2>3, <1>1, <1>2, AppendedLog
<1>6. \A q \in Processes : calls'[q].call = "emit" => calls'[q].reply \in DOMAIN log'
  BY <1>1, <1>2, <1>3, AppendedLog DEF Advances, Follows, IInv, Refs
<1>7. \A d \in agenda' : d.trigger \in DOMAIN log'
  BY <1>1, <1>2, AppendedLog DEF IInv, Refs
<1> QED
  BY <1>4, <1>5, <1>6, <1>7 DEF Refs

\* What is to be attached keeps an event of its own.
LEMMA AttachingAdvances ==
  ASSUME IInv, NEW p \in Processes, NEW c \in CallRows, NEW new \in Seq(EventRows), Advances(p, c, new)
  PROVE  Attaching'
<1>1. log \in Seq(EventRows) /\ calls \in [Processes -> CallRows]
  BY DEF IInv, GovTypeOK
<1>2. log' = log \o new /\ calls' = [calls EXCEPT ![p] = c]
  BY DEF Advances, Goes
<1>3. \A q \in Processes : calls'[q] = IF q = p THEN c ELSE calls[q]
  BY <1>1, <1>2
<1>4. c.call = "attach" => c.event \in DOMAIN log' \ DOMAIN log /\ log'[c.event].note = "none"
  <2> SUFFICES ASSUME c.call = "attach"
               PROVE  c.event \in DOMAIN log' \ DOMAIN log /\ log'[c.event].note = "none"
    OBVIOUS
  <2>1. c.event = Len(log) + 1 /\ new # << >> /\ new[1].note = "none"
    BY DEF Advances, Follows
  <2>2. Len(new) > 0
    BY <2>1
  <2> QED
    BY <2>1, <2>2, <1>1, <1>2, AppendedLog
<1>5. \A q \in Processes : calls[q].call = "attach" =>
        calls[q].event \in DOMAIN log /\ calls[q].event \in DOMAIN log'
          /\ log'[calls[q].event].note = "none"
  BY <1>1, <1>2, AppendedLog DEF IInv, Attaching
<1>6. \A q, r \in Processes : calls[q].call = "attach" /\ calls[r].call = "attach" /\ q # r =>
        calls[q].event # calls[r].event
  BY DEF IInv, Attaching
<1> QED
  BY <1>3, <1>4, <1>5, <1>6 DEF Attaching

\* What is planned or under way is in the log not yet, and is there once afterwards.
LEMMA DeferringAdvances ==
  ASSUME IInv, NEW p \in Processes, NEW c \in CallRows, NEW new \in Seq(EventRows), Advances(p, c, new)
  PROVE  Deferring' /\ AutoDeferOnce'
<1>1. log \in Seq(EventRows) /\ calls \in [Processes -> CallRows]
  BY DEF IInv, GovTypeOK
<1>2. log' = log \o new /\ calls' = [calls EXCEPT ![p] = c] /\ agenda' \subseteq agenda
  BY DEF Advances, Goes
<1>3. \A q \in Processes : calls'[q] = IF q = p THEN c ELSE calls[q]
  BY <1>1, <1>2
<1>4. \A i \in DOMAIN new : new[i].auto =>
        /\ i = 1 /\ is_speech_kind(new[i])
        /\ calls[p].call = "speech" /\ calls[p].request.auto
        /\ new[i].by = calls[p].request.by /\ new[i].reply = calls[p].request.reply
  BY DEF Advances, Lawful
<1>5. \A i \in DOMAIN new : new[i].auto => p = Loop /\ Undeferred(new[i].by, new[i].reply)
  BY <1>4 DEF IInv, Deferring
<1>6. AutoDeferOnce' /\ (\A i \in DOMAIN log : log[i].auto => is_speech_kind(log[i]))'
  BY <1>1, <1>2, <1>4, <1>5, DeferAppended DEF IInv, Deferring
<1>7. \A d \in agenda' : Undeferred(d.to, d.trigger)'
  <2> SUFFICES ASSUME NEW d \in agenda' PROVE Undeferred(d.to, d.trigger)'
    OBVIOUS
  <2>1. d \in agenda /\ Undeferred(d.to, d.trigger)
    BY <1>2 DEF IInv, Deferring
  <2>2. \A k \in DOMAIN new : new[k].auto /\ new[k].by = d.to => new[k].reply # d.trigger
    BY <2>1, <1>4 DEF IInv, Deferring
  <2>3. \A a, i : Undeferred(a, i) /\ (\A k \in DOMAIN new : new[k].auto /\ new[k].by = a => new[k].reply # i)
                    => Undeferred(a, i)'
    BY <1>1, <1>2, UndeferredAppended
  <2> QED
    BY <2>1, <2>2, <2>3
<1>8. ASSUME NEW q \in Processes, calls'[q].call = "speech", calls'[q].request.auto
      PROVE  /\ q = Loop
             /\ Undeferred(calls[q].request.by, calls[q].request.reply)'
             /\ \A d \in agenda' : d.to = calls'[q].request.by => d.trigger # calls'[q].request.reply
  <2>1. CASE q = p
    <3>1. calls'[q] = c
      BY <2>1, <1>3
    <3>2. /\ p = Loop /\ new = << >>
          /\ Undeferred(c.request.by, c.request.reply)
          /\ \A d \in agenda' : d.to = c.request.by => d.trigger # c.request.reply
      BY <3>1, <1>8 DEF Advances, Follows
    <3>3. log' = log
      BY <3>2, <1>1, <1>2
    <3> QED
      BY <2>1, <3>1, <3>2, <3>3 DEF Undeferred, Scanned
  <2>2. CASE q # p
    <3>1. calls'[q] = calls[q]
      BY <2>2, <1>3
    <3>2. /\ q = Loop
          /\ Undeferred(calls[q].request.by, calls[q].request.reply)
          /\ \A d \in agenda : d.to = calls[q].request.by => d.trigger # calls[q].request.reply
      BY <3>1, <1>8 DEF IInv, Deferring
    <3>3. \A k \in DOMAIN new : ~new[k].auto
      BY <3>2, <2>2, <1>5
    <3>4. \A a, i : Undeferred(a, i) => Undeferred(a, i)'
      <4> SUFFICES ASSUME NEW a, NEW i, Undeferred(a, i) PROVE Undeferred(a, i)'
        OBVIOUS
      <4> QED
        BY <3>3, <1>1, <1>2, UndeferredAppended
    <3>5. Undeferred(calls[q].request.by, calls[q].request.reply)'
      BY <3>1, <3>2, <3>4 DEF Undeferred
    <3>6. \A d \in agenda' : d.to = calls'[q].request.by => d.trigger # calls'[q].request.reply
      BY <3>1, <3>2, <1>2
    <3> QED
      BY <3>2, <3>5, <3>6
  <2> QED
    BY <2>1, <2>2
<1> QED
  BY <1>6, <1>7, <1>8 DEF Deferring

\* A call that advances so keeps the invariant.
LEMMA AdvanceKeeps ==
  ASSUME IInv, NEW p \in Processes, NEW c \in CallRows, NEW new \in Seq(EventRows), Advances(p, c, new)
  PROVE  IInv'
<1>1. log \in Seq(EventRows) /\ Refs /\ SpeechWithinCap /\ ClosedByQuorum
  BY DEF IInv, GovTypeOK
<1>2. log' = log \o new /\ policy' = policy /\ \A i \in DOMAIN new : Lawful(i, new[i], p)
  BY DEF Advances
<1>3. SpeechWithinCap'
  BY <1>1, <1>2, CapAppended DEF Lawful
<1>4. ClosedByQuorum'
  BY <1>1, <1>2, QuorumAppended DEF Lawful
<1>5. Attaching'
  BY AttachingAdvances
<1>6. GovTypeOK'
  <2>1. calls' \in [Processes -> CallRows] /\ agenda' \subseteq [to : Actors, trigger : Nat]
    BY DEF IInv, GovTypeOK, Advances, Goes
  <2>2. log' \in Seq(EventRows)
    BY <1>1, <1>2, AppendedLog
  <2> QED
    BY <1>2, <1>5, <2>1, <2>2 DEF IInv, GovTypeOK, Advances, Attaching
<1> QED
  BY <1>3, <1>4, <1>5, <1>6, RefsAdvance, DeferringAdvances DEF IInv

-----------------------------------------------------------------------------
(* The initial states *)

\* A slot is an address of at most one actor.
LEMMA AddressType ==
  ASSUME NEW slot \in Slots
  PROVE  AddressOf(slot) \in Seq(Everyone)
<1>1. CASE slot = NoSlot
  BY <1>1 DEF AddressOf
<1>2. CASE slot # NoSlot
  <2>1. slot.who \in Everyone
    BY <1>2 DEF Slots, Everyone
  <2> QED
    BY <1>2, <2>1 DEF AddressOf
<1> QED
  BY <1>1, <1>2

\* An event of the bridge: no speech, unless @system is its author, and not automatic.
LEMMA SystemEventLawful ==
  ASSUME NEW by \in Everyone, NEW kind, NEW to, NEW reply, NEW i, NEW p, reply <= Len(log),
         kind \in OtherKinds \ {"closed"} \/ by = System
  PROVE  Lawful(i, SystemEvent(by, kind, to, reply), p)
BY DEF Lawful, SystemEvent, is_speech_kind, SPEECH_KINDS, OtherKinds

\* The invariant holds when the conversation is opened.
LEMMA InitHolds == Init => IInv
<1> SUFFICES ASSUME Init PROVE IInv
  OBVIOUS
<1> PICK o \in Openings : Init!1!(o)
  BY DEF Init
<1>1. o.policy \in PolicyRows /\ o.expected \in Slots
  BY GovernanceAssumption
<1> DEFINE e == SystemEvent(Opener, "opened", AddressOf(o.expected), 0)
<1>2. log = <<e>> /\ calls = [p \in Processes |-> Idle] /\ agenda = {}
  BY DEF Init
<1>3. e \in EventRows
  BY <1>1, AddressType, SystemEventType, GovernanceAssumption DEF Everyone, OtherKinds
<1>4. /\ e.kind = "opened" /\ e.reply = 0 /\ ~e.auto
      /\ ~is_speech_kind(e)
  BY DEF SystemEvent, is_speech_kind, SPEECH_KINDS
<1> HIDE DEF e
<1>5. /\ log \in Seq(EventRows) /\ DOMAIN log = {1} /\ Len(log) = 1 /\ log[1] = e
  BY <1>2, <1>3
<1>6. \A p \in Processes : calls[p].call = "none"
  BY <1>2 DEF Idle
<1>7. conv \in ConversationRows
  BY <1>1, GovernanceAssumption DEF Init, ConversationRows
<1>8. GovTypeOK
  <2>1. participants = Named(log)
    BY DEF Init
  <2>2. participants \subseteq Everyone
    BY <2>1, <1>5, NamedType
  <2>3. calls \in [Processes -> CallRows]
    BY <1>2 DEF CallRows
  <2>4. policy \in PolicyRows
    BY <1>1 DEF Init
  <2> QED
    BY <2>2, <2>3, <2>4, <1>2, <1>5, <1>6, <1>7 DEF GovTypeOK
<1>9. Refs /\ Attaching /\ Deferring
  BY <1>2, <1>4, <1>5, <1>6 DEF Refs, Attaching, Deferring
<1>10. SpeechWithinCap /\ ClosedByQuorum
  BY <1>4, <1>5 DEF SpeechWithinCap, ClosedByQuorum
<1>11. AutoDeferOnce
  <2>1. Scanned \subseteq DOMAIN log
    BY <1>5, GovernanceAssumption DEF Scanned, Smaller
  <2> QED
    BY <2>1, <1>4, <1>5 DEF AutoDeferOnce
<1> QED
  BY <1>8, <1>9, <1>10, <1>11 DEF IInv

-----------------------------------------------------------------------------
(* One lemma per action *)

\* A call that reads and writes nothing.
LEMMA QuietAdvance ==
  ASSUME IInv, NEW p \in Processes, NEW c \in CallRows, Goes(p, c),
         UNCHANGED <<policy, conv, participants, log>>, agenda' \subseteq agenda,
         Follows(p, c, << >>)
  PROVE  IInv'
<1>1. log' = log \o << >> /\ << >> \in Seq(EventRows)
  BY DEF IInv, GovTypeOK
<1>2. Advances(p, c, << >>)
  BY <1>1 DEF Advances, IInv, GovTypeOK
<1> QED
  BY <1>1, <1>2, AdvanceKeeps

\* A call that is over carries nothing.
LEMMA IdleFollows ==
  ASSUME NEW p, NEW new
  PROVE  Idle \in CallRows /\ Follows(p, Idle, new)
BY DEF Idle, CallRows, Follows

\* The event loop is no request's thread.
LEMMA LoopIsProcess == Loop \in Processes /\ \A t \in Threads : t \in Processes /\ t # Loop
BY GovernanceAssumption DEF Processes

\* A request's speech replies to what is in the log, and is nobody's automatic defer.
LEMMA BeginSpeechKeeps ==
  ASSUME IInv, NEW t \in Threads, BeginSpeech(t)
  PROVE  IInv'
<1> PICK r \in Requests : r.reply <= Len(log) /\ Reads(t, r)
  BY DEF BeginSpeech
<1> DEFINE c == [call |-> "speech", request |-> r, row |-> conv]
<1>1. r \in Speeches /\ ~r.auto
  BY GovernanceAssumption
<1>2. c \in CallRows
  BY <1>1 DEF CallRows, IInv, GovTypeOK
<1>3. Follows(t, c, << >>)
  BY <1>1 DEF Follows
<1>4. Goes(t, c)
  BY DEF Reads
<1> HIDE DEF c
<1> QED
  BY <1>2, <1>3, <1>4, LoopIsProcess, QuietAdvance DEF BeginSpeech

\* The columns the call may change, from the row it has read.
LEMMA TurnType ==
  ASSUME NEW row \in ConversationRows, NEW r \in Speeches
  PROVE  Turn(row, r).expected \in Slots /\ Turn(row, r).noise \in Nat
<1>1. row.expected \in Slots /\ row.noise \in Nat
  BY DEF ConversationRows
<1>2. Addressed(r) \in Slots
  <2>1. r.to \in Seq(Actors) /\ r.at \in BOOLEAN /\ r.expects.from \in Seq(Actors)
    BY DEF Speeches, Expectations
  <2>2. r.to # << >> => Head(r.to) \in Actors
    BY <2>1
  <2>3. r.expects.from # << >> => Head(r.expects.from) \in Actors
    BY <2>1
  <2> QED
    BY <2>1, <2>2, <2>3 DEF Addressed, Slots
<1> QED
  BY <1>1, <1>2 DEF Turn

\* Whoever talks past the expected speaker costs one notice at most.
LEMMA OverSpeechType ==
  ASSUME NEW row \in ConversationRows, NEW r \in Speeches
  PROVE  /\ OverSpeech(row, r) \in Seq(EventRows) /\ Len(OverSpeech(row, r)) \in {0, 1}
         /\ \A i \in DOMAIN OverSpeech(row, r) :
              OverSpeech(row, r)[i] = SystemEvent(System, "over_speech", AddressOf(row.expected), 0)
<1>1. SystemEvent(System, "over_speech", AddressOf(row.expected), 0) \in EventRows
  <2>1. row.expected \in Slots
    BY DEF ConversationRows
  <2> QED
    BY <2>1, AddressType, SystemEventType DEF Everyone, OtherKinds
<1> QED
  BY <1>1 DEF OverSpeech

\* A speech is written under the lock in which the cap was looked at.
LEMMA WriteSpeechKeeps ==
  ASSUME IInv, NEW p \in Processes, WriteSpeech(p)
  PROVE  IInv'
<1> DEFINE r == calls[p].request
           row == calls[p].row
           over == OverSpeech(row, r)
           new == <<EventOf(r)>> \o over
           c == IF r.note = "none" THEN Idle
                ELSE [call |-> "attach", event |-> Len(log) + 1, note |-> r.note]
<1>1. calls[p] \in CallRows /\ calls[p].call = "speech" /\ log \in Seq(EventRows)
  BY DEF IInv, GovTypeOK, WriteSpeech
<1>2. r \in Speeches /\ row \in ConversationRows
  BY <1>1, CallFields
<1>3. r.reply \in Nat /\ r.reply <= Len(log) /\ Len(log) \in Nat
  BY <1>1, <1>2 DEF IInv, Refs, Speeches
<1>4. /\ EventOf(r) \in EventRows /\ is_speech_kind(EventOf(r))
  BY <1>2, SpeechEventType
<1>5. /\ EventOf(r).reply = r.reply /\ EventOf(r).by = r.by /\ EventOf(r).note = "none"
      /\ EventOf(r).auto = r.auto
  BY DEF EventOf
<1>6. /\ over \in Seq(EventRows) /\ Len(over) \in {0, 1}
      /\ \A i \in DOMAIN over : over[i] = SystemEvent(System, "over_speech", AddressOf(row.expected), 0)
  BY <1>2, OverSpeechType
<1>7. Written(new) /\ Goes(p, c) /\ policy' = policy /\ agenda' = agenda
  BY DEF WriteSpeech
<1>8. conv' = [conv EXCEPT !.expected = Column(@, row.expected, Turn(row, r).expected),
                           !.noise = Column(@, row.noise, Turn(row, r).noise)]
  BY DEF WriteSpeech
<1>9. policy.max_rounds = 0 \/ count_speech_events(log) < policy.max_rounds
  BY DEF WriteSpeech, Admitted, check_speech_admissible
<1> HIDE DEF over
<1>10. /\ new \in Seq(EventRows) /\ new # << >> /\ new[1] = EventOf(r)
       /\ \A i \in DOMAIN new : i # 1 => new[i] = SystemEvent(System, "over_speech", AddressOf(row.expected), 0)
  BY <1>4, <1>6
<1> HIDE DEF new
<1>11. conv' \in ConversationRows
  <2>1. Turn(row, r).expected \in Slots /\ Turn(row, r).noise \in Nat
    BY <1>2, TurnType
  <2>2. conv \in ConversationRows
    BY DEF IInv, GovTypeOK
  <2> HIDE DEF r, row
  <2> QED
    BY <1>8, <2>1, <2>2 DEF Column, ConversationRows
<1>12. participants' \subseteq Everyone
  BY <1>7, <1>10, NamedType DEF Written, IInv, GovTypeOK
<1>13. c \in CallRows
  <2>1. r.note \in {"none", "close", "artifact"}
    BY <1>2 DEF Speeches
  <2>2. Len(log) + 1 \in Nat
    BY <1>3
  <2> HIDE DEF r
  <2> QED
    BY <2>1, <2>2 DEF CallRows, Idle
<1>14. Follows(p, c, new)
  BY <1>5, <1>10 DEF Follows, Idle
<1>15. ASSUME NEW i \in DOMAIN new PROVE Lawful(i, new[i], p)
  <2>1. CASE i = 1
    <3>1. EventOf(r).kind # "closed"
      BY <1>4 DEF is_speech_kind, SPEECH_KINDS
    <3>2. Lawful(1, EventOf(r), p)
      BY <1>1, <1>3, <1>4, <1>5, <1>9, <3>1 DEF Lawful
    <3> QED
      BY <2>1, <3>2, <1>10
  <2>2. CASE i # 1
    <3>1. 0 <= Len(log) /\ System \in Everyone
      BY <1>3 DEF Everyone
    <3>2. Lawful(i, SystemEvent(System, "over_speech", AddressOf(row.expected), 0), p)
      BY <3>1, SystemEventLawful
    <3> QED
      BY <2>2, <3>2, <1>10
  <2> QED
    BY <2>1, <2>2
<1>16. Advances(p, c, new)
  BY <1>7, <1>11, <1>12, <1>14, <1>15 DEF Advances, Written
<1> HIDE DEF c
<1> QED
  BY <1>10, <1>13, <1>16, AdvanceKeeps

\* The call is over, with nothing written.
LEMMA RefuseSpeechKeeps ==
  ASSUME IInv, NEW p \in Processes, RefuseSpeech(p)
  PROVE  IInv'
BY IdleFollows, QuietAdvance DEF RefuseSpeech
\* What is attached adds to the ratifications and changes nothing else the invariants read.
LEMMA AttachKeeps ==
  ASSUME IInv, NEW t \in Threads, Attach(t)
  PROVE  IInv'
<1> DEFINE e == calls[t].event
           n == calls[t].note
<1>1. t \in Processes /\ t # Loop
  BY LoopIsProcess
<1>2. /\ calls[t] \in CallRows /\ calls[t].call = "attach" /\ log \in Seq(EventRows)
      /\ calls \in [Processes -> CallRows]
  BY <1>1 DEF IInv, GovTypeOK, Attach
<1>3. e \in DOMAIN log /\ log[e].note = "none" /\ n \in {"close", "artifact"}
  BY <1>1, <1>2, CallFields DEF IInv, Attaching
<1>4. /\ log' = [log EXCEPT ![e].note = n] /\ Goes(t, Idle)
      /\ UNCHANGED <<policy, conv, participants, agenda>>
  BY DEF Attach
<1> HIDE DEF e, n
<1>5. /\ log' \in Seq(EventRows) /\ DOMAIN log' = DOMAIN log /\ Len(log') = Len(log)
      /\ DOMAIN log = 1 .. Len(log) /\ Len(log) \in Nat
  <2>1. log[e] \in EventRows
    BY <1>2, <1>3
  <2>2. [log[e] EXCEPT !.note = n] \in EventRows
    BY <2>1, <1>3 DEF EventRows
  <2>3. log' = [log EXCEPT ![e] = [log[e] EXCEPT !.note = n]]
    BY <1>4
  <2> QED
    BY <1>2, <1>3, <2>2, <2>3
<1>6. \A i \in DOMAIN log :
        /\ log'[i].by = log[i].by /\ log'[i].kind = log[i].kind /\ log'[i].reply = log[i].reply
        /\ log'[i].auto = log[i].auto
        /\ log'[i].note = IF i = e THEN n ELSE log[i].note
  <2> SUFFICES ASSUME NEW i \in DOMAIN log
               PROVE  /\ log'[i].by = log[i].by /\ log'[i].kind = log[i].kind /\ log'[i].reply = log[i].reply
                      /\ log'[i].auto = log[i].auto
                      /\ log'[i].note = IF i = e THEN n ELSE log[i].note
    OBVIOUS
  <2>1. log[i] \in EventRows
    BY <1>2
  <2>2. log'[i] = IF i = e THEN [log[i] EXCEPT !.note = n] ELSE log[i]
    BY <1>3, <1>4
  <2> QED
    BY <2>1, <2>2 DEF EventRows
<1>7. \A i \in DOMAIN log : is_speech_kind(log'[i]) <=> is_speech_kind(log[i])
  BY <1>6 DEF is_speech_kind
<1>8. \A p \in Processes : calls'[p] = IF p = t THEN Idle ELSE calls[p]
  BY <1>2, <1>4 DEF Goes
<1>9. Refs'
  BY <1>4, <1>5, <1>6, <1>8 DEF Refs, Idle, IInv
<1>10. Attaching'
  <2>1. \A p \in Processes : p # t /\ calls[p].call = "attach" =>
          calls[p].event \in DOMAIN log /\ calls[p].event # e /\ log[calls[p].event].note = "none"
    BY <1>1, <1>2 DEF IInv, Attaching, e
  <2>2. \A p, q \in Processes : p # q /\ calls[p].call = "attach" /\ calls[q].call = "attach" =>
          calls[p].event # calls[q].event
    BY DEF IInv, Attaching
  <2>3. \A p \in Processes : calls'[p].call = "attach" => p # t /\ calls'[p] = calls[p]
    BY <1>8 DEF Idle
  <2> QED
    BY <1>5, <1>6, <2>1, <2>2, <2>3 DEF Attaching
<1>11. Scanned' = Scanned /\ Scanned \subseteq DOMAIN log
  BY <1>5, GovernanceAssumption DEF Scanned, Smaller
<1>12. \A a, i : Undeferred(a, i) => \A j \in Scanned' : log'[j].auto /\ log'[j].by = a => log'[j].reply # i
  BY <1>6, <1>11 DEF Undeferred
<1>13. Deferring'
  <2>1. \A p \in Processes : calls'[p].call = "speech" => calls'[p] = calls[p]
    BY <1>8 DEF Idle
  <2>2. \A i \in DOMAIN log' : log'[i].auto => is_speech_kind(log'[i])
    BY <1>5, <1>6, <1>7 DEF Deferring, IInv
  <2>3. \A d \in agenda' : Undeferred(d.to, d.trigger)'
    BY <1>4, <1>12 DEF Deferring, IInv, Undeferred
  <2>4. ASSUME NEW p \in Processes, calls'[p].call = "speech", calls'[p].request.auto
        PROVE  /\ p = Loop
               /\ Undeferred(calls[p].request.by, calls[p].request.reply)'
               /\ \A d \in agenda' : d.to = calls'[p].request.by => d.trigger # calls'[p].request.reply
    <3>1. calls'[p] = calls[p]
      BY <2>1, <2>4
    <3>2. /\ p = Loop
          /\ Undeferred(calls[p].request.by, calls[p].request.reply)
          /\ \A d \in agenda : d.to = calls[p].request.by => d.trigger # calls[p].request.reply
      BY <2>4, <3>1 DEF Deferring, IInv
    <3>3. Undeferred(calls[p].request.by, calls[p].request.reply)'
      BY <1>12, <3>1, <3>2 DEF Undeferred
    <3> QED
      BY <1>4, <3>1, <3>2, <3>3
  <2> QED
    BY <2>2, <2>3, <2>4 DEF Deferring, is_speech_kind
<1>14. AutoDeferOnce'
  BY <1>6, <1>11 DEF AutoDeferOnce, IInv
<1>15. SpeechWithinCap'
  <2> SUFFICES ASSUME NEW i \in DOMAIN log',
                      is_speech_kind(log'[i]), log'[i].by # System, policy.max_rounds # 0
               PROVE  Cardinality({j \in 1 .. i - 1 : is_speech_kind(log'[j])}) < policy.max_rounds
    BY <1>4 DEF SpeechWithinCap, is_speech_kind
  <2>1. {j \in 1 .. i - 1 : is_speech_kind(log'[j])} = {j \in 1 .. i - 1 : is_speech_kind(log[j])}
    BY <1>5, <1>7
  <2>2. i \in DOMAIN log /\ is_speech_kind(log[i]) /\ log[i].by # System
    BY <1>5, <1>6, <1>7
  <2> QED
    BY <2>1, <2>2 DEF IInv, SpeechWithinCap
<1>16. ClosedByQuorum'
  <2> SUFFICES ASSUME NEW i \in DOMAIN log', log'[i].kind = "closed", log'[i].by # System,
                      policy.close_policy = "quorum"
               PROVE  Cardinality(Ratified(i)') >= policy.min_ratifiers
    BY <1>4 DEF ClosedByQuorum, Ratified
  <2>1. i \in DOMAIN log /\ Cardinality(Ratified(i)) >= policy.min_ratifiers
    BY <1>5, <1>6 DEF IInv, ClosedByQuorum, Ratified
  <2>2. \A k \in 1 .. i - 1 : _is_close_intent_ratify(k) => _is_close_intent_ratify(k)'
    <3> SUFFICES ASSUME NEW k \in 1 .. i - 1, _is_close_intent_ratify(k)
                 PROVE  _is_close_intent_ratify(k)'
      OBVIOUS
    <3>1. k \in DOMAIN log /\ 1 .. k \subseteq DOMAIN log
      BY <2>1, <1>5
    <3>2. \A j \in DOMAIN log : log[j].note = "artifact" => log'[j].note = "artifact"
      BY <1>3, <1>6
    <3>3. log[k].note = "close" => log'[k].note = "close"
      BY <1>3, <1>6, <3>1
    <3>4. log[k].reply # 0 => log[k].reply \in DOMAIN log
      <4>1. log[k] \in EventRows /\ log[k].reply < k
        BY <3>1, <1>2 DEF IInv, Refs
      <4> QED
        BY <4>1, <3>1, <1>5 DEF EventRows
    <3> QED
      BY <1>6, <3>1, <3>2, <3>3, <3>4 DEF _is_close_intent_ratify
  <2>3. Ratified(i) \subseteq Ratified(i)'
    <3>1. \A k \in 1 .. i - 1 : log'[k].by = log[k].by
      BY <2>1, <1>5, <1>6
    <3> QED
      BY <2>2, <3>1 DEF Ratified
  <2>4. IsFiniteSet(Ratified(i)')
    <3>1. \A k \in 1 .. i - 1 : log'[k].by \in Everyone
      <4> SUFFICES ASSUME NEW k \in 1 .. i - 1 PROVE log'[k].by \in Everyone
        OBVIOUS
      <4>1. log'[k] \in EventRows
        BY <2>1, <1>5
      <4> QED
        BY <4>1 DEF EventRows
    <3>2. Ratified(i)' \subseteq Everyone
      BY <3>1 DEF Ratified
    <3>3. IsFiniteSet(Everyone)
      BY GovernanceAssumption, FS_AddElement DEF Everyone
    <3> QED
      BY <3>2, <3>3, FS_Subset
  <2>5. /\ Cardinality(Ratified(i)) <= Cardinality(Ratified(i)')
        /\ Cardinality(Ratified(i)) \in Nat /\ Cardinality(Ratified(i)') \in Nat
    <3>1. IsFiniteSet(Ratified(i)) /\ Cardinality(Ratified(i)) <= Cardinality(Ratified(i)')
      BY <2>3, <2>4, FS_Subset
    <3> QED
      BY <3>1, <2>4, FS_CardinalityType
  <2>6. policy.min_ratifiers \in Nat
    BY DEF IInv, GovTypeOK, PolicyRows
  <2> QED
    BY <2>1, <2>5, <2>6
<1>17. GovTypeOK'
  <2>1. calls' \in [Processes -> CallRows]
    BY <1>2, <1>4, IdleFollows DEF Goes
  <2> QED
    BY <1>4, <1>5, <1>10, <2>1 DEF IInv, GovTypeOK, Attaching
<1> QED
  BY <1>9, <1>10, <1>13, <1>14, <1>15, <1>16, <1>17 DEF IInv
\* A close begins without a look at the policy.
LEMMA BeginCloseKeeps ==
  ASSUME IInv, NEW t \in Threads, BeginClose(t)
  PROVE  IInv'
<1> PICK a \in {Opener, conv.owner}, resolution \in Closings :
           Goes(t, [call |-> "close", by |-> a, resolution |-> resolution])
  BY DEF BeginClose
<1> DEFINE c == [call |-> "close", by |-> a, resolution |-> resolution]
<1>1. a \in Actors
  BY GovernanceAssumption DEF IInv, GovTypeOK, ConversationRows
<1>2. c \in CallRows
  BY <1>1, GovernanceAssumption DEF CallRows
<1>3. Follows(t, c, << >>)
  BY DEF Follows
<1> QED
  BY <1>2, <1>3, LoopIsProcess, QuietAdvance DEF BeginClose

\* The ratifications a scan sees precede the end of the log.
LEMMA ScannedRatified ==
  ASSUME log \in Seq(EventRows)
  PROVE  /\ Cardinality(_ratify_events_by_actor) <= Cardinality(Ratified(Len(log) + 1))
         /\ Cardinality(_ratify_events_by_actor) \in Nat /\ Cardinality(Ratified(Len(log) + 1)) \in Nat
<1>1. Len(log) \in Nat /\ DOMAIN log = 1 .. Len(log) /\ Len(log) + 1 - 1 = Len(log)
  OBVIOUS
<1>2. Scanned \subseteq 1 .. Len(log)
  BY <1>1, GovernanceAssumption DEF Scanned, Smaller
<1>3. _ratify_events_by_actor \subseteq Ratified(Len(log) + 1)
  BY <1>1, <1>2 DEF _ratify_events_by_actor, Ratified
<1>4. Ratified(Len(log) + 1) \subseteq Everyone
  <2>1. \A k \in 1 .. Len(log) : log[k].by \in Everyone
    <3> SUFFICES ASSUME NEW k \in 1 .. Len(log) PROVE log[k].by \in Everyone
      OBVIOUS
    <3>1. log[k] \in EventRows
      BY <1>1
    <3> QED
      BY <3>1 DEF EventRows
  <2> QED
    BY <1>1, <2>1 DEF Ratified
<1>5. IsFiniteSet(Everyone)
  BY GovernanceAssumption, FS_AddElement DEF Everyone
<1>6. IsFiniteSet(Ratified(Len(log) + 1))
  BY <1>4, <1>5, FS_Subset
<1>7. /\ IsFiniteSet(_ratify_events_by_actor)
      /\ Cardinality(_ratify_events_by_actor) <= Cardinality(Ratified(Len(log) + 1))
  BY <1>3, <1>6, FS_Subset
<1> QED
  BY <1>6, <1>7, FS_CardinalityType

\* The closing event, and the columns it goes with.
LEMMA ClosesAdvances ==
  ASSUME IInv, NEW p \in Processes, NEW by \in Everyone, NEW resolution \in Resolutions, NEW warned \in 0..3,
         Closes(by, resolution, warned), Goes(p, Idle), UNCHANGED <<policy, agenda>>,
         by # System => (policy.close_policy = "quorum" =>
                           Cardinality(_ratify_events_by_actor) >= policy.min_ratifiers)
  PROVE  IInv'
<1> DEFINE e == [SystemEvent(by, "closed", <<>>, 0) EXCEPT !.note = "artifact"]
<1>1. log \in Seq(EventRows) /\ conv \in ConversationRows /\ policy \in PolicyRows
  BY DEF IInv, GovTypeOK
<1>2. e \in EventRows
  <2>1. SystemEvent(by, "closed", <<>>, 0) \in EventRows
    <3>1. "closed" \in OtherKinds /\ << >> \in Seq(Everyone)
      BY DEF OtherKinds
    <3> QED
      BY <3>1, SystemEventType
  <2> QED
    BY <2>1 DEF EventRows
<1>3. /\ e.by = by /\ e.kind = "closed" /\ e.reply = 0 /\ ~e.auto /\ ~is_speech_kind(e)
  BY DEF SystemEvent, is_speech_kind, SPEECH_KINDS
<1>4. /\ conv' = [conv EXCEPT !.state = "closed", !.resolution = resolution, !.closed_by = by, !.warned = warned]
      /\ Written(<<e>>)
  BY DEF Closes
<1> HIDE DEF e
<1>5. conv' \in ConversationRows
  BY <1>1, <1>4 DEF ConversationRows
<1>6. <<e>> \in Seq(EventRows) /\ DOMAIN <<e>> = {1} /\ <<e>>[1] = e
  BY <1>2
<1>7. participants' \subseteq Everyone
  BY <1>4, <1>6, NamedType DEF Written, IInv, GovTypeOK
<1>8. Lawful(1, e, p)
  <2>1. by # System /\ policy.close_policy = "quorum" => Cardinality(Ratified(Len(log) + 1)) >= policy.min_ratifiers
    <3>1. policy.min_ratifiers \in Nat
      BY <1>1 DEF PolicyRows
    <3> QED
      BY <3>1, <1>1, ScannedRatified
  <2> QED
    BY <1>1, <1>3, <2>1 DEF Lawful
<1>9. Advances(p, Idle, <<e>>)
  BY <1>4, <1>5, <1>6, <1>7, <1>8, IdleFollows DEF Advances, Written
<1> QED
  BY <1>6, <1>9, IdleFollows, AdvanceKeeps

\* The policy is looked at in the transaction that closes.
LEMMA WriteCloseKeeps ==
  ASSUME IInv, NEW t \in Threads, WriteClose(t)
  PROVE  IInv'
<1>1. t \in Processes /\ calls[t] \in CallRows /\ calls[t].call = "close"
  BY LoopIsProcess DEF WriteClose, IInv, GovTypeOK
<1>2. calls[t].by \in Everyone /\ calls[t].resolution \in Resolutions /\ conv.warned \in 0..3
  BY <1>1, CallFields DEF Everyone, IInv, GovTypeOK, ConversationRows
<1>3. CASE check_close_admissible(calls[t].by, calls[t].resolution)
  <2>1. Closes(calls[t].by, calls[t].resolution, conv.warned)
    BY <1>3 DEF WriteClose
  <2>2. policy.close_policy = "quorum" => Cardinality(_ratify_events_by_actor) >= policy.min_ratifiers
    BY <1>3 DEF check_close_admissible
  <2> QED
    BY <1>1, <1>2, <2>1, <2>2, ClosesAdvances DEF WriteClose
<1>4. CASE ~check_close_admissible(calls[t].by, calls[t].resolution)
  BY <1>1, <1>4, IdleFollows, QuietAdvance DEF WriteClose
<1> QED
  BY <1>3, <1>4

\* An abandonment begins with a look at the state.
LEMMA BeginAbandonKeeps ==
  ASSUME IInv, NEW p \in Processes, BeginAbandon(p)
  PROVE  IInv'
<1>1. [call |-> "abandon"] \in CallRows /\ Follows(p, [call |-> "abandon"], << >>)
  BY DEF CallRows, Follows
<1> QED
  BY <1>1, QuietAdvance DEF BeginAbandon

\* It is @system's, which needs no quorum.
LEMMA WriteAbandonKeeps ==
  ASSUME IInv, NEW p \in Processes, WriteAbandon(p)
  PROVE  IInv'
<1>1. CASE Closes(System, "abandoned", IF p = Loop THEN 3 ELSE conv.warned)
  <2>1. (IF p = Loop THEN 3 ELSE conv.warned) \in 0..3
    BY DEF IInv, GovTypeOK, ConversationRows
  <2>2. System \in Everyone /\ "abandoned" \in Resolutions
    BY DEF Everyone, Resolutions
  <2> QED
    BY <1>1, <2>1, <2>2, ClosesAdvances DEF WriteAbandon
<1>2. CASE UNCHANGED <<conv, participants, log>>
  BY <1>2, IdleFollows, QuietAdvance DEF WriteAbandon
<1> QED
  BY <1>1, <1>2 DEF WriteAbandon

-----------------------------------------------------------------------------
(* The loop *)

\* A handoff begins with a look at the row.
LEMMA BeginHandoffKeeps ==
  ASSUME IInv, BeginHandoff
  PROVE  IInv'
<1> PICK a \in {Opener, conv.owner}, new \in Heirs :
           Goes(Loop, [call |-> "handoff", by |-> a, new |-> new, row |-> conv])
  BY DEF BeginHandoff
<1> DEFINE c == [call |-> "handoff", by |-> a, new |-> new, row |-> conv]
<1>1. a \in Actors /\ new \in Actors /\ conv \in ConversationRows
  BY GovernanceAssumption DEF IInv, GovTypeOK, ConversationRows
<1>2. c \in CallRows
  BY <1>1 DEF CallRows
<1>3. Follows(Loop, c, << >>)
  BY DEF Follows
<1> QED
  BY <1>2, <1>3, LoopIsProcess, QuietAdvance DEF BeginHandoff

\* An event of the bridge is appended by the loop, which goes on to c.
LEMMA SystemEventKeeps ==
  ASSUME IInv, NEW c \in CallRows, Goes(Loop, c), UNCHANGED <<policy, agenda>>, conv' \in ConversationRows,
         c.call \notin {"speech", "emit", "attach"},
         NEW new \in Seq(EventRows), Written(new), \A i \in DOMAIN new : Lawful(i, new[i], Loop)
  PROVE  IInv'
<1>1. participants' \subseteq Everyone
  BY NamedType DEF Written, IInv, GovTypeOK
<1>2. Advances(Loop, c, new)
  BY <1>1 DEF Advances, Follows, Written
<1> QED
  BY <1>2, LoopIsProcess, AdvanceKeeps

\* Its event is no speech.
LEMMA WriteHandoffKeeps ==
  ASSUME IInv, WriteHandoff
  PROVE  IInv'
<1> DEFINE c == calls[Loop]
           e == SystemEvent(c.by, "handoff", <<c.new>>, 0)
<1>1. c \in CallRows /\ c.call = "handoff"
  BY LoopIsProcess DEF WriteHandoff, IInv, GovTypeOK
<1>2. c.by \in Actors /\ c.new \in Actors /\ c.row \in ConversationRows
  BY <1>1, CallFields
<1>3. e \in EventRows
  <2>1. c.by \in Everyone /\ <<c.new>> \in Seq(Everyone) /\ "handoff" \in OtherKinds
    BY <1>2 DEF Everyone, OtherKinds
  <2> QED
    BY <2>1, SystemEventType
<1>4. Lawful(1, e, Loop)
  <2>1. 0 <= Len(log) /\ "handoff" \in OtherKinds \ {"closed"} /\ c.by \in Everyone
    BY <1>2 DEF IInv, GovTypeOK, Everyone, OtherKinds
  <2> QED
    BY <2>1, SystemEventLawful
<1>5. /\ conv' = [conv EXCEPT !.owner = Column(@, c.row.owner, c.new),
                              !.expected = Column(@, c.row.expected, [who |-> c.new, at |-> FALSE])]
      /\ Written(<<e>>)
      /\ Goes(Loop, Idle) /\ UNCHANGED <<policy, agenda>>
  BY DEF WriteHandoff
<1>6. conv' \in ConversationRows
  <2>1. conv \in ConversationRows /\ [who |-> c.new, at |-> FALSE] \in Slots
    BY <1>2 DEF IInv, GovTypeOK, Slots
  <2> HIDE DEF c
  <2> QED
    BY <1>2, <1>5, <2>1 DEF Column, ConversationRows
<1> HIDE DEF e
<1>7. <<e>> \in Seq(EventRows) /\ \A i \in DOMAIN <<e>> : Lawful(i, <<e>>[i], Loop)
  BY <1>3, <1>4
<1> QED
  BY <1>5, <1>6, <1>7, IdleFollows, SystemEventKeeps DEF Idle

\* The idle sweep begins with a look at the row.
LEMMA BeginSweepKeeps ==
  ASSUME IInv, BeginSweep
  PROVE  IInv'
<1> PICK tier \in conv.warned + 1 .. 3 : Goes(Loop, [call |-> "sweep", tier |-> tier, row |-> conv])
  BY DEF BeginSweep
<1> DEFINE c == [call |-> "sweep", tier |-> tier, row |-> conv]
<1>1. conv \in ConversationRows /\ conv.warned \in 0..3
  BY DEF IInv, GovTypeOK, ConversationRows
<1>2. c \in CallRows
  BY <1>1 DEF CallRows
<1>3. Follows(Loop, c, << >>)
  BY DEF Follows
<1> QED
  BY <1>2, <1>3, LoopIsProcess, QuietAdvance DEF BeginSweep

\* One event several times over, or not at all.
LEMMA RepeatedEvent ==
  ASSUME NEW n \in Int, NEW e \in EventRows
  PROVE  /\ [i \in 1 .. n |-> e] \in Seq(EventRows)
         /\ \A i \in DOMAIN [j \in 1 .. n |-> e] : [j \in 1 .. n |-> e][i] = e
<1>1. CASE n \in Nat
  BY <1>1
<1>2. CASE n < 0
  <2>1. 1 .. n = 1 .. 0
    BY <1>2
  <2> QED
    BY <2>1
<1> QED
  BY <1>1, <1>2

\* Warnings are no speech.
LEMMA WriteSweepKeeps ==
  ASSUME IInv, WriteSweep
  PROVE  IInv'
<1> DEFINE row == calls[Loop].row
           tier == calls[Loop].tier
           level == Smaller(tier, 2)
           e == SystemEvent(System, "idle_warning", AddressOf(row.expected), 0)
           new == [i \in 1 .. level - row.warned |-> e]
           c == IF tier = 3 THEN [call |-> "expired"] ELSE Idle
<1>1. calls[Loop] \in CallRows /\ calls[Loop].call = "sweep"
  BY LoopIsProcess DEF WriteSweep, IInv, GovTypeOK
<1>2. row \in ConversationRows /\ tier \in 1..3
  BY <1>1, CallFields
<1>3. row.warned \in 0..3 /\ row.expected \in Slots /\ level \in 1..2
  BY <1>2 DEF ConversationRows, Smaller
<1>4. e \in EventRows
  <2>1. System \in Everyone /\ "idle_warning" \in OtherKinds /\ AddressOf(row.expected) \in Seq(Everyone)
    BY <1>3, AddressType DEF Everyone, OtherKinds
  <2> QED
    BY <2>1, SystemEventType
<1>5. \A i : Lawful(i, e, Loop)
  <2>1. 0 <= Len(log) /\ System \in Everyone
    BY DEF IInv, GovTypeOK, Everyone
  <2> QED
    BY <2>1, SystemEventLawful
<1>6. /\ Written(new) /\ Goes(Loop, c) /\ UNCHANGED <<policy, agenda>>
      /\ conv' = [conv EXCEPT !.warned = IF level > row.warned THEN level ELSE @]
  BY DEF WriteSweep
<1>7. conv' \in ConversationRows
  BY <1>3, <1>6 DEF IInv, GovTypeOK, ConversationRows
<1> HIDE DEF e, row, tier, level
<1>8. new \in Seq(EventRows) /\ \A i \in DOMAIN new : Lawful(i, new[i], Loop)
  <2>1. level - row.warned \in Int
    BY <1>3
  <2> QED
    BY <2>1, <1>4, <1>5, RepeatedEvent
<1>9. c \in CallRows /\ c.call \notin {"speech", "emit", "attach"}
  BY DEF CallRows, Idle
<1> HIDE DEF new, c
<1> QED
  BY <1>6, <1>7, <1>8, <1>9, SystemEventKeeps

\* A conversation that was closed meanwhile is left alone.
LEMMA SpareClosedKeeps ==
  ASSUME IInv, SpareClosed
  PROVE  IInv'
BY IdleFollows, LoopIsProcess, QuietAdvance DEF SpareClosed
-----------------------------------------------------------------------------
(* The sweepers *)

\* What is planned has not been deferred in sight of the sweep.
LEMMA PolicyPlanKeeps ==
  ASSUME IInv, PolicyPlan
  PROVE  IInv'
<1>1. log \in Seq(EventRows) /\ Scanned \subseteq DOMAIN log /\ Scanned \subseteq Nat
  BY GovernanceAssumption DEF IInv, GovTypeOK, Scanned, Smaller
<1>2. UNCHANGED <<policy, conv, participants, log, calls>> /\ calls[Loop] = Idle
  BY DEF PolicyPlan, LoopFree, Asked
<1>3. agenda' = _plan_defers_for_op
  BY DEF PolicyPlan
<1>4. \A d \in agenda' : /\ d \in [to : Actors, trigger : Nat] /\ d.trigger \in DOMAIN log
                         /\ ~Replied(d.trigger, d.to)
  BY <1>1, <1>3 DEF _plan_defers_for_op
<1>5. \A d \in agenda' : Undeferred(d.to, d.trigger)
  <2> SUFFICES ASSUME NEW d \in agenda', NEW j \in Scanned, log[j].auto, log[j].by = d.to, log[j].reply = d.trigger
               PROVE  FALSE
    BY DEF Undeferred
  <2>1. is_speech_kind(log[j])
    BY <1>1 DEF IInv, Deferring
  <2> QED
    BY <2>1, <1>4 DEF Replied
<1>6. GovTypeOK'
  BY <1>2, <1>4 DEF IInv, GovTypeOK
<1>7. Refs' /\ Attaching'
  BY <1>2, <1>4 DEF IInv, Refs, Attaching
<1>8. Deferring'
  <2>1. \A p \in Processes : ~(calls[p].call = "speech" /\ calls[p].request.auto)
    BY <1>2 DEF IInv, Deferring, Idle
  <2>2. \A d \in agenda' : Undeferred(d.to, d.trigger)'
    BY <1>2, <1>5 DEF Undeferred, Scanned
  <2> QED
    BY <1>2, <2>1, <2>2 DEF IInv, Deferring, is_speech_kind
<1>9. SpeechWithinCap' /\ ClosedByQuorum' /\ AutoDeferOnce'
  BY <1>2, SafetyKept DEF IInv
<1> QED
  BY <1>6, <1>7, <1>8, <1>9 DEF IInv

\* A planned defer leaves the agenda when it becomes a speech under way.
LEMMA EmitDeferKeeps ==
  ASSUME IInv, _emit_defer
  PROVE  IInv'
<1> PICK d \in agenda : /\ agenda' = agenda \ {d}
                        /\ IF conv.state = "open" THEN Reads(Loop, DeferOf(d)) ELSE UNCHANGED calls
  BY DEF _emit_defer
<1>1. /\ UNCHANGED <<policy, conv, participants, log>> /\ calls[Loop] = Idle
      /\ agenda \subseteq [to : Actors, trigger : Nat] /\ conv \in ConversationRows
      /\ calls \in [Processes -> CallRows] /\ log \in Seq(EventRows)
  BY DEF _emit_defer, IInv, GovTypeOK
<1>2. /\ d \in [to : Actors, trigger : Nat] /\ d.trigger \in DOMAIN log
      /\ Undeferred(d.to, d.trigger)
  BY <1>1 DEF IInv, Refs, Deferring
<1>3. CASE conv.state = "open"
  <2> DEFINE c == [call |-> "speech", request |-> DeferOf(d), row |-> conv]
  <2>1. DeferOf(d) \in Speeches
    <3>1. NoExpectation \in Expectations /\ "defer" \in SPEECH_KINDS
      BY DEF NoExpectation, Expectations, SPEECH_KINDS
    <3> QED
      BY <1>2, <3>1 DEF DeferOf, Speeches
  <2>2. c \in CallRows
    BY <1>1, <2>1 DEF CallRows
  <2>3. DeferOf(d).by = d.to /\ DeferOf(d).reply = d.trigger
    BY DEF DeferOf
  <2>4. \A b \in agenda' : b.to = d.to => b.trigger # d.trigger
    BY <1>1
  <2>5. Follows(Loop, c, << >>)
    BY <1>1, <1>2, <2>3, <2>4 DEF Follows
  <2>6. Goes(Loop, c)
    BY <1>3 DEF Reads
  <2> HIDE DEF c
  <2> QED
    BY <1>1, <2>2, <2>5, <2>6, LoopIsProcess, QuietAdvance
<1>4. CASE conv.state # "open"
  <2>1. calls' = calls /\ calls' = [calls EXCEPT ![Loop] = Idle]
    BY <1>1, <1>4, LoopIsProcess
  <2> QED
    BY <1>1, <2>1, IdleFollows, LoopIsProcess, QuietAdvance DEF Goes
<1> QED
  BY <1>3, <1>4

\* The escalation replies to an event of the log.
LEMMA ProgressTickKeeps ==
  ASSUME IInv, ProgressTick
  PROVE  IInv'
<1>1. log \in Seq(EventRows)
  BY DEF IInv, GovTypeOK
<1> PICK i \in DOMAIN log :
           LET target == infer_implicit_responder(log[i]) IN
           /\ target \notin {None, log[i].by}
           /\ Goes(Loop, [call |-> "emit", kind |-> IF Cardinality(Nudges(i)) >= MaxRetries THEN "defer" ELSE "nudge",
                          to |-> target, reply |-> i])
  BY DEF ProgressTick
<1> DEFINE target == infer_implicit_responder(log[i])
           kind == IF Cardinality(Nudges(i)) >= MaxRetries THEN "defer" ELSE "nudge"
           c == [call |-> "emit", kind |-> kind, to |-> target, reply |-> i]
<1>2. target \in Everyone
  <2>1. log[i] \in EventRows
    BY <1>1
  <2>2. /\ log[i].expects.from \in Seq(Actors) /\ log[i].to \in Seq(Everyone)
        /\ log[i].reply \in Nat /\ log[i].reply < i
    BY <2>1 DEF EventRows, Expectations, IInv, Refs
  <2>3. log[i].reply # 0 => log[i].reply \in DOMAIN log
    BY <1>1, <2>2
  <2>4. \A k \in DOMAIN log : log[k].by \in Everyone
    <3> SUFFICES ASSUME NEW k \in DOMAIN log PROVE log[k].by \in Everyone
      OBVIOUS
    <3>1. log[k] \in EventRows
      BY <1>1
    <3> QED
      BY <3>1 DEF EventRows
  <2>5. log[i].expects.from # << >> => Head(log[i].expects.from) \in Everyone
    BY <2>2 DEF Everyone
  <2>6. log[i].to # << >> => Head(log[i].to) \in Everyone
    BY <2>2
  <2> QED
    BY <2>3, <2>4, <2>5, <2>6 DEF infer_implicit_responder
<1>3. kind \in {"nudge", "defer"}
  OBVIOUS
<1> HIDE DEF target, kind
<1>4. c \in CallRows
  BY <1>1, <1>2, <1>3 DEF CallRows
<1>5. Follows(Loop, c, << >>)
  BY DEF Follows
<1>6. Goes(Loop, c)
  BY DEF target, kind
<1> HIDE DEF c
<1> QED
  BY <1>4, <1>5, <1>6, LoopIsProcess, QuietAdvance DEF ProgressTick

\* It is @system's, which the cap is not about, and no automatic defer.
LEMMA EmitSystemEventKeeps ==
  ASSUME IInv, emit_system_event
  PROVE  IInv'
<1> DEFINE c == calls[Loop]
           e == SystemEvent(System, c.kind, <<c.to>>, c.reply)
<1>1. c \in CallRows /\ c.call = "emit"
  BY LoopIsProcess DEF emit_system_event, IInv, GovTypeOK
<1>2. c.kind \in {"nudge", "defer"} /\ c.to \in Everyone /\ c.reply \in Nat
  BY <1>1, CallFields
<1>3. e \in EventRows
  <2>1. System \in Everyone /\ c.kind \in SPEECH_KINDS \cup OtherKinds /\ <<c.to>> \in Seq(Everyone)
    BY <1>2 DEF Everyone, SPEECH_KINDS, OtherKinds
  <2> QED
    BY <2>1, <1>2, SystemEventType
<1>4. Lawful(1, e, Loop)
  <2>1. c.reply <= Len(log) /\ System \in Everyone
    <3>1. c.reply \in DOMAIN log
      BY <1>1, LoopIsProcess DEF IInv, Refs
    <3> QED
      BY <3>1 DEF IInv, GovTypeOK, Everyone
  <2> QED
    BY <2>1, SystemEventLawful
<1>5. Written(<<e>>) /\ Goes(Loop, Idle) /\ UNCHANGED <<policy, conv, agenda>>
  BY DEF emit_system_event
<1> HIDE DEF e
<1>6. <<e>> \in Seq(EventRows) /\ \A i \in DOMAIN <<e>> : Lawful(i, <<e>>[i], Loop)
  BY <1>3, <1>4
<1>7. conv' \in ConversationRows
  BY <1>5 DEF IInv, GovTypeOK
<1> QED
  BY <1>5, <1>6, <1>7, IdleFollows, SystemEventKeeps DEF Idle

-----------------------------------------------------------------------------
(* Every step *)

\* Nothing changes when nothing does.
LEMMA StutterKeeps ==
  ASSUME IInv, UNCHANGED vars
  PROVE  IInv'
<1>1. UNCHANGED <<policy, conv, participants, log, calls, agenda>>
  BY DEF vars
<1>2. GovTypeOK' /\ Refs' /\ Attaching'
  BY <1>1 DEF IInv, GovTypeOK, Refs, Attaching
<1>3. Deferring'
  BY <1>1 DEF IInv, Deferring, Undeferred, Scanned, is_speech_kind
<1> QED
  BY <1>1, <1>2, <1>3, SafetyKept DEF IInv

\* The steps of a request keep the invariant.
LEMMA ThreadKeeps ==
  ASSUME IInv, NEW t \in Threads,
         \/ BeginSpeech(t) \/ WriteSpeech(t) \/ RefuseSpeech(t) \/ Attach(t)
         \/ BeginClose(t) \/ WriteClose(t) \/ BeginAbandon(t) \/ WriteAbandon(t)
  PROVE  IInv'
BY LoopIsProcess, BeginSpeechKeeps, WriteSpeechKeeps, RefuseSpeechKeeps, AttachKeeps,
   BeginCloseKeeps, WriteCloseKeeps, BeginAbandonKeeps, WriteAbandonKeeps

\* The steps of the event loop do.
LEMMA LoopKeeps ==
  ASSUME IInv, BeginHandoff \/ BeginSweep \/ PolicyPlan \/ ProgressTick \/ LoopStep
  PROVE  IInv'
<1>1. CASE LoopStep
  BY <1>1, LoopIsProcess, EmitDeferKeeps, WriteSpeechKeeps, RefuseSpeechKeeps, WriteHandoffKeeps,
     WriteSweepKeeps, BeginAbandonKeeps, WriteAbandonKeeps, SpareClosedKeeps, EmitSystemEventKeeps DEF LoopStep
<1> QED
  BY <1>1, BeginHandoffKeeps, BeginSweepKeeps, PolicyPlanKeeps, ProgressTickKeeps

\* Every step does.
LEMMA StepKeeps == IInv /\ [Next]_vars => IInv'
<1> SUFFICES ASSUME IInv, [Next]_vars PROVE IInv'
  OBVIOUS
<1>1. CASE Next
  BY <1>1, ThreadKeeps, LoopKeeps DEF Next
<1>2. CASE UNCHANGED vars
  BY <1>2, StutterKeeps
<1> QED
  BY <1>1, <1>2

\* So it always holds.
LEMMA Inductive == Spec => []IInv
BY InitHolds, StepKeeps, PTL DEF Spec

\* Rows, events and calls stay of their types however calls and sweepers interleave
\* (models.py, contract.py, repository.py insert_event).
THEOREM GovTypeCorrect == Spec => []GovTypeOK
<1>1. IInv => GovTypeOK
  BY DEF IInv
<1> QED
  BY <1>1, Inductive, PTL

\* However many requests are under way, nobody's speech is accepted beyond max_rounds
\* (policy_engine.py check_speech_admissible, within submit_speech's transaction).
THEOREM SpeechStaysWithinCap == Spec => []SpeechWithinCap
<1>1. IInv => SpeechWithinCap
  BY DEF IInv
<1> QED
  BY <1>1, Inductive, PTL

\* Whatever comes between, an actor's closing under the quorum policy has its ratifiers
\* before it (policy_engine.py _require_quorum_ratify, _is_close_intent_ratify).
THEOREM ClosingHasItsQuorum == Spec => []ClosedByQuorum
<1>1. IInv => ClosedByQuorum
  BY DEF IInv
<1> QED
  BY <1>1, Inductive, PTL

\* The policy sweep never defers twice for one actor and one event in sight, whatever is
\* written between its planning and its emitting (policy_sweeper.py _plan_defers_for_op, _emit_defer).
THEOREM DefersOnce == Spec => []AutoDeferOnce
<1>1. IInv => AutoDeferOnce
  BY DEF IInv
<1> QED
  BY <1>1, Inductive, PTL

-----------------------------------------------------------------------------
(* The progression sweep *)

\* Nobody but the loop sends an escalation, and the one on its way is the first defer,
\* or a nudge within the limit.
Escalating ==
  /\ \A p \in Processes : calls[p].call = "emit" => p = Loop
  /\ calls[Loop].call = "emit" =>
       /\ \A j \in Escalations(calls[Loop].reply) : log[j].kind # "defer"
       /\ calls[Loop].kind = "nudge" => Cardinality(Nudges(calls[Loop].reply)) < MaxRetries

\* An event that is no escalation.
Plain(e) == e.kind # "nudge" /\ (e.by = System => e.kind # "defer")

\* What the loop is emitting, if anything, was on its way before.
EmitsOn == calls'[Loop].call = "emit" => calls'[Loop] = calls[Loop]

\* The log grows by plain events, if at all.
Quietly(new) == log' = log \o new /\ \A k \in DOMAIN new : Plain(new[k])

\* The nudges for an event are looked for among the LaterLimit events after it.
LEMMA NudgesInSight ==
  ASSUME Len(log) \in Nat, Len(log') \in Nat, NEW i \in Nat
  PROVE  /\ Nudges(i) = {j \in i + 1 .. Len(log) :
                          j <= i + LaterLimit /\ log[j].kind = "nudge" /\ log[j].reply = i}
         /\ Nudges(i)' = {j \in i + 1 .. Len(log') :
                           j <= i + LaterLimit /\ log'[j].kind = "nudge" /\ log'[j].reply = i}
BY GovernanceAssumption DEF Nudges, Later, Smaller

\* While plain events are added, the escalations of the events in the log stay as they are.
LEMMA EscalationsAppended ==
  ASSUME IInv, NEW new \in Seq(EventRows), Quietly(new), NEW i \in DOMAIN log
  PROVE  /\ i \in DOMAIN log'
         /\ Nudges(i)' = Nudges(i) /\ Escalations(i)' = Escalations(i)
         /\ \A j \in Escalations(i) : log'[j] = log[j]
<1>1. log \in Seq(EventRows) /\ log' = log \o new /\ \A k \in DOMAIN new : Plain(new[k])
  BY DEF IInv, GovTypeOK, Quietly
<1>2. \A j \in DOMAIN log' \ DOMAIN log : Plain(log'[j])
  BY <1>1, AppendedLog
<1>3. \A j \in DOMAIN log : j \in DOMAIN log' /\ log'[j] = log[j]
  BY <1>1, AppendedLog
<1>4. Escalations(i)' = Escalations(i)
  BY <1>2, <1>3 DEF Escalations, Plain
<1>5. Nudges(i)' = Nudges(i)
  <2>1. /\ DOMAIN log = 1 .. Len(log) /\ DOMAIN log' = 1 .. Len(log')
        /\ Len(log) \in Nat /\ Len(log') \in Nat /\ Len(log) <= Len(log')
    BY <1>1, AppendedLog
  <2>0. /\ Nudges(i) = {j \in i + 1 .. Len(log) :
                          j <= i + LaterLimit /\ log[j].kind = "nudge" /\ log[j].reply = i}
        /\ Nudges(i)' = {j \in i + 1 .. Len(log') :
                           j <= i + LaterLimit /\ log'[j].kind = "nudge" /\ log'[j].reply = i}
    BY <2>1, NudgesInSight
  <2>2. i + 1 .. Len(log) \subseteq DOMAIN log /\ i + 1 .. Len(log) \subseteq i + 1 .. Len(log')
    BY <2>1
  <2>3. \A j \in i + 1 .. Len(log') : j \notin i + 1 .. Len(log) => j \in DOMAIN log' \ DOMAIN log
    BY <2>1
  <2>4. \A j \in i + 1 .. Len(log') : j \in Nudges(i)' => j \in Nudges(i)
    BY <2>0, <2>2, <2>3, <1>2, <1>3 DEF Plain
  <2>5. \A j \in i + 1 .. Len(log) : j \in Nudges(i) => j \in Nudges(i)'
    BY <2>0, <2>2, <1>3
  <2> QED
    BY <2>0, <2>4, <2>5, <2>2
<1> QED
  BY <1>3, <1>4, <1>5 DEF Escalations

\* Nobody has nudged for an event that has just come.
LEMMA NewEventsUnescalated ==
  ASSUME IInv, NEW new \in Seq(EventRows), Quietly(new), NEW i \in DOMAIN log' \ DOMAIN log
  PROVE  Nudges(i)' = {} /\ Escalations(i)' = {}
<1>1. log \in Seq(EventRows) /\ log' = log \o new /\ \A k \in DOMAIN new : Plain(new[k])
  BY DEF IInv, GovTypeOK, Quietly
<1>2. \A j \in DOMAIN log' \ DOMAIN log : Plain(log'[j])
  BY <1>1, AppendedLog
<1>3. \A j \in DOMAIN log : log'[j] = log[j] /\ log[j].reply \in Nat /\ log[j].reply < j
  <2> SUFFICES ASSUME NEW j \in DOMAIN log
               PROVE  log'[j] = log[j] /\ log[j].reply \in Nat /\ log[j].reply < j
    OBVIOUS
  <2>1. log[j] \in EventRows
    BY <1>1
  <2> QED
    BY <2>1, <1>1, AppendedLog DEF IInv, Refs, EventRows
<1>4. /\ DOMAIN log = 1 .. Len(log) /\ DOMAIN log' = 1 .. Len(log')
      /\ Len(log) \in Nat /\ Len(log') \in Nat
  BY <1>1, AppendedLog
<1>5. \A j \in DOMAIN log : log'[j].reply # i
  BY <1>3, <1>4
<1>6. Escalations(i)' = {}
  BY <1>2, <1>5 DEF Escalations, Plain
<1>7. Nudges(i)' = {}
  <2>1. i + 1 .. Len(log') \subseteq DOMAIN log' \ DOMAIN log
    BY <1>4
  <2> QED
    BY <2>1, <1>2, <1>4, NudgesInSight DEF Plain
<1> QED
  BY <1>6, <1>7

\* A step that adds plain events and begins no escalation keeps the limit.
LEMMA QuietKeepsEscalating ==
  ASSUME IInv, Escalating, EscalatesOnce, NEW new \in Seq(EventRows), Quietly(new), EmitsOn,
         \A p \in Processes : calls'[p].call = "emit" => p = Loop
  PROVE  Escalating' /\ EscalatesOnce'
<1>1. \A i \in DOMAIN log : /\ Nudges(i)' = Nudges(i) /\ Escalations(i)' = Escalations(i)
                            /\ \A j \in Escalations(i) : log'[j] = log[j]
  BY EscalationsAppended
<1>2. EscalatesOnce'
  <2> SUFFICES ASSUME NEW i \in DOMAIN log'
               PROVE  /\ Cardinality(Nudges(i)') <= MaxRetries
                      /\ \A j, k \in Escalations(i)' : log'[j].kind = "defer" => k <= j
    BY DEF EscalatesOnce, Nudges, Later, Escalations
  <2>1. CASE i \in DOMAIN log
    BY <2>1, <1>1 DEF EscalatesOnce
  <2>2. CASE i \notin DOMAIN log
    <3>1. Nudges(i)' = {} /\ Escalations(i)' = {}
      BY <2>2, NewEventsUnescalated
    <3> QED
      BY <3>1, FS_EmptySet, GovernanceAssumption
  <2> QED
    BY <2>1, <2>2
<1>3. Escalating'
  <2> SUFFICES ASSUME calls'[Loop].call = "emit"
               PROVE  /\ \A j \in Escalations(calls[Loop].reply)' : log'[j].kind # "defer"
                      /\ calls'[Loop].kind = "nudge" => Cardinality(Nudges(calls[Loop].reply)') < MaxRetries
    BY DEF Escalating, Escalations, Nudges, Later
  <2>1. calls'[Loop] = calls[Loop]
    BY DEF EmitsOn
  <2>2. PICK i \in DOMAIN log : i = calls[Loop].reply
    BY <2>1, LoopIsProcess DEF IInv, Refs
  <2>3. /\ \A j \in Escalations(i) : log[j].kind # "defer"
        /\ calls[Loop].kind = "nudge" => Cardinality(Nudges(i)) < MaxRetries
    BY <2>1, <2>2 DEF Escalating
  <2>4. /\ \A j \in Escalations(i)' : log'[j].kind # "defer"
        /\ calls'[Loop].kind = "nudge" => Cardinality(Nudges(i)') < MaxRetries
    BY <2>1, <2>3, <1>1
  <2> QED
    BY <2>1, <2>2, <2>4 DEF Nudges, Later, Escalations
<1> QED
  BY <1>2, <1>3

\* Any call that goes on to something else than an escalation, and adds plain events if any.
LEMMA CallKeepsEscalating ==
  ASSUME IInv, Escalating, EscalatesOnce, NEW p \in Processes, NEW c, Goes(p, c), c.call # "emit",
         NEW new \in Seq(EventRows), Quietly(new)
  PROVE  Escalating' /\ EscalatesOnce'
<1>1. calls \in [Processes -> CallRows] /\ calls' = [calls EXCEPT ![p] = c]
  BY DEF IInv, GovTypeOK, Goes
<1>2. \A q \in Processes : calls'[q] = IF q = p THEN c ELSE calls[q]
  BY <1>1
<1>3. EmitsOn /\ \A q \in Processes : calls'[q].call = "emit" => q = Loop
  BY <1>2, LoopIsProcess DEF EmitsOn, Escalating
<1> QED
  BY <1>3, QuietKeepsEscalating

\* A call that writes nothing to the log.
LEMMA SilentKeepsEscalating ==
  ASSUME IInv, Escalating, EscalatesOnce, NEW p \in Processes, NEW c, Goes(p, c), c.call # "emit", log' = log
  PROVE  Escalating' /\ EscalatesOnce'
<1>1. << >> \in Seq(EventRows) /\ Quietly(<< >>)
  BY DEF IInv, GovTypeOK, Quietly
<1> QED
  BY <1>1, CallKeepsEscalating

\* A speech is an actor's, and the notice that follows it no escalation.
LEMMA SpeechKeepsEscalating ==
  ASSUME IInv, Escalating, EscalatesOnce, NEW p \in Processes, WriteSpeech(p)
  PROVE  Escalating' /\ EscalatesOnce'
<1> DEFINE r == calls[p].request
           row == calls[p].row
           over == OverSpeech(row, r)
           new == <<EventOf(r)>> \o over
           c == IF r.note = "none" THEN Idle ELSE [call |-> "attach", event |-> Len(log) + 1, note |-> r.note]
<1>1. calls[p] \in CallRows /\ calls[p].call = "speech"
  BY DEF IInv, GovTypeOK, WriteSpeech
<1>2. r \in Speeches /\ row \in ConversationRows
  BY <1>1, CallFields
<1>3. EventOf(r) \in EventRows
  BY <1>2, SpeechEventType
<1>4. Plain(EventOf(r))
  <2>1. r.by \in Actors /\ r.kind \in SPEECH_KINDS
    BY <1>2 DEF Speeches
  <2> QED
    BY <2>1, GovernanceAssumption DEF Plain, EventOf, SPEECH_KINDS
<1>5. /\ over \in Seq(EventRows) /\ Len(over) \in {0, 1}
      /\ \A i \in DOMAIN over : Plain(over[i])
  BY <1>2, OverSpeechType DEF Plain, SystemEvent
<1>6. log' = log \o new /\ Goes(p, c)
  BY DEF WriteSpeech, Written
<1> HIDE DEF over
<1>7. new \in Seq(EventRows) /\ \A i \in DOMAIN new : Plain(new[i])
  <2>1. EventOf(r) \in EventRows /\ over \in Seq(EventRows)
    BY <1>3, <1>5
  <2>2. new \in Seq(EventRows) /\ \A i \in DOMAIN new : new[i] = EventOf(r) \/ (i - 1 \in DOMAIN over /\ new[i] = over[i - 1])
    BY <2>1
  <2> QED
    BY <2>2, <1>4, <1>5
<1>8. c.call # "emit"
  BY DEF Idle
<1> HIDE DEF new, c
<1> QED
  BY <1>6, <1>7, <1>8, CallKeepsEscalating DEF Quietly

\* Nor is a closing.
LEMMA ClosingKeepsEscalating ==
  ASSUME IInv, Escalating, EscalatesOnce, NEW p \in Processes, NEW by \in Everyone, NEW resolution, NEW warned,
         Closes(by, resolution, warned), Goes(p, Idle)
  PROVE  Escalating' /\ EscalatesOnce'
<1> DEFINE e == [SystemEvent(by, "closed", <<>>, 0) EXCEPT !.note = "artifact"]
<1>1. e \in EventRows
  <2>1. SystemEvent(by, "closed", <<>>, 0) \in EventRows
    <3>1. "closed" \in OtherKinds /\ << >> \in Seq(Everyone)
      BY DEF OtherKinds
    <3> QED
      BY <3>1, SystemEventType
  <2> QED
    BY <2>1 DEF EventRows
<1>2. Plain(e)
  BY DEF Plain, SystemEvent
<1>3. log' = log \o <<e>>
  BY DEF Closes, Written
<1> HIDE DEF e
<1>4. <<e>> \in Seq(EventRows) /\ Quietly(<<e>>)
  BY <1>1, <1>2, <1>3 DEF Quietly
<1> QED
  BY <1>4, CallKeepsEscalating DEF Idle

\* The steps of a thread other than an attachment.
LEMMA ThreadKeepsEscalating ==
  ASSUME IInv, Escalating, EscalatesOnce, NEW t \in Threads,
         \/ BeginSpeech(t) \/ WriteSpeech(t) \/ RefuseSpeech(t)
         \/ BeginClose(t) \/ WriteClose(t) \/ BeginAbandon(t) \/ WriteAbandon(t)
  PROVE  Escalating' /\ EscalatesOnce'
<1>1. t \in Processes
  BY LoopIsProcess
<1>2. CASE BeginSpeech(t)
  <2>1. \E c : Goes(t, c) /\ c.call # "emit"
    BY <1>2 DEF BeginSpeech, Reads
  <2> QED
    BY <1>1, <1>2, <2>1, SilentKeepsEscalating DEF BeginSpeech
<1>3. CASE WriteSpeech(t)
  BY <1>1, <1>3, SpeechKeepsEscalating
<1>4. CASE RefuseSpeech(t)
  BY <1>1, <1>4, SilentKeepsEscalating DEF RefuseSpeech, Idle
<1>5. CASE BeginClose(t)
  <2>1. \E c : Goes(t, c) /\ c.call # "emit"
    BY <1>5 DEF BeginClose
  <2> QED
    BY <1>1, <1>5, <2>1, SilentKeepsEscalating DEF BeginClose
<1>6. CASE WriteClose(t)
  <2>1. calls[t].by \in Everyone
    <3>1. calls[t] \in CallRows /\ calls[t].call = "close"
      BY <1>1, <1>6 DEF WriteClose, IInv, GovTypeOK
    <3> QED
      BY <3>1, CallFields DEF Everyone
  <2>2. CASE log' = log
    BY <1>1, <1>6, <2>2, SilentKeepsEscalating DEF WriteClose, Idle
  <2>3. CASE Closes(calls[t].by, calls[t].resolution, conv.warned)
    BY <1>1, <1>6, <2>1, <2>3, ClosingKeepsEscalating DEF WriteClose
  <2> QED
    BY <1>6, <2>2, <2>3 DEF WriteClose
<1>7. CASE BeginAbandon(t)
  BY <1>1, <1>7, SilentKeepsEscalating DEF BeginAbandon
<1>8. CASE WriteAbandon(t)
  <2>1. CASE log' = log
    BY <1>1, <1>8, <2>1, SilentKeepsEscalating DEF WriteAbandon, Idle
  <2>2. CASE Closes(System, "abandoned", IF t = Loop THEN 3 ELSE conv.warned)
    BY <1>1, <1>8, <2>2, ClosingKeepsEscalating DEF WriteAbandon, Everyone
  <2> QED
    BY <1>8, <2>1, <2>2 DEF WriteAbandon
<1> QED
  BY <1>2, <1>3, <1>4, <1>5, <1>6, <1>7, <1>8

\* An attachment changes no author, no kind and no reply.
LEMMA AttachKeepsEscalating ==
  ASSUME IInv, Escalating, EscalatesOnce, NEW t \in Threads, Attach(t)
  PROVE  Escalating' /\ EscalatesOnce'
<1>1. log \in Seq(EventRows) /\ calls \in [Processes -> CallRows] /\ t \in Processes /\ t # Loop
  BY LoopIsProcess DEF IInv, GovTypeOK
<1>2. log' = [log EXCEPT ![calls[t].event].note = calls[t].note] /\ calls' = [calls EXCEPT ![t] = Idle]
  BY DEF Attach, Goes
<1>3. DOMAIN log' = DOMAIN log /\ Len(log') = Len(log)
  BY <1>1, <1>2
<1>4. \A j \in DOMAIN log : /\ log'[j].by = log[j].by /\ log'[j].kind = log[j].kind
                            /\ log'[j].reply = log[j].reply
  BY <1>1, <1>2 DEF EventRows
<1>5. \A q \in Processes : calls'[q] = IF q = t THEN Idle ELSE calls[q]
  BY <1>1, <1>2
<1>6. \A i \in DOMAIN log : Escalations(i)' = Escalations(i)
  BY <1>3, <1>4 DEF Escalations
<1>7. \A i \in DOMAIN log : Nudges(i)' = Nudges(i)
  <2> SUFFICES ASSUME NEW i \in DOMAIN log PROVE Nudges(i)' = Nudges(i)
    OBVIOUS
  <2>1. Len(log) \in Nat /\ i \in Nat /\ i + 1 .. Len(log) \subseteq DOMAIN log
    BY <1>1
  <2>2. /\ Nudges(i) = {j \in i + 1 .. Len(log) :
                          j <= i + LaterLimit /\ log[j].kind = "nudge" /\ log[j].reply = i}
        /\ Nudges(i)' = {j \in i + 1 .. Len(log') :
                           j <= i + LaterLimit /\ log'[j].kind = "nudge" /\ log'[j].reply = i}
    BY <2>1, <1>3, NudgesInSight
  <2> QED
    BY <2>1, <2>2, <1>3, <1>4
<1>8. EscalatesOnce'
  <2> SUFFICES ASSUME NEW i \in DOMAIN log
               PROVE  /\ Cardinality(Nudges(i)') <= MaxRetries
                      /\ \A j, k \in Escalations(i)' : log'[j].kind = "defer" => k <= j
    BY <1>3 DEF EscalatesOnce, Nudges, Later, Escalations
  <2>1. \A j \in Escalations(i) : log'[j].kind = log[j].kind
    BY <1>4 DEF Escalations
  <2> QED
    BY <2>1, <1>6, <1>7 DEF EscalatesOnce
<1>9. Escalating'
  <2>1. calls'[Loop] = calls[Loop] /\ \A q \in Processes : calls'[q].call = "emit" => q = Loop
    BY <1>1, <1>5, LoopIsProcess DEF Idle, Escalating
  <2> SUFFICES ASSUME calls'[Loop].call = "emit"
               PROVE  /\ \A j \in Escalations(calls[Loop].reply)' : log'[j].kind # "defer"
                      /\ calls'[Loop].kind = "nudge" => Cardinality(Nudges(calls[Loop].reply)') < MaxRetries
    BY <2>1 DEF Escalating, Escalations, Nudges, Later
  <2>2. PICK i \in DOMAIN log : i = calls[Loop].reply
    BY <2>1, LoopIsProcess DEF IInv, Refs
  <2>3. /\ \A j \in Escalations(i) : log[j].kind # "defer"
        /\ calls[Loop].kind = "nudge" => Cardinality(Nudges(i)) < MaxRetries
    BY <2>1, <2>2 DEF Escalating
  <2>4. \A j \in Escalations(i) : log'[j].kind = log[j].kind
    BY <1>4 DEF Escalations
  <2>5. /\ \A j \in Escalations(i)' : log'[j].kind # "defer"
        /\ calls'[Loop].kind = "nudge" => Cardinality(Nudges(i)') < MaxRetries
    BY <2>1, <2>3, <2>4, <1>6, <1>7
  <2> QED
    BY <2>1, <2>2, <2>5 DEF Nudges, Later, Escalations
<1> QED
  BY <1>8, <1>9

\* The loop's steps other than those of the progression sweep.
LEMMA LoopKeepsEscalating ==
  ASSUME IInv, Escalating, EscalatesOnce,
         \/ BeginHandoff \/ BeginSweep \/ PolicyPlan
         \/ _emit_defer \/ WriteSpeech(Loop) \/ RefuseSpeech(Loop) \/ WriteHandoff \/ WriteSweep
         \/ BeginAbandon(Loop) \/ WriteAbandon(Loop) \/ SpareClosed
  PROVE  Escalating' /\ EscalatesOnce'
<1>1. Loop \in Processes /\ calls \in [Processes -> CallRows]
  BY LoopIsProcess DEF IInv, GovTypeOK
<1>2. CASE BeginHandoff
  <2>1. \E c : Goes(Loop, c) /\ c.call # "emit"
    BY <1>2 DEF BeginHandoff
  <2> QED
    BY <1>1, <1>2, <2>1, SilentKeepsEscalating DEF BeginHandoff
<1>3. CASE BeginSweep
  <2>1. \E c : Goes(Loop, c) /\ c.call # "emit"
    BY <1>3 DEF BeginSweep
  <2> QED
    BY <1>1, <1>3, <2>1, SilentKeepsEscalating DEF BeginSweep
<1>4. CASE PolicyPlan
  <2>1. calls' = calls /\ calls[Loop] = Idle /\ log' = log
    BY <1>4 DEF PolicyPlan, LoopFree, Asked
  <2>2. Goes(Loop, Idle)
    BY <1>1, <2>1 DEF Goes
  <2> QED
    BY <1>1, <2>1, <2>2, SilentKeepsEscalating DEF Idle
<1>5. CASE _emit_defer
  <2>1. log' = log /\ calls[Loop] = Idle
    BY <1>5 DEF _emit_defer
  <2>2. PICK d \in agenda : IF conv.state = "open" THEN Reads(Loop, DeferOf(d)) ELSE UNCHANGED calls
    BY <1>5 DEF _emit_defer
  <2>3. CASE conv.state = "open"
    <3>1. \E c : Goes(Loop, c) /\ c.call # "emit"
      BY <2>2, <2>3 DEF Reads
    <3> QED
      BY <1>1, <2>1, <3>1, SilentKeepsEscalating
  <2>4. CASE conv.state # "open"
    <3>1. Goes(Loop, Idle)
      BY <1>1, <2>1, <2>2, <2>4 DEF Goes
    <3> QED
      BY <1>1, <2>1, <3>1, SilentKeepsEscalating DEF Idle
  <2> QED
    BY <2>3, <2>4
<1>6. CASE WriteSpeech(Loop)
  BY <1>1, <1>6, SpeechKeepsEscalating
<1>7. CASE RefuseSpeech(Loop)
  BY <1>1, <1>7, SilentKeepsEscalating DEF RefuseSpeech, Idle
<1>8. CASE WriteHandoff
  <2> DEFINE c == calls[Loop]
             e == SystemEvent(c.by, "handoff", <<c.new>>, 0)
  <2>1. c \in CallRows /\ c.call = "handoff"
    BY <1>1, <1>8 DEF WriteHandoff
  <2>2. c.by \in Everyone /\ <<c.new>> \in Seq(Everyone) /\ "handoff" \in OtherKinds
    BY <2>1, CallFields DEF Everyone, OtherKinds
  <2>3. e \in EventRows
    BY <2>2, SystemEventType
  <2>4. Plain(e)
    BY DEF Plain, SystemEvent
  <2>5. log' = log \o <<e>> /\ Goes(Loop, Idle)
    BY <1>8 DEF WriteHandoff, Written
  <2> HIDE DEF e
  <2>6. <<e>> \in Seq(EventRows) /\ Quietly(<<e>>)
    BY <2>3, <2>4, <2>5 DEF Quietly
  <2> QED
    BY <1>1, <2>5, <2>6, CallKeepsEscalating DEF Idle
<1>9. CASE WriteSweep
  <2> DEFINE row == calls[Loop].row
             tier == calls[Loop].tier
             level == Smaller(tier, 2)
             e == SystemEvent(System, "idle_warning", AddressOf(row.expected), 0)
             new == [i \in 1 .. level - row.warned |-> e]
             c == IF tier = 3 THEN [call |-> "expired"] ELSE Idle
  <2>1. calls[Loop] \in CallRows /\ calls[Loop].call = "sweep"
    BY <1>1, <1>9 DEF WriteSweep
  <2>2. row \in ConversationRows /\ tier \in 1..3
    BY <2>1, CallFields
  <2>3. row.warned \in 0..3 /\ row.expected \in Slots /\ level \in 1..2
    BY <2>2 DEF ConversationRows, Smaller
  <2>4. System \in Everyone /\ "idle_warning" \in OtherKinds /\ AddressOf(row.expected) \in Seq(Everyone)
    BY <2>3, AddressType DEF Everyone, OtherKinds
  <2>5. e \in EventRows
    BY <2>4, SystemEventType
  <2>6. Plain(e)
    BY DEF Plain, SystemEvent
  <2>7. log' = log \o new /\ Goes(Loop, c)
    BY <1>9 DEF WriteSweep, Written
  <2>8. c.call # "emit"
    BY DEF Idle
  <2> HIDE DEF e, row, tier, level
  <2>9. new \in Seq(EventRows) /\ \A i \in DOMAIN new : Plain(new[i])
    BY <2>3, <2>5, <2>6, RepeatedEvent
  <2> HIDE DEF new, c
  <2> QED
    BY <1>1, <2>7, <2>8, <2>9, CallKeepsEscalating DEF Quietly
<1>10. CASE BeginAbandon(Loop)
  BY <1>1, <1>10, SilentKeepsEscalating DEF BeginAbandon
<1>11. CASE WriteAbandon(Loop)
  <2>1. CASE log' = log
    BY <1>1, <1>11, <2>1, SilentKeepsEscalating DEF WriteAbandon, Idle
  <2>2. CASE Closes(System, "abandoned", IF Loop = Loop THEN 3 ELSE conv.warned)
    BY <1>1, <1>11, <2>2, ClosingKeepsEscalating DEF WriteAbandon, Everyone
  <2> QED
    BY <1>11, <2>1, <2>2 DEF WriteAbandon
<1>12. CASE SpareClosed
  BY <1>1, <1>12, SilentKeepsEscalating DEF SpareClosed, Idle
<1> QED
  BY <1>2, <1>3, <1>4, <1>5, <1>6, <1>7, <1>8, <1>9, <1>10, <1>11, <1>12

\* The sweep looks at the last speech, for which @system has thus not given up yet.
LEMMA TickKeepsEscalating ==
  ASSUME IInv, Escalating, EscalatesOnce, ProgressTick
  PROVE  Escalating' /\ EscalatesOnce'
<1>1. /\ log \in Seq(EventRows) /\ calls \in [Processes -> CallRows] /\ Loop \in Processes
      /\ log' = log
  BY LoopIsProcess DEF IInv, GovTypeOK, ProgressTick
<1> PICK i \in DOMAIN log :
           /\ IsLastSpeech(i)
           /\ Goes(Loop, [call |-> "emit", kind |-> IF Cardinality(Nudges(i)) >= MaxRetries THEN "defer" ELSE "nudge",
                          to |-> infer_implicit_responder(log[i]), reply |-> i])
  BY DEF ProgressTick
<1> DEFINE kind == IF Cardinality(Nudges(i)) >= MaxRetries THEN "defer" ELSE "nudge"
           c == [call |-> "emit", kind |-> kind, to |-> infer_implicit_responder(log[i]), reply |-> i]
<1>2. \A q \in Processes : calls'[q] = IF q = Loop THEN c ELSE calls[q]
  BY <1>1 DEF Goes
<1>3. EscalatesOnce'
  BY <1>1 DEF EscalatesOnce, Nudges, Later, Escalations
<1>4. \A j \in Escalations(i) : log[j].kind # "defer"
  <2> SUFFICES ASSUME NEW j \in Escalations(i), log[j].kind = "defer" PROVE FALSE
    OBVIOUS
  <2>1. j \in DOMAIN log /\ log[j].reply = i /\ is_speech_kind(log[j])
    BY DEF Escalations, is_speech_kind, SPEECH_KINDS
  <2>2. i < j
    BY <2>1 DEF IInv, Refs
  <2>3. j \in i + 1 .. Len(log)
    BY <1>1, <2>1, <2>2
  <2> QED
    BY <2>1, <2>3 DEF IsLastSpeech
<1>5. kind = "nudge" => Cardinality(Nudges(i)) < MaxRetries
  <2>1. Nudges(i) \subseteq i + 1 .. Len(log)
    BY <1>1, NudgesInSight
  <2>2. IsFiniteSet(i + 1 .. Len(log))
    BY <1>1, FS_Interval
  <2>3. Cardinality(Nudges(i)) \in Nat
    BY <2>1, <2>2, FS_Subset, FS_CardinalityType
  <2> QED
    BY <2>3, GovernanceAssumption
<1>6. Nudges(i)' = Nudges(i) /\ Escalations(i)' = Escalations(i)
  BY <1>1 DEF Nudges, Later, Escalations
<1> HIDE DEF kind
<1>7. calls'[Loop].reply = i /\ calls'[Loop].kind = kind
  BY <1>1, <1>2
<1>8. \A q \in Processes : calls'[q].call = "emit" => q = Loop
  BY <1>2 DEF Escalating
<1>9. /\ \A j \in Escalations(i)' : log'[j].kind # "defer"
      /\ calls'[Loop].kind = "nudge" => Cardinality(Nudges(i)') < MaxRetries
  BY <1>1, <1>4, <1>5, <1>6, <1>7
<1>10. Escalating'
  BY <1>7, <1>8, <1>9 DEF Escalating, Nudges, Later, Escalations
<1> QED
  BY <1>3, <1>10

\* Whatever was said meanwhile, the escalation that arrives is the next of its event.
LEMMA EmitKeepsEscalating ==
  ASSUME IInv, Escalating, EscalatesOnce, emit_system_event
  PROVE  Escalating' /\ EscalatesOnce'
<1> DEFINE c == calls[Loop]
           e == SystemEvent(System, c.kind, <<c.to>>, c.reply)
           n == Len(log) + 1
<1>1. /\ log \in Seq(EventRows) /\ calls \in [Processes -> CallRows] /\ Loop \in Processes
      /\ c \in CallRows /\ c.call = "emit"
  BY LoopIsProcess DEF emit_system_event, IInv, GovTypeOK
<1>2. c.kind \in {"nudge", "defer"} /\ c.to \in Everyone /\ c.reply \in Nat
  BY <1>1, CallFields
<1>3. e \in EventRows
  <2>1. System \in Everyone /\ c.kind \in SPEECH_KINDS \cup OtherKinds /\ <<c.to>> \in Seq(Everyone)
    BY <1>2 DEF Everyone, SPEECH_KINDS, OtherKinds
  <2> QED
    BY <2>1, <1>2, SystemEventType
<1>4. log' = log \o <<e>> /\ Goes(Loop, Idle)
  BY DEF emit_system_event, Written
<1>5. e.by = System /\ e.kind = c.kind /\ e.reply = c.reply
  BY DEF SystemEvent
<1>6. /\ c.reply \in DOMAIN log
      /\ \A j \in Escalations(c.reply) : log[j].kind # "defer"
      /\ c.kind = "nudge" => Cardinality(Nudges(c.reply)) < MaxRetries
  BY <1>1 DEF IInv, Refs, Escalating
<1>7. \A q \in Processes : calls'[q].call # "emit"
  BY <1>1, <1>4 DEF Escalating, Goes, Idle
<1>8. Escalating'
  BY <1>7, LoopIsProcess DEF Escalating
<1> HIDE DEF e
<1>9. /\ DOMAIN log = 1 .. Len(log) /\ DOMAIN log' = DOMAIN log \cup {n} /\ Len(log') = n
      /\ Len(log) \in Nat /\ n \notin DOMAIN log /\ n \in Nat
      /\ log'[n] = e /\ \A j \in DOMAIN log : log'[j] = log[j]
  BY <1>1, <1>3, <1>4
<1> HIDE DEF c
<1>10. ASSUME NEW i \in DOMAIN log'
       PROVE  \A j, k \in Escalations(i)' : log'[j].kind = "defer" => k <= j
  <2> SUFFICES ASSUME NEW j \in Escalations(i)', NEW k \in Escalations(i)', log'[j].kind = "defer"
               PROVE  k <= j
    OBVIOUS
  <2>1. j \in DOMAIN log' /\ k \in DOMAIN log' /\ log'[j].reply = i /\ log'[k].reply = i
    BY DEF Escalations
  <2>2. CASE j = n
    BY <2>1, <2>2, <1>9
  <2>3. CASE j # n /\ k # n
    <3>1. j \in DOMAIN log /\ k \in DOMAIN log /\ log'[j] = log[j] /\ log'[k] = log[k]
      BY <2>1, <2>3, <1>9
    <3>2. j \in Escalations(i) /\ k \in Escalations(i)
      BY <3>1 DEF Escalations
    <3>3. i \in DOMAIN log
      <4>1. log[j] \in EventRows
        BY <3>1, <1>1
      <4>2. i \in Nat /\ i < j
        BY <4>1, <3>1, <2>1 DEF IInv, Refs, EventRows
      <4> QED
        BY <4>2, <3>1, <1>9
    <3> QED
      BY <3>1, <3>2, <3>3 DEF EscalatesOnce
  <2>4. CASE j # n /\ k = n
    <3>1. j \in DOMAIN log /\ log'[j] = log[j] /\ i = c.reply
      BY <2>1, <2>4, <1>5, <1>9
    <3>2. j \in Escalations(c.reply) /\ log[j].kind = "defer"
      BY <3>1 DEF Escalations
    <3> QED
      BY <3>2, <1>6
  <2> QED
    BY <2>2, <2>3, <2>4
<1>11. ASSUME NEW i \in DOMAIN log'
       PROVE  Cardinality(Nudges(i)') <= MaxRetries
  <2>1. CASE i = n
    <3>1. Nudges(i)' = {}
      BY <2>1, <1>9, NudgesInSight
    <3> QED
      BY <3>1, FS_EmptySet, GovernanceAssumption
  <2>2. CASE i # n
    <3>1. i \in DOMAIN log /\ i + 1 .. n = (i + 1 .. Len(log)) \cup {n}
      BY <2>2, <1>9
    <3>2. i + 1 .. Len(log) \subseteq DOMAIN log
      BY <3>1, <1>9
    <3>0. /\ Nudges(i) = {j \in i + 1 .. Len(log) :
                            j <= i + LaterLimit /\ log[j].kind = "nudge" /\ log[j].reply = i}
          /\ Nudges(i)' = {j \in i + 1 .. n :
                             j <= i + LaterLimit /\ log'[j].kind = "nudge" /\ log'[j].reply = i}
      BY <3>1, <1>9, NudgesInSight
    <3>3. CASE i = c.reply /\ c.kind = "nudge"
      <4>1. Nudges(i)' \subseteq Nudges(i) \cup {n}
        BY <3>0, <3>1, <3>2, <1>9
      <4>2. Nudges(i) \subseteq DOMAIN log /\ IsFiniteSet(DOMAIN log)
        BY <3>0, <3>2, <1>9, FS_Interval
      <4>3. IsFiniteSet(Nudges(i)) /\ Cardinality(Nudges(i)) \in Nat
        BY <4>2, FS_Subset, FS_CardinalityType
      <4>4. /\ IsFiniteSet(Nudges(i) \cup {n})
            /\ Cardinality(Nudges(i) \cup {n}) = Cardinality(Nudges(i)) + 1
        BY <4>2, <4>3, <1>9, FS_AddElement
      <4>5. /\ Cardinality(Nudges(i)') <= Cardinality(Nudges(i) \cup {n})
            /\ Cardinality(Nudges(i)') \in Nat
        <5>1. IsFiniteSet(Nudges(i)')
          BY <4>1, <4>4, FS_Subset
        <5> QED
          BY <4>1, <4>4, <5>1, FS_Subset, FS_CardinalityType
      <4>6. Cardinality(Nudges(i)) < MaxRetries
        BY <3>3, <1>6
      <4> QED
        BY <4>3, <4>4, <4>5, <4>6, GovernanceAssumption
    <3>4. CASE ~(i = c.reply /\ c.kind = "nudge")
      <4>1. Nudges(i)' = Nudges(i)
        BY <3>0, <3>1, <3>2, <3>4, <1>5, <1>9
      <4> QED
        BY <3>1, <4>1 DEF EscalatesOnce
    <3> QED
      BY <3>3, <3>4
  <2> QED
    BY <2>1, <2>2
<1>12. EscalatesOnce'
  BY <1>10, <1>11 DEF EscalatesOnce, Nudges, Later, Escalations
<1> QED
  BY <1>8, <1>12

\* Every step of requests and sweeps.
LEMMA StepKeepsEscalating == IInv /\ Escalating /\ EscalatesOnce /\ [Next]_vars => Escalating' /\ EscalatesOnce'
<1> SUFFICES ASSUME IInv, Escalating, EscalatesOnce, [Next]_vars PROVE Escalating' /\ EscalatesOnce'
  OBVIOUS
<1>1. CASE Next
  <2>1. CASE ProgressTick
    BY <2>1, TickKeepsEscalating
  <2>2. CASE emit_system_event
    BY <2>2, EmitKeepsEscalating
  <2>3. CASE \E t \in Threads : Attach(t)
    BY <2>3, AttachKeepsEscalating
  <2> QED
    BY <1>1, <2>1, <2>2, <2>3, ThreadKeepsEscalating, LoopKeepsEscalating DEF Next, LoopStep
<1>2. CASE UNCHANGED vars
  <2>1. log' = log /\ calls' = calls
    BY <1>2 DEF vars
  <2> QED
    BY <2>1 DEF Escalating, EscalatesOnce, Escalations, Nudges, Later
<1> QED
  BY <1>1, <1>2

\* While speeches come in between a nudge's planning and its sending, an event is nudged for at
\* most progression_nudge_max_retries times among the later events a tick reads, and given up once,
\* for good (progression_sweeper.py tick, conversation_service.py emit_system_event).
THEOREM NudgesEnd == Spec => []EscalatesOnce
<1>1. Init => Escalating /\ EscalatesOnce
  <2> SUFFICES ASSUME Init PROVE Escalating /\ EscalatesOnce
    OBVIOUS
  <2>1. \A p \in Processes : calls[p].call # "emit"
    BY DEF Init, Idle
  <2>2. Escalating
    BY <2>1, LoopIsProcess DEF Escalating
  <2>3. PICK o \in Openings : log = <<SystemEvent(Opener, "opened", AddressOf(o.expected), 0)>>
    BY DEF Init
  <2>4. Len(log) = 1 /\ DOMAIN log = {1} /\ log[1].kind = "opened"
    BY <2>3 DEF SystemEvent
  <2>5. \A i \in DOMAIN log : Nudges(i) = {} /\ Escalations(i) = {}
    BY <2>4, GovernanceAssumption DEF Nudges, Later, Smaller, Escalations
  <2>6. Cardinality({}) = 0 /\ MaxRetries \in Nat
    BY FS_EmptySet, GovernanceAssumption
  <2>7. EscalatesOnce
    BY <2>5, <2>6 DEF EscalatesOnce
  <2> QED
    BY <2>2, <2>7
<1> QED
  BY <1>1, StepKeepsEscalating, Inductive, PTL DEF Spec
=============================================================================
