------------------------------ MODULE ChatTask ------------------------------
(***************************************************************************)
(* Task conversations of a chat room: ChatTaskCoordinator in               *)
(* nas_bridge/app/behaviors/chat/task_coordinator.py, with the opening and *)
(* the closing of conversations in conversation_service.py and the state   *)
(* of their protocol-v2 operations (kernel/v2/operation_mirror.py,         *)
(* state_machine.py, contract.py).                                         *)
(*                                                                         *)
(* A conversation owns a remote task (RemoteTasks, used unchanged) and is  *)
(* mirrored by an operation.  A call of the coordinator is a sequence of   *)
(* transactions: a check, the task service's own, the event with the       *)
(* operation's new state, the close.  The /v2/operations endpoints run in  *)
(* a thread pool, so the transactions of different calls interleave, and a *)
(* call can break off between two of them: the bridge stops, or the        *)
(* database stays locked for too long.                                     *)
(*                                                                         *)
(* SQLite locks the database at a transaction's first write.  An emit      *)
(* inserts its message before it looks at the operation and is one action; *)
(* a close looks at the conversation before it writes and is two.  The     *)
(* task service's transactions are one action each, as RemoteTasks has     *)
(* them.                                                                   *)
(*                                                                         *)
(* Left out: event texts, artifacts, notes, the idle clock (an abandonment *)
(* may come at any time), capabilities (any actor may call anything),      *)
(* expected_speaker and the kernel's own approval calls.  The closing      *)
(* policy is the default one.                                              *)
(***************************************************************************)
EXTENDS RemoteTasks

CONSTANTS
  Requests,     \* the threads that serve requests
  Opener,       \* opener_actor of every conversation
  MaxBroken     \* bound: calls that break off

ASSUME ChatTaskAssumption == /\ Opener # None
                             /\ MaxBroken \in Nat

VARIABLES
  conversations,  \* chat_conversations, each with its row of operations_v2
  calls,          \* per thread: the call it serves and the transaction due next
  broken          \* how many calls have broken off

chatVars == <<vars, conversations, calls, broken>>

Conversations == Tasks  \* a conversation is named by its bound_task_id

OperationStates == {"open", "claimed", "executing", "blocked_approval", "verifying", "closed"}
Resolutions     == {"completed", "failed", "cancelled", "abandoned"}
Calls           == {"claim", "heartbeat", "evidence", "complete", "fail",
                    "request", "approve", "deny", "interrupt", "close", "abandon"}
Steps           == {"add", "settle", "emit", "close", "write"}

ConversationRows == [state      : {"absent", "open", "closed"},
                     resolution : Resolutions \cup {None},
                     owner      : Actors \cup {Opener, None},
                     operation  : OperationStates,   \* operations_v2.state
                     evidence   : BOOLEAN]           \* it has a chat.task.evidence message

Idle == [call |-> "none", conv |-> None, actor |-> None, token |-> 0, at |-> "none"]

InFlight == [call : Calls, conv : Conversations, actor : Actors \cup {None},
             token : Nat, at : Steps]

ChatTypeOK == /\ TypeOK
              /\ conversations \in [Conversations -> ConversationRows]
              /\ calls \in [Requests -> InFlight \cup {Idle}]
              /\ broken \in 0 .. MaxBroken

ChatInit ==
  /\ Init
  /\ conversations = [t \in Conversations |->
       [state |-> "absent", resolution |-> None, owner |-> None,
        operation |-> "open", evidence |-> FALSE]]
  /\ calls = [r \in Requests |-> Idle]
  /\ broken = 0

-----------------------------------------------------------------------------
(* The operation's state graph *)

\* Mutant: a closed operation may be claimed again.
allowed_after_reopening(from) ==
  CASE from = "open"             -> {"claimed"}
    [] from = "claimed"          -> {"executing", "open"}
    [] from = "executing"        -> {"blocked_approval", "verifying", "claimed"}
    [] from = "blocked_approval" -> {"executing", "claimed"}
    [] from = "verifying"        -> {"executing"}
    [] from = "closed"           -> {"claimed"}

ALLOWED_TRANSITIONS(from) ==
  CASE from = "open"             -> {"claimed"}
    [] from = "claimed"          -> {"executing", "open"}
    [] from = "executing"        -> {"blocked_approval", "verifying", "claimed"}
    [] from = "blocked_approval" -> {"executing", "claimed"}
    [] from = "verifying"        -> {"executing"}
    [] from = "closed"           -> {}

\* Mutant: a completed task's operation is verified before it is closed.
target_of_completed(call, now) ==
  CASE call = "claim"                   -> "claimed"
    [] call \in {"evidence", "approve"} -> "executing"
    [] call = "request"                 -> "blocked_approval"
    [] call = "complete"                -> "verifying"
    [] OTHER                            -> now

\* The state a call's event takes the operation to: EVENT_KIND_TO_TARGET_STATE
\* and the coordinator's own choice for a resolved approval; now if it has none.
target_state(call, now) ==
  CASE call = "claim"                   -> "claimed"
    [] call \in {"evidence", "approve"} -> "executing"
    [] call = "request"                 -> "blocked_approval"
    [] OTHER                            -> now

\* transition_state lets the call's event through.
Transits(r) ==
  LET now    == conversations[calls[r].conv].operation
      target == target_state(calls[r].call, now)
  IN  target = now \/ target \in ALLOWED_TRANSITIONS(now)

-----------------------------------------------------------------------------
(* Opening and closing *)

\* open_conversation commits the task before the conversation that names it; the
\* bridge may stop, or the second commit fail, in between.  The request may name
\* another owner than the opener.
open_conversation(t) ==
  /\ create_task(t)
  /\ \/ UNCHANGED conversations
     \/ \E owner \in Actors \cup {Opener} :
          conversations' = [conversations EXCEPT ![t].state = "open", ![t].owner = owner]
  /\ UNCHANGED <<calls, broken>>

\* Mutant: the conversation is closed and its operation left to the mirror.
closed_unmirrored(t, resolution) ==
  [conversations EXCEPT ![t].state = "closed", ![t].resolution = resolution]

\* The row and its operation, closed in one transaction.
Closed(t, resolution) ==
  [conversations EXCEPT ![t].state = "closed", ![t].resolution = resolution,
                        ![t].operation = "closed"]

\* What close_conversation asks of a caller who does not bypass the guard: to be
\* the opener or the owner, and that the task is not at work.
MayClose(t, by) ==
  /\ by \in {Opener, conversations[t].owner}
  /\ tasks[t].status \in {"completed", "failed"}

-----------------------------------------------------------------------------
(* The first transaction of each call.  A call that is refused there leaves *)
(* nothing behind.                                                          *)

Bound(r, t) == calls[r] = Idle /\ conversations[t].state # "absent"

\* The call goes on as r's.  Who calls, and with which token, is kept only for
\* the calls that use it again.
Proceeds(r, call, t, a, n, step) ==
  calls' = [calls EXCEPT ![r] = [call |-> call, conv |-> t, actor |-> a, token |-> n,
                                 at |-> step]]

claim(r, t, a) ==
  /\ Bound(r, t)
  /\ \E lease \in 1 .. MaxLease : claim_task(t, a, lease)
  /\ Proceeds(r, "claim", t, a, 0, "emit")
  /\ UNCHANGED <<conversations, broken>>

heartbeat(r, t, a, n) ==
  /\ Bound(r, t)
  /\ \E lease \in 1 .. MaxLease, says \in HeartbeatSays : heartbeat_task(t, a, n, lease, says)
  /\ Proceeds(r, "heartbeat", t, None, 0, "emit")
  /\ UNCHANGED <<conversations, broken>>

\* The lease is looked up here and the evidence added by a later transaction.
\* The assignment need not be running.
evidence_check(r, t, a, n) ==
  /\ Bound(r, t)
  /\ \E c \in DOMAIN assignments[t] :
       /\ IsAssigned(t, c)
       /\ assignments[t][c].actor = a
       /\ assignments[t][c].token = n
  /\ Proceeds(r, "evidence", t, None, 0, "add")
  /\ UNCHANGED <<vars, conversations, broken>>

\* Mutant: evidence the task service accepted is enough.
complete_check_of_task(r, t, a, n) ==
  /\ Bound(r, t)
  /\ conversations[t].evidence \/ tasks[t].status = "executing"
  /\ Proceeds(r, "complete", t, a, n, "settle")
  /\ UNCHANGED <<vars, conversations, broken>>

\* At least one evidence message must exist.
complete_check(r, t, a, n) ==
  /\ Bound(r, t)
  /\ conversations[t].evidence
  /\ Proceeds(r, "complete", t, a, n, "settle")
  /\ UNCHANGED <<vars, conversations, broken>>

fail(r, t, a, n) ==
  /\ Bound(r, t)
  /\ fail_task(t, a, n)
  /\ Proceeds(r, "fail", t, None, 0, "emit")
  /\ UNCHANGED <<conversations, broken>>

request(r, t, a, n) ==
  /\ Bound(r, t)
  /\ request_approval(t, a, n)
  /\ Proceeds(r, "request", t, None, 0, "emit")
  /\ UNCHANGED <<conversations, broken>>

resolve(r, t, call) ==
  /\ Bound(r, t)
  /\ resolve_approval(t, IF call = "approve" THEN "approved" ELSE "denied")
  /\ Proceeds(r, call, t, None, 0, "emit")
  /\ UNCHANGED <<conversations, broken>>

interrupt(r, t, a, n) ==
  /\ Bound(r, t)
  /\ interrupt_task(t, a, n)
  /\ Proceeds(r, "interrupt", t, None, 0, "emit")
  /\ UNCHANGED <<conversations, broken>>

close_by_hand(r, t, by) ==
  /\ Bound(r, t)
  /\ conversations[t].state = "open"
  /\ MayClose(t, by)
  /\ Proceeds(r, "close", t, None, 0, "write")
  /\ UNCHANGED <<vars, conversations, broken>>

\* The third tier of sweep_idle_conversations and the operator's admin_abandon
\* bypass the guard.  The task is not told.
abandon(r, t) ==
  /\ Bound(r, t)
  /\ conversations[t].state = "open"
  /\ Proceeds(r, "abandon", t, None, 0, "write")
  /\ UNCHANGED <<vars, conversations, broken>>

-----------------------------------------------------------------------------
(* The later transactions *)

Due(r, step) == calls[r].at = step
GoesOn(r, step) == calls' = [calls EXCEPT ![r].at = step]
Ends(r) == calls' = [calls EXCEPT ![r] = Idle]

\* Added whatever has become of the lease since it was looked up.
evidence_add(r) ==
  /\ Due(r, "add")
  /\ IF tasks[calls[r].conv].status \in {"queued", "claimed"}
     THEN add_evidence(calls[r].conv) ELSE UNCHANGED vars
  /\ GoesOn(r, "emit")
  /\ UNCHANGED <<conversations, broken>>

\* A refused settlement ends the call.
complete_settle(r) ==
  LET c == calls[r] IN
  /\ Due(r, "settle")
  /\ \/ complete_task(c.conv, c.actor, c.token) /\ GoesOn(r, "emit")
     \/ UNCHANGED vars /\ Ends(r)
  /\ UNCHANGED <<conversations, broken>>

\* What _update_owner_and_emit leaves in the tables.  An operation that refuses
\* its new state takes the event and the new owner back with it; whether the
\* conversation is still open is not asked.
Emitted(r) ==
  LET c   == calls[r]
      row == conversations[c.conv]
  IN  IF ~Transits(r) THEN conversations
      ELSE [conversations EXCEPT ![c.conv] =
              [row EXCEPT !.owner     = IF c.call = "claim" THEN c.actor ELSE row.owner,
                          !.evidence  = row.evidence \/ c.call = "evidence",
                          !.operation = target_state(c.call, row.operation)]]

ClosesAfter(call) == call \in {"complete", "fail", "deny"}

emit(r) ==
  /\ Due(r, "emit")
  /\ conversations' = Emitted(r)
  /\ IF Transits(r) /\ ClosesAfter(calls[r].call) THEN GoesOn(r, "close") ELSE Ends(r)
  /\ UNCHANGED <<vars, broken>>

\* The close a settled call ends with: refused when somebody else closed the
\* conversation first.
close(r) ==
  /\ Due(r, "close")
  /\ IF conversations[calls[r].conv].state = "open" THEN GoesOn(r, "write") ELSE Ends(r)
  /\ UNCHANGED <<vars, conversations, broken>>

\* Mutant: the resolution is named after the call.
resolutions_as_called(call) == {call}

resolutions_of(call) == CASE call = "complete" -> {"completed"}
                          [] call = "fail"     -> {"failed"}
                          [] call = "deny"     -> {"cancelled"}
                          [] call = "abandon"  -> {"abandoned"}
                          [] OTHER             -> Resolutions

\* The state a close has read is not looked at again.
write_close(r) ==
  /\ Due(r, "write")
  /\ \E resolution \in resolutions_of(calls[r].call) :
       conversations' = Closed(calls[r].conv, resolution)
  /\ Ends(r)
  /\ UNCHANGED <<vars, broken>>

break_off(r) ==
  /\ calls[r] # Idle
  /\ broken < MaxBroken
  /\ broken' = broken + 1
  /\ Ends(r)
  /\ UNCHANGED <<vars, conversations>>

-----------------------------------------------------------------------------
Beside == Tick /\ UNCHANGED <<conversations, calls, broken>>

Opening == \E t \in Conversations : open_conversation(t)

Calling == \E r \in Requests, t \in Conversations :
  \/ \E a \in Actors :
       \/ claim(r, t, a)
       \/ \E n \in 1 .. drawn :
            \/ heartbeat(r, t, a, n)
            \/ evidence_check(r, t, a, n)
            \/ complete_check(r, t, a, n)
            \/ fail(r, t, a, n)
            \/ request(r, t, a, n)
            \/ interrupt(r, t, a, n)
  \/ \E call \in {"approve", "deny"} : resolve(r, t, call)
  \/ \E by \in Actors \cup {Opener} : close_by_hand(r, t, by)
  \/ abandon(r, t)

Proceeding == \E r \in Requests :
  \/ evidence_add(r) \/ complete_settle(r)
  \/ emit(r) \/ close(r) \/ write_close(r)
  \/ break_off(r)

ChatNext == Opening \/ Calling \/ Proceeding \/ Beside

ChatSpec == ChatInit /\ [][ChatNext]_chatVars

-----------------------------------------------------------------------------
(* Properties *)

\* A closed conversation stays closed, with its operation, and keeps its owner,
\* whatever calls were under way; only a close that had read it open can still
\* change its resolution.  Nothing in the coordinator looks at the conversation's
\* state: the operation's graph alone keeps late calls out.
ClosedIsFinal ==
  [][\A t \in Conversations : conversations[t].state = "closed" =>
       /\ conversations'[t].state     = "closed"
       /\ conversations'[t].operation = "closed"
       /\ conversations'[t].owner     = conversations[t].owner
       /\ \/ conversations'[t].resolution = conversations[t].resolution
          \/ \E r \in Requests : calls[r].at = "write" /\ calls[r].conv = t]_chatVars

\* The conversation and its operation never run ahead of the task: closed together;
\* the owner of an operation that left "open" was granted a claim of the task, and
\* an outcome other than abandonment comes from one; a blocked operation comes from
\* an approval that was requested.
MirrorFollowsTask == \A t \in Conversations :
  LET row == conversations[t] IN
  /\ (row.state = "closed") <=> (row.operation = "closed")
  /\ row.operation \notin {"open", "closed"} =>
       \E i \in DOMAIN assignments[t] : assignments[t][i].actor = row.owner
  /\ row.resolution \notin {"abandoned", None} => assignments[t] # << >>
  /\ row.operation = "blocked_approval" => approvals[t] # << >>

\* No task is reported complete unless a message of the conversation shows evidence,
\* although the check and the report are two transactions.
CompletionIsEvidenced == \A t \in Conversations :
  tasks[t].status = "completed" => conversations[t].evidence

\* A task that was reported complete has its conversation closed, or a call is
\* still about to close it, unless a call broke off: nobody else would close it.
CompletionIsAnnounced == \A t \in Conversations :
  tasks[t].status = "completed" =>
    \/ conversations[t].state = "closed"
    \/ \E r \in Requests : /\ calls[r].conv = t
                           /\ calls[r].call = "complete"
                           /\ calls[r].at \in {"emit", "close", "write"}
    \/ broken > 0

\* The mirror's comment: the graph permits what the coordinator and the task
\* service permit.  An event the task service has acted on is never refused
\* while the conversation is open.
MirrorNeverRefuses == \A r \in Requests :
  /\ calls[r].at = "emit"
  /\ conversations[calls[r].conv].state = "open"
  => Transits(r)

\* What the comment keeps: a claim that was granted reaches the operation, unless its call broke
\* off, and while the conversation is open no other event is refused than a request for approval
\* before the work has begun, or one that overtook the event of its claim.
ClaimIsAnnounced == \A t \in Conversations :
  assignments[t] # << >> /\ conversations[t].operation = "open" =>
    (\E r \in Requests : calls[r].conv = t /\ calls[r].call = "claim" /\ calls[r].at = "emit") \/ broken > 0

RefusesOnlyEarlyEvents == \A r \in Requests :
  LET row == conversations[calls[r].conv] IN
  calls[r].at = "emit" /\ row.state = "open" /\ ~Transits(r) =>
    \/ calls[r].call = "request" /\ row.operation \in {"open", "claimed"}
    \/ calls[r].call \in {"evidence", "approve"} /\ row.operation = "open"

\* "Closed once, however many try together": the second close is refused with
\* "conversation already closed".
ClosedOnce ==
  [][\A t \in Conversations : conversations[t].state = "closed" =>
       conversations'[t].resolution = conversations[t].resolution]_chatVars
=============================================================================
