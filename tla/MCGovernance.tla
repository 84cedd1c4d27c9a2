---------------------------- MODULE MCGovernance ----------------------------
(* One operation of an opener, an addressee and an outsider, under a quorum or a free policy. *)
EXTENDS Governance
CONSTANTS alice, bob, carol

Ask(kinds, by) == [from |-> <<bob>>, kinds |-> kinds, by |-> by]
Say(by, kind, to, reply, expects, note) ==
  [by |-> by, kind |-> kind, to |-> to, at |-> TRUE, reply |-> reply, expects |-> expects, note |-> note,
   auto |-> FALSE]

MCRequests == {
  Say(alice, "question", <<>>, 0, Ask({"answer"}, 3), "none"),
  Say(bob, "evidence", <<>>, 2, NoExpectation, "artifact"),
  Say(alice, "ratify", <<>>, 0, NoExpectation, "close"),
  Say(bob, "ratify", <<>>, 2, NoExpectation, "close"),
  Say(carol, "join", <<>>, 0, NoExpectation, "none")}

Free == [max_rounds |-> 1, close_policy |-> "any_participant", min_ratifiers |-> 0, requires_artifact |-> TRUE,
         join_policy |-> "open"]
Quorum == [max_rounds |-> 3, close_policy |-> "quorum", min_ratifiers |-> 2, requires_artifact |-> FALSE,
           join_policy |-> "invite_only"]
MCOpenings == {[policy |-> Free, expected |-> NoSlot],
               [policy |-> Quorum, expected |-> [who |-> bob, at |-> FALSE]]}
=============================================================================
