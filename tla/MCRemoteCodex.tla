--------------------------- MODULE MCRemoteCodex ---------------------------
(* Small instances of RemoteCodex for TLC. *)
EXTENDS RemoteCodex

CONSTANTS c1, c2, c3

MCPriority    == [t \in Resources |-> 2]
MCPool        == [t \in Resources |-> "browser"]
MCCommandType == [c \in Resources |-> CASE c = c1 -> "turn.start"
                                        [] c = c2 -> "turn.interrupt"
                                        [] OTHER  -> "thread.delete"]
=============================================================================
