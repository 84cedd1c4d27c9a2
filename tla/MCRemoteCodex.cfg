\* A turn, its interrupt and a thread delete, one agent.
CONSTANTS
  c1 = c1
  c2 = c2
  c3 = c3
  Resources = {c1, c2, c3}
  Actors = {m1}
  Machine = m1
  Statuses = {"claimed"}
  MaxLease = 1
  MaxClaims = 1
  MaxApprovals = 0
  None = None
  Priority <- MCPriority
  Pool <- MCPool
  CommandType <- MCCommandType
SPECIFICATION CodexFairSpec
INVARIANTS CodexTypeOK RunAtMostOnce
PROPERTIES TaskEndsOnce WorkingEnds
CHECK_DEADLOCK FALSE
