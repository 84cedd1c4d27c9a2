\* Two closes of one conversation, one worker, no call breaks off.
CONSTANTS
  Resources = {t1}
  Actors = {a1}
  Statuses = {"claimed"}
  MaxLease = 1
  MaxClaims = 1
  MaxApprovals = 1
  None = None
  Requests = {r1, r2}
  Opener = opener
  MaxBroken = 0
  Priority <- MCPriority
  Pool <- MCPool
SPECIFICATION ChatSpec
PROPERTY ClosedOnce
CHECK_DEADLOCK FALSE
