\* One conversation, two workers, two calls at a time, one of which may break off.
CONSTANTS
  Resources = {t1}
  Actors = {a1, a2}
  Statuses = {"claimed"}
  MaxLease = 1
  MaxClaims = 2
  MaxApprovals = 1
  None = None
  Requests = {r1, r2}
  Opener = opener
  MaxBroken = 1
  Priority <- MCPriority
  Pool <- MCPool
SPECIFICATION ChatSpec
SYMMETRY Symmetric
INVARIANTS ChatTypeOK MirrorFollowsTask CompletionIsEvidenced CompletionIsAnnounced
PROPERTY ClosedIsFinal
CHECK_DEADLOCK FALSE
