\* One caller after another: no interleaving is needed for the mirror to refuse.
CONSTANTS
  Resources = {t1}
  Actors = {a1}
  Statuses = {"claimed"}
  MaxLease = 1
  MaxClaims = 1
  MaxApprovals = 1
  None = None
  Requests = {r1}
  Opener = opener
  MaxBroken = 0
  Priority <- MCPriority
  Pool <- MCPool
SPECIFICATION ChatSpec
INVARIANT MirrorNeverRefuses
CHECK_DEADLOCK FALSE
