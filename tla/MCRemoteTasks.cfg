\* One task, a history of three leases held by two actors, one approval.
CONSTANTS
  Resources = {t1}
  Actors = {a1, a2}
  Statuses = {"claimed"}
  MaxLease = 1
  MaxClaims = 3
  MaxApprovals = 1
  None = None
  Priority <- MCPriority
  Pool <- MCPool
SPECIFICATION Spec
SYMMETRY Symmetric
INVARIANTS TypeOK OnlyNewestIsLive LeaseIsAssignment StatusAgreesWithLease NoGhostApproval
PROPERTIES PredecessorsTokenIsRefused ImplementsLeases
CHECK_DEADLOCK FALSE
