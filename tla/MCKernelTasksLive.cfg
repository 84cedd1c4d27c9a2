\* More kinds than tasks, so that some poller always asks for a kind nothing is
\* queued of: its claim_next sweeps even when the bound on claims is reached.
CONSTANTS
  Tasks = {t1, t2}
  Actors = {a1}
  Kinds = {k1, k2, k3}
  Priorities = {0}
  MaxLease = 2
  BatchSize = 2
  MaxClaims = 2
  None = None
SPECIFICATION FairSpec
PROPERTY AbandonedIsReleased
CHECK_DEADLOCK FALSE
