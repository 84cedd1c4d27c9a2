\* The smallest instance that shows a terminal row leaving its terminal status.
CONSTANTS
  Tasks = {t1}
  Actors = {a1}
  Kinds = {k1}
  Priorities = {0}
  MaxLease = 1
  BatchSize = 1
  MaxClaims = 2
  None = None
SPECIFICATION FairSpec
PROPERTY TerminalIsFinal
CHECK_DEADLOCK FALSE
