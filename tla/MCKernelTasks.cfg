\* Two tasks of two kinds and two priorities, two workers, sweeps that see the
\* whole table; three claims let a task be claimed again while the other is held.
CONSTANTS
  Tasks = {t1, t2}
  Actors = {a1, a2}
  Kinds = {k1, k2}
  Priorities = {0, 1}
  MaxLease = 2
  BatchSize = 2
  MaxClaims = 3
  None = None
SPECIFICATION Spec
SYMMETRY Symmetric
INVARIANTS TypeOK
PROPERTIES SupersededIsRejected BestFirst ImplementsExclusiveLease
CHECK_DEADLOCK FALSE
