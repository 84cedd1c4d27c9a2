CONSTANTS
  planner = planner
  coder = coder
  w1 = w1
  w2 = w2
  files = files
  None = None
  Agents = {planner, coder}
  Workers = {w1, w2}
  Crew <- MCCrew
  Role <- MCRole
  Planner = planner
  PlannerByName = TRUE
  Curator = planner
  MaxParallel = 1
  Scopes <- MCScopes
  MaxJobs = 3
  MaxTasks = 2
  MaxHandoffs = 2
  MaxEpoch = 2

SYMMETRY WorkerSymmetry
SPECIFICATION Spec

PROPERTY
  LateReportKeepsCard

CHECK_DEADLOCK FALSE
