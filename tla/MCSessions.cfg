CONSTANTS
  agent = agent
  w1 = w1
  w2 = w2
  l1 = l1
  None = None
  Agents = {agent}
  Workers = {w1, w2}
  Crew <- MCCrew
  Role <- MCRole
  Planner = None
  PlannerByName = TRUE
  Curator = None
  MaxParallel = 1
  Scopes = {}
  MaxJobs = 1
  MaxTasks = 0
  MaxHandoffs = 0
  MaxEpoch = 1
  Launchers = {l1}
  Host <- MCHost
  RestoreLastSession = FALSE
  MaxFaults = 1

SPECIFICATION SessionFairSpec

INVARIANTS
  SessionTypeOK
PROPERTIES
  ImplementsSessionJobs
  TakenOnlyFromTheDead
  OrphanEnds
  ServedAgain
  ClosedDrains

CHECK_DEADLOCK FALSE
