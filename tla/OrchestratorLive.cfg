SPECIFICATION FairSpec
CONSTANTS
  Backend = "sqlite"
  TaskIds = {t1, t2}
  Agents = {a1, a2}
  Stranger = Stranger
  NoAgent = NoAgent
  NoTask = NoTask
  ACLs = {{}, {a1}}
  MaxDepth = 1
  MaxRetries = 1
  Dispatcher = TRUE
  MaxRuns = 2
  MaxCrashes = 1
PROPERTIES
  WorkEnds
CHECK_DEADLOCK FALSE
