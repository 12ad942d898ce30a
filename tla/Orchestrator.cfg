SPECIFICATION Spec
CONSTANTS
  Backend = "sqlite"
  TaskIds = {t1, t2, t3}
  Agents = {a1, a2}
  Stranger = Stranger
  NoAgent = NoAgent
  NoTask = NoTask
  ACLs = {{}, {a1}}
  MaxDepth = 2
  MaxRetries = 1
  Dispatcher = TRUE
  MaxRuns = 3
  MaxCrashes = 1
SYMMETRY Tasks
INVARIANTS
  WorkingHasRunner
  EventBalance
  DeadLettersExhausted
  HandoverBounded
  NoReturn
  CallerRespected
  TrailStopsAtEnd
PROPERTIES
  ImplementsLifecycle
CHECK_DEADLOCK FALSE
