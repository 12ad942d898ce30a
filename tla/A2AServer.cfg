SPECIFICATION Spec
CONSTANTS
  Requests = {r1, r2, r3}
  TaskIds = {t1}
  Callers = {c1, c2}
  NoRequest = NoRequest
  NoTask = NoTask
  StoreStates = {"working", "completed"}
SYMMETRY Interchangeable
INVARIANTS
  CountersMatch
  DrainedShutdownLeavesNobody
  WaiterHasSomethingToWaitFor
  StreamsTellTheEnd
PROPERTIES
  CancelReachesHandler
CHECK_DEADLOCK FALSE
