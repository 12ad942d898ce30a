SPECIFICATION Spec
CONSTANTS
  Backend = "memory"
  TaskIds = {t1, t2}
  Subscribers = {s1}
  NoTask = NoTask
  UsedStates = {"submitted", "failed"}
  UsedKinds = {"answer"}
  MaxTrail = 2
  MaxMsgs = 1
  MaxRetryCount = 1
  MaxDLQ = 2
  MaxKills = 1
INVARIANTS
  TrailRecorded
CHECK_DEADLOCK FALSE
