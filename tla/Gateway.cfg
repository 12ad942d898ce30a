SPECIFICATION GatewaySpec
CONSTANTS
  Keys = {k1}
  Subjects = {k1}
  EnabledKeys = {k1}
  LimitedKeys = {k1}
  Agents = {a1}
  Handlers = {h1, h2}
  Payments = 2
  Methods = {"CreatePushConfig", "UpdatePushConfig", "DeletePushConfig", "GetTask"}
  Requests = {{"admin", "stream"}}
  AccessTTL = 1
  RefreshTTL = 1
  MaxTime = 2
  Callers = {c1, c2}
  WindowMs = 3
  LimiterTime = 5
  MaxRequests = 2
  MaxTokens = 5
  Tasks = {t1}
  ConfigIds = {i1}
  Urls = {u1, u2}
  NoRecord = NoRecord
  NoKey = NoKey
  Letters <- SampleLetters
SYMMETRY Interchangeable
INVARIANTS
  RateBound
  RefreshFamilies
  TokensInheritTheKey
  ReadAsWritten
PROPERTIES
  ConfigsChangedByKeyHolders
  ImplementsChains
CHECK_DEADLOCK FALSE
