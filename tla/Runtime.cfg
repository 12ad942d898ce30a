SPECIFICATION RuntimeSpec
CONSTANTS
  Services = {"plugins", "realtime", "payments", "consensus", "specialists",
              "elicitation", "bridge"}
  p1 = p1
  p2 = p2
  d1 = d1
  d2 = d2
  c1 = c1
  c2 = c2
  r1 = r1
  r2 = r2
  t1 = t1
  t2 = t2
  l1 = l1
  l2 = l2
  l3 = l3
  s1 = s1
  s2 = s2
  NoPlugin = NoPlugin
  Plugins <- MCPlugins
  MaxCalls = 3
  MaxEmits = 1
  Connections <- MCConnections
  Rooms <- MCRooms
  Agents = {me, w}
  Delegator = me
  Workers = {w}
  Charging = {w}
  Delegations <- MCDelegations
  Cards <- MCCards
  MaxCards = 1
  Surcharges = {0, 1}
  RefillThreshold = 1
  RefillAmount = 2
  CardThreshold = 1
  MaxMints = 3
  FundingSource = FundingSource
  NoPrice = NoPrice
  Unfetched = Unfetched
  NoToken = NoToken
  Rates = {25, 100}
  Shares = {0, 100}
  Threshold = 7000
  MinAgents = 2
  MaxInputs = 2
  Missing = Missing
  Tasks <- MCTasks
  Served <- MCServed
  ToolCalls <- MCToolCalls
  NoCall = NoCall
  Lines <- MCLines
  Sessions <- MCSessions
  NoSession = NoSession
SYMMETRY MCSymmetry
CHECK_DEADLOCK FALSE
INVARIANTS
  SubscriptionsTracked
  EventsHeardAsDue
  RoomMembersConnected
  ReceiptPaysOnce
  BalancesAccounted
  LostPaymentWasStale
  VerdictsRestOnAnswers
  TasksEndAnswered
  AcceptanceWasGiven
  SessionsHoldExchanges
