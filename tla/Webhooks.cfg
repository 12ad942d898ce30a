SPECIFICATION Spec
CONSTANTS
  e1 = e1
  e2 = e2
  Events <- MCEvents
  Batch = 2
  TtlMs = 2
  MaxTime = 3
  MaxDeliveries = 3
  MaxChanges = 3
  MaxRestarts = 1
SYMMETRY MCSymmetry
CHECK_DEADLOCK FALSE
INVARIANTS
  HandledOncePerTtl
  DuplicatesWereAdmitted
  ReadMessagesOffered
  RegistrationFollowsServer
