SPECIFICATION Spec
CONSTANTS
  NumActions = 2
  NumApprovals = 3
  Deciders = {d1, d2}
  MaxAttempts = 2
  DecideBudget = 3
  CrashBudget = 1
INVARIANTS
  ApprovedByHuman
  GatedIsAsked
  DecisionReachesAction
  PacketIsTrue
PROPERTIES
  DecidedStaysDecided
CHECK_DEADLOCK FALSE
