SPECIFICATION FairSpec
CONSTANTS
  NumActions = 1
  NumApprovals = 1
  Deciders = {d1}
  MaxAttempts = 1
  DecideBudget = 1
  CrashBudget = 0
PROPERTIES
  WaitingResumes
CHECK_DEADLOCK FALSE
