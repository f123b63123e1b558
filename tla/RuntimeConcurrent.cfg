SPECIFICATION FairSpec
CONSTANTS
  NumWorkflows = 1
  Unsupported = {}
  Monitored = {}
  Pollers = {scheduler, worker}
  Handlers = {request}
  Submitters = {}
  NoWorkflow = none
  MaxAttempts = 2
  BatchLimit = 1
  CrashBudget = 0
INVARIANTS TypeOK FailedIsEscalated WaitingHasApproval AuditAccountsForRuns
PROPERTIES ComesToRest
