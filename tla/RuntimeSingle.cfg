SPECIFICATION FairSpec
CONSTANTS
  NumWorkflows = 3
  Unsupported = {3}
  Monitored = {2}
  Pollers = {worker}
  Handlers = {}
  Submitters = {webhook}
  NoWorkflow = none
  MaxAttempts = 2
  BatchLimit = 1
  CrashBudget = 1
INVARIANTS GivesUpOnlyWhenExhausted AttemptsCountRuns AuditAccountsForRuns
PROPERTIES ImplementsLifecycle
