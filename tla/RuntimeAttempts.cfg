SPECIFICATION Spec
CONSTANTS
  NumWorkflows = 1
  Unsupported = {}
  Monitored = {}
  Pollers = {scheduler}
  Handlers = {request}
  Submitters = {}
  NoWorkflow = none
  MaxAttempts = 3
  BatchLimit = 1
  CrashBudget = 0
INVARIANT AtMostMaxAttempts
