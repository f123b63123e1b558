SPECIFICATION FairSpec
CONSTANTS
  NumWorkflows = 1
  Unsupported = {}
  Monitored = {}
  Pollers = {worker}
  Handlers = {}
  Submitters = {webhook}
  NoWorkflow = none
  MaxAttempts = 2
  BatchLimit = 1
  CrashBudget = 1
PROPERTY SurvivesRestarts
