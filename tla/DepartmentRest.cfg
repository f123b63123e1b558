SPECIFICATION FairSpec
CONSTANTS
  Schedules = {daily}
  NoSchedule = none
  DueAtOnce = {daily}
  Launcher = launcher
  Scheduler = scheduler
  Pollers = {worker}
  Requests = {manual}
  Operators = {operator}
  DueBudget = 1
  PendingLimit = 1
  CrashBudget = 1
PROPERTIES StoppedComesToRest
