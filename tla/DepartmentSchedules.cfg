SPECIFICATION Spec
CONSTANTS
  Schedules = {daily, hourly}
  NoSchedule = none
  DueAtOnce = {daily}
  Launcher = launcher
  Scheduler = scheduler
  Pollers = {worker}
  Requests = {manual}
  Operators = {operator}
  DueBudget = 1
  PendingLimit = 1
  CrashBudget = 1
INVARIANTS
  FiresOncePerDue
PROPERTIES
  StoppedStaysStopped
  DisabledStaysDisabled
