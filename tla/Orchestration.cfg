SPECIFICATION OSpec
CONSTANTS
  Workflows = {w1, w2}
  Kinds = {k1}
  MaxRetries = 2
  AttemptBound = 4
  ForceBudget = 1
  Tasks = {t1}
  BaseBackoff = 1
  Multiplier = 2
  MaxBackoff = 3
  JitterPct = 10
SYMMETRY WorkflowSymmetry
INVARIANTS
  PendingHasAttemptLeft
  EscalatedOnceForGood
  EveryRunAccounted
PROPERTIES
  ImplementsAtomicRun
  AnnouncedMoves
  BackoffNeverShortens
CHECK_DEADLOCK FALSE
