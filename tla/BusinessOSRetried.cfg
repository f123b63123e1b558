SPECIFICATION Spec
CONSTANTS
  Workflows = {w1, w2}
  Kinds = {k1}
  MaxRetries = 1
  AttemptBound = 3
  ForceBudget = 1
PROPERTIES
  RetriedCanBePickedUp
CHECK_DEADLOCK FALSE
