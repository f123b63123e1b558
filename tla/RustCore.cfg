SPECIFICATION CoreSpec
CONSTANTS
  MaxTokens = 3
  RefillRate = 2
  RefillInterval = 2
  FailureThreshold = 2
  SuccessThreshold = 2
  Timeout = 2
  HalfOpenMax = 2
  Callers = {c1, c2, c3}
  MaxRequest = 5
  MaxTime = 6
  LossBudget = 1
  QueryLimit = 2
  DeskWorkflows = {w1, w2}
  ApprovalIds = {a1, a2}
  Deciders = {h1}
  OverdueAfter = 0
  DeskEnd = 2
  CoreEntries = 2
  Secrets = {k1, k2}
  NoSecret = none
  Window = 1
  Skew = 2
  AuthEnd = 4
  Sendings = 1
  U32 = 128
  Counts = {80, 130}
  Revenues = {1000000, 100000000}
  Minute = 1
  SigningKeys = {k1, k2}
  NoKey = none
  Edits = 2
  Most = 2
  Sessions = {s1, s2}
  Limit = 1
  ToolEnd = 6
  Checks = 4
  LoopSessions = {s1, s2}
  Found = {0, 2, 11}
  LoopRuns = 4
INVARIANTS
  RateBound
  RetryAfterSuffices
  ProbesBounded
  NeverWedged
  DecisionsAgree
  StaleNeverAccepted
  HonestAccepted
  CoresAgree
  SkillsAreKnownAndGuarded
  VerifiedWasSigned
  SignalsConsistent
PROPERTIES
  OpenUntilTimeout
  OverdueUntilDecided
  ShownStaysShown
  BetterLeadNeverScoresLess
  MirrorsEvaluate
CHECK_DEADLOCK FALSE
