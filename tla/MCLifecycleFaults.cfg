SPECIFICATION Spec
CONSTANTS
  Checks = {c1}
  Workers = {w1, w2}
  SyncIds = {s1, s2, s3}
  Faults = {"provider", "db", "redis", "redisLost", "stall", "crash"}
  Reports = {"running", "done", "failed"}
  MaxFaults = 2
  None = None
SYMMETRY Symmetry
INVARIANTS
  TypeOK
  RefundFlagMatchesLedger
  FailureIsPaidBack
