SPECIFICATION FairSpec
CONSTANTS
  Checks = {c1}
  Workers = {w1}
  SyncIds = {s1, s2, s3, s4}
  Faults = {"crash", "provider", "redis", "redisLost", "stall"}
  Reports = {"running", "done", "failed"}
  MaxFaults = 1
  None = None
PROPERTIES
  BoughtCheckSettles
