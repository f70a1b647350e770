SPECIFICATION Spec
CONSTANTS
  Checks = {c1, c2}
  Workers = {w1, w2}
  SyncIds = {s1, s2, s3, s4}
  Faults = {"provider", "db", "redis"}
  Reports = {"queued", "running", "done", "failed"}
  MaxFaults = 2
  None = None
SYMMETRY Symmetry
INVARIANTS
  RefundAtMostOnce
  OneDriver
PROPERTIES
  KeepsSettlement
