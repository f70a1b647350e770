SPECIFICATION Spec
CONSTANTS
  Checks = {c1}
  Workers = {w1, w2}
  SyncIds = {s1, s2, s3}
  Faults = {"crash"}
  Reports = {"running", "done", "failed"}
  MaxFaults = 1
  None = None
SYMMETRY Symmetry
INVARIANT
  RefundAtMostOnce
