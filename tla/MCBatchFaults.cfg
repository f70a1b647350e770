SPECIFICATION Spec
CONSTANTS
  Children = {c1, c2, c3}
  Faults = {"redis", "db", "disk", "crash"}
  MaxFaults = 2
  None = None
SYMMETRY Symmetry
INVARIANTS
  CompletedOnce
  FailedMeansAllFailed
  ToldOutcomeHolds
