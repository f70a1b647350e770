SPECIFICATION Spec
CONSTANTS
  Children = {c1, c2}
  Faults = {}
  MaxFaults = 0
  None = None
INVARIANT
  CompletedHasOutcome
