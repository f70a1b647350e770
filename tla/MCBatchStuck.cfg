SPECIFICATION FairSpec
CONSTANTS
  Children = {c1, c2}
  Faults = {"crash"}
  MaxFaults = 1
  None = None
PROPERTY
  BatchCompletes
