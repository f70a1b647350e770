SPECIFICATION FairSpec
CONSTANTS
  Children = {c1, c2, c3}
  Faults = {}
  MaxFaults = 0
  None = None
INVARIANTS
  TypeOK
  ReportCoversBatch
PROPERTIES
  CompletionCountsAll
  BatchCompletes
