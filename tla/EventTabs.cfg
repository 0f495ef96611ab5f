SPECIFICATION FairSpec
CONSTANTS
  Tabs = {"region", "linkage"}
  Values = {"v", "w"}
  Entries = {"w"}
  Opening <- MCOpening
  MaxBadGets = 1
  MaxSaves = 2
  MaxWaits = 1
CONSTRAINT Few
INVARIANTS TypeOK EditsSurvive NoBlankStored SuccessMeansStored
PROPERTY SaveEnds
CHECK_DEADLOCK FALSE
