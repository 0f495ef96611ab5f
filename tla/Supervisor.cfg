SPECIFICATION FairSpec
CONSTANTS
  Count = 2
  WaitCount = 3
  NoFile = NoFile
  Lost = Lost
  MaxWrites = 1
  MaxRequests = 2
  MaxFaults = 2
INVARIANTS TypeOK OneInstance ImportAlone DbWhole
PROPERTY ComesBack
