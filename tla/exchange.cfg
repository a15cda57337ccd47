SPECIFICATION FairSpec
CONSTANTS
  Profiles <- AllProfiles
  DefaultSize = 2
  SlaveRead = 4
  FileSize = 4
  Capacity = 3
  MaxLoss = 1
INVARIANTS TypeOK FitsBuffer CountedIsMoved NothingLeft
PROPERTIES BothEnd
