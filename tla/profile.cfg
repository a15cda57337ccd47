\* Profiles with one change, all options, all numbers of a byte.
SPECIFICATION Spec
CONSTANTS
  Files <- AllFiles
  Environment <- Env
  IntBits = 8
  UnitShift = 3
  Thousand = 10
  FloatBits = 7
  MaxPort = 100
  MaxGroups = 2
  MaxOptions = 3
  MaxErrors = 3
INVARIANTS TypeOK ValidIsBuilt AcceptedIsSound CountsAreLengths
