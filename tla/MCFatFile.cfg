SPECIFICATION FileSpec
CONSTANTS
  Chains <- MCChains
  SECTOR = 2
  sectorsPerCluster = 2
  FATBLOCK = 2
  MaxRead = 10
INVARIANTS PositionIsTrue ReadsFile
