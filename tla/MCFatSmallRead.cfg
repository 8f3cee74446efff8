SPECIFICATION FileSpec
CONSTANTS
  Chains <- MCChains
  SECTOR = 4
  sectorsPerCluster = 2
  FATBLOCK = 2
  MaxRead = 8
INVARIANT ReadsOnInNextCluster
