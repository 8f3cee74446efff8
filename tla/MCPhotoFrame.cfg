SPECIFICATION FairSpec
CONSTANTS
  Lists <- MCLists
  MaxLen = 4
INVARIANTS PictureOnList SleepGivenBack TypeOK
PROPERTY EveryPictureShown
