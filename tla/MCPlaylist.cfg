SPECIFICATION FairSpec
CONSTANTS
  Lists <- MCLists
  TABLE_SIZE = 5
INVARIANTS TypeOK EntryOnList ShufflePass RightTrack
PROPERTY EndsByItself
