SPECIFICATION Spec
CONSTANTS
  Cards <- MCCards
  ENTRIES = 2
  SECTORS = 3
  PARTS = 2
INVARIANTS ListedOnce Arranged EntryFound
