SPECIFICATION Spec
CONSTANTS
  PAGE_NUM_ITEMS = 2
  Tree <- MCTree
  FileCnt <- MCFileCnt
  StackDepth = 1
  NameSlots = 2
  Menu <- MCMenu
  Level <- MCLevel
  settings_root_list = "root"
  NULL = "NULL"
  MAX_SETTING_STACK_LEVEL = 3
  Touch = TRUE
  Serial = TRUE
INVARIANTS
  CursorOnItem
  ListCountIsCurrent
  ShuffleTableForList
