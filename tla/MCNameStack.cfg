SPECIFICATION Spec
CONSTANTS
  PAGE_NUM_ITEMS = 9
  Tree <- MCTree
  FileCnt <- MCFileCnt
  StackDepth = 32
  NameSlots = 64
  Menu <- MCMenu
  Level <- MCLevel
  settings_root_list = "root"
  NULL = "NULL"
  MAX_SETTING_STACK_LEVEL = 3
  Touch = FALSE
  Serial = TRUE
INVARIANT
  NameStackHasRoom
