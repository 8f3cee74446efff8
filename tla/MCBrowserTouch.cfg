SPECIFICATION Spec
CONSTANTS
  PAGE_NUM_ITEMS = 2
  Tree <- MCTree
  FileCnt <- MCFileCnt
  StackDepth = 2
  NameSlots = 3
  Menu <- MCMenu
  Level <- MCLevel
  settings_root_list = "root"
  NULL = "NULL"
  MAX_SETTING_STACK_LEVEL = 4
  Touch = TRUE
  Serial = FALSE
INVARIANTS
  TypeOK
  DirStackMirrorsPath
  HeaderNamesList
  PlayerKeepsList
  SettingsStackMirrorsPath
PROPERTIES
  PathNavSpec
