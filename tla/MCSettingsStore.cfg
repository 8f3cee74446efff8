SPECIFICATION Spec
CONSTANTS
  Bits = {0, 1, 2}
  Conf <- MCConf
  Table <- MCTable
  Default <- MCDefault
  Rest <- MCRest
  Pictures <- MCPictures
  PlayerFields <- MCPlayerFields
INVARIANTS TypeOK ValidSettings StoreIsTrue
PROPERTY RestartFinds
