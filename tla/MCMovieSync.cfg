SPECIFICATION FairSpec
CONSTANTS
  VideoRuns <- MCVideoRuns
  SoundRuns <- MCSoundRuns
  VIDEO = 6
  SOUND = 6
  Behind = 8
  Pointed <- MCPointed
  LATE = 1
INVARIANTS VideoInPlace SoundInPlace BothLand
PROPERTY EndsByItself
