SPECIFICATION Spec
CONSTANTS
  Radios = { r1, r2 }
  None = None
  Channels = 4
  Seeds <- MCSeeds
  BootSeed <- MCBootSeed
  MaxSession = 2
INVARIANTS
  HopsWithTheTalker
  EndReportedOnce
  EveryoneMeets
