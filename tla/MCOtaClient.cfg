SPECIFICATION Spec
CONSTANTS
  s1 = s1
  s2 = s2
  none = none
  Sessions <- MCSessions
  NoSession <- none
  Chunks <- MCChunks
  Sound <- MCSound
  BatchSize = 2
  QueueDepth = 2
  FlashSize = 3
INVARIANTS
  FlashHoldsPrefix
  AckedIsKept
  NacksNameTheGap
PROPERTY ProgressIsKept
