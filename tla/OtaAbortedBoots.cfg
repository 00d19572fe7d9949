SPECIFICATION Spec
CONSTANTS
  s1 = s1
  s2 = s2
  none = none
  Sessions <- MCSessions
  NoSession <- none
  Chunks <- MCChunks
  Sound <- MCSound
  BatchSize = 2
  QueueDepth = 1
  FlashSize = 3
INVARIANT AbortedImageNotBooted
