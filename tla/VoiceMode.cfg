SPECIFICATION Spec
CONSTANTS
  EventDepth = 2
  RxDepth = 1
  Faults = TRUE
INVARIANTS
  AwaitedEventComes
  HalfDuplex
  ListensUnlessRefused
PROPERTIES
  ReleaseReturnsToReception
