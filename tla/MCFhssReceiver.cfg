SPECIFICATION FairSpec
CONSTANTS
  AcquireCount = 3
  LossCount = 5
  RecoveryEntry = 2
INVARIANTS
  FollowingIsAnchored
  TrackingIsLocked
  MissBudget
  ToldMatchesLock
PROPERTIES
  LossNeedsMisses
  CandidatesTriedBeforeLoss
  StopHonoured
