SPECIFICATION Spec
CONSTANTS
  TxDepth = 2
  AnnounceCopies = 2
  EndCopies = 2
  FramesPerPacket = 2
  MaxSession = 2
  MaxPackets = 3
  Faults = TRUE
PROPERTIES
  KeepsBroadcastOrder
  NoGapOnAir
  EndTxTellsTheTruth
  EndTxReturns
