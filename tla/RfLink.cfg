SPECIFICATION Spec
CONSTANTS
  SlotPackets = 4
  FifoRoom = 1
PROPERTIES
  NothingCrossesTheHop
  SyncHasItsOwnEdge

