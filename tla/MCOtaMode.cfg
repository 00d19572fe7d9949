SPECIFICATION Spec
CONSTANTS
  g1 = g1
  g2 = g2
  Generations <- MCGenerations
  Bootstrap = { "CONFIG", "ACTIVATE" }
  Hopping = { "START", "DATA", "END" }
  Clicks = { "MENU_SELECT_COMM", "MENU_SELECT_OTA" }
  Faults = TRUE
  EventBound = 1
SYMMETRY Symmetry
INVARIANTS
  TypeOK
  AckedIsKept
  ScreenMatchesSession
  
  RadioTaskInOta
