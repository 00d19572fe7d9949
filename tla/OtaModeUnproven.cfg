SPECIFICATION Spec
CONSTANTS
  Generations = { 1 }
  Bootstrap = { "CONFIG", "ACTIVATE" }
  Hopping = {}
  Clicks = { "MENU_SELECT_COMM", "MENU_SELECT_OTA" }
  Faults = FALSE
  EventBound = 1
INVARIANT ActiveIsProven
