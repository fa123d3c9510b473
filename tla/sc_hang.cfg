SPECIFICATION ScreenSpec
CONSTANTS
  Client = {a, b}
  Asks <- EventsOnly
  Calls <- NoCalls
  Places <- Bars
  Together = 1
INVARIANTS
  NobodyHangs
CHECK_DEADLOCK FALSE
