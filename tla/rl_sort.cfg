SPECIFICATION Spec
CONSTANTS
  Screen <- Desktop
  Sizes <- Windows
  Uppers <- Corners
INVARIANTS
  SafeOrder
CHECK_DEADLOCK FALSE
