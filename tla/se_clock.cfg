SPECIFICATION FairSpecKind
CONSTANTS
  Apid = {a1, a2}
  TOP_APPL = top
  inside = inside
  outside = outside
  Pos <- Positions
  MenuBar <- MenuPositions
  Button = {left}
  ClickOwner <- OneOwner
  Kinds <- TwoKinds
  Request <- Calls
  MaxMessage = 1
  MaxKey = 1
  MaxClick = 1
  MaxTick = 3
  Async = FALSE
  NoMenu = FALSE
INVARIANTS
  MotionReported
  NextTimerIsEarliest
  NoUnreadMessage
  NoUnreadInput
PROPERTIES
  TimerFires
