\* The mouse leaves and comes back while handle_mouse_motion() is at work.
SPECIFICATION SpecKind
CONSTANTS
  Apid = {a1, a2}
  TOP_APPL = top
  inside = inside
  outside = outside
  Pos <- Positions
  MenuBar <- MenuPositions
  Button <- NoButton
  ClickOwner <- OneOwner
  Kinds <- OneKind
  Request <- JustEnter
  MaxMessage = 1
  MaxKey = 0
  MaxClick = 0
  MaxTick = 0
  Async = TRUE
  NoMenu = TRUE
INVARIANTS
  MotionReported
CHECK_DEADLOCK FALSE
