SPECIFICATION SpecKind
CONSTANTS
  Apid = {a1, a2}
  TOP_APPL = top
  inside = inside
  outside = outside
  Pos <- OnePosition
  MenuBar <- MenuPositions
  Button <- NoButton
  ClickOwner <- OneOwner
  Kinds <- OneKind
  Request <- Messages
  MaxMessage = 1
  MaxKey = 0
  MaxClick = 0
  MaxTick = 0
  Async = FALSE
  NoMenu = TRUE
INVARIANTS
  NoUnreadMessage
