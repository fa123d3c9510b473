SPECIFICATION SpecPart
CONSTANTS
  Part = {"waiting_appl", "sockets", "device", "ports", "elements"}
  Client = {c1, c2, c3}
  Caller = {p, q}
  Apid = {a1, a2, a3}
  Nil = Nil
  KillWaiting = FALSE
  Calls = 2
  Slots = 2
  Polls = 1
  Elements <- SomeElements
  Sizes <- SomeSizes
  Slides = {0, 500}
  WINDOW <- Resource
  csheight = 8
  NoWindow = NoWindow
  Adrift = {"BFILLOUT"}
  OpenTwice = FALSE
INVARIANTS
  ListIsWellFormed
  NoStrayReply
  ConnectionIsKept
  LayoutIsKept
  WidgetsFit
  SizesAgree
PROPERTIES
  WalkEnds
  TransportsImplementRpc
CHECK_DEADLOCK FALSE
