SPECIFICATION Spec
CONSTANTS
  Apid = {1}
  FirstAppl = 0
  NoAppl = 9
  Width = 2
  Height = 4
  BarHeight = 1
  Rects <- SomeRects
  MaxWindow = 4
  Liberty = {}
INVARIANTS
  RegionsAreVisible
  StaleIsAsked
  OneTopped
  IdentifiersAreKept
CHECK_DEADLOCK FALSE
