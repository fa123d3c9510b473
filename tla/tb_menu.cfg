\* A menu drops down over the topped window.
SPECIFICATION TitlesSpec
CONSTANTS
  Apps = {a, b}
  Server = srv
  WinId = {1, 2}
  MaxMessage = 4
  MaxStruct = 2
  Liberty = {"menu"}
SYMMETRY Symmetry
INVARIANT TitlesFollowTheTop
CHECK_DEADLOCK FALSE
