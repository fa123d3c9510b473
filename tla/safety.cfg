SPECIFICATION SpecPart
CONSTANTS
  Part = {"rlist", "appl", "screen", "binding", "objc", "titles"}
  Pid = {p, q}
  NoPid = Nil
  MaxApps = 2
  MaxMail = 1
  Title = {1, 2}
  Semaphore = TRUE
  Apps = {p, q}
  Server = Nil
  WinId = {1, 2}
  MaxMessage = 4
  MaxStruct = 2
  Liberty = {}
  Client = {a, b}
  Calls <- UserCalls
  Places <- Everywhere
  Asks <- UserAsks
  Together = 2
  Avoided <- Unsound
SYMMETRY Symmetry
INVARIANTS
  ListsAreExact
  TablesAgree
  DesktopHasItsOwner
  GivenBack
  CursorIsKept
  LocksAreOrdered
  ClicksAreUsedOnce
  ArgumentsArrive
  ResultIsFresh
  LinksAreTheTree
  TitlesFollowTheTop
PROPERTIES
  CopiedOrAsked
  OwnersAreTold
  ShutdownAdvances
CHECK_DEADLOCK FALSE
