\* Two locks, applications killed at any moment, the locks in any order.
\* Three ids for four clients: a freed id is used again.
SPECIFICATION Spec
CONSTANTS
  Client = {c1, c2, c3, c4}
  Apid = {0, 1, 2}
  NoApid = NoApid
  NoCall = NoCall
  MaxNest <- Twice
  KillQueued = TRUE
  LibraryOrder = FALSE
SYMMETRY Symmetry
INVARIANTS
  MutualExclusion
  LedgerAgrees
  NoIdleLock
  BlockedIsQueuedOnce
PROPERTY NoOvertaking
CHECK_DEADLOCK FALSE
