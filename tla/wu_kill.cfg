\* An application killed in the queue is granted the lock later.
SPECIFICATION Spec
CONSTANTS
  Client = {c1, c2, c3}
  Apid = {0, 1, 2}
  NoApid = NoApid
  NoCall = NoCall
  MaxNest <- Twice
  KillQueued = TRUE
  LibraryOrder = TRUE
INVARIANT OwnerIsRegistered
CHECK_DEADLOCK FALSE
