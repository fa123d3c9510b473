\* Clients that take the locks in the library's order, killed only when they
\* are not queued.
SPECIFICATION FairSpec
CONSTANTS
  Client = {c1, c2, c3}
  Apid = {0, 1, 2}
  NoApid = NoApid
  NoCall = NoCall
  MaxNest <- NestUpdate
  KillQueued = FALSE
  LibraryOrder = TRUE
INVARIANT OwnerIsRegistered
PROPERTIES
  LocksAreReentrant
  EveryWaiterIsServed
CHECK_DEADLOCK FALSE
