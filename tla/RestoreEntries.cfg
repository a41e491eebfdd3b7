SPECIFICATION Spec
CONSTANTS
  Component = {"k", "k1", "ak", "f", "x", "x1", "p", ".c", "acc"}
  Begins <- MCBegins
  Ends <- MCEnds
  Within <- MCWithin
  Hidden = {".c"}
  Receivers <- MCReceivers
  Storages <- MCStorages
INVARIANT TypeOK
INVARIANT EverySourceComesBack
INVARIANT NoOtherKeyIsRestored
CHECK_DEADLOCK FALSE
