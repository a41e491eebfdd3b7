SPECIFICATION Spec
CONSTANTS
  Calls <- ListedCalls
  Dir = {d1, d2, d3}
  NoDir = NoDir
  Object = {o1, o2, o3, x1}
  Listing <- MCListing
  Exact = {o1, o2, o3}
  Target <- MCTarget
  RemoteOf <- MCRemoteOf
  d1 = d1
  d2 = d2
  d3 = d3
  o1 = o1
  o2 = o2
  o3 = o3
  x1 = x1
INVARIANT FailsIfKeyNotPresent
CHECK_DEADLOCK FALSE
