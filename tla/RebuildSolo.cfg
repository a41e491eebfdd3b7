SPECIFICATION FairSpec
CONSTANTS
  Run = {r1}
  Calls <- SoloCalls
  Backend = "file"
  ExistsHonest = TRUE
  Key = {k1, k2}
  Source = {s1, s2, s3}
  Path = {p1, p2}
  NoKey = NoKey
  NoItem = NoItem
  NormPath <- MCNormPath
  r1 = r1
  r2 = r2
  s1 = s1
  s2 = s2
  s3 = s3
  p1 = p1
  p2 = p2
  k1 = k1
  k2 = k2
INVARIANT TypeOK
INVARIANT SummaryAccounts
INVARIANT ScanErrorStoresNothing
INVARIANT RequirePresentCachesSomething
PROPERTY EveryCallReturns
