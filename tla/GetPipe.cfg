SPECIFICATION FairSpec
CONSTANTS
  Name = {"root", "dir", "file", "link", "elsewhere"}
  Root = "root"
  Parent <- MCParent
  Elsewhere = "elsewhere"
  Scenarios <- MCScenarios
INVARIANT TypeOK
INVARIANT SuccessRestoresMembers
INVARIANT SuccessSawTheEnd
INVARIANT DirectoriesKeepTheirTimes
PROPERTY ImplementsDownload
PROPERTY RestoreEnds
CHECK_DEADLOCK FALSE
