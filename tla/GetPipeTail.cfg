SPECIFICATION Spec
CONSTANTS
  Name = {"root", "dir", "file", "link", "elsewhere"}
  Root = "root"
  Parent <- MCParent
  Elsewhere = "elsewhere"
  Scenarios <- PlainScenarios
INVARIANT SuccessRestoresContent
CHECK_DEADLOCK FALSE
