SPECIFICATION FairSpec
CONSTANTS
  Step = {"r", "s", "t"}
  Scenarios <- MCScenarios
  File <- MCFile
  Word <- MCWord
INVARIANT TypeOK
INVARIANT SavedUnderTheRestoredKey
INVARIANT PlannedSaveIsARestores
INVARIANT PlannedSaveStoresAll
INVARIANT StoresWhereToolsCache
PROPERTY PlanOutlivesFailure
PROPERTY StageEnds
CHECK_DEADLOCK FALSE
