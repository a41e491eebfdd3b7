SPECIFICATION FairSpec
CONSTANTS
  Members = 3
  Backend = "file"
  Before = Before
INVARIANT IInv
INVARIANT SuccessIsWhole
INVARIANT SizeIsFinal
PROPERTY ImplementsUpload
PROPERTY ArchiverEnds
CHECK_DEADLOCK FALSE
