SPECIFICATION FairSpec
CONSTANTS
  Upload = {"u1", "u2"}
  Download = {"d1"}
  Worker = {w1, w2}
  w1 = w1
  MaxTries = 2
  Scenarios <- MCScenarios
INVARIANT TypeOK
INVARIANT SoleUploadIsRestorable
INVARIANT ManifestListsParts
INVARIANT CombinedIsOneUpload
PROPERTY CallsReturn
CHECK_DEADLOCK FALSE
