SPECIFICATION Spec
CONSTANTS
  Upload = {"u1", "u2"}
  Download = {"d1"}
  Worker = {w1, w2}
  w1 = w1
  MaxTries = 2
  Scenarios <- PlainScenario
INVARIANT GetWritesAnUpload
CHECK_DEADLOCK FALSE
