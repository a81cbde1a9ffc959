SPECIFICATION Spec
CONSTANTS
  o1 = o1
  i1 = i1
  i2 = i2
  m1 = m1
  m2 = m2
  None = None
  Outputs <- OneOutput
  Inputs <- OneInput
  Controls <- TwoControls
  OpenResults <- OpensSucceed
  RacyClient = TRUE
  DataCalls = 1
  ControlCalls = 1
  FmCalls = 0
INVARIANT LockOrder
