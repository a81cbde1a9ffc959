SPECIFICATION Spec
CONSTANTS
  o1 = o1
  i1 = i1
  i2 = i2
  m1 = m1
  m2 = m2
  None = None
  Outputs <- OneOutput
  Inputs <- OneInput
  Controls <- OneControl
  OpenResults <- OpensSucceed
  RacyClient = FALSE
  DataCalls = 1
  ControlCalls = 2
  FmCalls = 2
INVARIANT NoCloseTooMany
