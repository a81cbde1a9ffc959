SPECIFICATION Spec
CONSTANTS
  o1 = o1
  i1 = i1
  i2 = i2
  m1 = m1
  m2 = m2
  None = None
  Outputs <- OneOutput
  Inputs <- OneInput
  Controls <- TwoControls
  OpenResults <- OpensSucceed
  RacyClient = FALSE
  DataCalls = 2
  ControlCalls = 1
  FmCalls = 0
SYMMETRY ControlSymmetry
INVARIANTS
  TypeOK
  LockOrder
  CountsMatch
  TransferOnOpenHandle
PROPERTY CallPathKept
