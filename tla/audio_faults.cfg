SPECIFICATION Spec
CONSTANTS
  o1 = o1
  i1 = i1
  i2 = i2
  m1 = m1
  m2 = m2
  None = None
  Outputs <- OneOutput
  Inputs <- TwoInputs
  Controls <- OneControl
  OpenResults <- OpensMayFail
  RacyClient = TRUE
  DataCalls = 1
  ControlCalls = 2
  FmCalls = 0
INVARIANTS
  ClaimedActive
  PeerRegistered
  SleepRequested
  WakeLockHeld
CHECK_DEADLOCK FALSE
