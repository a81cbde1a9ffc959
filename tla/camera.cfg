SPECIFICATION FairSpec
CONSTANTS
  NumBuffers = 2
  EncoderFrames = 1
  Optimal = 2
  None = None
  Modes <- BothModes
  Faults <- AllFaults
  Races <- NoRaces
INVARIANTS
  TypeOK
  OneAnswer
  OverlayThere
  FlagsFollowOverlay
  EncoderKeepsFrames
  NoBufferMissing
  ReleaseFindsFrame
PROPERTIES
  Answered
