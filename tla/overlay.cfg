SPECIFICATION FairSpec
CONSTANTS
  u1 = u1
  u2 = u2
  small = small
  p0 = p0
  p1 = p1
  off1 = off1
  r0 = r0
  r1 = r1
  c0 = c0
  c1 = c1
  None = None
  Ctl = Ctl
  Users <- TwoUsers
  Feeders <- OneFeeder
  Requested = 2
  Default = 1
  Optimal <- JustOne
  Sizes <- OneSize
  Positions <- ThePositions
  Rotations <- TwoRotations
  Crops <- TwoCrops
  NoPos = p0
  NoRot = r0
  FullCrop = c0
  OffScreen <- OffTheScreen
  Clamped = p1
  Faults <- SomeFaults
  Races <- NoRaces
INVARIANTS
  TypeOK
  MutexOutlivesUse
  CountMatchesDriver
  DqNeverBlocks
  AttributesApplied
PROPERTIES
  LockReleased
  ReallocateQuiet
  ImplementsSwitch
