\* Two sensors: a call that returns reports of one and is interrupted by the
\* activation of the other; the ring holds one report and wraps.
SPECIFICATION Spec
CONSTANTS
  Drivers <- TwoDrivers
  Values <- TwoValues
  Events <- AllEvents
  NoEvent <- Nothing
  RingSize <- ShortRings
  Count = 2
  QueueRoom <- OneReport
  PipeRoom = 1
INVARIANTS
  RingsSound

  
