\* One sensor, two reports queued in its device, a ring of four events and room
\* for more reports than a call can find: calls that do not fill the array.
SPECIFICATION FairSpec
CONSTANTS
  Drivers <- OneDriver
  Values <- TwoValues
  Events <- AllEvents
  NoEvent <- Nothing
  RingSize <- FullRing
  Count = 3
  QueueRoom <- TwoReports
  PipeRoom = 1
INVARIANTS
  TypeOK
PROPERTIES
  CallerCatchesUp
