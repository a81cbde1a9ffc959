SPECIFICATION FairSpec
CONSTANTS
  Threads = {t1, t2, t3}
  Retries = 3
  Faults <- AllFaults
INVARIANTS
  TypeOK
  BusyIsWorked
  LensAtRest
  OneVerdict
PROPERTIES
  FocusEnds
