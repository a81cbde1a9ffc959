SPECIFICATION Spec
CONSTANTS
  Requests = {r1, r2, r3, l1}
  Local = {l1}
  Readers = {s1, s2}
  None = None
INVARIANTS
  TypeOK
  OneOwner
  FixOnPowerOn
SYMMETRY Alike
CHECK_DEADLOCK FALSE
