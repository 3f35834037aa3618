SPECIFICATION Spec
CONSTANTS
  Registrars = {r1, r2}
  Limits = {1, 2, 3}
  MaxRegistrations = 3
  MaxPackets = 2
CHECK_DEADLOCK FALSE
INVARIANTS
  TypeOK
  NeverTooFew
  TooManyOnlyIfHasty
PROPERTIES
  PacketsAreServed
