SPECIFICATION SafeSpec
CONSTANTS
  Timers = {t1, t2, t3}
  Timeouts = {1, 3}
  IdleTimeout = 2
  MaxTime = 4
  NoTimer = NoTimer
SYMMETRY TimerSymmetry
INVARIANTS
  TypeOK
  NoOversleep
  NeverEarly
  ExactlyOneOwner
  CancelHitsOnlyItself
  NoEmptyPass
