SPECIFICATION Spec
CONSTANTS
  Timers = {t1, t2}
  Timeouts = {1, 3}
  IdleTimeout = 2
  MaxTime = 4
  NoTimer = NoTimer
PROPERTIES
  ImplementsTimerService
  ImplementsTimerSafety
