SPECIFICATION DestroySpec
CONSTANTS
  Root = a
  Children = {}
  Others = {b}
  Timed = {a, b}
  Ops = {}
  Issuer = Issuer
  Poller = Poller
  Workers = {w1}
  Resolver = Resolver
  Cancellers = {}
  None = None
CHECK_DEADLOCK FALSE
INVARIANTS
  ClosedUnlessTimedOut
PROPERTIES
  DestroyReturns
