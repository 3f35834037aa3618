SPECIFICATION AcceptSpec
CONSTANTS
  Root = a
  Children = {}
  Others = {}
  Timed = {a}
  Ops = {"accept"}
  Issuer = Issuer
  Poller = Poller
  Workers = {w1}
  Resolver = Resolver
  Cancellers = {u1, u2}
  None = None
CHECK_DEADLOCK FALSE
INVARIANTS
  AcceptedHasOneOwner
  DeliveredInTime
  
