SPECIFICATION Spec
CONSTANTS
  Root = a
  Children = {}
  Others = {}
  Timed = {a}
  Ops = {"receive", "send", "accept", "disconnect"}
  Issuer = Issuer
  Poller = Poller
  Workers = {w1}
  Resolver = Resolver
  Cancellers = {u1, u2}
  None = None
CHECK_DEADLOCK FALSE
INVARIANTS
  TypeOK
  RefCountExact
  
  LateUsesConfined
PROPERTIES
  ImplementsOperation
