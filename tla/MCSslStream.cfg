SPECIFICATION StreamSafeSpec
CONSTANTS
  Root = a
  Children = {c1, c2}
  Others = {}
  Timed = {a, c1, c2}
  Ops = {"ssl_receive", "ssl_send"}
  Issuer = Issuer
  Poller = Poller
  Workers = {w1, w2}
  Resolver = Resolver
  Cancellers = {u1}
  None = None
CHECK_DEADLOCK FALSE
SYMMETRY WorkerSymmetry
INVARIANTS
  RefCountExact
  OneCallback
  LockCycleOnlyInEnter
  
  LateUsesOfParent
