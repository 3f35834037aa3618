SPECIFICATION HandshakeSafeSpec
CONSTANTS
  Root = a
  Children = {c}
  Others = {}
  Timed = {a, c}
  Ops = {"ssl_connect"}
  Issuer = Issuer
  Poller = Poller
  Workers = {w1, w2}
  Resolver = Resolver
  Cancellers = {}
  None = None
  MaxTokens = 1
CHECK_DEADLOCK FALSE
SYMMETRY WorkerSymmetry
INVARIANTS
  PhaseAsDue
  LateUsesOfHandshake
  ReportsItsResult
