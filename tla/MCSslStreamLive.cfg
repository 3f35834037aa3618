SPECIFICATION StreamSpec
CONSTANTS
  Root = a
  Children = {c1}
  Others = {}
  Timed = {a, c1}
  Ops = {"ssl_receive", "ssl_send"}
  Issuer = Issuer
  Poller = Poller
  Workers = {w1}
  Resolver = Resolver
  Cancellers = {u1}
  None = None
CHECK_DEADLOCK FALSE
PROPERTIES
  TimedStreamCallsBack
