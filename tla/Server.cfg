SPECIFICATION FairSpec
CONSTANTS
  Listeners = {tcp, unix}
  Primary = tcp
  Conns = {c1, c2}
  Parallel = 1
  None = None
  UsesTls = TRUE
  MaxSignals = 2
INVARIANTS
  ClosedOnce
  TlsOutlivesConnections
PROPERTIES
  BothStop
CHECK_DEADLOCK FALSE
