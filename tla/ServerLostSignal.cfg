SPECIFICATION FairSpec
CONSTANTS
  Listeners = {tcp}
  Primary = tcp
  Conns = {c1}
  Parallel = 1
  None = None
  UsesTls = FALSE
  MaxSignals = 1
CHECK_DEADLOCK FALSE
PROPERTY ShutdownReturns
