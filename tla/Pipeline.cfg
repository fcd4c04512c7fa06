SPECIFICATION Spec
CONSTANTS
  w1 = w1
  w2 = w2
  Workers = {w1, w2}
  Options <- Apps
  Requests <- Sent
  Burst = 4
  Rate = 1
  Whole = 2
  Wide = 1024
  Slots = 1
  MaxHops = 2
  Trusted = {"p"}
  MaxAge = 1
  MinGzip = 2
  MaxRanges = 2
  MaxOps = 3
SYMMETRY Twins
INVARIANTS
  Throttled
  RightHandler
  RangesExact
  CopyFaithful
  OwnAnswer
CHECK_DEADLOCK FALSE
