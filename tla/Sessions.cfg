SPECIFICATION Spec
CONSTANTS
  Workers = {w1, w2}
  Tokens <- TwoTokens
  TTLs <- OneShort
  Users <- OneUser
  Faults = {"ok", "write"}
  MaxTime = 2
  MaxFresh = 3
  MaxStarts = 2
SYMMETRY Twins
INVARIANTS
  Recoverable
  DbExact
PROPERTIES
  RemovedStaysRemoved
  ExpiredStaysOut
CHECK_DEADLOCK FALSE
