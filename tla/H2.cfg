SPECIFICATION FairSpec
CONSTANTS
  Clients <- EveryClient
  Ids = {1, 2, 3, 5}
  InitWindow = 3
  MaxWindow = 4
  MaxFrame = 2
  MaxStreams = 2
  MaxBody = 2
  BlockCap = 2
INVARIANTS
  ResponsesWhole
  NoIdleCredit
  WholeBody
  NothingAfterReset
PROPERTIES
  NeverOverdraws
  GoawayEnds
