SPECIFICATION Spec
CONSTANTS
  Names = {"x", "y"}
  Sizes = {1, 2, 4}
  Limit = 3
  MaxSteps = 5
  Staging = 7
  Slack = 4
  PayloadCap = 3
  MaxFrames = 3
INVARIANTS
  TablesInSync
  TableBounded
  ConversationFaithful
  GoodFramesRead
CHECK_DEADLOCK FALSE
