SPECIFICATION FairSpec
CONSTANTS
  Scripts <- EveryScript
  Configs = {"null", "ram", "dir"}
  Caps = {6, 14}
  Stage = 3
INVARIANTS
  OneAnswerEach
  BodyIntact
  ResumedIntact
  NoFileLeft
  NoStuckRequest
  NoStandoff
PROPERTY ConnectionEnds
