SPECIFICATION Spec
CONSTANTS
  Scripts <- ResumedScripts
  Configs = {"ram", "dir"}
  Caps = {14}
  Stage = 3
INVARIANT ChunkedIntact
