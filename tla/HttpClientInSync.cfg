SPECIFICATION Spec
CONSTANTS
  Methods = {"GET", "HEAD", "POST"}
  Hosts = {"a", "b"}
  Bases <- NoBase
  Upstreams = {"a"}
  Answers <- EveryAnswer
  Redirects = 1
  HeadCap = 3
  MaxCalls = 2
  MaxAnswers = 2
INVARIANT
  InSync
