SPECIFICATION Spec
CONSTANTS
  Clients <- UploadClient
  Ids = {1, 2, 3, 5}
  InitWindow = 3
  MaxWindow = 4
  MaxFrame = 2
  MaxStreams = 2
  MaxBody = 2
  BlockCap = 2
INVARIANT UploadWithinCredit
