SPECIFICATION FairSpec
CONSTANTS
  Sessions = {s1}
  Recordings = {r1}
  SessionOf <- MCSessionOf
  NChunks = 3
  NVideo = 2
  Handlers = {h1, h2}
  Retries = 2
  MaxFails = 2
  MaxStarts = 1
  None = None
INVARIANTS CompleteIsWhole PassedChunksStored BytesNotOverstated RowsWipeable
PROPERTY UploadCompletes
CHECK_DEADLOCK FALSE
