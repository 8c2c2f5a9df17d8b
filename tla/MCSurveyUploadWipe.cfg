SPECIFICATION Spec
CONSTANTS
  Sessions = {s1}
  Recordings = {r1}
  SessionOf <- MCSessionOf
  NChunks = 2
  NVideo = 1
  Handlers = {h1, h2}
  Retries = 2
  MaxFails = 0
  MaxStarts = 2
  None = None
SYMMETRY HandlerSymmetry
INVARIANT WipeLeavesNothing
CHECK_DEADLOCK FALSE
