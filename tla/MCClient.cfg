SPECIFICATION ClientSpec
CONSTANTS
  r1 = r1
  r2 = r2
  s1 = s1
  s2 = s2
  s3 = s3
  p1 = p1
  p2 = p2
  Runs = {r1, r2}
  N = 2
  Rounds = 2
  NoRun = NoRun
  Starts = {s1, s2, s3}
  Stops = {p1, p2}
  MaxEvents = 2
  Nothing = Nothing
  a4 = a4
  b4 = b4
  a6 = a6
  h4 = h4
  h6 = h6
  hn = hn
  ServerHosts = {a4, b4, a6}
  ClientHosts = {h4, h6, hn}
  KindOf <- MCKindOf
  PollSleepMs = 200
INVARIANTS
  SurveyFirst
  NothingLeftBehind
  SavedAsRecorded
  
  CandidatesKnown

  
  
CHECK_DEADLOCK FALSE
