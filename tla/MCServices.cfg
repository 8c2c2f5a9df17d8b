SPECIFICATION ServicesSpec
CONSTANTS
  c1 = c1
  c2 = c2
  c3 = c3
  c4 = c4
  s1 = s1
  s2 = s2
  s3 = s3
  a1 = a1
  a2 = a2
  srv = srv
  t1 = t1
  t2 = t2
  f1 = f1
  f2 = f2
  f3 = f3
  alice = alice
  bob = bob
  w1 = w1
  w2 = w2
  v4 = v4
  mapped = mapped
  None = None
  Absent = Absent
  MaxPackets = 2
  MaxSessions = 2
  MaxEntries = 2
  Frames <- MCFrames
  Conns = {c1, c2, c3, c4}
  Addresses = {a1, a2, srv}
  AddrOf <- MCAddrOf
  Surveys = {s1, s2, s3, "none"}
  SurveyOf <- MCSurveyOf
  EmptyId = "none"
  Threads = {t1, t2}
  Lines = {1, 2}
  MaxCaptured = 3
  MaxLogged = 4
  Flows = {f1, f2, f3}
  ProviderOf <- MCProviderOf
  Users = {alice, bob}
  UserOf <- MCUserOf
  AllowedUsers = {alice}
  SessionTimeout = 1
  Keys <- MCKeys
  MagicKeys <- MCMagicKeys
  SurveyTimeout = 1
  IPs = {v4, mapped}
  Unmapped <- MCUnmapped
  Timeout = 2
  Clients = {w1, w2}
INVARIANTS
  LoginsDoNotMix
  AdmissionRecent
  SurveySessionHonoured
  DownloadsOffered
PROPERTIES
  CaptureIsSurveyLog
  
  
