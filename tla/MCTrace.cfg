SPECIFICATION TraceSpec
CONSTANTS
  p1 = p1
  p2 = p2
  p3 = p3
  u1 = u1
  q1 = q1
  q2 = q2
  q3 = q3
  c1 = c1
  c2 = c2
  c3 = c3
  m1 = m1
  m2 = m2
  Packets = {p1, p2, p3, u1, q1, q2, q3}
  Probes = {p1, p2, p3, q1, q2, q3}
  Conns = {c1, c2, c3}
  ConnOf <- MCConnOf
  Keys = {1, 2, 3, 4, 5}
  KeyOf <- MCKeyOf
  Messages = {m1, m2}
  FamilyOf <- MCFamilyOf
  None = None
  Me = c3
  Plan <- MCPlan
  MaxTtl = 2
  Tries <- MCTries
  ProbeAt <- MCProbeAt
INVARIANTS CreditedToQuotedProbe OneEventPerProbe EventsConserved HopsTrue
PROPERTIES LiveEntriesStay ProbesForgotten RoundsAnswered
