SPECIFICATION FairSpec
CONSTANTS
  a1 = a1  a2 = a2  s1 = s1  s2 = s2  s3 = s3
  p1 = p1  r1 = r1  r2 = r2
  Agents = {a1, a2}
  Slots = {s1, s2}
  Owner <- OneEach
  Parcels = {p1}
  Malformed = {}
  Modes = {"exclusive"}
  Ttls = {1}
  Reapers = {r1, r2}
  Skew = 0
  MaxLeases = 3
  MaxTime = 2
  MaxId = 2
INVARIANTS EndsOnce
PROPERTIES EndsForCause LapsedIsReaped
