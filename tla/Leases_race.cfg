SPECIFICATION Spec
CONSTANTS
  a1 = a1  a2 = a2  s1 = s1  s2 = s2  s3 = s3
  p1 = p1  r1 = r1  r2 = r2
  Agents = {a1, a2}
  Slots = {s1, s2, s3}
  Owner <- TwoAndOne
  Parcels = {p1}
  Malformed = {}
  Modes = {"read", "write"}
  Ttls = {1}
  Reapers = {}
  Skew = 0
  MaxLeases = 1
  MaxTime = 2
  MaxId = 2
SYMMETRY SlotSymmetry
INVARIANTS MutualExclusion RacesAreBounded
PROPERTIES NoRevival ImplementsParcelLock
