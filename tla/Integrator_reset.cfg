SPECIFICATION Spec
CONSTANTS
  b1 = b1  b2 = b2  w1 = w1  w2 = w2  i1 = i1  p = p  q = q
  Branches = {b1, b2}
  Workers = {w1}
  NoWorker = NoWorker
  Indexers = {}
  Parcels = {p, q}
  Holds <- HeldInAny
  Freezes <- HeldInAny
  NoBranch = NoBranch
  MaxAttempts = 3
  Faults = {"reset"}
  MaxStarts = 3
  MaxCrashes = 2
SYMMETRY Symmetry
INVARIANTS PoisonIsDetectable
