SPECIFICATION Spec
CONSTANTS
  b1 = b1  b2 = b2  w1 = w1  w2 = w2  i1 = i1  p = p  q = q
  Branches = {b1, b2}
  Workers = {w1, w2}
  NoWorker = NoWorker
  Indexers = {i1}
  Parcels = {p, q}
  Holds <- HeldInAny
  Freezes <- HeldInAny
  NoBranch = NoBranch
  MaxAttempts = 2
  Faults = {"reset", "reindex", "verdict", "reconcile"}
  MaxStarts = 2
  MaxCrashes = 2
SYMMETRY Symmetry
INVARIANTS RowOrVerdict OwnMergeOnly
PROPERTIES MergedWasGated
