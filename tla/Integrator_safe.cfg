SPECIFICATION FairSpec
CONSTANTS
  b1 = b1  b2 = b2  w1 = w1  w2 = w2  i1 = i1  p = p  q = q
  Branches = {b1, b2}
  Workers = {w1, w2}
  NoWorker = NoWorker
  Indexers = {}
  Parcels = {p, q}
  Holds <- HeldIn
  Freezes <- FrozenIn
  NoBranch = NoBranch
  MaxAttempts = 3
  Faults = {}
  MaxStarts = 3
  MaxCrashes = 2
INVARIANTS TrunkGreen MergedStays BoardFollowsTrunk
PROPERTIES ImplementsAtomicTrunk RowCloses RequestEnds
