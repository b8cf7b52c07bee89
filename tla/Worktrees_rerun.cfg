CHECK_DEADLOCK FALSE
SPECIFICATION Spec
CONSTANTS
  n1 = n1  n2 = n2  n3 = n3  a1 = a1  a2 = a2  a3 = a3  h1 = h1  h2 = h2
  Names = {n1, n2}
  Actors = {a1, a2}
  Hosts = {h1}
  HostOf <- OneHost
  Reuse = TRUE
  Faults = {}
  MaxWork = 1
  MaxInode = 3
  MaxCrashes = 1
SYMMETRY NameSymmetry
INVARIANTS SweepSparesLive
