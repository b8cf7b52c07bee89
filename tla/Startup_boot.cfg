CHECK_DEADLOCK FALSE
SPECIFICATION Spec
CONSTANTS
  p1 = p1  p2 = p2  p3 = p3  r1 = r1  r2 = r2  d1 = d1
  Procs = {p1, p2, p3}
  Roots = {r1, r2}
  Lockable = {r1}
  Paths = {d1}
  Starts <- SharedPath
  Careful = TRUE
  MaxFiles = 3
  MaxLaunches = 5
  MaxMerges = 2
  MaxAttempts = 2
  MaxFaults = 2
  Nobody = Nobody
SYMMETRY ProcSymmetry
INVARIANTS OneServerPerRepo LiveMergesStand OnlyRotatedOrphans
