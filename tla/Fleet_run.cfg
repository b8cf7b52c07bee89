CHECK_DEADLOCK FALSE
SPECIFICATION FairSpec
CONSTANTS
  p1 = p1  p2 = p2  r1 = r1
  Parcels = {p1, p2}
  Tasks <- ThreeTasks
  MaxAttempts = 2
  NAgents = 2
  Rivals = {r1}
  Deletes = {p1}
  Faults = {"call", "lease", "release", "reply", "git", "work"}
  MaxFailures = 2
INVARIANTS WorksAlone NothingLeaks ResultsTruthful
PROPERTIES DeniedByOthers RunEnds LeasesEnd
