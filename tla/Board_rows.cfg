CHECK_DEADLOCK FALSE
SPECIFICATION Spec
CONSTANTS
  a1 = a1  a2 = a2  a3 = a3  f1 = f1  f2 = f2  g = g  s1 = s1  s2 = s2  n = n
  Agents = {a1, a2, a3}
  Files = {f1, f2, g}
  Symbols = {s1, s2, n}
  Home <- HomeOf
  Writes <- TwoOnOne
  Reads <- ReadOther
  Edits <- EditsOf
  Adds <- AddsOf
  Removes <- RemovesOf
  Signs = {a1}
  Shared <- SharedIn
  Nobody = Nobody
  Lapses = {f1}
  Faults = {"index", "agent"}
  MaxRuns <- FirstTwice
INVARIANTS RowIsTrunkOrReport SubscribersUpToDate GhostsRetired
PROPERTIES LandsOnPlannedDep BouncedForCause
