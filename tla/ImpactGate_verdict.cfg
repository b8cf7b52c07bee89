SPECIFICATION Spec
CONSTANTS
  Files <- MCFiles
  Tests <- MCTests
  Symbols <- MCSymbols
  Submodule <- MCSubmodule
  Packages <- MCPackages
  Imports <- MCImports
  Mentions <- MCMentions
  Fixtures = {}
  Changes <- MCChanges
  Fates <- MCFates
  Faults = {"index", "spawn"}
INVARIANTS
  WalkExact
  GreenMeansGreen
PROPERTY
  GateEnds
CHECK_DEADLOCK FALSE
