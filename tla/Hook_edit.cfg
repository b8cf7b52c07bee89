SPECIFICATION Spec
CONSTANTS
  a1 = a1
  a2 = a2
  out = out
  Agents <- MCAgents
  Paths <- MCPaths
  Files <- MCFiles
  Target <- MCTarget
  Outside = out
  Texts <- MCTexts
  Broken = {"bad"}
  Glue <- MCGlue
  Indexed = {}
  Ttl = 2
  Window = 1
  MaxTurns = 3
  MaxLate = 1
SYMMETRY AgentSymmetry
INVARIANTS
  EditsAlone
  RowTellsFile
  StopReleases
PROPERTY
  DecisionsForCause
