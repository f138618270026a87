SPECIFICATION Spec
CONSTANTS
  Agents = {a, b, c, d}
  NoAgent = NoAgent
  NoChain = NoChain
  MaxDepth = 2
  MaxRuns = 4
SYMMETRY Symmetry
INVARIANTS TypeOK ChainIsLineage NoCycle NoStaleChain
CHECK_DEADLOCK FALSE
