SPECIFICATION Spec
CONSTANTS
  Branches = {main, b1, b2}
  Main = main
  NoBranch = NoBranch
  FactIds = {closed, f}
  SessionClosed = closed
  Preds = {p}
  Values = {v1, v2}
  BeliefIds = {}
  Claims = {}
  NoSupport = NoSupport
  Supports = {NoSupport}
  Inherit = Inherit
  ObsIds = {}
  Froms = {0}
  Ends = {0}
  MaxTime = 1
  MaxTx = 5
  AncestorGuard = 256
SYMMETRY Symmetry
INVARIANTS TypeOK StampsTraceToTheLog OpenRowIsNewest BranchTableWellFormed MergeKeepsTarget
PROPERTIES BranchesIsolated PastIsStable RetractionTakesEffect MergeLands 
