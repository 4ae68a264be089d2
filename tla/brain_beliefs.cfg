SPECIFICATION Spec
CONSTANTS
  Branches = {main, b1}
  Main = main
  NoBranch = NoBranch
  FactIds = {}
  SessionClosed = closed
  Preds = {p}
  Values = {v1}
  BeliefIds = {x, y}
  Claims = {c1, c2}
  NoSupport = NoSupport
  Supports = {NoSupport}
  Inherit = Inherit
  ObsIds = {o}
  Froms = {0, 2}
  Ends = {0}
  MaxTime = 2
  MaxTx = 4
  AncestorGuard = 256

PROPERTIES BranchesIsolated PastIsStable  RevisionKeepsTheMeantime
SYMMETRY Symmetry
