SPECIFICATION Spec
CONSTANTS
  Branches = {main}
  Main = main
  NoBranch = NoBranch
  FactIds = {f}
  SessionClosed = closed
  Preds = {p}
  Values = {v1, v2}
  BeliefIds = {}
  Claims = {}
  NoSupport = NoSupport
  Supports = {NoSupport}
  Inherit = Inherit
  ObsIds = {}
  Froms = {0, 2}
  Ends = {0}
  MaxTime = 2
  MaxTx = 4
  AncestorGuard = 256
PROPERTY KnownIntervalsStable
