SPECIFICATION Spec
CONSTANTS
  Holder = holder
  Claimers = {c1}
  Dirs = {d1, d2, d3, d4}
  NoDir = NoDir
  MaxVersion = 2
SYMMETRY Symmetry
INVARIANT ReturnedIsKept
