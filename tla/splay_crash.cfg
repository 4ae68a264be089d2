SPECIFICATION Spec
CONSTANTS
  Holder = holder
  Claimers = {}
  Dirs = {d1, d2, d3}
  NoDir = NoDir
  MaxVersion = 4
SYMMETRY Symmetry
INVARIANT TypeOK
PROPERTY SavesAreAtomic
