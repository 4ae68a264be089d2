--------------------------- MODULE MC_SplayTable ---------------------------
\* SplayTable on small instances; directories are interchangeable.
EXTENDS SplayTable, TLC

Symmetry == Permutations(Dirs)

=============================================================================
