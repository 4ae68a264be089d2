---------------------------- MODULE MC_ExomStore ----------------------------
\* Small numbers of operations, stops and faults.
EXTENDS ExomStore
=============================================================================
