---------------------------- MODULE MC_WriteGate ----------------------------
EXTENDS WriteGate

MCPath == <<Public, "exom">>
MCGrants == [u \in Users |-> <<>>]
=============================================================================
