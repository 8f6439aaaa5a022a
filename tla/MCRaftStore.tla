----------------------------- MODULE MCRaftStore -----------------------------
EXTENDS RaftStore

Symmetry == Permutations(Cmd)
=============================================================================
