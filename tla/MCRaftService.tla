---------------------------- MODULE MCRaftService ----------------------------
EXTENDS RaftService, TLC

Symmetry == Permutations(Candidates) \cup Permutations(Server \ Candidates)

=============================================================================
