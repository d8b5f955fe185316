------------------------------- MODULE MCRaft -------------------------------
EXTENDS Raft, TLC

Symmetry == Permutations(Candidates) \cup Permutations(Server \ Candidates)

=============================================================================
