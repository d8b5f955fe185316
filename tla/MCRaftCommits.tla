---------------------------- MODULE MCRaftCommits ----------------------------
EXTENDS RaftCommits, TLC

Symmetry == Permutations(Candidates) \cup Permutations(Server \ Candidates)

=============================================================================
