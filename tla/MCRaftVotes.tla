----------------------------- MODULE MCRaftVotes -----------------------------
EXTENDS RaftVotes, TLC

Symmetry == Permutations(Candidates) \cup Permutations(Server \ Candidates)

=============================================================================
