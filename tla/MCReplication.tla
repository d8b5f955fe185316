---------------------------- MODULE MCReplication ----------------------------
EXTENDS Replication

CONSTANTS h1

=============================================================================
