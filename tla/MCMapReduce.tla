----------------------------- MODULE MCMapReduce -----------------------------
EXTENDS MapReduce, FiniteSets

(* Without it no one is left to finish the job.                            *)
ASSUME SomeoneLives == MaxCrashes < Cardinality(Worker)

=============================================================================
