--------------------------------- MODULE Job ---------------------------------
(***************************************************************************)
(* What a MapReduce job promises, without workers, heartbeats and clocks:  *)
(* the map tasks are done first, then the reduce tasks, each has its       *)
(* effect once, and the job is complete when all are done.  A file system  *)
(* that refuses a write (faulty) voids the promise.                        *)
(***************************************************************************)
CONSTANTS Maps, Reduces

VARIABLES phase,
          mapped,     \* the map tasks all of whose output is there
          reduced,    \* the reduce tasks whose output is there
          faulty

vars == <<phase, mapped, reduced, faulty>>

Init ==
  /\ phase = "MapPhase"
  /\ mapped = {}
  /\ reduced = {}
  /\ faulty = FALSE

MapTask(m) ==
  /\ m \notin mapped
  /\ phase = "MapPhase" \/ faulty
  /\ mapped' = mapped \cup {m}
  /\ UNCHANGED <<phase, reduced, faulty>>

StartReduce ==
  /\ phase = "MapPhase"
  /\ mapped = Maps \/ faulty
  /\ phase' = "ReducePhase"
  /\ UNCHANGED <<mapped, reduced, faulty>>

ReduceTask(r) ==
  /\ r \notin reduced
  /\ phase = "ReducePhase" \/ faulty
  /\ mapped = Maps \/ faulty
  /\ reduced' = reduced \cup {r}
  /\ UNCHANGED <<phase, mapped, faulty>>

Complete ==
  /\ phase = "ReducePhase"
  /\ reduced = Reduces \/ faulty
  /\ phase' = "CompletePhase"
  /\ UNCHANGED <<mapped, reduced, faulty>>

Fail ==
  /\ faulty' = TRUE
  /\ UNCHANGED <<phase, mapped, reduced>>

Next ==
  \/ \E m \in Maps : MapTask(m)
  \/ StartReduce
  \/ \E r \in Reduces : ReduceTask(r)
  \/ Complete
  \/ Fail

Spec == Init /\ [][Next]_vars

=============================================================================
