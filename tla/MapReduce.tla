------------------------------ MODULE MapReduce ------------------------------
(***************************************************************************)
(* A MapReduce job of lab 1: the coordinator, the workers                  *)
(* (lab1/worker.go) with the files they write (lab1/fileworker.go), and    *)
(* the program that waits for Done.                                        *)
(*                                                                         *)
(* A call of a worker is one step: schedule handles it as a whole, and     *)
(* what happens to the worker or to the clock between a send and its       *)
(* answer could as well happen before or after both.  A file is written    *)
(* by one step, its rename; files are only added, and a task written twice *)
(* is written the same, so that a file is in files or it is not.           *)
(***************************************************************************)
EXTENDS Coordinator

CONSTANTS Worker,
          MaxCrashes,        \* bound: workers that die
          MaxWriteErrors     \* bound: calls of atomicWriteFile that return an error

VARIABLES stage,         \* where each worker is in its loop
          job,           \* the response it works on
          unwritten,     \* the goroutines of doMapTask that still run
          files,         \* <<m, r>>: mr-m-r exists
          outputs,       \* r: mr-out-r exists
          main,          \* where the program of the coordinator is
          crashes, writeErrors

workers == <<stage, job, unwritten>>
disk == <<files, outputs>>
faults == <<crashes, writeErrors>>
vars == <<coordinator, workers, disk, main, faults>>

Stages == {"asks", "maps", "reduces", "reports", "returned", "dead"}

TypeOK ==
  /\ CoordinatorTypeOK
  /\ stage \in [Worker -> Stages]
  /\ job \in [Worker -> HeartbeatResponse]
  /\ \A w \in Worker :
       /\ stage[w] \in {"maps", "reports"} /\ job[w].JobType = MapJob => job[w].Id \in Maps
       /\ stage[w] \in {"reduces", "reports"} /\ job[w].JobType = ReduceJob => job[w].Id \in Reduces
       /\ stage[w] = "maps" => job[w].JobType = MapJob
       /\ stage[w] = "reduces" => job[w].JobType = ReduceJob
       /\ stage[w] = "reports" => job[w].JobType \in {MapJob, ReduceJob}
  /\ unwritten \in [Worker -> SUBSET Reduces]
  /\ files \subseteq Maps \X Reduces
  /\ outputs \subseteq Reduces
  /\ main \in {"waits", "sleeps", "exited"}
  /\ crashes \in Nat
  /\ writeErrors \in Nat

Init ==
  /\ CoordinatorInit
  /\ stage = [w \in Worker |-> "asks"]
  /\ job = [w \in Worker |-> [JobType |-> MapJob, Id |-> 0]]
  /\ unwritten = [w \in Worker |-> {}]
  /\ files = {}
  /\ outputs = {}
  /\ main = "waits"
  /\ crashes = 0
  /\ writeErrors = 0

-----------------------------------------------------------------------------
StageFor(JobType) ==
  CASE JobType = MapJob      -> "maps"
    [] JobType = ReduceJob   -> "reduces"
    [] JobType = WaitJob     -> "asks"
    [] JobType = CompleteJob -> "returned"

doHeartbeat(w) ==
  /\ stage[w] = "asks"
  /\ main # "exited"
  /\ \E response \in HeartbeatResponse :
       /\ Heartbeat(response)
       /\ job' = [job EXCEPT ![w] = response]
       /\ stage' = [stage EXCEPT ![w] = StageFor(response.JobType)]
       /\ unwritten' = [unwritten EXCEPT ![w] =
                          IF response.JobType = MapJob THEN Reduces ELSE {}]
  /\ UNCHANGED <<disk, main, faults>>

(* atomicWriteFile renames a temporary file or returns one of its errors,  *)
(* which no caller looks at.                                               *)
atomicWriteFileFails ==
  /\ writeErrors < MaxWriteErrors
  /\ writeErrors' = writeErrors + 1

(* One goroutine of doMapTask writes the file for reduce task r, or        *)
(* atomicWriteFile fails and the goroutine ends all the same.              *)
writeIntermediate(w, r) ==
  /\ stage[w] = "maps"
  /\ r \in unwritten[w]
  /\ unwritten' = [unwritten EXCEPT ![w] = @ \ {r}]
  /\ \/ /\ files' = files \cup {<<job[w].Id, r>>}
        /\ UNCHANGED writeErrors
     \/ /\ atomicWriteFileFails
        /\ UNCHANGED files
  /\ UNCHANGED <<coordinator, stage, job, outputs, main, crashes>>

waitgDone_AnyOne(w) == unwritten[w] # Reduces
waitgDone(w) == unwritten[w] = {}

endMapTask(w) ==
  /\ stage[w] = "maps"
  /\ waitgDone(w)
  /\ stage' = [stage EXCEPT ![w] = "reports"]
  /\ UNCHANGED <<coordinator, job, unwritten, disk, main, faults>>

HasInputs(r) == Maps \X {r} \subseteq files

(* The worker dies when it cannot open an input.                           *)
doReduceTask(w) ==
  /\ stage[w] = "reduces"
  /\ \/ /\ ~HasInputs(job[w].Id)
        /\ stage' = [stage EXCEPT ![w] = "dead"]
        /\ UNCHANGED <<outputs, writeErrors>>
     \/ /\ HasInputs(job[w].Id)
        /\ stage' = [stage EXCEPT ![w] = "reports"]
        /\ \/ /\ outputs' = outputs \cup {job[w].Id}
              /\ UNCHANGED writeErrors
           \/ /\ atomicWriteFileFails
              /\ UNCHANGED outputs
  /\ UNCHANGED <<coordinator, job, unwritten, files, main, crashes>>

PhaseOf(JobType) == IF JobType = MapJob THEN MapPhase ELSE ReducePhase

doReport(w) ==
  /\ stage[w] = "reports"
  /\ main # "exited"
  /\ Report(job[w].Id, PhaseOf(job[w].JobType))
  /\ stage' = [stage EXCEPT ![w] = "asks"]
  /\ UNCHANGED <<job, unwritten, disk, main, faults>>

(* With the coordinator gone, call ends in log.Fatal; so does a heartbeat  *)
(* that was under way, whose zero response asks to map the file "".        *)
callFails(w) ==
  /\ main = "exited"
  /\ stage[w] \in {"asks", "reports"}
  /\ stage' = [stage EXCEPT ![w] = "dead"]
  /\ UNCHANGED <<coordinator, job, unwritten, disk, main, faults>>

Crash(w) ==
  /\ stage[w] \notin {"returned", "dead"}
  /\ crashes < MaxCrashes
  /\ crashes' = crashes + 1
  /\ stage' = [stage EXCEPT ![w] = "dead"]
  /\ UNCHANGED <<coordinator, job, unwritten, disk, main, writeErrors>>

clock(id) ==
  /\ main # "exited"
  /\ TimePasses(id)
  /\ UNCHANGED <<workers, disk, main, faults>>

(* The program of the coordinator calls Done, sleeps for a second in which *)
(* heartbeats are still answered, and exits.                               *)
mainStep ==
  /\ \/ main = "waits" /\ Done /\ main' = "sleeps"
     \/ main = "sleeps" /\ main' = "exited" /\ UNCHANGED coordinator
  /\ UNCHANGED <<workers, disk, faults>>

-----------------------------------------------------------------------------
workerStep(w) ==
  \/ doHeartbeat(w)
  \/ \E r \in Reduces : writeIntermediate(w, r)
  \/ endMapTask(w)
  \/ doReduceTask(w)
  \/ doReport(w)
  \/ callFails(w)

Next ==
  \/ \E w \in Worker : workerStep(w) \/ Crash(w)
  \/ \E id \in DOMAIN tasks : clock(id)
  \/ mainStep

Spec == Init /\ [][Next]_vars

(* Workers that have not died go on, time passes, and main goes on.        *)
FairSpec ==
  /\ Spec
  /\ \A w \in Worker : WF_vars(workerStep(w))
  /\ \A id \in Maps \cup Reduces : WF_vars(id \in DOMAIN tasks /\ clock(id))
  /\ WF_vars(mainStep)

-----------------------------------------------------------------------------
Written(id) ==
  IF phase = MapPhase THEN {id} \X Reduces \subseteq files ELSE id \in outputs

(* "If it is a report, the task it was given is done" (lab1/README.md:27): *)
(* the coordinator takes no task for finished whose output is missing.     *)
ReportedIsDone ==
  \A id \in DOMAIN tasks : tasks[id].status = Finished => Written(id)

(* The same as long as no write has failed: late reports of workers that   *)
(* were taken for dead, of this phase or the one before, do no harm.       *)
FinishedIsWritten == writeErrors = 0 => ReportedIsDone

(* No worker is given a reduce task before all its inputs exist, so that   *)
(* none dies in doReduceTask, whoever mapped them and however often.       *)
InputsReady ==
  writeErrors = 0 => \A w \in Worker : stage[w] = "reduces" => HasInputs(job[w].Id)

(* The files and the phase are those of a job done task by task.           *)
TheJob == INSTANCE Job WITH
  mapped  <- { m \in Maps : {m} \X Reduces \subseteq files },
  reduced <- outputs,
  faulty  <- writeErrors > 0
ImplementsJob == TheJob!Spec

(* While one worker lives and no write fails, the job ends: what dead      *)
(* workers had is handed out again, and schedule blocks on no channel.     *)
JobEnds == <>(main = "exited" \/ writeErrors > 0)

=============================================================================
