----------------------------- MODULE Coordinator -----------------------------
(***************************************************************************)
(* The coordinator of lab 1 (lab1/coordinator.go).  Its goroutine schedule *)
(* takes one heartbeat or report at a time from its two channels and       *)
(* answers it before it takes the next, so that each is one step; the      *)
(* operators Heartbeat and Report are those steps, and the module that     *)
(* EXTENDS this one says who takes them.                                   *)
(***************************************************************************)
EXTENDS Naturals

CONSTANTS nMap,      \* the number of input files, one map task each
          nReduce    \* the number of reduce tasks

(* doMapTask takes hashes modulo nReduce.                                  *)
ASSUME Sizes == nMap \in Nat /\ nReduce \in Nat \ {0}

VARIABLES phase,
          tasks,     \* the task table of the phase
          doneCh     \* how many messages wait in doneCh

coordinator == <<phase, tasks, doneCh>>

MapPhase == "MapPhase"
ReducePhase == "ReducePhase"
CompletePhase == "CompletePhase"

Waiting == "Waiting"
Working == "Working"
Finished == "Finished"

MapJob == "MapJob"
ReduceJob == "ReduceJob"
WaitJob == "WaitJob"
CompleteJob == "CompleteJob"

Maps == 0 .. nMap - 1
Reduces == 0 .. nReduce - 1

(* overdue: MaxTaskRunInterval has gone by since startTime.                *)
Task == [status : {Waiting, Working, Finished}, overdue : BOOLEAN]

(* Id has its zero value when there is no task.                            *)
HeartbeatResponse ==
  [JobType : {MapJob, ReduceJob, WaitJob, CompleteJob}, Id : Maps \cup Reduces]

FreshTasks(ids) == [id \in ids |-> [status |-> Waiting, overdue |-> FALSE]]

CoordinatorInit ==
  /\ phase = MapPhase
  /\ tasks = FreshTasks(Maps)
  /\ doneCh = 0

CoordinatorTypeOK ==
  /\ phase \in {MapPhase, ReducePhase, CompletePhase}
  /\ tasks \in [IF phase = MapPhase THEN Maps ELSE Reduces -> Task]
  /\ doneCh \in 0 .. 1

-----------------------------------------------------------------------------
AllFinished_NoneWaiting(t) == \A id \in DOMAIN t : t[id].status # Waiting

AllFinished(t) == \A id \in DOMAIN t : t[id].status = Finished

Selectable_NeverAgain(t) == { id \in DOMAIN t : t[id].status = Waiting }

(* The tasks selectTask may hand out: a worker that has had a task for     *)
(* too long is taken for dead, and the task is given to another as well.   *)
Selectable(t) ==
  { id \in DOMAIN t : \/ t[id].status = Waiting
                      \/ t[id].status = Working /\ t[id].overdue }

(* The first of them is handed out and its clock started; with none the    *)
(* worker waits.                                                           *)
selectTask(p, t, response) ==
  \/ /\ response.Id \in Selectable(t)
     /\ \A id \in Selectable(t) : response.Id <= id
     /\ response.JobType = IF p = MapPhase THEN MapJob ELSE ReduceJob
     /\ tasks' = [t EXCEPT ![response.Id] = [status |-> Working, overdue |-> FALSE]]
  \/ /\ Selectable(t) = {}
     /\ response = [JobType |-> WaitJob, Id |-> 0]
     /\ tasks' = t

assign(response) ==
  /\ phase # CompletePhase
  /\ ~AllFinished(tasks)
  /\ selectTask(phase, tasks, response)
  /\ UNCHANGED <<phase, doneCh>>

initReducePhase_SameTable(response) ==
  /\ phase = MapPhase
  /\ AllFinished(tasks)
  /\ phase' = ReducePhase
  /\ selectTask(ReducePhase, FreshTasks(Maps), response)
  /\ UNCHANGED doneCh

(* The heartbeat that finds every map task finished starts the reduce      *)
(* phase and gets its first task.                                          *)
initReducePhase(response) ==
  /\ phase = MapPhase
  /\ AllFinished(tasks)
  /\ phase' = ReducePhase
  /\ selectTask(ReducePhase, FreshTasks(Reduces), response)
  /\ UNCHANGED doneCh

(* doneCh holds one message: schedule would block on a second.             *)
initCompletePhase(response) ==
  /\ phase = ReducePhase
  /\ AllFinished(tasks)
  /\ phase' = CompletePhase
  /\ doneCh = 0
  /\ doneCh' = 1
  /\ response = [JobType |-> CompleteJob, Id |-> 0]
  /\ UNCHANGED tasks

sayComplete(response) ==
  /\ phase = CompletePhase
  /\ response = [JobType |-> CompleteJob, Id |-> 0]
  /\ UNCHANGED coordinator

Heartbeat(response) ==
  \/ assign(response)
  \/ initReducePhase(response)
  \/ initCompletePhase(response)
  \/ sayComplete(response)

Report_AnyPhase(id, p) ==
  /\ tasks' = [tasks EXCEPT ![id].status = Finished]
  /\ UNCHANGED <<phase, doneCh>>

(* A report counts in its own phase only: the numbers of map and reduce    *)
(* tasks overlap.                                                          *)
Report(id, p) ==
  /\ tasks' = IF p = phase THEN [tasks EXCEPT ![id].status = Finished] ELSE tasks
  /\ UNCHANGED <<phase, doneCh>>

(* The clock of task id passes MaxTaskRunInterval.                         *)
TimePasses(id) ==
  /\ tasks[id].status = Working
  /\ ~tasks[id].overdue
  /\ tasks' = [tasks EXCEPT ![id].overdue = TRUE]
  /\ UNCHANGED <<phase, doneCh>>

Done ==
  /\ doneCh > 0
  /\ doneCh' = doneCh - 1
  /\ UNCHANGED <<phase, tasks>>

=============================================================================
