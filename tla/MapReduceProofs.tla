--------------------------- MODULE MapReduceProofs ---------------------------
(***************************************************************************)
(* Lab 1 for every number of files, reduce tasks and workers, and every    *)
(* bound on crashes and failed writes: what is finished is written, no     *)
(* reduce task lacks an input, and the whole implements Job.               *)
(***************************************************************************)
EXTENDS MapReduce, TLAPS

(* A worker's part of the invariant: what it has done so far of its task.  *)
ProgressOK(w) ==
  /\ stage[w] = "maps" => {job[w].Id} \X (Reduces \ unwritten[w]) \subseteq files
  /\ stage[w] = "reports" /\ job[w].JobType = MapJob => {job[w].Id} \X Reduces \subseteq files
  /\ stage[w] = "reports" /\ job[w].JobType = ReduceJob => job[w].Id \in outputs

(* Tasks of the reduce phase exist in that phase and later only.           *)
InPhase ==
  \A w \in Worker :
    stage[w] = "reduces" \/ (stage[w] = "reports" /\ job[w].JobType = ReduceJob)
      => phase # MapPhase

(* What each phase leaves behind.                                          *)
PhasesOK ==
  /\ phase # MapPhase => Maps \X Reduces \subseteq files
  /\ phase = CompletePhase => outputs = Reduces

Sound ==
  /\ \A w \in Worker : ProgressOK(w)
  /\ ReportedIsDone
  /\ PhasesOK

MInv ==
  /\ TypeOK
  /\ InPhase
  /\ writeErrors = 0 => Sound

-----------------------------------------------------------------------------
LEMMA InitMInv == Init => MInv
  <1> SUFFICES ASSUME Init PROVE MInv
    OBVIOUS
  <1> USE Sizes
  <1>1. TypeOK
    BY DEF Init, CoordinatorInit, TypeOK, CoordinatorTypeOK, FreshTasks, Task,
       HeartbeatResponse, Maps, Reduces, Stages
  <1>2. InPhase /\ Sound
    BY DEF Init, CoordinatorInit, InPhase, Sound, ProgressOK, ReportedIsDone, PhasesOK,
       FreshTasks, Waiting, Finished, MapPhase, CompletePhase
  <1> QED
    BY <1>1, <1>2 DEF MInv

-----------------------------------------------------------------------------
(* What the coordinator's answer to a heartbeat does.                      *)

(* The table of the phase stays well formed, and the answer is a task of   *)
(* the new phase or none.                                                  *)
LEMMA SelectTaskType ==
  ASSUME NEW p, NEW ids, NEW t \in [ids -> Task], NEW response \in HeartbeatResponse,
         selectTask(p, t, response)
  PROVE  /\ tasks' \in [ids -> Task]
         /\ \/ response.JobType = WaitJob
            \/ /\ response.JobType = IF p = MapPhase THEN MapJob ELSE ReduceJob
               /\ response.Id \in ids
  <1>1. CASE Selectable(t) = {} /\ response = [JobType |-> WaitJob, Id |-> 0] /\ tasks' = t
    BY <1>1
  <1>2. CASE response.Id \in Selectable(t)
    <2>1. response.Id \in ids
      BY <1>2 DEF Selectable
    <2>2. [status |-> Working, overdue |-> FALSE] \in Task
      BY DEF Task
    <2> QED
      BY <1>2, <2>1, <2>2 DEF selectTask
  <1> QED
    BY <1>1, <1>2 DEF selectTask

LEMMA HeartbeatType ==
  ASSUME CoordinatorTypeOK, NEW response \in HeartbeatResponse, Heartbeat(response)
  PROVE  /\ CoordinatorTypeOK'
         /\ phase # MapPhase => phase' # MapPhase
         /\ \/ response.JobType \in {WaitJob, CompleteJob}
            \/ response.JobType = MapJob /\ response.Id \in Maps /\ phase' = MapPhase
            \/ response.JobType = ReduceJob /\ response.Id \in Reduces /\ phase' # MapPhase
  <1> USE DEF CoordinatorTypeOK, MapPhase, ReducePhase, CompletePhase
  <1>1. CASE assign(response)
    BY <1>1, SelectTaskType DEF assign
  <1>2. CASE initReducePhase(response)
    <2>1. FreshTasks(Reduces) \in [Reduces -> Task]
      BY DEF FreshTasks, Task
    <2> QED
      BY <1>2, <2>1, SelectTaskType DEF initReducePhase
  <1>3. CASE initCompletePhase(response)
    BY <1>3 DEF initCompletePhase
  <1>4. CASE sayComplete(response)
    BY <1>4 DEF sayComplete, coordinator
  <1> QED
    BY <1>1, <1>2, <1>3, <1>4 DEF Heartbeat

(* No task becomes finished by a heartbeat, and a phase ends with all of   *)
(* its tasks finished.                                                     *)
LEMMA HeartbeatFinishes ==
  ASSUME CoordinatorTypeOK, NEW response \in HeartbeatResponse, Heartbeat(response)
  PROVE  /\ phase' = phase => \A id \in DOMAIN tasks' :
              tasks'[id].status = Finished => id \in DOMAIN tasks /\ tasks[id].status = Finished
         /\ phase' # phase => AllFinished(tasks)
         /\ phase' # phase /\ phase = MapPhase =>
              /\ phase' = ReducePhase
              /\ \A id \in DOMAIN tasks' : tasks'[id].status # Finished
         /\ phase' # phase /\ phase # MapPhase =>
              phase = ReducePhase /\ phase' = CompletePhase /\ tasks' = tasks
  <1> USE DEF CoordinatorTypeOK, MapPhase, ReducePhase, CompletePhase
  <1>1. CASE assign(response)
    BY <1>1 DEF assign, selectTask, Working, Finished, Selectable, Task
  <1>2. CASE initReducePhase(response)
    BY <1>2 DEF initReducePhase, selectTask, FreshTasks, Working, Waiting, Finished, Selectable
  <1>3. CASE initCompletePhase(response)
    BY <1>3 DEF initCompletePhase
  <1>4. CASE sayComplete(response)
    BY <1>4 DEF sayComplete, coordinator
  <1> QED
    BY <1>1, <1>2, <1>3, <1>4 DEF Heartbeat

-----------------------------------------------------------------------------
LEMMA TypeKept == MInv /\ [Next]_vars => TypeOK' /\ InPhase'
  <1> SUFFICES ASSUME TypeOK, InPhase, [Next]_vars
               PROVE  TypeOK' /\ InPhase'
    BY DEF MInv
  <1> USE DEF TypeOK, InPhase
  <1> USE DEF MapJob, ReduceJob, WaitJob, CompleteJob
  <1>1. ASSUME NEW w \in Worker, doHeartbeat(w) PROVE TypeOK' /\ InPhase'
    <2>1. PICK response \in HeartbeatResponse :
            /\ Heartbeat(response)
            /\ job' = [job EXCEPT ![w] = response]
            /\ stage' = [stage EXCEPT ![w] = StageFor(response.JobType)]
            /\ unwritten' = [unwritten EXCEPT ![w] =
                               IF response.JobType = MapJob THEN Reduces ELSE {}]
      BY <1>1 DEF doHeartbeat
    <2>2. /\ CoordinatorTypeOK'
          /\ phase # MapPhase => phase' # MapPhase
          /\ \/ response.JobType \in {WaitJob, CompleteJob}
             \/ response.JobType = MapJob /\ response.Id \in Maps /\ phase' = MapPhase
             \/ response.JobType = ReduceJob /\ response.Id \in Reduces /\ phase' # MapPhase
      BY <2>1, HeartbeatType
    <2>3. /\ StageFor(response.JobType) \in {"asks", "maps", "reduces", "returned"}
          /\ StageFor(response.JobType) = "maps" <=> response.JobType = MapJob
          /\ StageFor(response.JobType) = "reduces" <=> response.JobType = ReduceJob
      BY DEF HeartbeatResponse, StageFor
    <2> QED
      BY <1>1, <2>1, <2>2, <2>3 DEF doHeartbeat, disk, faults, Stages
  <1>2. ASSUME NEW w \in Worker, NEW r \in Reduces, writeIntermediate(w, r)
        PROVE  TypeOK' /\ InPhase'
    BY <1>2 DEF writeIntermediate, atomicWriteFileFails, coordinator, CoordinatorTypeOK
  <1>3. ASSUME NEW w \in Worker, endMapTask(w) PROVE TypeOK' /\ InPhase'
    BY <1>3 DEF endMapTask, coordinator, disk, faults, CoordinatorTypeOK, Stages
  <1>4. ASSUME NEW w \in Worker, doReduceTask(w) PROVE TypeOK' /\ InPhase'
    BY <1>4 DEF doReduceTask, atomicWriteFileFails, coordinator, disk, faults,
       CoordinatorTypeOK, Stages
  <1>5. ASSUME NEW w \in Worker, doReport(w) PROVE TypeOK' /\ InPhase'
    <2>1. CoordinatorTypeOK' /\ phase' = phase
      BY <1>5 DEF doReport, Report, CoordinatorTypeOK, Task
    <2> QED
      BY <1>5, <2>1 DEF doReport, disk, faults, Stages
  <1>6. ASSUME NEW w \in Worker, callFails(w) \/ Crash(w) PROVE TypeOK' /\ InPhase'
    BY <1>6 DEF callFails, Crash, coordinator, disk, faults, CoordinatorTypeOK, Stages
  <1>7. ASSUME NEW id \in DOMAIN tasks, clock(id) PROVE TypeOK' /\ InPhase'
    <2>1. CoordinatorTypeOK' /\ phase' = phase
      BY <1>7 DEF clock, TimePasses, CoordinatorTypeOK, Task
    <2> QED
      BY <1>7, <2>1 DEF clock, workers, disk, faults
  <1>8. CASE mainStep
    BY <1>8 DEF mainStep, Done, coordinator, workers, disk, faults, CoordinatorTypeOK
  <1>9. CASE UNCHANGED vars
    BY <1>9 DEF vars, coordinator, workers, disk, faults, CoordinatorTypeOK
  <1> QED
    BY <1>1, <1>2, <1>3, <1>4, <1>5, <1>6, <1>7, <1>8, <1>9 DEF Next, workerStep

-----------------------------------------------------------------------------
(* Files only appear, and a step that does not touch the coordinator keeps *)
(* what it knows.                                                          *)
LEMMA DiskGrows ==
  ASSUME ReportedIsDone, PhasesOK, TypeOK', UNCHANGED coordinator,
         files \subseteq files', outputs \subseteq outputs'
  PROVE  ReportedIsDone' /\ PhasesOK'
  BY DEF ReportedIsDone, PhasesOK, Written, coordinator, TypeOK

LEMMA SoundKept == MInv /\ [Next]_vars /\ TypeOK' /\ writeErrors' = 0 => Sound'
  <1> SUFFICES ASSUME TypeOK, InPhase, writeErrors = 0 => Sound, [Next]_vars, TypeOK',
                      writeErrors' = 0
               PROVE  Sound'
    BY DEF MInv
  <1>0. writeErrors = 0 /\ Sound
    BY DEF Next, vars, faults, workerStep, doHeartbeat, writeIntermediate,
       atomicWriteFileFails, endMapTask,
       doReduceTask, doReport, callFails, Crash, clock, mainStep, TypeOK
  <1> /\ \A w \in Worker : ProgressOK(w)
      /\ ReportedIsDone /\ PhasesOK
    BY <1>0 DEF Sound
  <1> USE DEF TypeOK
  <1>1. ASSUME NEW w \in Worker, doHeartbeat(w) PROVE Sound'
    <2>1. PICK response \in HeartbeatResponse :
            /\ Heartbeat(response)
            /\ job' = [job EXCEPT ![w] = response]
            /\ stage' = [stage EXCEPT ![w] = StageFor(response.JobType)]
            /\ unwritten' = [unwritten EXCEPT ![w] =
                               IF response.JobType = MapJob THEN Reduces ELSE {}]
      BY <1>1 DEF doHeartbeat
    <2>2. UNCHANGED disk
      BY <1>1 DEF doHeartbeat
    <2>3. \A v \in Worker : ProgressOK(v)'
      <3>1. StageFor(response.JobType) # "reports"
            /\ (StageFor(response.JobType) = "maps" => response.JobType = MapJob)
        BY DEF HeartbeatResponse, StageFor, MapJob, ReduceJob, WaitJob, CompleteJob
      <3> QED
        BY <2>1, <2>2, <3>1 DEF ProgressOK, disk
    <2>4. /\ phase' = phase => \A id \in DOMAIN tasks' :
              tasks'[id].status = Finished => id \in DOMAIN tasks /\ tasks[id].status = Finished
          /\ phase' # phase => AllFinished(tasks)
          /\ phase' # phase /\ phase = MapPhase =>
               /\ phase' = ReducePhase
               /\ \A id \in DOMAIN tasks' : tasks'[id].status # Finished
          /\ phase' # phase /\ phase # MapPhase =>
               phase = ReducePhase /\ phase' = CompletePhase /\ tasks' = tasks
      BY <2>1, HeartbeatFinishes
    <2>5. ReportedIsDone'
      BY <2>2, <2>4 DEF ReportedIsDone, Written, disk, MapPhase, ReducePhase, CompletePhase
    <2>6. PhasesOK'
      <3>1. CASE phase' = phase
        BY <2>2, <3>1 DEF PhasesOK, disk
      <3>2. CASE phase' # phase /\ phase = MapPhase
        <4>1. \A id \in Maps : {id} \X Reduces \subseteq files
          BY <2>4, <3>2 DEF AllFinished, ReportedIsDone, Written, CoordinatorTypeOK
        <4> QED
          BY <2>2, <2>4, <3>2, <4>1 DEF PhasesOK, disk, MapPhase, ReducePhase, CompletePhase
      <3>3. CASE phase' # phase /\ phase # MapPhase
        <4>1. \A id \in Reduces : id \in outputs
          BY <2>4, <3>3 DEF AllFinished, ReportedIsDone, Written, CoordinatorTypeOK
        <4> QED
          BY <2>2, <2>4, <3>3, <4>1 DEF PhasesOK, disk
      <3> QED
        BY <3>1, <3>2, <3>3
    <2> QED
      BY <2>3, <2>5, <2>6 DEF Sound
  <1>2. ASSUME NEW w \in Worker, NEW r \in Reduces, writeIntermediate(w, r) PROVE Sound'
    <2>1. /\ files' = files \cup {<<job[w].Id, r>>}
          /\ unwritten' = [unwritten EXCEPT ![w] = @ \ {r}]
          /\ UNCHANGED <<coordinator, stage, job, outputs>>
      BY <1>0, <1>2 DEF writeIntermediate, atomicWriteFileFails
    <2>2. \A v \in Worker : ProgressOK(v)'
      BY <2>1 DEF ProgressOK
    <2> QED
      BY <2>1, <2>2, DiskGrows DEF Sound
  <1>3. ASSUME NEW w \in Worker, endMapTask(w) PROVE Sound'
    <2>1. \A v \in Worker : ProgressOK(v)'
      BY <1>3 DEF endMapTask, waitgDone, ProgressOK, disk, MapJob, ReduceJob
    <2> QED
      BY <1>3, <2>1, DiskGrows DEF Sound, endMapTask, disk
  <1>4. ASSUME NEW w \in Worker, doReduceTask(w) PROVE Sound'
    <2>1. /\ outputs \subseteq outputs'
          /\ UNCHANGED <<coordinator, job, unwritten, files>>
          /\ \/ stage' = [stage EXCEPT ![w] = "dead"]
             \/ stage' = [stage EXCEPT ![w] = "reports"] /\ job[w].Id \in outputs'
      BY <1>0, <1>4 DEF doReduceTask, atomicWriteFileFails
    <2>2. \A v \in Worker : ProgressOK(v)'
      BY <1>4, <2>1 DEF ProgressOK, doReduceTask, MapJob, ReduceJob
    <2> QED
      BY <2>1, <2>2, DiskGrows DEF Sound
  <1>5. ASSUME NEW w \in Worker, doReport(w) PROVE Sound'
    <2>1. \A v \in Worker : ProgressOK(v)'
      BY <1>5 DEF doReport, ProgressOK, disk
    <2>2. ReportedIsDone'
      <3>1. phase' = phase /\ UNCHANGED disk
        BY <1>5 DEF doReport, Report
      <3>2. CASE PhaseOf(job[w].JobType) = phase
        <4>1. Written(job[w].Id)
          BY <1>5, <3>2 DEF doReport, PhaseOf, ProgressOK, Written, MapPhase, ReducePhase,
             MapJob, ReduceJob
        <4>2. tasks' = [tasks EXCEPT ![job[w].Id].status = Finished]
          BY <1>5, <3>2 DEF doReport, Report
        <4>3. \A id \in DOMAIN tasks' :
                tasks'[id].status = Finished => id = job[w].Id \/ tasks[id].status = Finished
          BY <4>2 DEF CoordinatorTypeOK
        <4> QED
          BY <3>1, <4>1, <4>2, <4>3 DEF ReportedIsDone, Written, disk, CoordinatorTypeOK
      <3>3. CASE PhaseOf(job[w].JobType) # phase
        BY <1>5, <3>1, <3>3 DEF doReport, Report, ReportedIsDone, Written, disk
      <3> QED
        BY <3>2, <3>3
    <2>3. PhasesOK'
      BY <1>5 DEF doReport, Report, PhasesOK, disk
    <2> QED
      BY <2>1, <2>2, <2>3 DEF Sound
  <1>6. ASSUME NEW w \in Worker, callFails(w) \/ Crash(w) PROVE Sound'
    <2>1. \A v \in Worker : ProgressOK(v)'
      BY <1>6 DEF callFails, Crash, ProgressOK, disk
    <2> QED
      BY <1>6, <2>1, DiskGrows DEF Sound, callFails, Crash, disk
  <1>7. ASSUME NEW id \in DOMAIN tasks, clock(id) PROVE Sound'
    <2>1. \A v \in Worker : ProgressOK(v)'
      BY <1>7 DEF clock, workers, disk, ProgressOK
    <2>2. ReportedIsDone'
      BY <1>7 DEF clock, TimePasses, ReportedIsDone, Written, disk, CoordinatorTypeOK, Task
    <2>3. PhasesOK'
      BY <1>7 DEF clock, TimePasses, PhasesOK, disk
    <2> QED
      BY <2>1, <2>2, <2>3 DEF Sound
  <1>8. CASE mainStep
    BY <1>8 DEF mainStep, Done, coordinator, workers, disk, Sound, ProgressOK, ReportedIsDone,
       Written, PhasesOK
  <1>9. CASE UNCHANGED vars
    BY <1>9 DEF vars, coordinator, workers, disk, Sound, ProgressOK, ReportedIsDone,
       Written, PhasesOK
  <1> QED
    BY <1>1, <1>2, <1>3, <1>4, <1>5, <1>6, <1>7, <1>8, <1>9 DEF Next, workerStep

-----------------------------------------------------------------------------
THEOREM MInvHolds == Spec => []MInv
  <1>1. MInv /\ [Next]_vars => MInv'
    BY TypeKept, SoundKept DEF MInv
  <1> QED
    BY <1>1, InitMInv, PTL DEF Spec

(* Types, for every number of files, tasks and workers.                    *)
THEOREM MapReduceTypes == Spec => []TypeOK
  <1>1. MInv => TypeOK
    BY DEF MInv
  <1> QED
    BY <1>1, MInvHolds, PTL

(* Unless atomicWriteFile failed, a task that counts as finished has its   *)
(* files, whatever Report got from late workers.                           *)
THEOREM FinishedIsWrittenHolds == Spec => []FinishedIsWritten
  <1>1. MInv => FinishedIsWritten
    BY DEF MInv, Sound, FinishedIsWritten
  <1> QED
    BY <1>1, MInvHolds, PTL

(* Unless atomicWriteFile failed, doReduceTask finds all of its inputs.    *)
THEOREM InputsReadyHolds == Spec => []InputsReady
  <1>1. MInv => InputsReady
    <2> SUFFICES ASSUME MInv, writeErrors = 0, NEW w \in Worker, stage[w] = "reduces"
                 PROVE  HasInputs(job[w].Id)
      BY DEF InputsReady
    <2> QED
      BY DEF MInv, InPhase, Sound, PhasesOK, TypeOK, HasInputs, ReduceJob
  <1> QED
    BY <1>1, MInvHolds, PTL

-----------------------------------------------------------------------------
(* Every step is a step of Job or changes nothing that Job sees.           *)
Mapped == { m \in Maps : {m} \X Reduces \subseteq files }

LEMMA StepImplementsJob ==
  MInv /\ MInv' /\ [Next]_vars => [TheJob!Next]_(TheJob!vars)
  <1> SUFFICES ASSUME MInv, MInv', [Next]_vars
               PROVE  TheJob!Next \/ UNCHANGED TheJob!vars
    OBVIOUS
  <1> TypeOK /\ TypeOK'
    BY DEF MInv
  <1> USE DEF TypeOK
  <1>a. Mapped = Maps \/ writeErrors > 0 \/ phase = MapPhase
    BY DEF MInv, Sound, PhasesOK, Mapped
  <1>b. writeErrors > 0 \/ writeErrors = 0
    OBVIOUS
  <1>1. ASSUME UNCHANGED phase, UNCHANGED disk, UNCHANGED writeErrors
        PROVE  UNCHANGED TheJob!vars
    BY <1>1 DEF TheJob!vars, disk
  <1>2. ASSUME NEW w \in Worker, doHeartbeat(w) PROVE TheJob!Next \/ UNCHANGED TheJob!vars
    <2>1. PICK response \in HeartbeatResponse : Heartbeat(response)
      BY <1>2 DEF doHeartbeat
    <2>2. UNCHANGED disk /\ UNCHANGED writeErrors
      BY <1>2 DEF doHeartbeat, faults
    <2>3. /\ phase' # phase => AllFinished(tasks)
          /\ phase' # phase /\ phase = MapPhase => phase' = ReducePhase
          /\ phase' # phase /\ phase # MapPhase => phase = ReducePhase /\ phase' = CompletePhase
      BY <2>1, HeartbeatFinishes
    <2>4. CASE phase' = phase
      BY <1>1, <2>2, <2>4
    <2>5. CASE phase' # phase /\ phase = MapPhase
      <3>1. Mapped = Maps \/ writeErrors > 0
        BY <1>b, <2>3, <2>5 DEF MInv, Sound, ReportedIsDone, Written, AllFinished, Mapped,
           CoordinatorTypeOK
      <3>2. TheJob!StartReduce
        BY <2>2, <2>3, <2>5, <3>1 DEF TheJob!StartReduce, Mapped, disk, MapPhase, ReducePhase
      <3> QED
        BY <3>2 DEF TheJob!Next
    <2>6. CASE phase' # phase /\ phase # MapPhase
      <3>1. outputs = Reduces \/ writeErrors > 0
        BY <1>b, <2>3, <2>6 DEF MInv, Sound, ReportedIsDone, Written, AllFinished,
           CoordinatorTypeOK
      <3>2. TheJob!Complete
        BY <2>2, <2>3, <2>6, <3>1 DEF TheJob!Complete, disk, ReducePhase, CompletePhase
      <3> QED
        BY <3>2 DEF TheJob!Next
    <2> QED
      BY <2>4, <2>5, <2>6
  <1>3. ASSUME UNCHANGED phase, UNCHANGED disk, writeErrors' = writeErrors + 1
        PROVE  TheJob!Next
    <2>1. TheJob!Fail
      BY <1>3 DEF TheJob!Fail, disk
    <2> QED
      BY <2>1 DEF TheJob!Next
  <1>4. ASSUME NEW w \in Worker, NEW r \in Reduces, writeIntermediate(w, r)
        PROVE  TheJob!Next \/ UNCHANGED TheJob!vars
    <2>1. CASE writeErrors' = writeErrors + 1
      BY <1>3, <1>4, <2>1 DEF writeIntermediate, atomicWriteFileFails, coordinator, disk
    <2>2. CASE writeErrors' # writeErrors + 1
      <3>1. PICK m \in Maps :
            /\ files' = files \cup {<<m, r>>}
            /\ UNCHANGED <<phase, outputs, writeErrors>>
        BY <1>4, <2>2 DEF writeIntermediate, atomicWriteFileFails, coordinator, MapJob
      <3>2. CASE Mapped' = Mapped
        BY <3>1, <3>2 DEF TheJob!vars, Mapped
      <3>3. CASE Mapped' # Mapped
        <4>1. Mapped' = Mapped \cup {m} /\ m \notin Mapped
          BY <3>1, <3>3 DEF Mapped
        <4>2. phase = MapPhase \/ writeErrors > 0
          BY <1>a, <3>1, <4>1
        <4>3. TheJob!MapTask(m)
          BY <3>1, <4>1, <4>2 DEF TheJob!MapTask, Mapped, MapPhase
        <4> QED
          BY <3>1, <4>3 DEF TheJob!Next
      <3> QED
        BY <3>2, <3>3
    <2> QED
      BY <2>1, <2>2
  <1>5. ASSUME NEW w \in Worker, doReduceTask(w)
        PROVE  TheJob!Next \/ UNCHANGED TheJob!vars
    <2> DEFINE r == job[w].Id
    <2>1. CASE UNCHANGED <<outputs, writeErrors>>
      BY <1>1, <1>5, <2>1 DEF doReduceTask, atomicWriteFileFails, coordinator, disk
    <2>2. CASE writeErrors' = writeErrors + 1 /\ UNCHANGED outputs
      BY <1>3, <1>5, <2>2 DEF doReduceTask, atomicWriteFileFails, coordinator, disk
    <2>3. CASE outputs' = outputs \cup {r} /\ r \notin outputs /\ UNCHANGED writeErrors
      <3>1. r \in Reduces /\ UNCHANGED <<phase, files>>
        BY <1>5 DEF doReduceTask, coordinator, ReduceJob
      <3>2. phase # MapPhase
        BY <1>5 DEF doReduceTask, MInv, InPhase
      <3>3. phase = ReducePhase \/ writeErrors > 0
        BY <1>b, <2>3, <3>1, <3>2 DEF MInv, Sound, PhasesOK, CoordinatorTypeOK
      <3>4. TheJob!ReduceTask(r)
        BY <1>a, <2>3, <3>1, <3>2, <3>3 DEF TheJob!ReduceTask, Mapped, ReducePhase
      <3> QED
        BY <3>1, <3>4 DEF TheJob!Next
    <2> QED
      BY <1>5, <2>1, <2>2, <2>3 DEF doReduceTask, atomicWriteFileFails
  <1>6. ASSUME NEW w \in Worker, endMapTask(w) \/ doReport(w) \/ callFails(w) \/ Crash(w)
        PROVE  UNCHANGED TheJob!vars
    BY <1>1, <1>6 DEF endMapTask, doReport, Report, callFails, Crash, coordinator, faults
  <1>7. ASSUME NEW id \in DOMAIN tasks, clock(id) PROVE UNCHANGED TheJob!vars
    BY <1>1, <1>7 DEF clock, TimePasses, faults
  <1>8. CASE mainStep
    BY <1>1, <1>8 DEF mainStep, Done, coordinator, faults
  <1>9. CASE UNCHANGED vars
    BY <1>1, <1>9 DEF vars, coordinator, faults
  <1> QED
    BY <1>2, <1>4, <1>5, <1>6, <1>7, <1>8, <1>9 DEF Next, workerStep

(* The coordinator, its workers and their files do what Job promises.      *)
THEOREM MapReduceImplementsJob == Spec => ImplementsJob
  <1>1. Init => TheJob!Init
    <2>1. 0 \in Reduces
      BY Sizes DEF Reduces
    <2> SUFFICES ASSUME Init PROVE TheJob!Init
      OBVIOUS
    <2>2. phase = "MapPhase" /\ outputs = {} /\ ~(writeErrors > 0)
      BY DEF Init, CoordinatorInit, MapPhase
    <2>3. { m \in Maps : {m} \X Reduces \subseteq files } = {}
      <3>1. files = {}
        BY DEF Init
      <3>2. \A m : <<m, 0>> \in {m} \X Reduces
        BY <2>1
      <3> QED
        BY <3>1, <3>2
    <2> QED
      BY <2>2, <2>3 DEF TheJob!Init
  <1> QED
    BY <1>1, StepImplementsJob, MInvHolds, PTL DEF Spec, ImplementsJob, TheJob!Spec

=============================================================================
