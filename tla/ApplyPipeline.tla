---------------------------- MODULE ApplyPipeline ----------------------------
(***************************************************************************)
(* The way from the log to the service (lab 2C+D raft.go): Raft's applier  *)
(* copies the entries above lastApplied, sends them one by one without the *)
(* lock, and sets lastApplied when the last is through; meanwhile snapshots*)
(* compete with it for applyCh and move lastApplied as well.               *)
(***************************************************************************)
EXTENDS LogService

VARIABLES commitIndex,
          rfApplied,     \* lastApplied of the Raft peer
          batch,         \* what the applier has copied and not sent: [next, last], or none
          snapshot,      \* the peer's snapshot; its index is where rf.logs begins
          snapCh         \* snapshots that wait to be sent to applyCh

pipeline == <<commitIndex, rfApplied, batch, snapshot, snapCh>>

NoBatch == [next |-> 0, last |-> 0]

PipelineInit(empty) ==
  /\ commitIndex = [s \in Server |-> 0]
  /\ rfApplied = [s \in Server |-> 0]
  /\ batch = [s \in Server |-> NoBatch]
  /\ snapshot = [s \in Server |-> empty]
  /\ snapCh = [s \in Server |-> {}]

(* The applier is woken when commitIndex has gone up, and copies what it   *)
(* has not applied.                                                        *)
TakeBatch(s) ==
  /\ batch[s] = NoBatch
  /\ \E index \in rfApplied[s] + 1 .. Len(chosen) :
       /\ index >= commitIndex[s]
       /\ commitIndex' = [commitIndex EXCEPT ![s] = index]
       /\ batch' = [batch EXCEPT ![s] = [next |-> rfApplied[s] + 1, last |-> index]]
  /\ UNCHANGED <<rfApplied, snapshot, snapCh>>

(* commitIndex may go up while a batch is sent.                            *)
LearnCommit(s) ==
  /\ batch[s] # NoBatch
  /\ \E index \in commitIndex[s] + 1 .. Len(chosen) :
       commitIndex' = [commitIndex EXCEPT ![s] = index]
  /\ UNCHANGED <<rfApplied, batch, snapshot, snapCh>>

AppliedAfter_Overwritten(s) == batch[s].last

(* A snapshot may have gone beyond the batch.                              *)
AppliedAfter(s) == IF rfApplied[s] > batch[s].last THEN rfApplied[s] ELSE batch[s].last

(* One entry is sent, and the batch ends with the last.                    *)
SendNext(s) ==
  /\ batch[s] # NoBatch
  /\ IF batch[s].next < batch[s].last
     THEN /\ batch' = [batch EXCEPT ![s].next = @ + 1]
          /\ UNCHANGED rfApplied
     ELSE /\ batch' = [batch EXCEPT ![s] = NoBatch]
          /\ rfApplied' = [rfApplied EXCEPT ![s] = AppliedAfter(s)]
  /\ UNCHANGED <<commitIndex, snapCh>>

(* A peer's snapshot reaches s (InstallSnapshot), and a goroutine waits    *)
(* with it.                                                                *)
ReceiveSnapshot(s, from) ==
  /\ snapshot[from].index > commitIndex[s]
  /\ snapshot[from] \notin snapCh[s]
  /\ snapCh' = [snapCh EXCEPT ![s] = @ \cup {snapshot[from]}]
  /\ UNCHANGED <<commitIndex, rfApplied, batch, snapshot>>

Outdated_ByApplied(s, snap) == snap.index <= rfApplied[s]

Outdated(s, snap) == snap.index <= commitIndex[s]

(* CondInstallSnapshot: refused when the peer knows more by now.           *)
CondInstallSnapshot(s, snap) ==
  /\ snapCh' = [snapCh EXCEPT ![s] = @ \ {snap}]
  /\ IF Outdated(s, snap)
     THEN UNCHANGED <<commitIndex, rfApplied, snapshot>>
     ELSE /\ commitIndex' = [commitIndex EXCEPT ![s] = snap.index]
          /\ rfApplied' = [rfApplied EXCEPT ![s] = snap.index]
          /\ snapshot' = [snapshot EXCEPT ![s] = snap]
  /\ UNCHANGED batch

(* Make reads what was persisted.                                          *)
RestartPipeline(s) ==
  /\ commitIndex' = [commitIndex EXCEPT ![s] = snapshot[s].index]
  /\ rfApplied' = [rfApplied EXCEPT ![s] = snapshot[s].index]
  /\ batch' = [batch EXCEPT ![s] = NoBatch]
  /\ snapCh' = [snapCh EXCEPT ![s] = {}]
  /\ UNCHANGED snapshot

-----------------------------------------------------------------------------
(* applier slices rf.logs from lastApplied on, with the head trimmed by    *)
(* Snapshot and CondInstallSnapshot in the meantime: whenever it comes     *)
(* round, what it wants to copy is still there (else the slice panics).    *)
BatchInLog == \A s \in Server : batch[s] = NoBatch => snapshot[s].index <= rfApplied[s]

=============================================================================
