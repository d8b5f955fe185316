--------------------------- MODULE KVServerProofs ---------------------------
(***************************************************************************)
(* The key/value service, for any servers, clerks, scripts and bounds.     *)
(* First two properties of the way from the log to the service: rf.logs    *)
(* still holds what the applier wants to copy, and the server's applier    *)
(* never blocks on a notify channel.  Both are about entries and snapshots *)
(* that reach applyCh out of order.  Then what the service is for: the     *)
(* replicas agree, and clerks see one atomic value, however often a write  *)
(* is in the log and whoever answers.                                      *)
(***************************************************************************)
EXTENDS KVServer, FiniteSetTheorems, WellFoundedInduction, TLAPS

(* As much of the types as the argument needs.                             *)
PipelineOK ==
  /\ commitIndex \in [Server -> Nat] /\ rfApplied \in [Server -> Nat]
  /\ kvApplied \in [Server -> Nat]
  /\ batch \in [Server -> [next : Nat, last : Nat]]
  /\ DOMAIN snapshot = Server /\ DOMAIN snapCh = Server /\ DOMAIN buffers = Server
  /\ \A s \in Server :
       /\ snapshot[s].index \in Nat
       /\ \A snap \in snapCh[s] : snap.index \in Nat

(* The service takes snapshots of what the applier has sent, before Raft's *)
(* lastApplied says so: this is how far a snapshot may be ahead of it.     *)
SnapshotReached ==
  \A s \in Server :
    \/ snapshot[s].index <= rfApplied[s]
    \/ batch[s] # NoBatch /\ snapshot[s].index < batch[s].next

(* Nothing is sent or applied that is not committed: a snapshot that is    *)
(* not outdated is beyond all of it.                                       *)
BatchCommitted ==
  \A s \in Server : batch[s] # NoBatch =>
    batch[s].next <= batch[s].last /\ batch[s].last <= commitIndex[s]

AppliedCommitted == \A s \in Server : kvApplied[s] <= commitIndex[s]

(* A response in a channel is about an entry that was applied.             *)
SentIsApplied ==
  \A s \in Server : \A message \in buffers[s] :
    message.index \in Nat /\ message.index <= kvApplied[s]

KInv ==
  PipelineOK /\ SnapshotReached /\ BatchCommitted /\ AppliedCommitted /\ SentIsApplied

-----------------------------------------------------------------------------
LEMMA InitInv == Init => KInv
  BY DEF Init, LogServiceInit, PipelineInit, EmptySnapshot, NoBatch, KInv, PipelineOK,
         SnapshotReached, BatchCommitted, AppliedCommitted, SentIsApplied

(* A step that leaves the pipeline alone and puts nothing into a channel.  *)
LEMMA CallKeeps ==
  ASSUME KInv, UNCHANGED <<pipeline, kvApplied>>, DOMAIN buffers' = Server,
         \A s \in Server : buffers'[s] \subseteq buffers[s]
  PROVE  KInv'
  <1>1. UNCHANGED <<commitIndex, rfApplied, batch, snapshot, snapCh, kvApplied>>
    BY DEF pipeline
  <1>2. PipelineOK' /\ SnapshotReached' /\ BatchCommitted' /\ AppliedCommitted'
    BY <1>1 DEF KInv, PipelineOK, SnapshotReached, BatchCommitted, AppliedCommitted
  <1>3. SentIsApplied'
    BY <1>1 DEF KInv, SentIsApplied
  <1> QED
    BY <1>2, <1>3 DEF KInv

LEMMA CommandKeeps ==
  ASSUME KInv, NEW call \in calls, Command(call)
  PROVE  KInv'
  <1>1. DOMAIN buffers = Server
    BY DEF KInv, PipelineOK
  <1>2. UNCHANGED <<pipeline, kvApplied>>
    BY DEF Command, CheckDuplicate, Submit, getNotifyChan, Receive, TimeOut,
           removeOutdatedNotifyChan, servers
  <1>3. CASE Receive(call)
    <2>1. PICK message \in buffers[call.server] :
            buffers' = [buffers EXCEPT ![call.server] = @ \ {message}]
      BY <1>3 DEF Receive
    <2> QED
      BY <1>1, <1>2, <2>1, CallKeeps
  <1>4. CASE ~Receive(call)
    <2>1. UNCHANGED buffers
      BY <1>4 DEF Command, CheckDuplicate, Submit, getNotifyChan, TimeOut,
                  removeOutdatedNotifyChan, servers
    <2> QED
      BY <1>1, <1>2, <2>1, CallKeeps
  <1> QED
    BY <1>3, <1>4

-----------------------------------------------------------------------------
LEMMA PipelineStepKeeps ==
  ASSUME KInv, PipelineStep
  PROVE  KInv'
  <1>1. PICK s \in Server : LearnCommit(s) \/ TakeBatch(s)
                            \/ \E from \in Server \ {s} : ReceiveSnapshot(s, from)
    BY DEF PipelineStep
  <1>2. UNCHANGED <<kvApplied, buffers>>
    BY DEF PipelineStep, servers
  <1>3. PipelineOK /\ SnapshotReached /\ BatchCommitted /\ AppliedCommitted /\ SentIsApplied
    BY DEF KInv
  <1>4. SentIsApplied'
    BY <1>2, <1>3 DEF SentIsApplied
  <1>5. CASE LearnCommit(s)
    <2>1. PICK index \in commitIndex[s] + 1 .. Len(chosen) :
            commitIndex' = [commitIndex EXCEPT ![s] = index]
      BY <1>5 DEF LearnCommit
    <2>2. UNCHANGED <<rfApplied, batch, snapshot, snapCh>>
      BY <1>5 DEF LearnCommit
    <2>3. index \in Nat /\ index > commitIndex[s]
      BY <1>3, <2>1 DEF PipelineOK
    <2>4. PipelineOK'
      BY <1>2, <1>3, <2>1, <2>2, <2>3 DEF PipelineOK
    <2>5. SnapshotReached'
      BY <1>3, <2>2 DEF SnapshotReached
    <2>6. BatchCommitted' /\ AppliedCommitted'
      BY <1>2, <1>3, <2>1, <2>2, <2>3 DEF PipelineOK, BatchCommitted, AppliedCommitted
    <2> QED
      BY <1>4, <2>4, <2>5, <2>6 DEF KInv
  <1>6. CASE TakeBatch(s)
    <2>1. PICK index \in rfApplied[s] + 1 .. Len(chosen) :
            /\ index >= commitIndex[s]
            /\ commitIndex' = [commitIndex EXCEPT ![s] = index]
            /\ batch' = [batch EXCEPT ![s] = [next |-> rfApplied[s] + 1, last |-> index]]
      BY <1>6 DEF TakeBatch
    <2>2. UNCHANGED <<rfApplied, snapshot, snapCh>> /\ batch[s] = NoBatch
      BY <1>6 DEF TakeBatch
    <2>3. index \in Nat /\ rfApplied[s] \in Nat /\ rfApplied[s] + 1 <= index
      BY <1>3, <2>1 DEF PipelineOK
    <2>4. PipelineOK'
      BY <1>2, <1>3, <2>1, <2>2, <2>3 DEF PipelineOK
    <2>5. SnapshotReached'
      BY <1>3, <2>1, <2>2 DEF PipelineOK, SnapshotReached
    <2>6. BatchCommitted' /\ AppliedCommitted'
      BY <1>2, <1>3, <2>1, <2>2, <2>3 DEF PipelineOK, BatchCommitted, AppliedCommitted
    <2> QED
      BY <1>4, <2>4, <2>5, <2>6 DEF KInv
  <1>7. CASE \E from \in Server \ {s} : ReceiveSnapshot(s, from)
    <2>1. PICK from \in Server : snapCh' = [snapCh EXCEPT ![s] = @ \cup {snapshot[from]}]
      BY <1>7 DEF ReceiveSnapshot
    <2>2. UNCHANGED <<commitIndex, rfApplied, batch, snapshot>>
      BY <1>7 DEF ReceiveSnapshot
    <2>3. PipelineOK'
      BY <1>2, <1>3, <2>1, <2>2 DEF PipelineOK
    <2>4. SnapshotReached' /\ BatchCommitted' /\ AppliedCommitted'
      BY <1>2, <1>3, <2>2 DEF SnapshotReached, BatchCommitted, AppliedCommitted
    <2> QED
      BY <1>4, <2>3, <2>4 DEF KInv
  <1> QED
    BY <1>1, <1>5, <1>6, <1>7

-----------------------------------------------------------------------------
(* What sending the next entry does to the batch and to lastApplied.       *)
LEMMA SendNextMoves ==
  ASSUME KInv, NEW s \in Server, SendNext(s)
  PROVE  /\ batch' \in [Server -> [next : Nat, last : Nat]]
         /\ rfApplied' \in [Server -> Nat]
         /\ BatchCommitted'
         /\ \A r \in Server \ {s} : batch'[r] = batch[r] /\ rfApplied'[r] = rfApplied[r]
         /\ \/ batch'[s] # NoBatch /\ batch'[s].next = batch[s].next + 1
               /\ rfApplied'[s] = rfApplied[s]
            \/ rfApplied'[s] >= batch[s].next /\ rfApplied'[s] >= rfApplied[s]
  <1>1. PipelineOK /\ BatchCommitted /\ batch[s] # NoBatch /\ UNCHANGED commitIndex
    BY DEF KInv, SendNext
  <1>2. /\ batch[s].next \in Nat /\ batch[s].last \in Nat /\ rfApplied[s] \in Nat
        /\ batch[s].next <= batch[s].last
    BY <1>1 DEF PipelineOK, BatchCommitted
  <1>3. CASE batch[s].next < batch[s].last
    <2>1. batch' = [batch EXCEPT ![s].next = @ + 1] /\ UNCHANGED rfApplied
      BY <1>3 DEF SendNext
    <2>2. batch'[s].next = batch[s].next + 1 /\ batch'[s].last = batch[s].last
      BY <1>1, <2>1 DEF PipelineOK
    <2>3. /\ batch' \in [Server -> [next : Nat, last : Nat]]
          /\ \A r \in Server \ {s} : batch'[r] = batch[r]
      BY <1>1, <1>2, <2>1 DEF PipelineOK
    <2>4. batch'[s] # NoBatch
      BY <1>2, <2>2 DEF NoBatch
    <2>5. BatchCommitted'
      <3> SUFFICES ASSUME NEW r \in Server, batch'[r] # NoBatch
                   PROVE  /\ batch'[r].next <= batch'[r].last
                          /\ batch'[r].last <= commitIndex'[r]
        BY DEF BatchCommitted
      <3>1. CASE r = s
        BY <1>1, <1>2, <1>3, <2>2, <3>1 DEF BatchCommitted
      <3>2. CASE r # s
        BY <1>1, <2>3, <3>2 DEF BatchCommitted
      <3> QED
        BY <3>1, <3>2
    <2> QED
      BY <1>1, <2>1, <2>2, <2>3, <2>4, <2>5 DEF PipelineOK
  <1>4. CASE ~(batch[s].next < batch[s].last)
    <2>1. /\ batch' = [batch EXCEPT ![s] = NoBatch]
          /\ rfApplied' = [rfApplied EXCEPT ![s] = AppliedAfter(s)]
      BY <1>4 DEF SendNext
    <2>2. /\ AppliedAfter(s) \in Nat /\ AppliedAfter(s) >= batch[s].next
          /\ AppliedAfter(s) >= rfApplied[s]
      BY <1>2 DEF AppliedAfter
    <2>3. /\ batch' \in [Server -> [next : Nat, last : Nat]]
          /\ \A r \in Server \ {s} : batch'[r] = batch[r]
          /\ batch'[s] = NoBatch
      BY <1>1, <2>1 DEF PipelineOK, NoBatch
    <2>4. /\ rfApplied' \in [Server -> Nat] /\ rfApplied'[s] = AppliedAfter(s)
          /\ \A r \in Server \ {s} : rfApplied'[r] = rfApplied[r]
      BY <1>1, <2>1, <2>2 DEF PipelineOK
    <2>5. BatchCommitted'
      BY <1>1, <2>3 DEF BatchCommitted
    <2> QED
      BY <2>2, <2>3, <2>4, <2>5
  <1> QED
    BY <1>3, <1>4

(* The snapshot stays behind what is sent: it is the old one, or it ends   *)
(* with the entry the batch has just passed.                               *)
LEMMA SnapshotStaysReached ==
  ASSUME KInv, NEW s \in Server, SendNext(s),
         snapshot'[s].index \in {snapshot[s].index, batch[s].next},
         \A r \in Server \ {s} : snapshot'[r] = snapshot[r]
  PROVE  SnapshotReached'
  <1> SUFFICES ASSUME NEW r \in Server
               PROVE  \/ snapshot'[r].index <= rfApplied'[r]
                      \/ batch'[r] # NoBatch /\ snapshot'[r].index < batch'[r].next
    BY DEF SnapshotReached
  <1>1. PipelineOK /\ SnapshotReached
    BY DEF KInv
  <1>2. CASE r = s
    <2>1. /\ batch[s].next \in Nat /\ rfApplied[s] \in Nat /\ snapshot[s].index \in Nat
          /\ rfApplied'[s] \in Nat
      BY <1>1, SendNextMoves DEF PipelineOK
    <2>2. snapshot[s].index <= rfApplied[s] \/ snapshot[s].index < batch[s].next
      BY <1>1 DEF SnapshotReached
    <2>3. \/ batch'[s] # NoBatch /\ batch'[s].next = batch[s].next + 1
             /\ rfApplied'[s] = rfApplied[s]
          \/ rfApplied'[s] >= batch[s].next /\ rfApplied'[s] >= rfApplied[s]
      BY SendNextMoves
    <2> QED
      BY <1>2, <2>1, <2>2, <2>3
  <1>3. CASE r # s
    BY <1>1, <1>3, SendNextMoves DEF SnapshotReached
  <1> QED
    BY <1>2, <1>3

LEMMA ApplyKeeps ==
  ASSUME KInv, NEW s \in Server, Apply(s)
  PROVE  KInv'
  <1>1. PipelineOK /\ BatchCommitted /\ AppliedCommitted /\ SentIsApplied
    BY DEF KInv
  <1>2. SendNext(s) /\ UNCHANGED <<commitIndex, snapCh>> /\ batch[s] # NoBatch
    BY DEF Apply, SendNext
  <1>3. /\ batch[s].next \in Nat /\ kvApplied[s] \in Nat /\ commitIndex[s] \in Nat
        /\ batch[s].next <= commitIndex[s]
    BY <1>1, <1>2 DEF PipelineOK, BatchCommitted
  <1>4. CASE Discarded(s)
    <2>1. UNCHANGED <<kvApplied, buffers, snapshot>>
      BY <1>4 DEF Apply, servers
    <2>2. PipelineOK'
      BY <1>1, <1>2, <2>1, SendNextMoves DEF PipelineOK
    <2>3. SnapshotReached'
      BY <1>2, <2>1, SnapshotStaysReached
    <2>4. AppliedCommitted' /\ SentIsApplied'
      BY <1>1, <1>2, <2>1 DEF AppliedCommitted, SentIsApplied
    <2> QED
      BY <1>2, <2>2, <2>3, <2>4, SendNextMoves DEF KInv
  <1>5. CASE ~Discarded(s)
    <2>1. ApplyCommand(s) /\ batch[s].next > kvApplied[s]
      BY <1>3, <1>5 DEF Apply, Discarded
    <2>2. kvApplied' = [kvApplied EXCEPT ![s] = batch[s].next]
      BY <2>1 DEF ApplyCommand
    <2>3. /\ DOMAIN buffers' = Server
          /\ \A r \in Server \ {s} : buffers'[r] = buffers[r]
          /\ \A message \in buffers'[s] : message \in buffers[s] \/ message.index = batch[s].next
      <3>1. CASE UNCHANGED buffers
        BY <1>1, <3>1 DEF PipelineOK
      <3>2. CASE \E response :
                   buffers' = [buffers EXCEPT ![s] = @ \cup
                     {[index |-> batch[s].next, channel |-> removed[s][batch[s].next],
                       response |-> response]}]
        BY <1>1, <3>2 DEF PipelineOK
      <3> QED
        BY <2>1, <3>1, <3>2 DEF ApplyCommand
    <2>4. /\ DOMAIN snapshot' = Server
          /\ \A r \in Server \ {s} : snapshot'[r] = snapshot[r]
          /\ snapshot'[s].index \in {snapshot[s].index, batch[s].next}
      BY <1>1, <2>1 DEF ApplyCommand, mayTakeSnapshot, Snapshot, PipelineOK
    <2>5. PipelineOK'
      <3>1. kvApplied' \in [Server -> Nat]
        BY <1>1, <1>3, <2>2 DEF PipelineOK
      <3>2. \A r \in Server : snapshot'[r].index \in Nat
        BY <1>1, <1>3, <2>4 DEF PipelineOK
      <3> QED
        BY <1>1, <1>2, <2>3, <2>4, <3>1, <3>2, SendNextMoves DEF PipelineOK
    <2>6. SnapshotReached'
      BY <1>2, <2>4, SnapshotStaysReached
    <2>7. AppliedCommitted'
      BY <1>1, <1>2, <1>3, <2>2 DEF AppliedCommitted, PipelineOK
    <2>8. SentIsApplied'
      <3> SUFFICES ASSUME NEW r \in Server, NEW message \in buffers'[r]
                   PROVE  message.index \in Nat /\ message.index <= kvApplied'[r]
        BY DEF SentIsApplied
      <3>1. CASE r = s
        <4>1. kvApplied'[s] = batch[s].next
          BY <1>1, <2>2 DEF PipelineOK
        <4>2. message \in buffers[s] \/ message.index = batch[s].next
          BY <2>3, <3>1
        <4> QED
          BY <1>1, <1>3, <2>1, <3>1, <4>1, <4>2 DEF SentIsApplied
      <3>2. CASE r # s
        BY <1>1, <2>2, <2>3, <3>2 DEF SentIsApplied, PipelineOK
      <3> QED
        BY <3>1, <3>2
    <2> QED
      BY <1>2, <2>5, <2>6, <2>7, <2>8, SendNextMoves DEF KInv
  <1> QED
    BY <1>4, <1>5

-----------------------------------------------------------------------------
(* A snapshot that is not outdated is beyond everything that was applied   *)
(* or is still in the batch.                                               *)
LEMMA ApplySnapshotKeeps ==
  ASSUME KInv, NEW s \in Server, NEW snap \in snapCh[s], ApplySnapshot(s, snap)
  PROVE  KInv'
  <1>1. PipelineOK /\ SnapshotReached /\ BatchCommitted /\ AppliedCommitted /\ SentIsApplied
    BY DEF KInv
  <1>2. /\ UNCHANGED <<batch, buffers>>
        /\ snapCh' = [snapCh EXCEPT ![s] = @ \ {snap}]
    BY DEF ApplySnapshot, CondInstallSnapshot
  <1>3. snap.index \in Nat /\ commitIndex[s] \in Nat /\ kvApplied[s] \in Nat
    BY <1>1 DEF PipelineOK
  <1>4. DOMAIN snapCh' = Server /\ \A r \in Server : snapCh'[r] \subseteq snapCh[r]
    BY <1>1, <1>2 DEF PipelineOK
  <1>5. CASE Outdated(s, snap)
    <2>1. UNCHANGED <<commitIndex, rfApplied, snapshot, kvApplied>>
      BY <1>5 DEF ApplySnapshot, CondInstallSnapshot
    <2> QED
      BY <1>1, <1>2, <1>4, <2>1 DEF KInv, PipelineOK, SnapshotReached, BatchCommitted,
                                    AppliedCommitted, SentIsApplied
  <1>6. CASE ~Outdated(s, snap)
    <2>1. /\ commitIndex' = [commitIndex EXCEPT ![s] = snap.index]
          /\ rfApplied' = [rfApplied EXCEPT ![s] = snap.index]
          /\ kvApplied' = [kvApplied EXCEPT ![s] = snap.index]
          /\ snapshot' = [snapshot EXCEPT ![s] = snap]
      BY <1>6 DEF ApplySnapshot, CondInstallSnapshot
    <2>2. snap.index > commitIndex[s]
      BY <1>3, <1>6 DEF Outdated
    <2>3. PipelineOK'
      BY <1>1, <1>2, <1>3, <1>4, <2>1 DEF PipelineOK
    <2>4. SnapshotReached'
      BY <1>1, <1>2, <1>3, <2>1 DEF PipelineOK, SnapshotReached
    <2>5. BatchCommitted'
      <3> SUFFICES ASSUME NEW r \in Server, batch[r] # NoBatch
                   PROVE  batch[r].next <= batch[r].last /\ batch[r].last <= commitIndex'[r]
        BY <1>2 DEF BatchCommitted
      <3>1. batch[r].last \in Nat
        BY <1>1 DEF PipelineOK
      <3> QED
        BY <1>1, <1>3, <2>1, <2>2, <3>1 DEF PipelineOK, BatchCommitted
    <2>6. AppliedCommitted'
      BY <1>1, <1>3, <2>1 DEF PipelineOK, AppliedCommitted
    <2>7. SentIsApplied'
      <3> SUFFICES ASSUME NEW r \in Server, NEW message \in buffers[r]
                   PROVE  message.index \in Nat /\ message.index <= kvApplied'[r]
        BY <1>2 DEF SentIsApplied
      <3>1. kvApplied[s] < snap.index
        BY <1>1, <1>3, <2>2 DEF AppliedCommitted
      <3> QED
        BY <1>1, <1>3, <2>1, <3>1 DEF PipelineOK, SentIsApplied
    <2> QED
      BY <2>3, <2>4, <2>5, <2>6, <2>7 DEF KInv
  <1> QED
    BY <1>5, <1>6

(* StartKVServer begins with lastApplied 0, but with no channel either.    *)
LEMMA RestartKeeps ==
  ASSUME KInv, NEW s \in Server, Restart(s)
  PROVE  KInv'
  <1>1. PipelineOK /\ SnapshotReached /\ BatchCommitted /\ AppliedCommitted /\ SentIsApplied
    BY DEF KInv
  <1>2. /\ commitIndex' = [commitIndex EXCEPT ![s] = snapshot[s].index]
        /\ rfApplied' = [rfApplied EXCEPT ![s] = snapshot[s].index]
        /\ batch' = [batch EXCEPT ![s] = NoBatch]
        /\ snapCh' = [snapCh EXCEPT ![s] = {}]
        /\ kvApplied' = [kvApplied EXCEPT ![s] = 0]
        /\ buffers' = [buffers EXCEPT ![s] = {}]
        /\ UNCHANGED snapshot
    BY DEF Restart, RestartPipeline
  <1>3. PipelineOK'
    BY <1>1, <1>2 DEF PipelineOK, NoBatch
  <1>4. SnapshotReached' /\ BatchCommitted'
    BY <1>1, <1>2 DEF PipelineOK, SnapshotReached, BatchCommitted
  <1>5. AppliedCommitted' /\ SentIsApplied'
    BY <1>1, <1>2 DEF PipelineOK, AppliedCommitted, SentIsApplied
  <1> QED
    BY <1>3, <1>4, <1>5 DEF KInv

-----------------------------------------------------------------------------
LEMMA NextKeeps ==
  ASSUME KInv, [Next]_vars
  PROVE  KInv'
  <1>1. CASE PipelineStep
    BY <1>1, PipelineStepKeeps
  <1>2. CASE \E call \in calls : Command(call)
    BY <1>2, CommandKeeps
  <1>3. CASE \E s \in Server : \/ Apply(s)
                               \/ \E snap \in snapCh[s] : ApplySnapshot(s, snap)
                               \/ Restart(s)
    BY <1>3, ApplyKeeps, ApplySnapshotKeeps, RestartKeeps
  <1>4. CASE RaftStep \/ (\E c \in Clerk : CallFails(c)) \/ UNCHANGED vars
    <2>1. UNCHANGED <<pipeline, kvApplied, buffers>>
      BY <1>4 DEF RaftStep, CallFails, vars, servers
    <2>2. DOMAIN buffers' = Server
      BY <2>1 DEF KInv, PipelineOK
    <2> QED
      BY <2>1, <2>2, CallKeeps
  <1> QED
    BY <1>1, <1>2, <1>3, <1>4 DEF Next

THEOREM PipelineInvariant == Spec => []KInv
  BY InitInv, NextKeeps, PTL DEF Spec

(* Raft's applier finds in rf.logs all it has not sent whenever it takes a *)
(* batch, although Snapshot and CondInstallSnapshot trim the log while it  *)
(* sends without the lock and lastApplied lags behind.                     *)
THEOREM NothingOvertaken == Spec => []BatchInLog
  <1>1. KInv => BatchInLog
    BY DEF KInv, SnapshotReached, BatchInLog
  <1> QED
    BY PipelineInvariant, <1>1, PTL

(* The channel of the index the server's applier is about to answer is     *)
(* empty, whatever handlers have done to it and in whatever order entries  *)
(* and snapshots came: kv.mu is never held across a send that blocks.      *)
THEOREM ApplierNeverBlocks == Spec => []NotifyNeverBlocks
  <1>1. KInv => NotifyNeverBlocks
    <2> SUFFICES ASSUME KInv, NEW s \in Server, ~Discarded(s), Full(s, batch[s].next)
                 PROVE  FALSE
      BY DEF NotifyNeverBlocks
    <2>1. PICK message \in buffers[s] : message.index = batch[s].next
      BY DEF Full
    <2>2. /\ batch[s].next \in Nat /\ kvApplied[s] \in Nat
          /\ message.index <= kvApplied[s]
      BY DEF KInv, PipelineOK, SentIsApplied
    <2> QED
      BY <2>1, <2>2 DEF Discarded
  <1> QED
    BY PipelineInvariant, <1>1, PTL

-----------------------------------------------------------------------------
(* Induction over the natural numbers, for a set.                          *)
LEMMA Induction ==
  ASSUME NEW S, 0 \in S, \A n \in Nat : n \in S => n + 1 \in S
  PROVE  Nat \subseteq S
  <1> SUFFICES ASSUME NEW k \in Nat, k \notin S PROVE FALSE
    OBVIOUS
  <1> DEFINE R == { p \in Nat \X Nat : p[1] < p[2] }
  <1>1. IsWellFoundedOn(R, Nat)
    <2>1. R = OpToRel(<, Nat)
      BY DEF OpToRel
    <2> QED
      BY <2>1, NatLessThanWellFounded
  <1>2. \A a, b \in Nat : a < b => <<a, b>> \in R
    OBVIOUS
  <1> HIDE DEF R
  <1>3. PICK x \in Nat \ S : \A y \in Nat \ S : ~(<<y, x>> \in R)
    BY <1>1, WFMin
  <1>4. x # 0 /\ x - 1 \in Nat /\ x - 1 < x /\ (x - 1) + 1 = x
    OBVIOUS
  <1>5. x - 1 \in S
    <2>1. <<x - 1, x>> \in R
      BY <1>2, <1>4
    <2> QED
      BY <1>3, <1>4, <2>1
  <1> QED
    BY <1>4, <1>5

-----------------------------------------------------------------------------
(* ValueAfter is what its definition says.                                 *)
Stepped(g, i) ==
  IF i = 0 THEN <<>>
  ELSE IF Counts(i) THEN Write(g[i - 1], chosen[i].command) ELSE g[i - 1]

Approximates(g, n) == DOMAIN g = 0 .. n /\ \A i \in 0 .. n : g[i] = Stepped(g, i)

LEMMA SteppedBelow ==
  ASSUME NEW g, NEW h, NEW i \in Nat, i # 0 => g[i - 1] = h[i - 1]
  PROVE  Stepped(g, i) = Stepped(h, i)
  BY DEF Stepped

LEMMA ApproximationsAgree ==
  ASSUME NEW g, NEW h, NEW n \in Nat, NEW m \in Nat, Approximates(g, n), Approximates(h, m),
         NEW k \in Nat, k <= n, k <= m
  PROVE  g[k] = h[k]
  <1> DEFINE S == { i \in Nat : i <= n /\ i <= m => g[i] = h[i] }
  <1>1. 0 \in S
    <2>1. 0 \in 0 .. n /\ 0 \in 0 .. m
      OBVIOUS
    <2>2. Stepped(g, 0) = Stepped(h, 0)
      BY SteppedBelow
    <2> QED
      BY <2>1, <2>2 DEF Approximates
  <1>2. ASSUME NEW i \in Nat, i \in S PROVE i + 1 \in S
    <2> SUFFICES ASSUME i + 1 <= n, i + 1 <= m PROVE g[i + 1] = h[i + 1]
      OBVIOUS
    <2>1. /\ i + 1 \in 0 .. n /\ i + 1 \in 0 .. m /\ i + 1 \in Nat /\ (i + 1) - 1 = i
          /\ i <= n /\ i <= m
      OBVIOUS
    <2>2. g[i] = h[i]
      BY <1>2, <2>1
    <2>3. Stepped(g, i + 1) = Stepped(h, i + 1)
      BY <2>1, <2>2, SteppedBelow
    <2> QED
      BY <2>1, <2>3 DEF Approximates
  <1>3. Nat \subseteq S
    <2> HIDE DEF S
    <2> QED
      BY <1>1, <1>2, Induction
  <1> QED
    BY <1>3

LEMMA Approximated == \A n \in Nat : \E g : Approximates(g, n)
  <1> DEFINE S == { n \in Nat : \E g : Approximates(g, n) }
  <1>1. 0 \in S
    <2> DEFINE g == [i \in 0 .. 0 |-> <<>>]
    <2>1. Approximates(g, 0)
      BY DEF Approximates, Stepped
    <2> QED
      BY <2>1
  <1>2. ASSUME NEW n \in Nat, n \in S PROVE n + 1 \in S
    <2>1. PICK g : Approximates(g, n)
      BY <1>2
    <2> DEFINE h == [i \in 0 .. n + 1 |-> IF i <= n THEN g[i] ELSE Stepped(g, i)]
    <2>2. /\ DOMAIN h = 0 .. n + 1
          /\ \A i \in 0 .. n : h[i] = g[i]
          /\ h[n + 1] = Stepped(g, n + 1)
      OBVIOUS
    <2> HIDE DEF h
    <2>3. ASSUME NEW i \in 0 .. n + 1 PROVE h[i] = Stepped(h, i)
      <3>1. i # 0 => g[i - 1] = h[i - 1]
        <4> SUFFICES ASSUME i # 0 PROVE i - 1 \in 0 .. n
          BY <2>2
        <4> QED
          OBVIOUS
      <3>2. Stepped(g, i) = Stepped(h, i)
        BY <3>1, SteppedBelow
      <3>3. i \in 0 .. n => g[i] = Stepped(g, i)
        BY <2>1 DEF Approximates
      <3> QED
        BY <2>2, <3>2, <3>3
    <2>4. Approximates(h, n + 1)
      BY <2>2, <2>3 DEF Approximates
    <2> QED
      BY <2>4
  <1>3. Nat \subseteq S
    <2> HIDE DEF S
    <2> QED
      BY <1>1, <1>2, Induction
  <1> QED
    BY <1>3

LEMMA ValueAfterIs == \A i \in Nat : ValueAfter[i] = Stepped(ValueAfter, i)
  <1> DEFINE Ap(n) == CHOOSE g : Approximates(g, n)
             F == [n \in Nat |-> Ap(n)[n]]
  <1>1. \A n \in Nat : Approximates(Ap(n), n)
    BY Approximated
  <1>2. ASSUME NEW n \in Nat PROVE F[n] = Stepped(F, n)
    <2>1. F[n] = Ap(n)[n]
      OBVIOUS
    <2>2. n # 0 => n - 1 \in Nat /\ F[n - 1] = Ap(n - 1)[n - 1]
      OBVIOUS
    <2> HIDE DEF Ap, F
    <2>3. Ap(n)[n] = Stepped(Ap(n), n)
      BY <1>1 DEF Approximates
    <2>4. n # 0 => Ap(n - 1)[n - 1] = Ap(n)[n - 1]
      <3> SUFFICES ASSUME n # 0 PROVE Ap(n - 1)[n - 1] = Ap(n)[n - 1]
        OBVIOUS
      <3>1. n - 1 \in Nat /\ n - 1 <= n /\ n - 1 <= n - 1
        OBVIOUS
      <3> QED
        BY <1>1, <3>1, ApproximationsAgree
    <2>5. Stepped(F, n) = Stepped(Ap(n), n)
      BY <2>2, <2>4, SteppedBelow
    <2> QED
      BY <2>1, <2>3, <2>5
  <1>3. F = [n \in Nat |-> Stepped(F, n)]
    <2>1. F = [n \in Nat |-> F[n]]
      OBVIOUS
    <2> HIDE DEF F
    <2> QED
      BY <1>2, <2>1
  <1>4. ValueAfter = CHOOSE f : f = [n \in Nat |-> Stepped(f, n)]
    BY DEF ValueAfter, Stepped
  <1>5. ValueAfter = [n \in Nat |-> Stepped(ValueAfter, n)]
    <2> HIDE DEF F
    <2> QED
      BY <1>3, <1>4
  <1>6. PICK V : V = ValueAfter
    OBVIOUS
  <1>7. V = [n \in Nat |-> Stepped(V, n)]
    BY <1>5, <1>6
  <1> QED
    BY <1>6, <1>7

-----------------------------------------------------------------------------
(* What holds of the log, the clerks and the servers.                      *)
Writes(c)      == { m \in 1 .. Len(Script[c]) : Script[c][m] # "Get" }
InLog(c, m, i) == \E k \in 1 .. i : chosen[k].command = <<c, m>>

(* A command that its clerk has got to.                                    *)
Asked(command) ==
  /\ command \in Clerk \X Nat
  /\ command[2] \in 1 .. Len(Script[command[1]])
  /\ command[2] <= clerks[command[1]].id

Entries == [index : 1 .. MaxLogIndex, term : DOMAIN elections, command : Clerk \X Nat]

(* A leader starts its entries above the log it was elected with, one per  *)
(* index; what is chosen was started.                                      *)
LogOK ==
  /\ leads \in [Server -> Nat] /\ lastIndex \in [Server -> 0 .. MaxLogIndex]
  /\ DOMAIN elections \subseteq 1 .. MaxTerm
  /\ elections \in [DOMAIN elections -> [leader : Server, base : 0 .. MaxLogIndex]]
  /\ pending \subseteq Entries
  /\ chosen \in Seq([term : Nat, command : Clerk \X Nat])
  /\ \A s \in Server : leads[s] # 0 =>
       /\ leads[s] \in DOMAIN elections /\ elections[leads[s]].leader = s
       /\ elections[leads[s]].base <= lastIndex[s]
  /\ \A e \in pending : /\ elections[e.term].base < e.index
                        /\ \A s \in Server : leads[s] = e.term => e.index <= lastIndex[s]
  /\ \A e, f \in pending : e.index = f.index /\ e.term = f.term => e = f
  /\ \A k \in 1 .. Len(chosen) :
       [index |-> k, term |-> chosen[k].term, command |-> chosen[k].command] \in pending

(* A handler that waits has started its command in the term its server     *)
(* leads, or in an earlier one whose entries the server still has.         *)
Began(call) ==
  \E t \in DOMAIN elections :
    /\ [index |-> call.index, term |-> t, command |-> call.command] \in pending
    /\ elections[t].leader = call.server
    /\ \/ leads[call.server] \in {0, t}
       \/ /\ t < leads[call.server]
          /\ call.index <= elections[leads[call.server]].base

Calls == [command : Clerk \X Nat, try : Nat, server : Server,
          stage : {"requested", "checked", "started", "waits", "removes"},
          index : 0 .. MaxLogIndex, channel : Nat]

CallOK(call) ==
  /\ call \in Calls
  /\ Asked(call.command)
  /\ call.stage \in {"started", "waits", "removes"} <=> call.index # 0
  /\ call.stage \in {"started", "waits"} => Began(call)

CallsOK == \A call \in calls : CallOK(call)

(* A clerk goes on when its write is in the log; so its writes get there   *)
(* one after the other.                                                    *)
ClerkStates == [id : Nat \ {0}, try : Nat \ {0}, leaderId : Server]

ClerksOK ==
  /\ clerks \in [Clerk -> ClerkStates]
  /\ answer \in [Clerk -> Responses]
  /\ \A c \in Clerk : \A m \in Writes(c) : m < clerks[c].id => InLog(c, m, Len(chosen))
  /\ \A e \in pending : Asked(e.command)

OrderOK ==
  \A k \in 1 .. Len(chosen) :
    \A m \in Writes(chosen[k].command[1]) :
      m < chosen[k].command[2] => InLog(chosen[k].command[1], m, k - 1)

(* A machine and a table that belong to the first i entries.               *)
Fits(value, operations, i) ==
  /\ i \in 0 .. Len(chosen)
  /\ value = ValueAfter[i]
  /\ operations \in [Clerk -> Nat]
  /\ \A c \in Clerk : \A m \in Writes(c) : m <= operations[c] <=> InLog(c, m, i)

SnapshotOK(snap) ==
  /\ snap \in [index : Nat, machine : Seq(Clerk \X Nat), lastOperations : [Clerk -> Nat]]
  /\ Fits(snap.machine, snap.lastOperations, snap.index)

CopiesOK ==
  /\ machine \in [Server -> Seq(Clerk \X Nat)]
  /\ lastOperations \in [Server -> [Clerk -> Nat]]
  /\ \A s \in Server :
       /\ Fits(machine[s], lastOperations[s], AppliedTo(s))
       /\ SnapshotOK(snapshot[s])
       /\ \A snap \in snapCh[s] : SnapshotOK(snap)

(* Entries reach a server in the order of the log; only a restart, which   *)
(* leaves no batch, takes kvApplied below the snapshot.                    *)
InOrder ==
  \A s \in Server :
    /\ commitIndex[s] <= Len(chosen) /\ rfApplied[s] <= commitIndex[s]
    /\ snapshot[s].index <= commitIndex[s] /\ rfApplied[s] <= AppliedTo(s)
    /\ batch[s] # NoBatch => 1 <= batch[s].next /\ batch[s].next <= AppliedTo(s) + 1
    /\ \/ snapshot[s].index <= kvApplied[s]
       \/ batch[s] = NoBatch
       \/ snapshot[s].index < batch[s].next

(* The response in a channel is for whoever waits for its index.           *)
AnswersOne(s, message) ==
  /\ message.index \in 1 .. Len(chosen)
  /\ message.response = ResultOf(message.index)
  /\ leads[s] # 0 => message.index <= lastIndex[s]
  /\ \A call \in calls :
       call.server = s /\ call.index = message.index /\ call.stage \in {"started", "waits"} =>
         call.command = chosen[message.index].command

SentOK ==
  /\ removed \in [Server -> [1 .. MaxLogIndex -> Nat]]
  /\ \A s \in Server : \A message \in buffers[s] : AnswersOne(s, message)

KVInv == /\ KInv /\ LogOK /\ CallsOK /\ ClerksOK /\ OrderOK
         /\ CopiesOK /\ InOrder /\ SentOK

-----------------------------------------------------------------------------
(* The elements of a sequence, and the values of the log, which stay.      *)
LEMMA ElementOf ==
  ASSUME NEW R, NEW q \in Seq(R), NEW k \in 1 .. Len(q)
  PROVE  q[k] \in R
  OBVIOUS

LEMMA ValueAfterNow ==
  \A i \in Nat :
    ValueAfter[i] = IF i = 0 THEN <<>>
                    ELSE IF Counts(i) THEN Write(ValueAfter[i - 1], chosen[i].command)
                                      ELSE ValueAfter[i - 1]
  BY ValueAfterIs DEF Stepped

LEMMA ValueAfterNext ==
  (\A i \in Nat :
     ValueAfter[i] = IF i = 0 THEN <<>>
                     ELSE IF Counts(i) THEN Write(ValueAfter[i - 1], chosen[i].command)
                                       ELSE ValueAfter[i - 1])'
  BY ValueAfterNow, PTL

ChosenKept(n) ==
  /\ n = Len(chosen) /\ n \in Nat /\ Len(chosen') \in Nat /\ n <= Len(chosen')
  /\ \A k \in 1 .. n : chosen'[k] = chosen[k]

LEMMA CountsAgain ==
  ASSUME NEW n, ChosenKept(n), NEW i \in 1 .. n
  PROVE  Counts(i)' <=> Counts(i)
  <1>1. \A j \in 1 .. i : chosen'[j] = chosen[j]
    BY DEF ChosenKept
  <1> QED
    BY <1>1 DEF Counts

LEMMA ValuesAgain ==
  ASSUME NEW n, ChosenKept(n)
  PROVE  \A i \in 0 .. n : ValueAfter'[i] = ValueAfter[i]
  <1> n \in Nat
    BY DEF ChosenKept
  <1>1. PICK V : V = ValueAfter
    OBVIOUS
  <1>2. PICK W : W = ValueAfter'
    OBVIOUS
  <1>3. V[0] = <<>> /\ W[0] = <<>>
    <2>1. 0 \in Nat
      OBVIOUS
    <2> QED
      BY <1>1, <1>2, <2>1, ValueAfterNow, ValueAfterNext
  <1>4. ASSUME NEW i \in 1 .. n, V[i - 1] = W[i - 1] PROVE V[i] = W[i]
    <2>1. i \in Nat /\ i # 0
      OBVIOUS
    <2>2. V[i] = IF Counts(i) THEN Write(V[i - 1], chosen[i].command) ELSE V[i - 1]
      BY <1>1, <2>1, ValueAfterNow
    <2>3. W[i] = IF Counts(i)' THEN Write(W[i - 1], chosen'[i].command) ELSE W[i - 1]
      BY <1>2, <2>1, ValueAfterNext
    <2>4. Counts(i)' <=> Counts(i)
      BY CountsAgain
    <2>5. chosen'[i] = chosen[i]
      BY DEF ChosenKept
    <2> QED
      BY <1>4, <2>2, <2>3, <2>4, <2>5
  <1> DEFINE S == { i \in Nat : i <= n => V[i] = W[i] }
  <1>5. 0 \in S
    BY <1>3
  <1>6. ASSUME NEW i \in Nat, i \in S PROVE i + 1 \in S
    <2> SUFFICES ASSUME i + 1 <= n PROVE V[i + 1] = W[i + 1]
      OBVIOUS
    <2>1. i + 1 \in 1 .. n /\ (i + 1) - 1 = i /\ i <= n
      OBVIOUS
    <2>2. V[i] = W[i]
      BY <1>6, <2>1
    <2> QED
      BY <1>4, <2>1, <2>2
  <1>7. Nat \subseteq S
    <2> HIDE DEF S
    <2> QED
      BY <1>5, <1>6, Induction
  <1> QED
    BY <1>1, <1>2, <1>7

(* A value is a sequence of commands.                                      *)
LEMMA ValueType ==
  ASSUME LogOK
  PROVE  \A i \in 0 .. Len(chosen) : ValueAfter[i] \in Seq(Clerk \X Nat)
  <1>0. Len(chosen) \in Nat /\ \A k \in 1 .. Len(chosen) : chosen[k].command \in Clerk \X Nat
    <2>1. chosen \in Seq([term : Nat, command : Clerk \X Nat])
      BY DEF LogOK
    <2>2. Len(chosen) \in Nat
      BY <2>1
    <2>3. \A k \in 1 .. Len(chosen) : chosen[k] \in [term : Nat, command : Clerk \X Nat]
      BY <2>1, ElementOf
    <2> QED
      BY <2>2, <2>3
  <1>1. PICK n \in Nat : n = Len(chosen)
    BY <1>0
  <1>2. PICK V : V = ValueAfter
    OBVIOUS
  <1> DEFINE T == Seq(Clerk \X Nat)
             S == { i \in Nat : i <= n => V[i] \in T }
  <1>3. 0 \in S
    <2>1. 0 \in Nat
      OBVIOUS
    <2>2. V[0] = <<>>
      BY <1>2, <2>1, ValueAfterNow
    <2>3. <<>> \in T
      OBVIOUS
    <2> QED
      BY <2>1, <2>2, <2>3
  <1>4. ASSUME NEW i \in Nat, i \in S PROVE i + 1 \in S
    <2> SUFFICES ASSUME i + 1 <= n PROVE V[i + 1] \in T
      OBVIOUS
    <2>1. i + 1 \in Nat /\ i + 1 # 0 /\ i + 1 \in 1 .. n /\ (i + 1) - 1 = i /\ i <= n
      OBVIOUS
    <2>2. V[i] \in T
      BY <1>4, <2>1
    <2>3. V[i + 1] = IF Counts(i + 1) THEN Write(V[(i + 1) - 1], chosen[i + 1].command)
                                      ELSE V[(i + 1) - 1]
      BY <1>2, <2>1, ValueAfterNow
    <2>4. PICK command \in Clerk \X Nat : command = chosen[i + 1].command
      BY <1>0, <1>1, <2>1
    <2>5. V[i + 1] = Write(V[i], command) \/ V[i + 1] = V[i]
      BY <2>1, <2>3, <2>4
    <2>6. Write(V[i], command) \in T
      <3>1. PICK v \in Seq(Clerk \X Nat) : v = V[i]
        BY <2>2
      <3>2. <<command>> \in T /\ Append(v, command) \in T
        OBVIOUS
      <3> QED
        BY <3>1, <3>2 DEF Write
    <2> QED
      BY <2>2, <2>5, <2>6
  <1>5. Nat \subseteq S
    <2> HIDE DEF S
    <2> QED
      BY <1>3, <1>4, Induction
  <1> QED
    BY <1>1, <1>2, <1>5

LEMMA ResultType ==
  ASSUME LogOK, NEW i \in 1 .. Len(chosen)
  PROVE  ResultOf(i) \in Responses /\ ResultOf(i).Err \notin {"ErrWrongLeader", "ErrTimeout"}
  <1>1. i - 1 \in 0 .. Len(chosen)
    BY DEF LogOK
  <1>2. PICK v \in Seq(Clerk \X Nat) : v = ValueAfter[i - 1]
    BY <1>1, ValueType
  <1>3. ResultOf(i) = Get(v) \/ ResultOf(i) = OK
    BY <1>2 DEF ResultOf
  <1>4. Get(v) \in Responses /\ Get(v).Err \in {"OK", "ErrNoKey"}
    BY DEF Get, Responses
  <1>5. OK \in Responses /\ OK.Err = "OK"
    BY DEF OK, Responses
  <1> QED
    BY <1>3, <1>4, <1>5

LEMMA ResultAgain ==
  ASSUME NEW n, ChosenKept(n), NEW i \in 1 .. n
  PROVE  ResultOf(i)' = ResultOf(i)
  <1>1. i - 1 \in 0 .. n /\ chosen'[i] = chosen[i]
    BY DEF ChosenKept
  <1>2. ValueAfter'[i - 1] = ValueAfter[i - 1]
    BY <1>1, ValuesAgain
  <1> QED
    BY <1>1, <1>2 DEF ResultOf

-----------------------------------------------------------------------------
(* The log.                                                                *)
LEMMA ChooseIs ==
  ASSUME LogOK, NEW e \in pending, Choose(e)
  PROVE  /\ e.index = Len(chosen) + 1 /\ Len(chosen') = Len(chosen) + 1
         /\ chosen' \in Seq([term : Nat, command : Clerk \X Nat])
         /\ chosen'[Len(chosen) + 1] = [term |-> e.term, command |-> e.command]
         /\ ChosenKept(Len(chosen))
         /\ UNCHANGED <<leads, lastIndex, elections, pending>>
  <1>1. /\ DOMAIN elections \subseteq 1 .. MaxTerm /\ pending \subseteq Entries
        /\ chosen \in Seq([term : Nat, command : Clerk \X Nat])
    BY DEF LogOK
  <1>2. e.term \in Nat /\ e.command \in Clerk \X Nat
    BY <1>1 DEF Entries
  <1>3. PICK q \in Seq([term : Nat, command : Clerk \X Nat]) : q = chosen
    BY <1>1
  <1> DEFINE x == [term |-> e.term, command |-> e.command]
             es == <<e>>
             more == [j \in DOMAIN es |-> [term |-> es[j].term, command |-> es[j].command]]
  <1>4. es[1] = e /\ DOMAIN es = 1 .. 1 /\ 1 \in DOMAIN es
    OBVIOUS
  <1>5. /\ \A j \in DOMAIN es : es[j].index = Len(chosen) + j
        /\ chosen' = chosen \o more
        /\ UNCHANGED <<leads, lastIndex, elections, pending>>
    BY DEF Choose, ChooseAll
  <1>6. more = <<x>>
    BY <1>4
  <1>7. x \in [term : Nat, command : Clerk \X Nat]
    BY <1>2
  <1>8. e.index = Len(chosen) + 1
    BY <1>4, <1>5
  <1> HIDE DEF x, more, es
  <1>9. /\ q \o <<x>> \in Seq([term : Nat, command : Clerk \X Nat])
        /\ Len(q \o <<x>>) = Len(q) + 1 /\ (q \o <<x>>)[Len(q) + 1] = x
        /\ \A k \in 1 .. Len(q) : (q \o <<x>>)[k] = q[k]
        /\ Len(q) \in Nat
    BY <1>7
  <1>10. chosen' = q \o <<x>>
    BY <1>3, <1>5, <1>6
  <1> QED
    BY <1>3, <1>5, <1>8, <1>9, <1>10 DEF ChosenKept, x

LEMMA BecomeLeaderIs ==
  ASSUME LogOK, NEW s \in Server, NEW t \in 1 .. MaxTerm, NEW base \in 0 .. MaxLogIndex,
         BecomeLeader(s, t, base)
  PROVE  LogOK'
  <1>1. /\ t \notin DOMAIN elections
        /\ leads' = [leads EXCEPT ![s] = t] /\ lastIndex' = [lastIndex EXCEPT ![s] = base]
        /\ elections' = [u \in DOMAIN elections \cup {t} |->
                          IF u = t THEN [leader |-> s, base |-> base] ELSE elections[u]]
        /\ UNCHANGED <<pending, chosen>>
    BY DEF BecomeLeader
  <1>2. /\ leads \in [Server -> Nat] /\ lastIndex \in [Server -> 0 .. MaxLogIndex]
        /\ DOMAIN elections \subseteq 1 .. MaxTerm
        /\ elections \in [DOMAIN elections -> [leader : Server, base : 0 .. MaxLogIndex]]
        /\ pending \subseteq Entries
        /\ chosen \in Seq([term : Nat, command : Clerk \X Nat])
    BY DEF LogOK
  <1>3. /\ DOMAIN elections' = DOMAIN elections \cup {t}
        /\ elections'[t] = [leader |-> s, base |-> base]
        /\ \A u \in DOMAIN elections : elections'[u] = elections[u] /\ u # t
    BY <1>1
  <1>4. /\ leads' \in [Server -> Nat] /\ lastIndex' \in [Server -> 0 .. MaxLogIndex]
        /\ leads'[s] = t /\ lastIndex'[s] = base
        /\ \A r \in Server \ {s} : leads'[r] = leads[r] /\ lastIndex'[r] = lastIndex[r]
    BY <1>1, <1>2
  <1>5. elections' \in [DOMAIN elections' -> [leader : Server, base : 0 .. MaxLogIndex]]
    BY <1>1, <1>2
  <1>6. pending \subseteq Entries'
    BY <1>2, <1>3 DEF Entries
  <1>7. \A r \in Server : leads'[r] # 0 =>
          /\ leads'[r] \in DOMAIN elections' /\ elections'[leads'[r]].leader = r
          /\ elections'[leads'[r]].base <= lastIndex'[r]
    <2> SUFFICES ASSUME NEW r \in Server, leads'[r] # 0
                 PROVE  /\ leads'[r] \in DOMAIN elections' /\ elections'[leads'[r]].leader = r
                        /\ elections'[leads'[r]].base <= lastIndex'[r]
      OBVIOUS
    <2>1. CASE r = s
      BY <1>3, <1>4, <2>1
    <2>2. CASE r # s
      BY <1>3, <1>4, <2>2 DEF LogOK
    <2> QED
      BY <2>1, <2>2
  <1>8. \A e \in pending : /\ elections'[e.term].base < e.index
                           /\ \A r \in Server : leads'[r] = e.term => e.index <= lastIndex'[r]
    <2> SUFFICES ASSUME NEW e \in pending
                 PROVE  /\ elections'[e.term].base < e.index
                        /\ \A r \in Server : leads'[r] = e.term => e.index <= lastIndex'[r]
      OBVIOUS
    <2>1. e.term \in DOMAIN elections
      BY <1>2 DEF Entries
    <2> QED
      BY <1>3, <1>4, <2>1 DEF LogOK
  <1>9. DOMAIN elections' \subseteq 1 .. MaxTerm
    BY <1>2, <1>3
  <1>10. /\ \A e, f \in pending : e.index = f.index /\ e.term = f.term => e = f
         /\ \A k \in 1 .. Len(chosen) :
              [index |-> k, term |-> chosen[k].term, command |-> chosen[k].command] \in pending
    BY DEF LogOK
  <1>11. UNCHANGED <<pending, chosen>>
    BY <1>1
  <1> QED
    BY <1>2, <1>4, <1>5, <1>6, <1>7, <1>8, <1>9, <1>10, <1>11 DEF LogOK

(* A server that does not lead any more.                                   *)
LEMMA LeaderGone ==
  ASSUME LogOK, NEW s \in Server, leads' = [leads EXCEPT ![s] = 0],
         lastIndex' = [lastIndex EXCEPT ![s] = 0], UNCHANGED <<elections, pending, chosen>>,
         MaxLogIndex \in Nat
  PROVE  LogOK'
  <1>1. /\ leads \in [Server -> Nat] /\ lastIndex \in [Server -> 0 .. MaxLogIndex]
        /\ \A e \in pending : e.term # 0
    BY DEF LogOK, Entries
  <1>2. /\ leads' \in [Server -> Nat] /\ lastIndex' \in [Server -> 0 .. MaxLogIndex]
        /\ leads'[s] = 0
        /\ \A r \in Server \ {s} : leads'[r] = leads[r] /\ lastIndex'[r] = lastIndex[r]
    BY <1>1
  <1>3. Entries' = Entries
    BY DEF Entries
  <1>4. \A r \in Server : leads'[r] # 0 => leads'[r] = leads[r] /\ lastIndex'[r] = lastIndex[r]
    BY <1>2
  <1>5. \A e \in pending : \A r \in Server : leads'[r] = e.term =>
          leads'[r] = leads[r] /\ lastIndex'[r] = lastIndex[r]
    BY <1>1, <1>4
  <1> QED
    BY <1>2, <1>3, <1>4, <1>5 DEF LogOK

LEMMA StartIs ==
  ASSUME LogOK, NEW s \in Server, NEW command \in Clerk \X Nat, Start(s, command)
  PROVE  LET e == [index |-> lastIndex'[s], term |-> leads[s], command |-> command] IN
         /\ LogOK' /\ lastIndex'[s] = lastIndex[s] + 1 /\ leads[s] # 0 /\ leads[s] \in DOMAIN elections
         /\ elections[leads[s]].leader = s
         /\ pending' = pending \cup {e} /\ e \in Entries
         /\ \A r \in Server \ {s} : lastIndex'[r] = lastIndex[r]
         /\ UNCHANGED <<leads, elections, chosen>>
  <1>1. /\ leads[s] # 0 /\ lastIndex[s] < MaxLogIndex
        /\ lastIndex' = [lastIndex EXCEPT ![s] = @ + 1]
        /\ UNCHANGED <<leads, elections, chosen>>
        /\ pending' = pending \cup
             {[index |-> lastIndex'[s], term |-> leads[s], command |-> command]}
    BY DEF Start
  <1>2. /\ leads \in [Server -> Nat] /\ lastIndex \in [Server -> 0 .. MaxLogIndex]
        /\ DOMAIN elections \subseteq 1 .. MaxTerm
        /\ elections \in [DOMAIN elections -> [leader : Server, base : 0 .. MaxLogIndex]]
        /\ pending \subseteq Entries
        /\ chosen \in Seq([term : Nat, command : Clerk \X Nat])
        /\ leads[s] \in DOMAIN elections /\ elections[leads[s]].leader = s
        /\ elections[leads[s]].base <= lastIndex[s]
    BY <1>1 DEF LogOK
  <1>3. MaxLogIndex \in Nat /\ lastIndex[s] \in 0 .. MaxLogIndex
    BY <1>2, Bounds
  <1>4. /\ lastIndex' \in [Server -> 0 .. MaxLogIndex] /\ lastIndex'[s] = lastIndex[s] + 1
        /\ \A r \in Server \ {s} : lastIndex'[r] = lastIndex[r]
    BY <1>1, <1>2, <1>3
  <1>12. \A r \in Server : /\ lastIndex[r] \in Int /\ lastIndex'[r] \in Int
                           /\ lastIndex[r] <= lastIndex'[r]
    <2> SUFFICES ASSUME NEW r \in Server
                 PROVE  /\ lastIndex[r] \in Int /\ lastIndex'[r] \in Int
                        /\ lastIndex[r] <= lastIndex'[r]
      OBVIOUS
    <2>1. lastIndex[r] \in Int /\ lastIndex'[r] \in Int
      BY <1>2, <1>4
    <2> QED
      BY <1>4, <2>1
  <1> DEFINE e == [index |-> lastIndex'[s], term |-> leads[s], command |-> command]
  <1>5. e.index = lastIndex[s] + 1 /\ e.term = leads[s] /\ e \in Entries
    BY <1>2, <1>3, <1>4, <1>1 DEF Entries
  <1>6. pending' = pending \cup {e} /\ Entries' = Entries
    BY <1>1 DEF Entries
  <1> HIDE DEF e
  <1>7. \A f \in pending' : /\ elections[f.term].base < f.index
                            /\ \A r \in Server : leads[r] = f.term => f.index <= lastIndex'[r]
    <2> SUFFICES ASSUME NEW f \in pending'
                 PROVE  /\ elections[f.term].base < f.index
                        /\ \A r \in Server : leads[r] = f.term => f.index <= lastIndex'[r]
      OBVIOUS
    <2>1. CASE f = e
      <3>1. elections[f.term].base < f.index
        <4>1. elections[leads[s]].base \in Int /\ lastIndex[s] \in Int
          BY <1>2, <1>3
        <4> QED
          BY <1>2, <1>5, <2>1, <4>1
      <3>2. ASSUME NEW r \in Server, leads[r] = f.term PROVE r = s
        BY <1>1, <1>2, <1>5, <2>1, <3>2 DEF LogOK
      <3> QED
        BY <1>3, <1>4, <1>5, <2>1, <3>1, <3>2
    <2>2. CASE f \in pending
      <3>1. /\ elections[f.term].base < f.index
            /\ \A r \in Server : leads[r] = f.term => f.index <= lastIndex[r]
        BY <2>2 DEF LogOK
      <3>2. f.index \in Int
        BY <1>2, <2>2 DEF Entries
      <3> QED
        BY <1>12, <3>1, <3>2
    <2> QED
      BY <1>6, <2>1, <2>2
  <1>8. \A f, g \in pending' : f.index = g.index /\ f.term = g.term => f = g
    <2>1. \A f \in pending : f.term = leads[s] => f.index <= lastIndex[s]
      BY DEF LogOK
    <2>2. \A f \in pending : ~(f.index = e.index /\ f.term = e.term)
      <3> SUFFICES ASSUME NEW f \in pending, f.index = e.index, f.term = e.term PROVE FALSE
        OBVIOUS
      <3>1. f.index <= lastIndex[s]
        BY <1>5, <2>1
      <3> QED
        BY <1>3, <1>5, <3>1
    <2>3. \A f, g \in pending : f.index = g.index /\ f.term = g.term => f = g
      BY DEF LogOK
    <2> QED
      BY <1>6, <2>2, <2>3
  <1>9. \A r \in Server : leads'[r] # 0 =>
          /\ leads'[r] \in DOMAIN elections' /\ elections'[leads'[r]].leader = r
          /\ elections'[leads'[r]].base <= lastIndex'[r]
    <2> SUFFICES ASSUME NEW r \in Server, leads[r] # 0
                 PROVE  /\ leads[r] \in DOMAIN elections /\ elections[leads[r]].leader = r
                        /\ elections[leads[r]].base <= lastIndex'[r]
      BY <1>1
    <2>1. /\ leads[r] \in DOMAIN elections /\ elections[leads[r]].leader = r
          /\ elections[leads[r]].base <= lastIndex[r]
      BY DEF LogOK
    <2>2. elections[leads[r]].base \in Int
      BY <1>2, <2>1
    <2> QED
      BY <1>12, <2>1, <2>2
  <1>10. \A k \in 1 .. Len(chosen) :
           [index |-> k, term |-> chosen[k].term, command |-> chosen[k].command] \in pending'
    BY <1>6 DEF LogOK
  <1>11. LogOK'
    BY <1>1, <1>2, <1>4, <1>5, <1>6, <1>7, <1>8, <1>9, <1>10 DEF LogOK
  <1> QED
    BY <1>1, <1>2, <1>4, <1>5, <1>6, <1>11 DEF e

LEMMA ChooseKeepsLog ==
  ASSUME LogOK, NEW e \in pending, Choose(e)
  PROVE  LogOK'
  <1>1. /\ e.index = Len(chosen) + 1 /\ Len(chosen') = Len(chosen) + 1
        /\ chosen' \in Seq([term : Nat, command : Clerk \X Nat])
        /\ chosen'[Len(chosen) + 1] = [term |-> e.term, command |-> e.command]
        /\ ChosenKept(Len(chosen))
        /\ UNCHANGED <<leads, lastIndex, elections, pending>>
    BY ChooseIs
  <1>2. Entries' = Entries /\ e \in Entries
    BY <1>1 DEF Entries, LogOK
  <1>3. \A k \in 1 .. Len(chosen') :
          [index |-> k, term |-> chosen'[k].term, command |-> chosen'[k].command] \in pending
    <2> SUFFICES ASSUME NEW k \in 1 .. Len(chosen')
                 PROVE  [index |-> k, term |-> chosen'[k].term, command |-> chosen'[k].command]
                          \in pending
      OBVIOUS
    <2>1. CASE k = Len(chosen) + 1
      <3>1. e = [index |-> k, term |-> e.term, command |-> e.command]
        BY <1>1, <1>2, <2>1 DEF Entries
      <3> QED
        BY <1>1, <2>1, <3>1
    <2>2. CASE k # Len(chosen) + 1
      <3>1. k \in 1 .. Len(chosen)
        BY <1>1, <2>2 DEF ChosenKept
      <3> QED
        BY <1>1, <3>1 DEF ChosenKept, LogOK
    <2> QED
      BY <2>1, <2>2
  <1> QED
    BY <1>1, <1>2, <1>3 DEF LogOK

LEMMA LogStays ==
  ASSUME LogOK, UNCHANGED logService
  PROVE  LogOK'
  BY DEF LogOK, logService, Entries

LEMMA RaftStepKeepsLog ==
  ASSUME LogOK, RaftStep
  PROVE  LogOK'
  <1>0. MaxLogIndex \in Nat
    BY Bounds
  <1>1. CASE \E e \in pending : Choose(e)
    BY <1>1, ChooseKeepsLog
  <1>2. CASE \E s \in Server : Elect(s)
    <2>0. PICK s \in Server, t \in 1 .. MaxTerm :
            \E base \in {0} \cup { e.index : e \in { f \in pending : f.term < t } } :
              BecomeLeader(s, t, base)
      BY <1>2 DEF Elect
    <2>1. PICK base \in {0} \cup { e.index : e \in { f \in pending : f.term < t } } :
            BecomeLeader(s, t, base)
      BY <2>0
    <2>2. base \in 0 .. MaxLogIndex
      BY <1>0, <2>1 DEF LogOK, Entries
    <2> QED
      BY <2>1, <2>2, BecomeLeaderIs
  <1>3. CASE \E s \in Server : ElectAgain(s)
    <2>1. PICK s \in Server, t \in 1 .. MaxTerm : BecomeLeader(s, t, lastIndex[s])
      BY <1>3 DEF ElectAgain
    <2>2. lastIndex[s] \in 0 .. MaxLogIndex
      BY DEF LogOK
    <2> QED
      BY <2>1, <2>2, BecomeLeaderIs
  <1>4. CASE \E s \in Server : StepDown(s)
    BY <1>0, <1>4, LeaderGone DEF StepDown
  <1> QED
    BY <1>1, <1>2, <1>3, <1>4 DEF RaftStep

-----------------------------------------------------------------------------
(* The clerks and their calls.                                             *)
LEMMA ServerCount == Cardinality(Server) \in Nat \ {0}
  <1>1. Cardinality(Server) \in Nat
    BY Numbered, FS_CardinalityType
  <1>2. 0 .. Cardinality(Server) - 1 # {}
    BY Numbered
  <1> QED
    BY <1>1, <1>2

LEMMA RetryType ==
  ASSUME NEW clerk \in ClerkStates
  PROVE  Retry(clerk) \in ClerkStates /\ Retry(clerk).id = clerk.id
  <1>1. PICK n \in Nat \ {0} : n = Cardinality(Server)
    BY ServerCount
  <1>2. Server = 0 .. n - 1 /\ clerk.leaderId \in 0 .. n - 1
    BY <1>1, Numbered DEF ClerkStates
  <1>3. PICK l \in Nat : l = clerk.leaderId + 1
    BY <1>2
  <1>4. l % n \in 0 .. n - 1
    OBVIOUS
  <1>5. Retry(clerk) = [clerk EXCEPT !.try = @ + 1, !.leaderId = l % n]
    BY <1>1, <1>3 DEF Retry
  <1>6. /\ clerk.id \in Nat \ {0} /\ clerk.try \in Nat \ {0} /\ clerk.try + 1 \in Nat \ {0}
        /\ clerk = [id |-> clerk.id, try |-> clerk.try, leaderId |-> clerk.leaderId]
    BY DEF ClerkStates
  <1>7. Retry(clerk) = [id |-> clerk.id, try |-> clerk.try + 1, leaderId |-> l % n]
    BY <1>5, <1>6
  <1> QED
    BY <1>2, <1>4, <1>6, <1>7 DEF ClerkStates

LEMMA Requested ==
  ASSUME NEW c \in Clerk, NEW clerk \in ClerkStates, NEW x \in Requests(c, clerk)
  PROVE  /\ x \in Calls /\ x.stage = "requested" /\ x.index = 0
         /\ x.command = <<c, clerk.id>> /\ clerk.id \in 1 .. Len(Script[c])
  <1>1. x = Request(c, clerk) /\ clerk.id <= Len(Script[c])
    BY DEF Requests
  <1>2. MaxLogIndex \in Nat /\ Len(Script[c]) \in Nat
    BY Bounds, Scripts
  <1> QED
    BY <1>1, <1>2 DEF Request, Calls, ClerkStates

(* What has become of the clerks when one has heard a response, or nobody. *)
Heard(command, response, rest) ==
  LET c == command[1] IN
  /\ clerks' \in [Clerk -> ClerkStates] /\ answer' \in [Clerk -> Responses]
  /\ \A x \in calls' :
       x \in rest \/ (x \in Calls /\ x.stage = "requested" /\ x.index = 0 /\ Asked(x.command)')
  /\ \/ (\A d \in Clerk : clerks'[d].id = clerks[d].id) /\ UNCHANGED answer
     \/ /\ clerks[c].id = command[2]
        /\ response.Err \notin {"ErrWrongLeader", "ErrTimeout"}
        /\ clerks'[c].id = command[2] + 1
        /\ \A d \in Clerk \ {c} : clerks'[d].id = clerks[d].id
        /\ answer' = [answer EXCEPT ![c] = response]

LEMMA HearsIs ==
  ASSUME ClerksOK, NEW c \in Clerk, NEW response \in Responses, NEW rest,
         Hears(c, response, rest)
  PROVE  Heard(<<c, clerks[c].id>>, response, rest)
  <1>1. clerks \in [Clerk -> ClerkStates] /\ answer \in [Clerk -> Responses]
    BY DEF ClerksOK
  <1> DEFINE again == response.Err \in {"ErrWrongLeader", "ErrTimeout"}
             next  == [clerks[c] EXCEPT !.id = @ + 1, !.try = 1]
  <1>2. PICK clerk : /\ clerk = IF again THEN Retry(clerks[c]) ELSE next
                     /\ clerks' = [clerks EXCEPT ![c] = clerk]
                     /\ calls' = rest \cup Requests(c, clerk)
                     /\ answer' = IF again THEN answer ELSE [answer EXCEPT ![c] = response]
    BY DEF Hears
  <1>3. clerks[c] \in ClerkStates
    BY <1>1
  <1>4. next \in ClerkStates /\ next.id = clerks[c].id + 1
    <2>1. PICK d \in ClerkStates : d = clerks[c]
      BY <1>3
    <2>2. d.id \in Nat \ {0} /\ d.id + 1 \in Nat \ {0} /\ d.leaderId \in Server
          /\ d.try \in Nat \ {0}
      BY <2>1 DEF ClerkStates
    <2>3. PICK i \in Nat \ {0}, j \in Nat \ {0} : i = d.id + 1 /\ j = 1
      BY <2>2
    <2>4. next = [d EXCEPT !.id = i, !.try = j]
      BY <2>1, <2>3
    <2>5. [d EXCEPT !.id = i, !.try = j] \in ClerkStates /\ [d EXCEPT !.id = i, !.try = j].id = i
      BY <2>1 DEF ClerkStates
    <2> QED
      BY <2>1, <2>3, <2>4, <2>5
  <1>5. /\ clerk \in ClerkStates
        /\ clerk.id = IF again THEN clerks[c].id ELSE clerks[c].id + 1
    BY <1>2, <1>3, <1>4, RetryType
  <1> HIDE DEF next
  <1>6. /\ clerks' \in [Clerk -> ClerkStates] /\ clerks'[c] = clerk
        /\ \A d \in Clerk \ {c} : clerks'[d] = clerks[d]
        /\ answer' \in [Clerk -> Responses]
    BY <1>1, <1>2, <1>5
  <1>7. ASSUME NEW x \in calls'
        PROVE  x \in rest \/ (x \in Calls /\ x.stage = "requested" /\ x.index = 0 /\ Asked(x.command)')
    <2> SUFFICES ASSUME x \in Requests(c, clerk)
                 PROVE  x \in Calls /\ x.stage = "requested" /\ x.index = 0 /\ Asked(x.command)'
      BY <1>2
    <2>1. /\ x \in Calls /\ x.stage = "requested" /\ x.index = 0
          /\ x.command = <<c, clerk.id>> /\ clerk.id \in 1 .. Len(Script[c])
      BY <1>5, Requested
    <2>2. x.command \in Clerk \X Nat /\ x.command[1] = c /\ x.command[2] = clerk.id
      BY <2>1 DEF Calls
    <2>3. clerk.id <= clerks'[c].id
      BY <1>5, <1>6 DEF ClerkStates
    <2> QED
      BY <2>1, <2>2, <2>3 DEF Asked
  <1> QED
    BY <1>2, <1>5, <1>6, <1>7 DEF Heard

LEMMA ReplyIs ==
  ASSUME ClerksOK, NEW call, call.command \in Clerk \X Nat, NEW response \in Responses, NEW rest,
         Reply(call, response, rest)
  PROVE  Heard(call.command, response, rest)
  <1>1. PICK c \in Clerk, m \in Nat : call.command = <<c, m>>
    OBVIOUS
  <1>2. call.command[1] = c /\ call.command[2] = m
    BY <1>1
  <1>3. CASE clerks[c].id = m /\ clerks[c].try = call.try
    <2>1. Hears(c, response, rest)
      BY <1>2, <1>3 DEF Reply
    <2>2. Heard(<<c, clerks[c].id>>, response, rest)
      BY <2>1, HearsIs
    <2> QED
      BY <1>1, <1>3, <2>2
  <1>4. CASE ~(clerks[c].id = m /\ clerks[c].try = call.try)
    <2>1. calls' = rest /\ UNCHANGED <<clerks, answer>>
      BY <1>2, <1>4 DEF Reply, clients
    <2> QED
      BY <2>1 DEF Heard, ClerksOK
  <1> QED
    BY <1>3, <1>4

IdsGrow == \A c \in Clerk : clerks[c].id \in Nat /\ clerks'[c].id \in Nat
                            /\ clerks[c].id <= clerks'[c].id

LEMMA HeardGrows ==
  ASSUME ClerksOK, NEW command \in Clerk \X Nat, NEW response, NEW rest,
         Heard(command, response, rest)
  PROVE  IdsGrow
  <1>1. /\ clerks \in [Clerk -> ClerkStates] /\ clerks' \in [Clerk -> ClerkStates]
        /\ command[1] \in Clerk /\ command[2] \in Nat
    BY DEF ClerksOK, Heard
  <1>2. \A c \in Clerk : clerks[c].id \in Nat /\ clerks'[c].id \in Nat
    BY <1>1 DEF ClerkStates
  <1> SUFFICES ASSUME NEW c \in Clerk PROVE clerks[c].id <= clerks'[c].id
    BY <1>2 DEF IdsGrow
  <1>3. clerks'[c].id = clerks[c].id \/ clerks'[c].id = clerks[c].id + 1
    BY DEF Heard
  <1> QED
    BY <1>2, <1>3

LEMMA AskedAgain ==
  ASSUME NEW command, Asked(command), IdsGrow
  PROVE  Asked(command)'
  <1>1. PICK c \in Clerk, m \in Nat : command = <<c, m>>
    BY DEF Asked
  <1>2. command[1] = c /\ command[2] = m
    BY <1>1
  <1>3. m \in 1 .. Len(Script[c]) /\ m <= clerks[c].id
    BY <1>2 DEF Asked
  <1>4. m <= clerks'[c].id
    BY <1>3 DEF IdsGrow
  <1> QED
    BY <1>1, <1>2, <1>3, <1>4 DEF Asked

LEMMA BeganStays ==
  ASSUME NEW call, Began(call), UNCHANGED <<leads, elections>>, pending \subseteq pending'
  PROVE  Began(call)'
  BY DEF Began

LEMMA CallAgain ==
  ASSUME NEW call, CallOK(call), IdsGrow,
         call.stage \in {"started", "waits"} => Began(call)'
  PROVE  CallOK(call)'
  BY AskedAgain DEF CallOK

(* A handler that has gone on to a stage that needs no more than it had.   *)
LEMMA CallGoesOn ==
  ASSUME NEW call, CallOK(call), IdsGrow, NEW x \in Calls,
         x.command = call.command, x.server = call.server, x.index = call.index,
         \/ call.stage = "requested" /\ x.stage = "checked"
         \/ call.stage = "started" /\ x.stage = "waits" /\ Began(call)'
         \/ call.stage = "waits" /\ x.stage = "removes"
  PROVE  CallOK(x)'
  <1>1. Asked(x.command)'
    <2>1. Asked(call.command)
      BY DEF CallOK
    <2>2. PICK command : command = call.command
      OBVIOUS
    <2>3. Asked(command)'
      BY <2>1, <2>2, AskedAgain
    <2> QED
      BY <2>2, <2>3
  <1>2. x.stage \in {"started", "waits"} => Began(x)'
    <2> SUFFICES ASSUME Began(call)' PROVE Began(x)'
      OBVIOUS
    <2> QED
      BY DEF Began
  <1>3. x.stage \in {"started", "waits", "removes"} <=> x.index # 0
    BY DEF CallOK
  <1> QED
    BY <1>1, <1>2, <1>3 DEF CallOK

LEMMA StageChanged ==
  ASSUME NEW call \in Calls,
         NEW stage \in {"requested", "checked", "started", "waits", "removes"}
  PROVE  LET x == [call EXCEPT !.stage = stage] IN
         /\ x \in Calls /\ x.command = call.command /\ x.server = call.server
         /\ x.index = call.index /\ x.stage = stage /\ x.try = call.try
  BY DEF Calls

LEMMA NewRequestOK ==
  ASSUME NEW x \in Calls, x.stage = "requested", x.index = 0, Asked(x.command)'
  PROVE  CallOK(x)'
  BY DEF CallOK

LEMMA ClerksKept ==
  ASSUME ClerksOK, NEW command \in Clerk \X Nat, NEW response, NEW rest,
         Heard(command, response, rest), UNCHANGED <<pending, chosen>>,
         command[2] = clerks[command[1]].id
           /\ response.Err \notin {"ErrWrongLeader", "ErrTimeout"}
           /\ command[2] \in Writes(command[1]) => InLog(command[1], command[2], Len(chosen))
  PROVE  ClerksOK'
  <1>1. IdsGrow
    BY HeardGrows
  <1>2. ASSUME NEW c \in Clerk, NEW m \in Writes(c), m < clerks'[c].id
        PROVE  InLog(c, m, Len(chosen))
    <2>1. CASE m < clerks[c].id
      BY <2>1 DEF ClerksOK
    <2>2. CASE ~(m < clerks[c].id)
      <3>1. m \in Nat /\ clerks[c].id \in Nat /\ clerks'[c].id \in Nat
        BY <1>1, Scripts DEF Writes, IdsGrow
      <3>2. clerks'[c].id # clerks[c].id
        BY <1>2, <2>2
      <3>3. /\ c = command[1] /\ clerks[c].id = command[2]
            /\ response.Err \notin {"ErrWrongLeader", "ErrTimeout"}
            /\ clerks'[c].id = command[2] + 1
        BY <3>2 DEF Heard
      <3>4. m = command[2]
        BY <1>2, <2>2, <3>1, <3>3
      <3> QED
        BY <3>3, <3>4
    <2> QED
      BY <2>1, <2>2
  <1>3. \A e \in pending : Asked(e.command)'
    <2> SUFFICES ASSUME NEW e \in pending PROVE Asked(e.command)'
      OBVIOUS
    <2>1. PICK x : x = e.command
      OBVIOUS
    <2>2. Asked(x)
      BY <2>1 DEF ClerksOK
    <2>3. Asked(x)'
      BY <1>1, <2>2, AskedAgain
    <2> QED
      BY <2>1, <2>3
  <1>4. clerks' \in [Clerk -> ClerkStates] /\ answer' \in [Clerk -> Responses]
    BY DEF Heard
  <1> QED
    BY <1>2, <1>3, <1>4 DEF ClerksOK, InLog

LEMMA HeardKeepsCalls ==
  ASSUME CallsOK, ClerksOK, NEW command \in Clerk \X Nat, NEW response, NEW rest,
         Heard(command, response, rest), UNCHANGED <<leads, elections, pending>>,
         \A x \in rest : x \in calls \/ CallOK(x)'
  PROVE  CallsOK'
  <1>1. IdsGrow
    BY HeardGrows
  <1> SUFFICES ASSUME NEW x \in calls' PROVE CallOK(x)'
    BY DEF CallsOK
  <1>2. CASE x \in calls
    <2>1. CallOK(x)
      BY <1>2 DEF CallsOK
    <2>2. x.stage \in {"started", "waits"} => Began(x)'
      BY <2>1, BeganStays DEF CallOK
    <2> QED
      BY <1>1, <2>1, <2>2, CallAgain
  <1>3. CASE x \notin rest
    <2>1. x \in Calls /\ x.stage = "requested" /\ x.index = 0 /\ Asked(x.command)'
      BY <1>3 DEF Heard
    <2> QED
      BY <2>1, NewRequestOK
  <1> QED
    BY <1>2, <1>3

(* Nobody hears anything, and no handler stops early.                      *)
LEMMA CallsKept ==
  ASSUME CallsOK, ClerksOK, UNCHANGED clients, elections' = elections, pending \subseteq pending',
         \A x \in calls' : \/ x \in calls
                           \/ CallOK(x)',
         \A x \in calls' : x \in calls /\ x.stage \in {"started", "waits"} =>
                             leads'[x.server] = leads[x.server]
  PROVE  CallsOK'
  <1>1. IdsGrow
    <2>1. clerks \in [Clerk -> ClerkStates] /\ clerks' = clerks
      BY DEF ClerksOK, clients
    <2>2. \A c \in Clerk : clerks[c].id \in Nat
      BY <2>1 DEF ClerkStates
    <2> QED
      BY <2>1, <2>2 DEF IdsGrow
  <1> SUFFICES ASSUME NEW x \in calls', x \in calls PROVE CallOK(x)'
    BY DEF CallsOK
  <1>2. CallOK(x)
    BY DEF CallsOK
  <1>3. x.stage \in {"started", "waits"} => Began(x)'
    <2> SUFFICES ASSUME x.stage \in {"started", "waits"} PROVE Began(x)'
      OBVIOUS
    <2>1. Began(x) /\ leads'[x.server] = leads[x.server]
      BY <1>2 DEF CallOK
    <2> QED
      BY <2>1 DEF Began
  <1> QED
    BY <1>1, <1>2, <1>3, CallAgain

LEMMA Responded == OK \in Responses /\ ErrWrongLeader \in Responses /\ ErrTimeout \in Responses
  BY DEF OK, ErrWrongLeader, ErrTimeout, Responses

LEMMA SameIds ==
  ASSUME ClerksOK, UNCHANGED clerks
  PROVE  IdsGrow
  <1>1. \A c \in Clerk : clerks[c].id \in Nat
    BY DEF ClerksOK, ClerkStates
  <1> QED
    BY <1>1 DEF IdsGrow

LEMMA ClerksStay ==
  ASSUME ClerksOK, UNCHANGED <<clerks, answer, pending, chosen>>
  PROVE  ClerksOK'
  BY DEF ClerksOK, Asked, InLog

-----------------------------------------------------------------------------
(* The steps of a handler, for the log and the clerks.                     *)
Asking == LogOK' /\ CallsOK' /\ ClerksOK'

LEMMA CheckDuplicateKeeps ==
  ASSUME KVInv, NEW call \in calls, CheckDuplicate(call)
  PROVE  Asking
  <1>1. LogOK /\ CallsOK /\ ClerksOK /\ CopiesOK /\ CallOK(call)
    BY DEF KVInv, CallsOK
  <1>2. call \in Calls /\ call.stage = "requested" /\ UNCHANGED logService
    BY <1>1 DEF CheckDuplicate, CallOK
  <1>3. UNCHANGED <<leads, lastIndex, elections, pending, chosen>>
    BY <1>2 DEF logService
  <1>4. LogOK'
    BY <1>1, <1>2, LogStays
  <1>5. PICK c \in Clerk, m \in Nat : call.command = <<c, m>>
    BY <1>2 DEF Calls
  <1>6. call.command[1] = c /\ call.command[2] = m /\ call.command \in Clerk \X Nat
    BY <1>5
  <1>7. CASE Work(call.command) # "Get" /\ isDuplicateRequest(call.server, call.command)
    <2>1. Reply(call, OK, Others(call))
      BY <1>7 DEF CheckDuplicate
    <2>2. Heard(call.command, OK, Others(call))
      BY <1>1, <1>6, <2>1, ReplyIs, Responded
    <2>3. \A x \in Others(call) : x \in calls
      BY DEF Others
    <2>4. CallsOK'
      BY <1>1, <1>3, <1>6, <2>2, <2>3, HeardKeepsCalls
    <2>5. InLog(c, m, Len(chosen))
      <3>1. m \in 1 .. Len(Script[c]) /\ Script[c][m] # "Get"
        BY <1>1, <1>6, <1>7 DEF CallOK, Asked, Work
      <3>2. m <= lastOperations[call.server][c] /\ call.server \in Server
        BY <1>2, <1>6, <1>7 DEF isDuplicateRequest, Calls
      <3>3. InLog(c, m, AppliedTo(call.server)) /\ AppliedTo(call.server) \in 0 .. Len(chosen)
        BY <1>1, <3>1, <3>2 DEF CopiesOK, Fits, Writes
      <3> QED
        BY <3>3 DEF InLog
    <2>6. ClerksOK'
      BY <1>1, <1>3, <1>6, <2>2, <2>5, ClerksKept
    <2> QED
      BY <1>4, <2>4, <2>6 DEF Asking
  <1>8. CASE ~(Work(call.command) # "Get" /\ isDuplicateRequest(call.server, call.command))
    <2>1. calls' = Onward(call, "checked") /\ UNCHANGED clients
      BY <1>8 DEF CheckDuplicate
    <2>2. UNCHANGED <<clerks, answer>>
      BY <2>1 DEF clients
    <2>3. ASSUME NEW x, x = [call EXCEPT !.stage = "checked"] PROVE CallOK(x)'
      BY <1>1, <1>2, <2>2, <2>3, StageChanged, CallGoesOn, SameIds
    <2>4. \A x \in calls' : x \in calls \/ CallOK(x)'
      BY <2>1, <2>3 DEF Onward, Others
    <2> QED
      BY <1>1, <1>3, <1>4, <2>1, <2>2, <2>4, CallsKept, ClerksStay DEF Asking
  <1> QED
    BY <1>7, <1>8

LEMMA IndexSet ==
  ASSUME NEW call \in Calls, NEW i \in 0 .. MaxLogIndex
  PROVE  LET x == [call EXCEPT !.stage = "started", !.index = i] IN
         /\ x \in Calls /\ x.command = call.command /\ x.server = call.server
         /\ x.index = i /\ x.stage = "started"
  <1>1. PICK stage \in {"requested", "checked", "started", "waits", "removes"} : stage = "started"
    OBVIOUS
  <1>2. [call EXCEPT !.stage = stage, !.index = i] \in Calls
    BY <1>1 DEF Calls
  <1> QED
    BY <1>1, <1>2 DEF Calls

LEMMA SubmitKeeps ==
  ASSUME KVInv, NEW call \in calls, Submit(call)
  PROVE  Asking
  <1>1. LogOK /\ CallsOK /\ ClerksOK /\ CallOK(call)
    BY DEF KVInv, CallsOK
  <1>2. call \in Calls /\ call.stage = "checked"
    BY <1>1 DEF Submit, CallOK
  <1>3. call.command \in Clerk \X Nat /\ call.server \in Server
    BY <1>2 DEF Calls
  <1>4. CASE leads[call.server] = 0
    <2>1. Reply(call, ErrWrongLeader, Others(call)) /\ UNCHANGED logService
      BY <1>4 DEF Submit
    <2>2. Heard(call.command, ErrWrongLeader, Others(call))
      BY <1>1, <1>3, <2>1, ReplyIs, Responded
    <2>3. \A x \in Others(call) : x \in calls
      BY DEF Others
    <2>4. LogOK' /\ UNCHANGED <<leads, elections, pending, chosen>>
      BY <1>1, <2>1, LogStays DEF logService
    <2>5. ErrWrongLeader.Err = "ErrWrongLeader"
      BY DEF ErrWrongLeader
    <2>6. CallsOK' /\ ClerksOK'
      BY <1>1, <1>3, <2>2, <2>3, <2>4, <2>5, HeardKeepsCalls, ClerksKept
    <2> QED
      BY <2>4, <2>6 DEF Asking
  <1>5. CASE leads[call.server] # 0
    <2>1. /\ Start(call.server, call.command) /\ UNCHANGED clients
          /\ calls' = Others(call) \cup
               {[call EXCEPT !.stage = "started", !.index = lastIndex'[call.server]]}
      BY <1>5 DEF Submit
    <2> DEFINE s == call.server
               e == [index |-> lastIndex'[s], term |-> leads[s], command |-> call.command]
    <2>2. /\ LogOK' /\ lastIndex'[s] = lastIndex[s] + 1 /\ leads[s] # 0
          /\ leads[s] \in DOMAIN elections /\ elections[leads[s]].leader = s
          /\ pending' = pending \cup {e} /\ e \in Entries
          /\ UNCHANGED <<leads, elections, chosen>>
      BY <1>1, <1>3, <2>1, StartIs
    <2>3. UNCHANGED <<clerks, answer>>
      BY <2>1 DEF clients
    <2>4. ASSUME NEW x, x = [call EXCEPT !.stage = "started", !.index = lastIndex'[s]]
          PROVE  CallOK(x)'
      <3>1. lastIndex'[s] \in 1 .. MaxLogIndex
        BY <2>2 DEF Entries
      <3>2. /\ x \in Calls /\ x.command = call.command /\ x.server = s
            /\ x.index = lastIndex'[s] /\ x.stage = "started"
        <4>1. lastIndex'[s] \in 0 .. MaxLogIndex
          BY <3>1
        <4>2. PICK i \in 0 .. MaxLogIndex : i = lastIndex'[s]
          BY <4>1
        <4>3. x = [call EXCEPT !.stage = "started", !.index = i]
          BY <2>4, <4>2
        <4> QED
          BY <1>2, <4>2, <4>3, IndexSet
      <3>3. x.index # 0
        BY <3>1, <3>2
      <3>4. Asked(x.command)'
        BY <1>1, <2>3, <3>2 DEF CallOK, Asked
      <3>5. Began(x)'
        <4>1. e \in pending'
          BY <2>2
        <4> QED
          BY <2>2, <3>2, <4>1 DEF Began
      <3> QED
        BY <3>2, <3>3, <3>4, <3>5 DEF CallOK
    <2>5. \A x \in calls' : x \in calls \/ CallOK(x)'
      BY <2>1, <2>4 DEF Others
    <2>6. CallsOK'
      BY <1>1, <2>1, <2>2, <2>5, CallsKept
    <2>7. ClerksOK'
      <3>1. \A f \in pending' : Asked(f.command)
        BY <1>1, <2>2 DEF ClerksOK, CallOK
      <3> QED
        BY <1>1, <2>2, <2>3, <3>1 DEF ClerksOK, Asked, InLog
    <2> QED
      BY <2>2, <2>6, <2>7 DEF Asking
  <1> QED
    BY <1>4, <1>5

LEMMA ChannelSet ==
  ASSUME NEW call \in Calls, NEW channel \in Nat
  PROVE  LET x == [call EXCEPT !.stage = "waits", !.channel = channel] IN
         /\ x \in Calls /\ x.command = call.command /\ x.server = call.server
         /\ x.index = call.index /\ x.stage = "waits"
  <1>1. PICK stage \in {"requested", "checked", "started", "waits", "removes"} : stage = "waits"
    OBVIOUS
  <1>2. [call EXCEPT !.stage = stage, !.channel = channel] \in Calls
    BY <1>1 DEF Calls
  <1> QED
    BY <1>1, <1>2 DEF Calls

LEMMA getNotifyChanKeeps ==
  ASSUME KVInv, NEW call \in calls, getNotifyChan(call)
  PROVE  Asking
  <1>1. LogOK /\ CallsOK /\ ClerksOK /\ CallOK(call) /\ SentOK
    BY DEF KVInv, CallsOK
  <1>2. call \in Calls /\ call.stage = "started" /\ UNCHANGED <<logService, clients>>
    BY <1>1 DEF getNotifyChan, CallOK
  <1>3. UNCHANGED <<leads, lastIndex, elections, pending, chosen, clerks, answer>>
    BY <1>2 DEF logService, clients
  <1>4. PICK channel \in Nat : channel = removed[call.server][call.index]
    <2>1. call.server \in Server /\ call.index \in 0 .. MaxLogIndex /\ call.index # 0
      BY <1>1, <1>2 DEF Calls, CallOK
    <2>2. call.index \in 1 .. MaxLogIndex
      BY <2>1
    <2>3. removed \in [Server -> [1 .. MaxLogIndex -> Nat]]
      BY <1>1 DEF SentOK
    <2> QED
      BY <2>1, <2>2, <2>3
  <1>5. ASSUME NEW x, x = [call EXCEPT !.stage = "waits", !.channel = channel] PROVE CallOK(x)'
    <2>1. Began(call)'
      BY <1>1, <1>2, <1>3, BeganStays DEF CallOK
    <2> QED
      BY <1>1, <1>2, <1>3, <1>5, <2>1, ChannelSet, CallGoesOn, SameIds
  <1>6. \A x \in calls' : x \in calls \/ CallOK(x)'
    BY <1>4, <1>5 DEF getNotifyChan, Others
  <1>7. LogOK'
    BY <1>1, <1>2, LogStays
  <1> QED
    BY <1>1, <1>2, <1>3, <1>6, <1>7, CallsKept, ClerksStay DEF Asking

LEMMA RemovesOK ==
  ASSUME NEW call, CallOK(call), call.stage = "waits", IdsGrow,
         NEW x, x = [call EXCEPT !.stage = "removes"]
  PROVE  CallOK(x)'
  BY StageChanged, CallGoesOn DEF CallOK

LEMMA ReceiveKeeps ==
  ASSUME KVInv, NEW call \in calls, Receive(call)
  PROVE  Asking
  <1>1. LogOK /\ CallsOK /\ ClerksOK /\ CallOK(call) /\ SentOK
    BY DEF KVInv, CallsOK
  <1>2. call \in Calls /\ call.stage = "waits" /\ UNCHANGED logService
    BY <1>1 DEF Receive, CallOK
  <1>3. UNCHANGED <<leads, lastIndex, elections, pending, chosen>>
    BY <1>2 DEF logService
  <1>4. call.command \in Clerk \X Nat /\ call.server \in Server
    BY <1>2 DEF Calls
  <1>5. PICK message \in buffers[call.server] :
          /\ message.index = call.index
          /\ Reply(call, message.response, Onward(call, "removes"))
    BY DEF Receive
  <1>6. AnswersOne(call.server, message)
    BY <1>1, <1>4, <1>5 DEF SentOK
  <1>7. /\ message.index \in 1 .. Len(chosen) /\ message.response = ResultOf(message.index)
        /\ call.command = chosen[message.index].command
    BY <1>2, <1>5, <1>6 DEF AnswersOne
  <1>8. message.response \in Responses
    BY <1>1, <1>7, ResultType
  <1>9. Heard(call.command, message.response, Onward(call, "removes"))
    BY <1>1, <1>4, <1>5, <1>8, ReplyIs
  <1>10. IdsGrow
    BY <1>1, <1>4, <1>9, HeardGrows
  <1>11. \A x \in Onward(call, "removes") : x \in calls \/ CallOK(x)'
    BY <1>1, <1>2, <1>10, RemovesOK DEF Onward, Others
  <1>12. CallsOK'
    BY <1>1, <1>3, <1>4, <1>9, <1>11, HeardKeepsCalls
  <1>13. InLog(call.command[1], call.command[2], Len(chosen))
    <2>1. call.command = <<call.command[1], call.command[2]>>
      BY <1>4
    <2> QED
      BY <1>7, <2>1 DEF InLog
  <1>14. ClerksOK'
    BY <1>1, <1>3, <1>4, <1>9, <1>13, ClerksKept
  <1>15. LogOK'
    BY <1>1, <1>2, LogStays
  <1> QED
    BY <1>12, <1>14, <1>15 DEF Asking

LEMMA TimeOutKeeps ==
  ASSUME KVInv, NEW call \in calls, TimeOut(call)
  PROVE  Asking
  <1>1. LogOK /\ CallsOK /\ ClerksOK /\ CallOK(call)
    BY DEF KVInv, CallsOK
  <1>2. call \in Calls /\ call.stage = "waits" /\ UNCHANGED logService
    BY <1>1 DEF TimeOut, CallOK
  <1>3. UNCHANGED <<leads, lastIndex, elections, pending, chosen>>
    BY <1>2 DEF logService
  <1>4. call.command \in Clerk \X Nat
    BY <1>2 DEF Calls
  <1>5. Heard(call.command, ErrTimeout, Onward(call, "removes"))
    BY <1>1, <1>4, ReplyIs, Responded DEF TimeOut
  <1>6. IdsGrow
    BY <1>1, <1>4, <1>5, HeardGrows
  <1>7. \A x \in Onward(call, "removes") : x \in calls \/ CallOK(x)'
    BY <1>1, <1>2, <1>6, RemovesOK DEF Onward, Others
  <1>8. ErrTimeout.Err = "ErrTimeout"
    BY DEF ErrTimeout
  <1>9. CallsOK' /\ ClerksOK'
    BY <1>1, <1>3, <1>4, <1>5, <1>7, <1>8, HeardKeepsCalls, ClerksKept
  <1>10. LogOK'
    BY <1>1, <1>2, LogStays
  <1> QED
    BY <1>9, <1>10 DEF Asking

LEMMA CallFailsKeeps ==
  ASSUME KVInv, NEW c \in Clerk, CallFails(c)
  PROVE  Asking
  <1>1. LogOK /\ CallsOK /\ ClerksOK
    BY DEF KVInv
  <1>2. Hears(c, ErrTimeout, calls) /\ UNCHANGED logService
    BY DEF CallFails
  <1>3. UNCHANGED <<leads, lastIndex, elections, pending, chosen>>
    BY <1>2 DEF logService
  <1>4. PICK command \in Clerk \X Nat : command = <<c, clerks[c].id>>
    BY <1>1 DEF ClerksOK, ClerkStates
  <1>5. Heard(command, ErrTimeout, calls)
    BY <1>1, <1>2, <1>4, HearsIs, Responded
  <1>6. ErrTimeout.Err = "ErrTimeout"
    BY DEF ErrTimeout
  <1>7. CallsOK' /\ ClerksOK'
    BY <1>1, <1>3, <1>5, <1>6, HeardKeepsCalls, ClerksKept
  <1>8. LogOK'
    BY <1>1, <1>2, LogStays
  <1> QED
    BY <1>7, <1>8 DEF Asking

(* Neither a handler nor a clerk goes on; handlers may be gone.            *)
LEMMA NobodyAsks ==
  ASSUME KVInv, UNCHANGED <<logService, clients>>, calls' \subseteq calls
  PROVE  Asking
  <1>1. LogOK /\ CallsOK /\ ClerksOK
    BY DEF KVInv
  <1>2. UNCHANGED <<leads, elections, pending, chosen, clerks, answer>>
    BY DEF logService, clients
  <1> QED
    BY <1>1, <1>2, LogStays, CallsKept, ClerksStay DEF Asking

LEMMA RestartAsking ==
  ASSUME KVInv, NEW s \in Server, Restart(s)
  PROVE  Asking
  <1>1. LogOK /\ CallsOK /\ ClerksOK
    BY DEF KVInv
  <1>2. /\ leads' = [leads EXCEPT ![s] = 0] /\ lastIndex' = [lastIndex EXCEPT ![s] = 0]
        /\ calls' = { call \in calls : call.server # s \/ call.stage = "requested" }
        /\ UNCHANGED <<elections, pending, chosen, clients>>
    BY DEF Restart
  <1>3. LogOK'
    BY <1>1, <1>2, Bounds, LeaderGone
  <1>4. UNCHANGED <<clerks, answer>>
    BY <1>2 DEF clients
  <1>5. \A x \in calls' : x \in calls /\ x.stage \in {"started", "waits"} =>
                            leads'[x.server] = leads[x.server]
    BY <1>1, <1>2 DEF LogOK
  <1>6. CallsOK'
    BY <1>1, <1>2, <1>5, CallsKept
  <1> QED
    BY <1>1, <1>2, <1>3, <1>4, <1>6, ClerksStay DEF Asking

(* A leader that is elected again has the entries of its handlers below    *)
(* its new base; whoever else is elected has no handler that waits.        *)
LEMMA RaftStepAsking ==
  ASSUME KVInv, RaftStep
  PROVE  Asking
  <1>1. LogOK /\ CallsOK /\ ClerksOK
    BY DEF KVInv
  <1>2. UNCHANGED <<calls, clients, clerks, answer>>
    BY DEF RaftStep, clients
  <1>3. LogOK'
    BY <1>1, RaftStepKeepsLog
  <1>4. UNCHANGED pending /\ ChosenKept(Len(chosen))
    <2>0. Len(chosen) \in Nat
      BY <1>1 DEF LogOK
    <2>1. CASE \E e \in pending : Choose(e)
      BY <1>1, <2>1, ChooseIs
    <2>2. CASE UNCHANGED <<pending, chosen>>
      BY <2>0, <2>2 DEF ChosenKept
    <2> QED
      BY <2>1, <2>2 DEF RaftStep, Elect, ElectAgain, StepDown, BecomeLeader
  <1>5. ClerksOK'
    <2>1. ASSUME NEW c \in Clerk, NEW m \in Writes(c), m < clerks[c].id
          PROVE  \E k \in 1 .. Len(chosen') : chosen'[k].command = <<c, m>>
      <3>1. PICK k \in 1 .. Len(chosen) : chosen[k].command = <<c, m>>
        BY <1>1, <2>1 DEF ClerksOK, InLog
      <3>2. k \in 1 .. Len(chosen') /\ chosen'[k] = chosen[k]
        BY <1>4 DEF ChosenKept
      <3> QED
        BY <3>1, <3>2
    <2> QED
      BY <1>1, <1>2, <1>4, <2>1 DEF ClerksOK, Asked, InLog
  <1>6. IdsGrow
    BY <1>1, <1>2, SameIds
  <1>7. CallsOK'
    <2> SUFFICES ASSUME NEW x \in calls, x.stage \in {"started", "waits"} PROVE Began(x)'
      BY <1>1, <1>2, <1>6, CallAgain DEF CallsOK
    <2>1. CallOK(x) /\ Began(x) /\ x.server \in Server
      BY <1>1 DEF CallsOK, CallOK, Calls
    <2>2. CASE UNCHANGED <<leads, elections>>
      BY <1>4, <2>1, <2>2, BeganStays
    <2>3. CASE \E s \in Server : StepDown(s)
      <3>1. PICK s \in Server : StepDown(s)
        BY <2>3
      <3>2. UNCHANGED elections /\ (leads'[x.server] = leads[x.server] \/ leads'[x.server] = 0)
        BY <1>1, <2>1, <3>1 DEF StepDown, LogOK
      <3>3. PICK t \in DOMAIN elections :
              /\ [index |-> x.index, term |-> t, command |-> x.command] \in pending
              /\ elections[t].leader = x.server
              /\ \/ leads[x.server] \in {0, t}
                 \/ /\ t < leads[x.server]
                    /\ x.index <= elections[leads[x.server]].base
        BY <2>1 DEF Began
      <3> QED
        BY <1>4, <3>2, <3>3 DEF Began
    <2>4. CASE \E s \in Server : NoneWaits(s) /\ Elect(s)
      <3>1. PICK s \in Server : NoneWaits(s) /\ Elect(s)
        BY <2>4
      <3>2. x.server # s
        BY <3>1 DEF NoneWaits
      <3>3. PICK t \in 1 .. MaxTerm : \E base : BecomeLeader(s, t, base)
        BY <3>1 DEF Elect
      <3>4. PICK base : BecomeLeader(s, t, base)
        BY <3>3
      <3>5. leads'[x.server] = leads[x.server]
        BY <1>1, <2>1, <3>2, <3>4 DEF BecomeLeader, LogOK
      <3>6. /\ DOMAIN elections' = DOMAIN elections \cup {t}
            /\ \A u \in DOMAIN elections : elections'[u] = elections[u]
        BY <3>4 DEF BecomeLeader
      <3>7. leads[x.server] # 0 => leads[x.server] \in DOMAIN elections
        BY <1>1, <2>1 DEF LogOK
      <3>8. PICK u \in DOMAIN elections :
              /\ [index |-> x.index, term |-> u, command |-> x.command] \in pending
              /\ elections[u].leader = x.server
              /\ \/ leads[x.server] \in {0, u}
                 \/ /\ u < leads[x.server]
                    /\ x.index <= elections[leads[x.server]].base
        BY <2>1 DEF Began
      <3>9. u # 0 /\ u \in DOMAIN elections'
        BY <1>1, <3>6 DEF LogOK
      <3>10. \/ leads'[x.server] \in {0, u}
             \/ /\ u < leads'[x.server]
                /\ x.index <= elections'[leads'[x.server]].base
        <4>1. CASE leads[x.server] \in {0, u}
          BY <3>5, <4>1
        <4>2. CASE leads[x.server] \notin {0, u}
          BY <3>5, <3>6, <3>7, <3>8, <4>2
        <4> QED
          BY <4>1, <4>2
      <3> QED
        BY <1>4, <3>6, <3>8, <3>9, <3>10 DEF Began
    <2>5. CASE \E s \in Server : ElectAgain(s)
      <3>1. PICK s \in Server, t \in 1 .. MaxTerm : leads[s] # 0 /\ BecomeLeader(s, t, lastIndex[s])
        BY <2>5 DEF ElectAgain
      <3>2. /\ t \notin DOMAIN elections
            /\ \A u \in DOMAIN elections : elections[u].leader = s => u < t
            /\ DOMAIN elections' = DOMAIN elections \cup {t}
            /\ elections'[t] = [leader |-> s, base |-> lastIndex[s]]
            /\ \A u \in DOMAIN elections : elections'[u] = elections[u]
        BY <3>1 DEF BecomeLeader
      <3>3. /\ leads'[s] = t
            /\ \A r \in Server \ {s} : leads'[r] = leads[r]
        BY <1>1, <3>1 DEF BecomeLeader, LogOK
      <3>4. PICK u \in DOMAIN elections :
              /\ [index |-> x.index, term |-> u, command |-> x.command] \in pending
              /\ elections[u].leader = x.server
              /\ \/ leads[x.server] \in {0, u}
                 \/ /\ u < leads[x.server]
                    /\ x.index <= elections[leads[x.server]].base
        BY <2>1 DEF Began
      <3>5. u # 0 /\ u \in DOMAIN elections'
        BY <1>1, <3>2 DEF LogOK
      <3>6. /\ leads[x.server] # 0 => /\ leads[x.server] \in DOMAIN elections
                                      /\ elections[leads[x.server]].base <= lastIndex[x.server]
            /\ elections \in [DOMAIN elections -> [leader : Server, base : 0 .. MaxLogIndex]]
            /\ lastIndex[x.server] \in 0 .. MaxLogIndex
        BY <1>1, <2>1 DEF LogOK
      <3>7. \/ leads'[x.server] \in {0, u}
            \/ /\ u < leads'[x.server]
               /\ x.index <= elections'[leads'[x.server]].base
        <4>1. CASE x.server # s
          <5>1. leads'[x.server] = leads[x.server]
            BY <2>1, <3>3, <4>1
          <5>2. CASE leads[x.server] \in {0, u}
            BY <5>1, <5>2
          <5>3. CASE leads[x.server] \notin {0, u}
            BY <3>2, <3>4, <3>6, <5>1, <5>3
          <5> QED
            BY <5>2, <5>3
        <4>2. CASE x.server = s
          <5>1. u < t
            BY <3>2, <3>4, <4>2
          <5>2. x.index <= lastIndex[s]
            <6>1. CASE leads[s] = u
              <7>1. PICK e \in pending : e = [index |-> x.index, term |-> u, command |-> x.command]
                BY <3>4
              <7>2. e.index = x.index /\ e.term = u
                BY <7>1
              <7> QED
                BY <1>1, <6>1, <7>2 DEF LogOK
            <6>2. CASE leads[s] # u
              <7>1. /\ x.index <= elections[leads[s]].base
                    /\ elections[leads[s]].base <= lastIndex[s]
                    /\ leads[s] \in DOMAIN elections
                BY <3>1, <3>4, <3>6, <4>2, <6>2
              <7>2. elections[leads[s]].base \in Int /\ lastIndex[s] \in Int
                BY <3>6, <4>2, <7>1
              <7>3. x.index \in Int
                BY <2>1 DEF CallOK, Calls
              <7> QED
                BY <7>1, <7>2, <7>3
            <6> QED
              BY <6>1, <6>2
          <5> QED
            BY <3>2, <3>3, <4>2, <5>1, <5>2
        <4> QED
          BY <4>1, <4>2
      <3> QED
        BY <1>4, <3>2, <3>4, <3>5, <3>7 DEF Began
    <2> QED
      <3>1. CASE \E e \in pending : Choose(e)
        BY <1>1, <2>2, <3>1, ChooseIs
      <3> QED
        BY <2>3, <2>4, <2>5, <3>1 DEF RaftStep
  <1> QED
    BY <1>3, <1>5, <1>7 DEF Asking

LEMMA NextAsking ==
  ASSUME KVInv, [Next]_vars
  PROVE  Asking
  <1>1. CASE RaftStep
    BY <1>1, RaftStepAsking
  <1>2. CASE \E call \in calls : removeOutdatedNotifyChan(call)
    BY <1>2, NobodyAsks DEF removeOutdatedNotifyChan, Others
  <1>3. CASE \E call \in calls : Command(call)
    BY <1>2, <1>3, CheckDuplicateKeeps, SubmitKeeps, getNotifyChanKeeps, ReceiveKeeps, TimeOutKeeps
       DEF Command
  <1>4. CASE \/ PipelineStep \/ UNCHANGED vars
             \/ \E s \in Server : \/ Apply(s)
                                  \/ \E snap \in snapCh[s] : ApplySnapshot(s, snap)
    BY <1>4, NobodyAsks DEF PipelineStep, Apply, ApplySnapshot, vars
  <1>5. CASE \E s \in Server : Restart(s)
    BY <1>5, RestartAsking
  <1>6. CASE \E c \in Clerk : CallFails(c)
    BY <1>6, CallFailsKeeps
  <1> QED
    BY <1>1, <1>3, <1>4, <1>5, <1>6 DEF Next

-----------------------------------------------------------------------------
(* What is chosen, and in which order.                                     *)
LEMMA NextChosen ==
  ASSUME KVInv, [Next]_vars
  PROVE  ChosenKept(Len(chosen))
  <1>0. LogOK /\ Len(chosen) \in Nat
    BY DEF KVInv, LogOK
  <1>1. CASE \E e \in pending : Choose(e)
    BY <1>0, <1>1, ChooseIs
  <1>2. CASE UNCHANGED chosen
    BY <1>0, <1>2 DEF ChosenKept
  <1>3. CASE RaftStep
    BY <1>1, <1>2, <1>3 DEF RaftStep, Elect, ElectAgain, StepDown, BecomeLeader
  <1>4. CASE PipelineStep \/ (\E c \in Clerk : CallFails(c)) \/ UNCHANGED vars
    BY <1>2, <1>4 DEF PipelineStep, CallFails, vars, logService
  <1>5. CASE \E call \in calls : Command(call)
    BY <1>2, <1>5 DEF Command, CheckDuplicate, Submit, getNotifyChan, Receive, TimeOut,
                      removeOutdatedNotifyChan, Start, logService
  <1>6. CASE \E s \in Server : \/ Apply(s)
                               \/ \E snap \in snapCh[s] : ApplySnapshot(s, snap)
                               \/ Restart(s)
    BY <1>2, <1>6 DEF Apply, ApplySnapshot, Restart, logService
  <1> QED
    BY <1>3, <1>4, <1>5, <1>6 DEF Next

LEMMA InLogAgain ==
  ASSUME NEW n, ChosenKept(n), NEW i \in 0 .. n, NEW c, NEW m
  PROVE  InLog(c, m, i) <=> \E k \in 1 .. i : chosen'[k].command = <<c, m>>
  <1>1. \A k \in 1 .. i : chosen'[k] = chosen[k]
    BY DEF ChosenKept
  <1> QED
    BY <1>1 DEF InLog

LEMMA NextOrder ==
  ASSUME KVInv, [Next]_vars
  PROVE  OrderOK'
  <1>1. ChosenKept(Len(chosen)) /\ LogOK /\ ClerksOK /\ OrderOK
    BY NextChosen DEF KVInv
  <1>2. PICK n \in Nat : n = Len(chosen)
    BY <1>1 DEF ChosenKept
  <1>4. ChosenKept(n) /\ n \in 0 .. n
    BY <1>1, <1>2
  <1>3. ASSUME NEW k \in 1 .. Len(chosen'), NEW m \in Writes(chosen'[k].command[1]),
               m < chosen'[k].command[2]
        PROVE  \E j \in 1 .. k - 1 : chosen'[j].command = <<chosen'[k].command[1], m>>
    <2>1. CASE k \in 1 .. n
      <3>1. chosen'[k] = chosen[k] /\ k - 1 \in 0 .. n
        BY <1>1, <1>2, <2>1 DEF ChosenKept
      <3>2. InLog(chosen[k].command[1], m, k - 1)
        BY <1>1, <1>2, <1>3, <2>1, <3>1 DEF OrderOK
      <3>3. PICK c, i : i \in 0 .. n /\ c = chosen[k].command[1] /\ i = k - 1
        BY <3>1
      <3>4. \E j \in 1 .. i : chosen'[j].command = <<c, m>>
        <4>1. InLog(c, m, i)
          BY <3>2, <3>3
        <4>2. i \in 0 .. n
          BY <3>3
        <4> QED
          BY <1>4, <4>1, <4>2, InLogAgain
      <3> QED
        BY <3>1, <3>3, <3>4
    <2>2. CASE k \notin 1 .. n
      <3>1. PICK e \in pending : Choose(e)
        <4>1. chosen' # chosen
          BY <1>2, <1>3, <2>2
        <4>2. RaftStep
          BY <4>1 DEF Next, vars, logService, PipelineStep, CallFails, Command, CheckDuplicate,
                Submit, getNotifyChan, Receive, TimeOut, removeOutdatedNotifyChan, Start, Apply,
                ApplySnapshot, Restart
        <4> QED
          BY <4>1, <4>2 DEF RaftStep, Elect, ElectAgain, StepDown, BecomeLeader
      <3>2. /\ Len(chosen') = n + 1
            /\ chosen'[n + 1] = [term |-> e.term, command |-> e.command]
        BY <1>1, <1>2, <3>1, ChooseIs
      <3>3. k = n + 1 /\ k - 1 = n
        BY <1>2, <2>2, <3>2
      <3>4. chosen'[k].command = e.command /\ Asked(e.command)
        BY <1>1, <3>1, <3>2, <3>3 DEF ClerksOK
      <3>5. PICK c \in Clerk, l \in Nat : e.command = <<c, l>>
        BY <3>4 DEF Asked
      <3>6. e.command[1] = c /\ e.command[2] = l
        BY <3>5
      <3>7. m < l /\ l <= clerks[c].id /\ m \in Writes(c)
        BY <1>3, <3>4, <3>6 DEF Asked
      <3>8. m \in Nat /\ clerks[c].id \in Nat
        BY <1>1, <3>7, Scripts DEF Writes, ClerksOK, ClerkStates
      <3>9. InLog(c, m, n)
        BY <1>1, <1>2, <3>7, <3>8 DEF ClerksOK
      <3>10. \E j \in 1 .. n : chosen'[j].command = <<c, m>>
        BY <1>4, <3>9, InLogAgain
      <3> QED
        BY <3>3, <3>4, <3>6, <3>10
    <2> QED
      BY <2>1, <2>2
  <1> QED
    BY <1>3 DEF OrderOK, InLog

-----------------------------------------------------------------------------
(* The machines, tables and snapshots.                                     *)
FitsNext(value, operations, i) ==
  /\ i \in 0 .. Len(chosen')
  /\ value = ValueAfter'[i]
  /\ operations \in [Clerk -> Nat]
  /\ \A c \in Clerk : \A m \in Writes(c) :
       m <= operations[c] <=> \E k \in 1 .. i : chosen'[k].command = <<c, m>>

SnapshotNext(snap) ==
  /\ snap \in [index : Nat, machine : Seq(Clerk \X Nat), lastOperations : [Clerk -> Nat]]
  /\ FitsNext(snap.machine, snap.lastOperations, snap.index)

LEMMA FitsAgain ==
  ASSUME NEW value, NEW operations, NEW i, Fits(value, operations, i), ChosenKept(Len(chosen))
  PROVE  FitsNext(value, operations, i)
  <1>1. PICK n \in Nat : n = Len(chosen)
    BY DEF ChosenKept
  <1>2. i \in 0 .. n /\ i \in 0 .. Len(chosen')
    BY <1>1 DEF Fits, ChosenKept
  <1>3. ValueAfter'[i] = ValueAfter[i]
    BY <1>1, <1>2, ValuesAgain
  <1>4. \A c \in Clerk : \A m \in Writes(c) :
          InLog(c, m, i) <=> \E k \in 1 .. i : chosen'[k].command = <<c, m>>
    BY <1>1, <1>2, InLogAgain
  <1> QED
    BY <1>2, <1>3, <1>4 DEF Fits, FitsNext

LEMMA SnapshotAgain ==
  ASSUME NEW snap, SnapshotOK(snap), ChosenKept(Len(chosen))
  PROVE  SnapshotNext(snap)
  BY FitsAgain DEF SnapshotOK, SnapshotNext

LEMMA CopiesFrom ==
  ASSUME machine' \in [Server -> Seq(Clerk \X Nat)],
         lastOperations' \in [Server -> [Clerk -> Nat]],
         \A s \in Server : /\ FitsNext(machine'[s], lastOperations'[s], AppliedTo(s)')
                           /\ SnapshotNext(snapshot'[s])
                           /\ \A snap \in snapCh'[s] : SnapshotNext(snap)
  PROVE  CopiesOK'
  BY DEF CopiesOK, Fits, FitsNext, SnapshotOK, SnapshotNext, InLog

LEMMA CopiesStay ==
  ASSUME CopiesOK, ChosenKept(Len(chosen)), UNCHANGED <<machine, lastOperations, kvApplied, snapshot>>,
         \A s \in Server : \A snap \in snapCh'[s] : SnapshotOK(snap)
  PROVE  CopiesOK'
  <1>1. \A s \in Server : AppliedTo(s)' = AppliedTo(s)
    BY DEF AppliedTo
  <1>2. \A s \in Server : FitsNext(machine[s], lastOperations[s], AppliedTo(s))
    BY FitsAgain DEF CopiesOK
  <1>3. \A s \in Server : /\ SnapshotNext(snapshot[s])
                          /\ \A snap \in snapCh'[s] : SnapshotNext(snap)
    BY SnapshotAgain DEF CopiesOK
  <1>4. /\ machine' \in [Server -> Seq(Clerk \X Nat)]
        /\ lastOperations' \in [Server -> [Clerk -> Nat]]
    BY DEF CopiesOK
  <1> QED
    BY <1>1, <1>2, <1>3, <1>4, CopiesFrom

(* An entry that the server does not drop is the next of its copy.         *)
LEMMA NextOfCopy ==
  ASSUME KVInv, NEW s \in Server, batch[s] # NoBatch, ~Discarded(s)
  PROVE  /\ batch[s].next \in 1 .. Len(chosen) /\ AppliedTo(s) = batch[s].next - 1
         /\ kvApplied[s] \in Nat /\ snapshot[s].index \in Nat
         /\ kvApplied[s] < batch[s].next /\ snapshot[s].index < batch[s].next
         /\ batch[s].next <= commitIndex[s]
  <1>1. KInv /\ InOrder /\ LogOK
    BY DEF KVInv
  <1>2. /\ batch[s].next \in Nat /\ batch[s].last \in Nat /\ kvApplied[s] \in Nat
        /\ snapshot[s].index \in Nat /\ commitIndex[s] \in Nat /\ Len(chosen) \in Nat
    BY <1>1 DEF KInv, PipelineOK, LogOK
  <1>3. kvApplied[s] < batch[s].next
    BY <1>2 DEF Discarded
  <1>4. snapshot[s].index < batch[s].next
    BY <1>1, <1>2, <1>3 DEF InOrder
  <1>5. /\ 1 <= batch[s].next /\ batch[s].next <= AppliedTo(s) + 1
        /\ commitIndex[s] <= Len(chosen)
    BY <1>1 DEF InOrder
  <1>6. batch[s].next <= commitIndex[s]
    BY <1>1, <1>2 DEF KInv, BatchCommitted
  <1>7. AppliedTo(s) \in {kvApplied[s], snapshot[s].index}
    BY DEF AppliedTo
  <1> QED
    BY <1>2, <1>3, <1>4, <1>5, <1>6, <1>7

LEMMA ApplyCopies ==
  ASSUME KVInv, NEW s \in Server, Apply(s)
  PROVE  CopiesOK'
  <1>1. KInv /\ LogOK /\ OrderOK /\ CopiesOK /\ ClerksOK /\ batch[s] # NoBatch
    BY DEF KVInv, Apply, SendNext
  <1>2. UNCHANGED <<chosen, snapCh>>
    BY DEF Apply, SendNext, logService
  <1>3. ChosenKept(Len(chosen))
    BY <1>1, <1>2 DEF LogOK, ChosenKept
  <1>4. CASE Discarded(s)
    <2>1. UNCHANGED <<machine, lastOperations, kvApplied, snapshot>>
      BY <1>4 DEF Apply, servers
    <2> QED
      BY <1>1, <1>2, <1>3, <2>1, CopiesStay DEF CopiesOK
  <1>5. CASE ~Discarded(s)
    <2>1. PICK index \in 1 .. Len(chosen) : index = batch[s].next
      BY <1>1, <1>5, NextOfCopy
    <2>2. /\ AppliedTo(s) = index - 1 /\ kvApplied[s] < index /\ snapshot[s].index < index
          /\ kvApplied[s] \in Nat /\ snapshot[s].index \in Nat
      BY <1>1, <1>5, <2>1, NextOfCopy
    <2>3. index \in Nat /\ index # 0 /\ index - 1 \in 0 .. Len(chosen) /\ index \in 0 .. Len(chosen)
      BY <1>1 DEF LogOK
    <2>4. PICK c \in Clerk, m \in Nat : chosen[index].command = <<c, m>>
      <3>1. chosen[index] \in [term : Nat, command : Clerk \X Nat]
        BY <1>1, ElementOf DEF LogOK
      <3> QED
        BY <3>1
    <2>5. PICK command : command = <<c, m>>
      OBVIOUS
    <2>6. chosen[index].command = command /\ command[1] = c /\ command[2] = m
      BY <2>4, <2>5
    <2>7. m \in 1 .. Len(Script[c])
      <3>1. PICK e : e = [index |-> index, term |-> chosen[index].term,
                          command |-> chosen[index].command]
        OBVIOUS
      <3>2. e \in pending /\ e.command = command
        BY <1>1, <2>6, <3>1 DEF LogOK
      <3> QED
        BY <1>1, <2>6, <3>2 DEF ClerksOK, Asked
    <2>8. /\ ValueAfter[index] = IF Counts(index) THEN Write(ValueAfter[index - 1], command)
                                                  ELSE ValueAfter[index - 1]
          /\ Fits(machine[s], lastOperations[s], index - 1)
      BY <1>1, <2>2, <2>3, <2>6, ValueAfterNow DEF CopiesOK
    <2> DEFINE skips == Work(command) # "Get" /\ isDuplicateRequest(s, command)
               quiet == Work(command) = "Get" \/ skips
    <2>9. Counts(index) <=> ~quiet
      <3>1. Counts(index) <=> Work(command) # "Get" /\ ~InLog(c, m, index - 1)
        BY <2>5, <2>6 DEF Counts, InLog
      <3>2. Work(command) # "Get" => m \in Writes(c)
        BY <2>6, <2>7 DEF Work, Writes
      <3>3. Work(command) # "Get" => (isDuplicateRequest(s, command) <=> InLog(c, m, index - 1))
        BY <2>6, <2>8, <3>2 DEF isDuplicateRequest, Fits
      <3> QED
        BY <3>1, <3>3
    <2>10. /\ kvApplied' = [kvApplied EXCEPT ![s] = index]
           /\ IF quiet THEN UNCHANGED <<machine, lastOperations>>
              ELSE /\ machine' = [machine EXCEPT ![s] = Write(@, command)]
                   /\ lastOperations' = [lastOperations EXCEPT ![s][c] = m]
           /\ mayTakeSnapshot(s, index)
      BY <1>5, <2>1, <2>6 DEF Apply, ApplyCommand
    <2>11. /\ machine \in [Server -> Seq(Clerk \X Nat)]
           /\ lastOperations \in [Server -> [Clerk -> Nat]]
      BY <1>1 DEF CopiesOK
    <2>12. /\ machine'[s] = ValueAfter[index]
           /\ \A r \in Server \ {s} : machine'[r] = machine[r] /\ lastOperations'[r] = lastOperations[r]
      <3>1. machine[s] = ValueAfter[index - 1]
        BY <2>8 DEF Fits
      <3> QED
        BY <2>8, <2>9, <2>10, <2>11, <3>1
    <2>13. machine' \in [Server -> Seq(Clerk \X Nat)]
      <3>1. ValueAfter[index] \in Seq(Clerk \X Nat)
        BY <1>1, <2>3, ValueType
      <3>2. machine' = [machine EXCEPT ![s] = ValueAfter[index]]
        <4>1. CASE quiet
          BY <2>10, <2>11, <2>12, <4>1
        <4>2. CASE ~quiet
          <5>1. machine' = [machine EXCEPT ![s] = Write(@, command)]
            BY <2>10, <4>2
          <5> QED
            BY <2>11, <2>12, <5>1
        <4> QED
          BY <4>1, <4>2
      <3> QED
        BY <2>11, <3>1, <3>2
    <2>14. lastOperations' \in [Server -> [Clerk -> Nat]]
      <3>1. CASE quiet
        BY <2>10, <2>11, <3>1
      <3>2. CASE ~quiet
        <4>1. PICK o : o = [lastOperations[s] EXCEPT ![c] = m]
          OBVIOUS
        <4>2. o \in [Clerk -> Nat]
          BY <2>11, <4>1
        <4>3. lastOperations' = [lastOperations EXCEPT ![s] = o]
          BY <2>10, <3>2, <4>1
        <4> QED
          BY <2>11, <4>2, <4>3
      <3> QED
        BY <3>1, <3>2
    <2>15. \A d \in Clerk : \A l \in Writes(d) : l <= lastOperations'[s][d] <=> InLog(d, l, index)
      <3> SUFFICES ASSUME NEW d \in Clerk, NEW l \in Writes(d)
                   PROVE  l <= lastOperations'[s][d] <=> InLog(d, l, index)
        OBVIOUS
      <3>1. InLog(d, l, index) <=> InLog(d, l, index - 1) \/ <<d, l>> = command
        <4>1. 1 .. index = (1 .. index - 1) \cup {index}
          BY <2>3
        <4> QED
          BY <2>6, <4>1 DEF InLog
      <3>2. l <= lastOperations[s][d] <=> InLog(d, l, index - 1)
        BY <2>8 DEF Fits
      <3>3. <<d, l>> = command <=> d = c /\ l = m
        BY <2>5
      <3>4. l \in Nat /\ Script[d][l] # "Get"
        BY Scripts DEF Writes
      <3>5. CASE quiet
        <4>1. lastOperations'[s][d] = lastOperations[s][d]
          BY <2>10, <3>5
        <4>2. <<d, l>> = command => InLog(d, l, index - 1)
          <5>1. <<d, l>> = command => Work(command) # "Get"
            BY <2>6, <3>3, <3>4 DEF Work
          <5> QED
            BY <2>6, <3>2, <3>3, <3>5, <5>1 DEF isDuplicateRequest
        <4> QED
          BY <3>1, <3>2, <4>1, <4>2
      <3>6. CASE ~quiet
        <4>1. lastOperations' = [lastOperations EXCEPT ![s][c] = m]
          BY <2>10, <3>6
        <4>2. CASE d # c
          <5>1. lastOperations'[s][d] = lastOperations[s][d]
            BY <2>11, <4>1, <4>2
          <5> QED
            BY <3>1, <3>2, <3>3, <4>2, <5>1
        <4>3. CASE d = c
          <5>1. lastOperations'[s][d] = m
            BY <2>11, <4>1, <4>3
          <5>2. ~(m <= lastOperations[s][c]) /\ lastOperations[s][c] \in Nat
            BY <2>6, <2>11, <3>6 DEF isDuplicateRequest
          <5>3. l < m => InLog(d, l, index - 1)
            BY <1>1, <2>6, <4>3 DEF OrderOK
          <5>4. l > m => ~InLog(d, l, index - 1)
            BY <3>2, <3>4, <4>3, <5>2
          <5> QED
            BY <3>1, <3>3, <3>4, <4>3, <5>1, <5>3, <5>4
        <4> QED
          BY <4>2, <4>3
      <3> QED
        BY <3>5, <3>6
    <2>16. FitsNext(machine'[s], lastOperations'[s], index)
      <3>1. PICK v : v = machine'[s]
        OBVIOUS
      <3>2. PICK o : o = lastOperations'[s]
        OBVIOUS
      <3>3. o \in [Clerk -> Nat]
        BY <2>14, <3>2
      <3>4. Fits(v, o, index)
        BY <2>3, <2>12, <2>15, <3>1, <3>2, <3>3 DEF Fits
      <3> QED
        BY <1>3, <3>1, <3>2, <3>4, FitsAgain
    <2>17. \/ UNCHANGED snapshot
           \/ snapshot' = [snapshot EXCEPT ![s] = Snapshot(s, index)]
      BY <2>10 DEF mayTakeSnapshot
    <2>18. DOMAIN snapshot = Server /\ kvApplied \in [Server -> Nat]
      BY <1>1 DEF KInv, PipelineOK
    <2>19. ASSUME NEW r \in Server
           PROVE  /\ FitsNext(machine'[r], lastOperations'[r], AppliedTo(r)')
                  /\ SnapshotNext(snapshot'[r])
                  /\ \A snap \in snapCh'[r] : SnapshotNext(snap)
      <3>1. SnapshotNext(snapshot[r]) /\ \A snap \in snapCh'[r] : SnapshotNext(snap)
        BY <1>1, <1>2, <1>3, SnapshotAgain DEF CopiesOK
      <3>2. CASE r # s
        <4>1. AppliedTo(r)' = AppliedTo(r) /\ snapshot'[r] = snapshot[r]
          BY <2>10, <2>17, <2>18, <3>2 DEF AppliedTo
        <4>2. FitsNext(machine[r], lastOperations[r], AppliedTo(r))
          BY <1>1, <1>3, FitsAgain DEF CopiesOK
        <4> QED
          BY <2>12, <3>1, <3>2, <4>1, <4>2
      <3>3. CASE r = s
        <4>1. PICK snap : snap = Snapshot(s, index)
          OBVIOUS
        <4>2. /\ snap.index = index /\ snap.machine = machine'[s]
              /\ snap.lastOperations = lastOperations'[s]
              /\ snap \in [index : Nat, machine : Seq(Clerk \X Nat), lastOperations : [Clerk -> Nat]]
          BY <2>3, <2>13, <2>14, <4>1 DEF Snapshot
        <4>3. SnapshotNext(snap)
          BY <2>16, <4>2 DEF SnapshotNext
        <4>4. snapshot'[s] = snapshot[s] \/ snapshot'[s] = snap
          BY <2>17, <2>18, <4>1
        <4>5. kvApplied'[s] = index
          BY <2>10, <2>18
        <4>6. AppliedTo(s)' = index
          BY <2>2, <2>3, <4>2, <4>4, <4>5 DEF AppliedTo
        <4> QED
          BY <2>16, <3>1, <3>3, <4>3, <4>4, <4>6
      <3> QED
        BY <3>2, <3>3
    <2> QED
      BY <2>13, <2>14, <2>19, CopiesFrom
  <1> QED
    BY <1>4, <1>5

LEMMA ApplySnapshotCopies ==
  ASSUME KVInv, NEW s \in Server, NEW snap \in snapCh[s], ApplySnapshot(s, snap)
  PROVE  CopiesOK'
  <1>1. KInv /\ LogOK /\ CopiesOK
    BY DEF KVInv
  <1>2. UNCHANGED chosen /\ snapCh' = [snapCh EXCEPT ![s] = @ \ {snap}]
    BY DEF ApplySnapshot, CondInstallSnapshot, logService
  <1>3. ChosenKept(Len(chosen))
    BY <1>1, <1>2 DEF LogOK, ChosenKept
  <1>4. /\ DOMAIN snapshot = Server /\ DOMAIN snapCh = Server /\ kvApplied \in [Server -> Nat]
        /\ machine \in [Server -> Seq(Clerk \X Nat)]
        /\ lastOperations \in [Server -> [Clerk -> Nat]]
    BY <1>1 DEF KInv, PipelineOK, CopiesOK
  <1>5. \A r \in Server : \A x \in snapCh'[r] : SnapshotOK(x)
    BY <1>1, <1>2, <1>4 DEF CopiesOK
  <1>6. CASE Outdated(s, snap)
    <2>1. UNCHANGED <<machine, lastOperations, kvApplied, snapshot>>
      BY <1>6 DEF ApplySnapshot, CondInstallSnapshot
    <2> QED
      BY <1>1, <1>3, <1>5, <2>1, CopiesStay
  <1>7. CASE ~Outdated(s, snap)
    <2>1. /\ machine' = [machine EXCEPT ![s] = snap.machine]
          /\ lastOperations' = [lastOperations EXCEPT ![s] = snap.lastOperations]
          /\ kvApplied' = [kvApplied EXCEPT ![s] = snap.index]
          /\ snapshot' = [snapshot EXCEPT ![s] = snap]
      BY <1>7 DEF ApplySnapshot, CondInstallSnapshot
    <2>2. SnapshotOK(snap)
      BY <1>1 DEF CopiesOK
    <2>3. /\ snap.index \in Nat /\ snap.machine \in Seq(Clerk \X Nat)
          /\ snap.lastOperations \in [Clerk -> Nat]
      BY <2>2 DEF SnapshotOK
    <2>4. /\ machine' \in [Server -> Seq(Clerk \X Nat)]
          /\ lastOperations' \in [Server -> [Clerk -> Nat]]
      BY <1>4, <2>1, <2>3
    <2>5. SnapshotNext(snap)
      BY <1>3, <2>2, SnapshotAgain
    <2>6. ASSUME NEW r \in Server
          PROVE  /\ FitsNext(machine'[r], lastOperations'[r], AppliedTo(r)')
                 /\ SnapshotNext(snapshot'[r])
      <3>1. CASE r = s
        <4>1. /\ machine'[s] = snap.machine /\ lastOperations'[s] = snap.lastOperations
              /\ kvApplied'[s] = snap.index /\ snapshot'[s] = snap
          BY <1>4, <2>1
        <4>2. AppliedTo(s)' = snap.index
          BY <4>1 DEF AppliedTo
        <4> QED
          BY <2>5, <3>1, <4>1, <4>2 DEF SnapshotNext
      <3>2. CASE r # s
        <4>1. /\ machine'[r] = machine[r] /\ lastOperations'[r] = lastOperations[r]
              /\ kvApplied'[r] = kvApplied[r] /\ snapshot'[r] = snapshot[r]
          BY <1>4, <2>1, <3>2
        <4>2. AppliedTo(r)' = AppliedTo(r)
          BY <4>1 DEF AppliedTo
        <4>3. FitsNext(machine[r], lastOperations[r], AppliedTo(r)) /\ SnapshotNext(snapshot[r])
          BY <1>1, <1>3, FitsAgain, SnapshotAgain DEF CopiesOK
        <4> QED
          BY <4>1, <4>2, <4>3
      <3> QED
        BY <3>1, <3>2
    <2>7. \A r \in Server : \A x \in snapCh'[r] : SnapshotNext(x)
      BY <1>3, <1>5, SnapshotAgain
    <2> QED
      BY <2>4, <2>6, <2>7, CopiesFrom
  <1> QED
    BY <1>6, <1>7

LEMMA RestartCopies ==
  ASSUME KVInv, NEW s \in Server, Restart(s)
  PROVE  CopiesOK'
  <1>1. KInv /\ LogOK /\ CopiesOK
    BY DEF KVInv
  <1>2. /\ UNCHANGED <<chosen, snapshot>>
        /\ snapCh' = [snapCh EXCEPT ![s] = {}]
        /\ machine' = [machine EXCEPT ![s] = snapshot[s].machine]
        /\ lastOperations' = [lastOperations EXCEPT ![s] = snapshot[s].lastOperations]
        /\ kvApplied' = [kvApplied EXCEPT ![s] = 0]
    BY DEF Restart, RestartPipeline
  <1>3. ChosenKept(Len(chosen))
    BY <1>1, <1>2 DEF LogOK, ChosenKept
  <1>4. /\ DOMAIN snapshot = Server /\ DOMAIN snapCh = Server /\ kvApplied \in [Server -> Nat]
        /\ machine \in [Server -> Seq(Clerk \X Nat)]
        /\ lastOperations \in [Server -> [Clerk -> Nat]]
    BY <1>1 DEF KInv, PipelineOK, CopiesOK
  <1>5. SnapshotOK(snapshot[s])
    BY <1>1 DEF CopiesOK
  <1>6. /\ snapshot[s].index \in Nat /\ snapshot[s].machine \in Seq(Clerk \X Nat)
        /\ snapshot[s].lastOperations \in [Clerk -> Nat]
    BY <1>5 DEF SnapshotOK
  <1>7. /\ machine' \in [Server -> Seq(Clerk \X Nat)]
        /\ lastOperations' \in [Server -> [Clerk -> Nat]]
    BY <1>2, <1>4, <1>6
  <1>8. ASSUME NEW r \in Server
        PROVE  /\ FitsNext(machine'[r], lastOperations'[r], AppliedTo(r)')
               /\ SnapshotNext(snapshot'[r])
               /\ \A snap \in snapCh'[r] : SnapshotNext(snap)
    <2>1. SnapshotNext(snapshot[r])
      BY <1>1, <1>3, SnapshotAgain DEF CopiesOK
    <2>2. \A snap \in snapCh'[r] : SnapshotNext(snap)
      BY <1>1, <1>2, <1>3, <1>4, SnapshotAgain DEF CopiesOK
    <2>3. CASE r = s
      <3>1. /\ machine'[s] = snapshot[s].machine /\ lastOperations'[s] = snapshot[s].lastOperations
            /\ kvApplied'[s] = 0
        BY <1>2, <1>4
      <3>2. AppliedTo(s)' = snapshot[s].index
        BY <1>2, <1>6, <3>1 DEF AppliedTo
      <3> QED
        BY <1>2, <2>1, <2>2, <2>3, <3>1, <3>2 DEF SnapshotNext
    <2>4. CASE r # s
      <3>1. /\ machine'[r] = machine[r] /\ lastOperations'[r] = lastOperations[r]
            /\ kvApplied'[r] = kvApplied[r]
        BY <1>2, <1>4, <2>4
      <3>2. AppliedTo(r)' = AppliedTo(r)
        BY <1>2, <3>1 DEF AppliedTo
      <3>3. FitsNext(machine[r], lastOperations[r], AppliedTo(r))
        BY <1>1, <1>3, FitsAgain DEF CopiesOK
      <3> QED
        BY <1>2, <2>1, <2>2, <3>1, <3>2, <3>3
    <2> QED
      BY <2>3, <2>4
  <1> QED
    BY <1>7, <1>8, CopiesFrom

LEMMA NextCopies ==
  ASSUME KVInv, [Next]_vars
  PROVE  CopiesOK'
  <1>1. KInv /\ CopiesOK /\ ChosenKept(Len(chosen))
    BY NextChosen DEF KVInv
  <1>2. CASE /\ UNCHANGED <<machine, lastOperations, kvApplied, snapshot, snapCh>>
    BY <1>1, <1>2, CopiesStay DEF CopiesOK
  <1>3. CASE RaftStep \/ (\E c \in Clerk : CallFails(c)) \/ UNCHANGED vars
    BY <1>2, <1>3 DEF RaftStep, CallFails, vars, servers, pipeline
  <1>4. CASE \E call \in calls : Command(call)
    BY <1>2, <1>4 DEF Command, CheckDuplicate, Submit, getNotifyChan, Receive, TimeOut,
                      removeOutdatedNotifyChan, servers, pipeline
  <1>5. CASE PipelineStep
    <2>1. UNCHANGED <<machine, lastOperations, kvApplied>>
      BY <1>5 DEF PipelineStep, servers
    <2>2. CASE UNCHANGED <<snapshot, snapCh>>
      BY <1>2, <2>1, <2>2
    <2>3. CASE \E s \in Server : \E from \in Server \ {s} : ReceiveSnapshot(s, from)
      <3>1. PICK s \in Server, from \in Server :
              /\ snapCh' = [snapCh EXCEPT ![s] = @ \cup {snapshot[from]}]
              /\ UNCHANGED snapshot
        BY <2>3 DEF ReceiveSnapshot
      <3>2. \A r \in Server : \A snap \in snapCh'[r] : SnapshotOK(snap)
        BY <1>1, <3>1 DEF CopiesOK, KInv, PipelineOK
      <3> QED
        BY <1>1, <2>1, <3>1, <3>2, CopiesStay
    <2> QED
      BY <1>5, <2>2, <2>3 DEF PipelineStep, LearnCommit, TakeBatch
  <1>6. CASE \E s \in Server : \/ Apply(s)
                               \/ \E snap \in snapCh[s] : ApplySnapshot(s, snap)
                               \/ Restart(s)
    BY <1>6, ApplyCopies, ApplySnapshotCopies, RestartCopies
  <1> QED
    BY <1>3, <1>4, <1>5, <1>6 DEF Next

-----------------------------------------------------------------------------
(* The order in which entries reach a server.                              *)
ServerInOrder(s) ==
  /\ commitIndex[s] <= Len(chosen) /\ rfApplied[s] <= commitIndex[s]
  /\ snapshot[s].index <= commitIndex[s] /\ rfApplied[s] <= AppliedTo(s)
  /\ batch[s] # NoBatch => 1 <= batch[s].next /\ batch[s].next <= AppliedTo(s) + 1
  /\ \/ snapshot[s].index <= kvApplied[s]
     \/ batch[s] = NoBatch
     \/ snapshot[s].index < batch[s].next

LEMMA OrderByServer == InOrder <=> \A s \in Server : ServerInOrder(s)
  BY DEF InOrder, ServerInOrder

LEMMA OrderByServerNext == InOrder' <=> \A s \in Server : ServerInOrder(s)'
  BY DEF InOrder, ServerInOrder

LEMMA OtherServer ==
  ASSUME KVInv, NEW s \in Server, ChosenKept(Len(chosen)),
         commitIndex'[s] = commitIndex[s], rfApplied'[s] = rfApplied[s], batch'[s] = batch[s],
         snapshot'[s] = snapshot[s], kvApplied'[s] = kvApplied[s]
  PROVE  ServerInOrder(s)'
  <1>1. ServerInOrder(s) /\ commitIndex[s] \in Nat
    BY OrderByServer DEF KVInv, KInv, PipelineOK
  <1>2. AppliedTo(s)' = AppliedTo(s)
    BY DEF AppliedTo
  <1>3. commitIndex[s] <= Len(chosen')
    BY <1>1 DEF ServerInOrder, ChosenKept
  <1> QED
    BY <1>1, <1>2, <1>3 DEF ServerInOrder

(* The numbers of one server.                                              *)
LEMMA NumbersOf ==
  ASSUME KVInv, NEW s \in Server
  PROVE  /\ commitIndex[s] \in Nat /\ rfApplied[s] \in Nat /\ kvApplied[s] \in Nat
         /\ snapshot[s].index \in Nat /\ batch[s].next \in Nat /\ batch[s].last \in Nat
         /\ AppliedTo(s) \in Nat /\ Len(chosen) \in Nat /\ ServerInOrder(s)
         /\ kvApplied[s] <= AppliedTo(s) /\ snapshot[s].index <= AppliedTo(s)
         /\ batch[s] # NoBatch => batch[s].next <= batch[s].last /\ batch[s].last <= commitIndex[s]
         /\ kvApplied[s] <= commitIndex[s]
  <1>1. KInv /\ LogOK /\ ServerInOrder(s)
    BY OrderByServer DEF KVInv
  <1>2. /\ commitIndex[s] \in Nat /\ rfApplied[s] \in Nat /\ kvApplied[s] \in Nat
        /\ snapshot[s].index \in Nat /\ batch[s].next \in Nat /\ batch[s].last \in Nat
        /\ Len(chosen) \in Nat
    BY <1>1 DEF KInv, PipelineOK, LogOK
  <1> QED
    BY <1>1, <1>2 DEF AppliedTo, KInv, BatchCommitted, AppliedCommitted

LEMMA PipelineStepOrder ==
  ASSUME KVInv, PipelineStep
  PROVE  InOrder'
  <1>1. KInv
    BY DEF KVInv
  <1>2. UNCHANGED <<kvApplied, chosen, snapshot>>
    BY DEF PipelineStep, servers, logService, LearnCommit, TakeBatch, ReceiveSnapshot
  <1>3. ChosenKept(Len(chosen))
    BY <1>2 DEF ChosenKept, KVInv, LogOK
  <1>4. PICK s \in Server : LearnCommit(s) \/ TakeBatch(s)
                            \/ \E from \in Server \ {s} : ReceiveSnapshot(s, from)
    BY DEF PipelineStep
  <1>5. /\ commitIndex \in [Server -> Nat] /\ rfApplied \in [Server -> Nat]
        /\ batch \in [Server -> [next : Nat, last : Nat]]
    BY <1>1 DEF KInv, PipelineOK
  <1> SUFFICES ASSUME NEW r \in Server PROVE ServerInOrder(r)'
    BY OrderByServerNext
  <1>6. UNCHANGED rfApplied
    BY <1>4 DEF LearnCommit, TakeBatch, ReceiveSnapshot
  <1>7. CASE r # s
    <2>1. commitIndex'[r] = commitIndex[r] /\ batch'[r] = batch[r]
      BY <1>4, <1>5, <1>7 DEF LearnCommit, TakeBatch, ReceiveSnapshot
    <2> QED
      BY <1>2, <1>3, <1>6, <2>1, OtherServer
  <1>8. CASE r = s
    <2> DEFINE a == AppliedTo(s)
    <2>1. AppliedTo(s)' = AppliedTo(s)
      BY <1>2 DEF AppliedTo
    <2>2. /\ commitIndex[s] \in Nat /\ rfApplied[s] \in Nat /\ kvApplied[s] \in Nat
          /\ snapshot[s].index \in Nat /\ batch[s].next \in Nat /\ batch[s].last \in Nat
          /\ AppliedTo(s) \in Nat /\ Len(chosen) \in Nat /\ ServerInOrder(s)
      BY NumbersOf
    <2>3. CASE LearnCommit(s)
      <3>1. PICK index \in commitIndex[s] + 1 .. Len(chosen) :
              commitIndex' = [commitIndex EXCEPT ![s] = index]
        BY <2>3 DEF LearnCommit
      <3>2. UNCHANGED batch /\ commitIndex'[s] = index /\ index \in Nat
            /\ commitIndex[s] <= index /\ index <= Len(chosen)
        BY <1>5, <2>2, <2>3, <3>1 DEF LearnCommit
      <3> QED
        BY <1>2, <1>6, <1>8, <2>1, <2>2, <3>2 DEF ServerInOrder
    <2>4. CASE TakeBatch(s)
      <3>1. PICK index \in rfApplied[s] + 1 .. Len(chosen) :
              /\ index >= commitIndex[s]
              /\ commitIndex' = [commitIndex EXCEPT ![s] = index]
              /\ batch' = [batch EXCEPT ![s] = [next |-> rfApplied[s] + 1, last |-> index]]
        BY <2>4 DEF TakeBatch
      <3>2. /\ commitIndex'[s] = index /\ index \in Nat /\ rfApplied[s] <= index
            /\ commitIndex[s] <= index /\ index <= Len(chosen)
            /\ batch'[s].next = rfApplied[s] + 1
        BY <1>5, <2>2, <3>1
      <3>3. snapshot[s].index <= rfApplied[s]
        BY <1>1, <2>4 DEF KInv, SnapshotReached, TakeBatch
      <3> QED
        BY <1>2, <1>6, <1>8, <2>1, <2>2, <3>2, <3>3 DEF ServerInOrder
    <2>5. CASE UNCHANGED <<commitIndex, batch>>
      BY <1>2, <1>3, <1>6, <1>8, <2>5, OtherServer
    <2> QED
      BY <1>4, <2>3, <2>4, <2>5 DEF ReceiveSnapshot
  <1> QED
    BY <1>7, <1>8

LEMMA ApplyOrder ==
  ASSUME KVInv, NEW s \in Server, Apply(s)
  PROVE  InOrder'
  <1>1. KInv /\ SendNext(s) /\ batch[s] # NoBatch
    BY DEF KVInv, Apply, SendNext
  <1>2. UNCHANGED <<commitIndex, chosen>>
    BY DEF Apply, SendNext, logService
  <1>3. ChosenKept(Len(chosen))
    BY <1>2 DEF ChosenKept, KVInv, LogOK
  <1>4. kvApplied \in [Server -> Nat] /\ DOMAIN snapshot = Server
    BY <1>1 DEF KInv, PipelineOK
  <1>5. \A r \in Server \ {s} : batch'[r] = batch[r] /\ rfApplied'[r] = rfApplied[r]
    BY <1>1, SendNextMoves
  <1>6. /\ commitIndex[s] \in Nat /\ rfApplied[s] \in Nat /\ kvApplied[s] \in Nat
        /\ snapshot[s].index \in Nat /\ batch[s].next \in Nat /\ batch[s].last \in Nat
        /\ AppliedTo(s) \in Nat /\ Len(chosen) \in Nat /\ ServerInOrder(s)
        /\ kvApplied[s] <= AppliedTo(s)
        /\ batch[s].next <= batch[s].last /\ batch[s].last <= commitIndex[s]
    BY <1>1, NumbersOf
  <1>7. /\ batch \in [Server -> [next : Nat, last : Nat]] /\ rfApplied \in [Server -> Nat]
    BY <1>1 DEF KInv, PipelineOK
  <1>8. \/ batch'[s].next = batch[s].next + 1 /\ rfApplied'[s] = rfApplied[s]
        \/ /\ batch'[s] = NoBatch
           /\ rfApplied'[s] \in {rfApplied[s], batch[s].next}
    <2>1. CASE batch[s].next < batch[s].last
      BY <1>1, <1>7, <2>1 DEF SendNext
    <2>2. CASE ~(batch[s].next < batch[s].last)
      <3>1. batch[s].last = batch[s].next
        BY <1>6, <2>2
      <3> QED
        BY <1>1, <1>7, <2>2, <3>1 DEF SendNext, AppliedAfter
    <2> QED
      BY <2>1, <2>2
  <1>9. /\ \A r \in Server \ {s} : snapshot'[r] = snapshot[r] /\ kvApplied'[r] = kvApplied[r]
        /\ \/ /\ batch[s].next <= kvApplied[s]
              /\ kvApplied'[s] = kvApplied[s] /\ snapshot'[s] = snapshot[s]
           \/ /\ kvApplied'[s] = batch[s].next
              /\ kvApplied[s] < batch[s].next /\ snapshot[s].index < batch[s].next
              /\ snapshot'[s].index \in {snapshot[s].index, batch[s].next}
    <2>1. CASE Discarded(s)
      BY <2>1 DEF Apply, Discarded, servers
    <2>2. CASE ~Discarded(s)
      <3>1. kvApplied[s] < batch[s].next /\ snapshot[s].index < batch[s].next
        BY <1>1, <2>2, NextOfCopy
      <3>2. kvApplied' = [kvApplied EXCEPT ![s] = batch[s].next]
        BY <2>2 DEF Apply, ApplyCommand
      <3>3. \/ UNCHANGED snapshot
            \/ snapshot' = [snapshot EXCEPT ![s] = Snapshot(s, batch[s].next)]
        BY <2>2 DEF Apply, ApplyCommand, mayTakeSnapshot
      <3>4. Snapshot(s, batch[s].next).index = batch[s].next
        BY DEF Snapshot
      <3> QED
        BY <1>4, <3>1, <3>2, <3>3, <3>4
    <2> QED
      BY <2>1, <2>2
  <1>10. ServerInOrder(s)'
    <2> DEFINE a == AppliedTo(s)'
    <2>1. AppliedTo(s)' = IF kvApplied'[s] > snapshot'[s].index THEN kvApplied'[s]
                                                               ELSE snapshot'[s].index
      BY DEF AppliedTo
    <2>2. AppliedTo(s) = IF kvApplied[s] > snapshot[s].index THEN kvApplied[s]
                                                            ELSE snapshot[s].index
      BY DEF AppliedTo
    <2>3. AppliedTo(s)' \in Nat /\ AppliedTo(s) <= AppliedTo(s)'
          /\ batch[s].next <= AppliedTo(s)'
      BY <1>6, <1>9, <2>1, <2>2
    <2>4. /\ commitIndex'[s] <= Len(chosen') /\ rfApplied'[s] <= commitIndex'[s]
          /\ snapshot'[s].index <= commitIndex'[s]
      BY <1>2, <1>6, <1>8, <1>9 DEF ServerInOrder
    <2>5. rfApplied'[s] <= AppliedTo(s)'
      BY <1>6, <1>8, <2>3 DEF ServerInOrder
    <2>6. batch'[s] # NoBatch => 1 <= batch'[s].next /\ batch'[s].next <= AppliedTo(s)' + 1
      BY <1>6, <1>8, <2>3
    <2>7. \/ snapshot'[s].index <= kvApplied'[s]
          \/ batch'[s] = NoBatch
          \/ snapshot'[s].index < batch'[s].next
      BY <1>1, <1>6, <1>8, <1>9 DEF ServerInOrder
    <2> QED
      BY <2>4, <2>5, <2>6, <2>7 DEF ServerInOrder
  <1>11. \A r \in Server \ {s} : ServerInOrder(r)'
    BY <1>2, <1>3, <1>5, <1>9, OtherServer
  <1> QED
    BY <1>10, <1>11, OrderByServerNext

LEMMA ApplySnapshotOrder ==
  ASSUME KVInv, NEW s \in Server, NEW snap \in snapCh[s], ApplySnapshot(s, snap)
  PROVE  InOrder'
  <1>1. KInv /\ CopiesOK
    BY DEF KVInv
  <1>2. UNCHANGED <<batch, chosen>>
    BY DEF ApplySnapshot, CondInstallSnapshot, logService
  <1>3. ChosenKept(Len(chosen))
    BY <1>2 DEF ChosenKept, KVInv, LogOK
  <1>4. CASE Outdated(s, snap)
    <2>1. UNCHANGED <<commitIndex, rfApplied, snapshot, kvApplied>>
      BY <1>4 DEF ApplySnapshot, CondInstallSnapshot
    <2> QED
      BY <1>2, <1>3, <2>1, OtherServer, OrderByServerNext
  <1>5. CASE ~Outdated(s, snap)
    <2>1. /\ commitIndex' = [commitIndex EXCEPT ![s] = snap.index]
          /\ rfApplied' = [rfApplied EXCEPT ![s] = snap.index]
          /\ kvApplied' = [kvApplied EXCEPT ![s] = snap.index]
          /\ snapshot' = [snapshot EXCEPT ![s] = snap]
      BY <1>5 DEF ApplySnapshot, CondInstallSnapshot
    <2>2. /\ commitIndex \in [Server -> Nat] /\ rfApplied \in [Server -> Nat]
          /\ kvApplied \in [Server -> Nat] /\ DOMAIN snapshot = Server
      BY <1>1 DEF KInv, PipelineOK
    <2>3. snap.index \in Nat /\ snap.index <= Len(chosen)
      BY <1>1 DEF CopiesOK, SnapshotOK, Fits
    <2>4. /\ commitIndex'[s] = snap.index /\ rfApplied'[s] = snap.index
          /\ kvApplied'[s] = snap.index /\ snapshot'[s] = snap
      BY <2>1, <2>2
    <2>5. AppliedTo(s)' = snap.index
      BY <2>4 DEF AppliedTo
    <2>6. /\ commitIndex[s] \in Nat /\ batch[s].next \in Nat /\ batch[s].last \in Nat
          /\ ServerInOrder(s)
          /\ batch[s] # NoBatch => batch[s].next <= batch[s].last /\ batch[s].last <= commitIndex[s]
      BY NumbersOf
    <2>7. commitIndex[s] < snap.index
      BY <1>5, <2>3, <2>6 DEF Outdated
    <2>8. ServerInOrder(s)'
      <3>1. batch[s] # NoBatch => 1 <= batch[s].next /\ batch[s].next <= snap.index + 1
        BY <2>3, <2>6, <2>7 DEF ServerInOrder
      <3>2. snap.index <= snap.index
        BY <2>3
      <3> QED
        BY <1>2, <2>3, <2>4, <2>5, <3>1, <3>2 DEF ServerInOrder
    <2>9. ASSUME NEW r \in Server, r # s PROVE ServerInOrder(r)'
      <3>1. /\ commitIndex'[r] = commitIndex[r] /\ rfApplied'[r] = rfApplied[r]
            /\ kvApplied'[r] = kvApplied[r] /\ snapshot'[r] = snapshot[r]
        BY <2>1, <2>2, <2>9
      <3> QED
        BY <1>2, <1>3, <3>1, OtherServer
    <2> QED
      BY <2>8, <2>9, OrderByServerNext
  <1> QED
    BY <1>4, <1>5

LEMMA RestartOrder ==
  ASSUME KVInv, NEW s \in Server, Restart(s)
  PROVE  InOrder'
  <1>1. KInv
    BY DEF KVInv
  <1>2. /\ commitIndex' = [commitIndex EXCEPT ![s] = snapshot[s].index]
        /\ rfApplied' = [rfApplied EXCEPT ![s] = snapshot[s].index]
        /\ batch' = [batch EXCEPT ![s] = NoBatch]
        /\ kvApplied' = [kvApplied EXCEPT ![s] = 0]
        /\ UNCHANGED <<snapshot, chosen>>
    BY DEF Restart, RestartPipeline
  <1>3. ChosenKept(Len(chosen))
    BY <1>2 DEF ChosenKept, KVInv, LogOK
  <1>4. /\ commitIndex \in [Server -> Nat] /\ rfApplied \in [Server -> Nat]
        /\ kvApplied \in [Server -> Nat] /\ batch \in [Server -> [next : Nat, last : Nat]]
    BY <1>1 DEF KInv, PipelineOK
  <1>5. /\ commitIndex'[s] = snapshot[s].index /\ rfApplied'[s] = snapshot[s].index
        /\ kvApplied'[s] = 0 /\ batch'[s] = NoBatch
    BY <1>2, <1>4
  <1>6. /\ snapshot[s].index \in Nat /\ snapshot[s].index <= Len(chosen)
    BY NumbersOf DEF ServerInOrder
  <1>7. AppliedTo(s)' = snapshot[s].index
    BY <1>2, <1>5, <1>6 DEF AppliedTo
  <1>8. ServerInOrder(s)'
    <2>1. snapshot[s].index <= snapshot[s].index
      BY <1>6
    <2> QED
      BY <1>2, <1>5, <1>6, <1>7, <2>1 DEF ServerInOrder
  <1>9. ASSUME NEW r \in Server, r # s PROVE ServerInOrder(r)'
    <2>1. /\ commitIndex'[r] = commitIndex[r] /\ rfApplied'[r] = rfApplied[r]
          /\ kvApplied'[r] = kvApplied[r] /\ batch'[r] = batch[r]
      BY <1>2, <1>4, <1>9
    <2> QED
      BY <1>2, <1>3, <2>1, OtherServer
  <1> QED
    BY <1>8, <1>9, OrderByServerNext

LEMMA NextInOrder ==
  ASSUME KVInv, [Next]_vars
  PROVE  InOrder'
  <1>1. ChosenKept(Len(chosen))
    BY NextChosen
  <1>2. CASE UNCHANGED <<commitIndex, rfApplied, batch, snapshot, kvApplied>>
    BY <1>1, <1>2, OtherServer, OrderByServerNext
  <1>3. CASE RaftStep \/ (\E c \in Clerk : CallFails(c)) \/ UNCHANGED vars
    BY <1>2, <1>3 DEF RaftStep, CallFails, vars, servers, pipeline
  <1>4. CASE \E call \in calls : Command(call)
    BY <1>2, <1>4 DEF Command, CheckDuplicate, Submit, getNotifyChan, Receive, TimeOut,
                      removeOutdatedNotifyChan, servers, pipeline
  <1>5. CASE PipelineStep
    BY <1>5, PipelineStepOrder
  <1>6. CASE \E s \in Server : \/ Apply(s)
                               \/ \E snap \in snapCh[s] : ApplySnapshot(s, snap)
                               \/ Restart(s)
    BY <1>6, ApplyOrder, ApplySnapshotOrder, RestartOrder
  <1> QED
    BY <1>3, <1>4, <1>5, <1>6 DEF Next

-----------------------------------------------------------------------------
(* What is in the channels.                                                *)
Handles(call, s, index) ==
  call.server = s /\ call.index = index /\ call.stage \in {"started", "waits"}

LEMMA AnswersAgain ==
  ASSUME NEW s \in Server, NEW message, AnswersOne(s, message), ChosenKept(Len(chosen)),
         leads'[s] # 0 => message.index <= lastIndex'[s],
         \A call \in calls' : Handles(call, s, message.index) =>
           call.command = chosen[message.index].command
  PROVE  AnswersOne(s, message)'
  <1>1. message.index \in 1 .. Len(chosen) /\ message.response = ResultOf(message.index)
    BY DEF AnswersOne
  <1>2. message.index \in 1 .. Len(chosen') /\ chosen'[message.index] = chosen[message.index]
    BY <1>1 DEF ChosenKept
  <1>3. PICK i \in 1 .. Len(chosen) : i = message.index
    BY <1>1
  <1>4. ResultOf(i)' = ResultOf(i)
    BY <1>3, ResultAgain
  <1>5. message.response = ResultOf(message.index)'
    BY <1>1, <1>3, <1>4 DEF ResultOf
  <1> QED
    BY <1>2, <1>5 DEF AnswersOne, Handles

(* Nobody leads who did not, nothing is put into a channel, and every      *)
(* handler that may wait did so before.                                    *)
LEMMA SentKept ==
  ASSUME KVInv, ChosenKept(Len(chosen)), removed' \in [Server -> [1 .. MaxLogIndex -> Nat]],
         \A s \in Server : buffers'[s] \subseteq buffers[s],
         \A s \in Server : leads'[s] # 0 => leads[s] # 0 /\ lastIndex'[s] = lastIndex[s],
         \A x \in calls' : x.stage \in {"started", "waits"} =>
           \E y \in calls : /\ y.stage \in {"started", "waits"} /\ y.server = x.server
                            /\ y.index = x.index /\ y.command = x.command
  PROVE  SentOK'
  <1> SUFFICES ASSUME NEW s \in Server, NEW message \in buffers'[s]
               PROVE  AnswersOne(s, message)'
    BY DEF SentOK
  <1>1. AnswersOne(s, message)
    BY DEF KVInv, SentOK
  <1>2. leads'[s] # 0 => message.index <= lastIndex'[s]
    BY <1>1 DEF AnswersOne
  <1>3. \A call \in calls' : Handles(call, s, message.index) =>
          call.command = chosen[message.index].command
    BY <1>1 DEF AnswersOne, Handles
  <1> QED
    BY <1>1, <1>2, <1>3, AnswersAgain

LEMMA Removed ==
  ASSUME removed \in [Server -> [1 .. MaxLogIndex -> Nat]],
         NEW s \in Server, NEW i \in 1 .. MaxLogIndex
  PROVE  [removed EXCEPT ![s][i] = @ + 1] \in [Server -> [1 .. MaxLogIndex -> Nat]]
  <1>1. removed[s] \in [1 .. MaxLogIndex -> Nat]
    OBVIOUS
  <1>2. PICK n \in Nat : n = removed[s][i] + 1
    BY <1>1
  <1>3. [removed[s] EXCEPT ![i] = n] \in [1 .. MaxLogIndex -> Nat]
    BY <1>1
  <1> QED
    BY <1>2, <1>3

LEMMA CommandSent ==
  ASSUME KVInv, NEW call \in calls, Command(call), ChosenKept(Len(chosen))
  PROVE  SentOK'
  <1>1. /\ KInv /\ LogOK /\ CallsOK /\ ClerksOK /\ SentOK /\ CallOK(call) /\ call \in Calls
        /\ DOMAIN buffers = Server
    BY DEF KVInv, CallsOK, CallOK, KInv, PipelineOK
  <1>2. /\ call.command \in Clerk \X Nat /\ call.server \in Server
        /\ removed \in [Server -> [1 .. MaxLogIndex -> Nat]]
    BY <1>1 DEF Calls, SentOK
  <1> DEFINE Before(x) == x.stage \in {"started", "waits"} =>
               \E y \in calls : /\ y.stage \in {"started", "waits"} /\ y.server = x.server
                                /\ y.index = x.index /\ y.command = x.command
  <1>3. \A x \in calls : Before(x)
    OBVIOUS
  <1>4. ASSUME NEW response, NEW rest, Heard(call.command, response, rest),
               \A x \in rest : Before(x)
        PROVE  \A x \in calls' : Before(x)
    BY <1>4 DEF Heard
  <1>5. ASSUME NEW x, x = [call EXCEPT !.stage = "removes"] \/ x = [call EXCEPT !.stage = "checked"]
        PROVE  Before(x)
    BY <1>1, <1>5, StageChanged
  <1>6. \A x \in Onward(call, "removes") : Before(x)
    BY <1>5 DEF Onward, Others
  <1>7. CASE CheckDuplicate(call)
    <2>1. UNCHANGED <<leads, lastIndex, removed, buffers>>
      BY <1>7 DEF CheckDuplicate, logService, servers
    <2>2. \A x \in calls' : Before(x)
      <3>1. CASE Reply(call, OK, Others(call))
        <4>1. Heard(call.command, OK, Others(call))
          BY <1>1, <1>2, <3>1, ReplyIs, Responded
        <4>2. \A x \in Others(call) : Before(x)
          BY DEF Others
        <4> QED
          BY <1>4, <4>1, <4>2
      <3>2. CASE calls' = Onward(call, "checked")
        BY <1>5, <3>2 DEF Onward, Others
      <3> QED
        BY <1>7, <3>1, <3>2 DEF CheckDuplicate
    <2> HIDE DEF Before
    <2> QED
      BY <1>2, <2>1, <2>2, SentKept DEF Before
  <1>8. CASE Submit(call)
    <2>1. UNCHANGED <<removed, buffers>>
      BY <1>8 DEF Submit, servers
    <2>2. CASE leads[call.server] = 0
      <3>1. UNCHANGED <<leads, lastIndex>> /\ Reply(call, ErrWrongLeader, Others(call))
        BY <1>8, <2>2 DEF Submit, logService
      <3>2. Heard(call.command, ErrWrongLeader, Others(call))
        BY <1>1, <1>2, <3>1, ReplyIs, Responded
      <3>3. \A x \in Others(call) : Before(x)
        BY DEF Others
      <3>4. \A x \in calls' : Before(x)
        BY <1>4, <3>2, <3>3
      <3> HIDE DEF Before
      <3> QED
        BY <1>2, <2>1, <3>1, <3>4, SentKept DEF Before
    <2>3. CASE leads[call.server] # 0
      <3>1. /\ Start(call.server, call.command)
            /\ calls' = Others(call) \cup
                 {[call EXCEPT !.stage = "started", !.index = lastIndex'[call.server]]}
        BY <1>8, <2>3 DEF Submit
      <3>2. /\ lastIndex'[call.server] = lastIndex[call.server] + 1 /\ leads' = leads
            /\ \A r \in Server \ {call.server} : lastIndex'[r] = lastIndex[r]
        BY <1>1, <1>2, <3>1, StartIs
      <3>3. \A r \in Server : lastIndex[r] \in Nat
        BY <1>1 DEF LogOK
      <3> SUFFICES ASSUME NEW s \in Server, NEW message \in buffers[s]
                   PROVE  AnswersOne(s, message)'
        BY <1>2, <2>1 DEF SentOK
      <3>4. AnswersOne(s, message)
        BY <1>1 DEF SentOK
      <3>5. message.index \in Nat
        BY <3>4 DEF AnswersOne
      <3>6. leads'[s] # 0 => message.index <= lastIndex'[s]
        BY <3>2, <3>3, <3>4, <3>5 DEF AnswersOne
      <3>7. ASSUME NEW x \in calls', Handles(x, s, message.index)
            PROVE  x.command = chosen[message.index].command
        <4>1. CASE x \in calls
          BY <3>4, <3>7, <4>1 DEF AnswersOne, Handles
        <4>2. CASE x = [call EXCEPT !.stage = "started", !.index = lastIndex'[call.server]]
          <5>1. x.server = call.server /\ x.index = lastIndex'[call.server]
            BY <1>1, <4>2 DEF Calls
          <5>2. s = call.server /\ message.index = lastIndex[s] + 1
            BY <3>2, <3>7, <5>1 DEF Handles
          <5>3. message.index <= lastIndex[s]
            BY <2>3, <3>4, <5>2 DEF AnswersOne
          <5> QED
            BY <3>3, <5>2, <5>3
        <4> QED
          BY <3>1, <4>1, <4>2 DEF Others
      <3> QED
        BY <3>4, <3>6, <3>7, AnswersAgain
    <2> QED
      BY <2>2, <2>3
  <1>9. CASE getNotifyChan(call)
    <2>1. UNCHANGED <<leads, lastIndex, removed, buffers>>
      BY <1>9 DEF getNotifyChan, logService, servers
    <2>2. \A x \in calls' : Before(x)
      <3> SUFFICES ASSUME NEW x, NEW channel,
                          x = [call EXCEPT !.stage = "waits", !.channel = channel]
                   PROVE  Before(x)
        BY <1>9 DEF getNotifyChan, Others
      <3>1. /\ x.server = call.server /\ x.index = call.index /\ x.command = call.command
            /\ call.stage = "started"
        BY <1>1, <1>9 DEF getNotifyChan, Calls
      <3> QED
        BY <3>1
    <2> HIDE DEF Before
    <2> QED
      BY <1>2, <2>1, <2>2, SentKept DEF Before
  <1>10. CASE Receive(call)
    <2>1. PICK message \in buffers[call.server] :
            /\ message.index = call.index
            /\ buffers' = [buffers EXCEPT ![call.server] = @ \ {message}]
            /\ Reply(call, message.response, Onward(call, "removes"))
      BY <1>10 DEF Receive
    <2>2. UNCHANGED <<leads, lastIndex, removed>>
      BY <1>10 DEF Receive, logService
    <2>3. message.index \in 1 .. Len(chosen) /\ message.response = ResultOf(message.index)
      BY <1>1, <1>2, <2>1 DEF SentOK, AnswersOne
    <2>4. message.response \in Responses
      BY <1>1, <2>3, ResultType
    <2>5. Heard(call.command, message.response, Onward(call, "removes"))
      BY <1>1, <1>2, <2>1, <2>4, ReplyIs
    <2>6. \A x \in calls' : Before(x)
      BY <1>4, <1>6, <2>5
    <2>7. \A s \in Server : buffers'[s] \subseteq buffers[s]
      BY <1>1, <2>1
    <2> HIDE DEF Before
    <2> QED
      BY <1>2, <2>2, <2>6, <2>7, SentKept DEF Before
  <1>11. CASE TimeOut(call)
    <2>1. UNCHANGED <<leads, lastIndex, removed, buffers>>
      BY <1>11 DEF TimeOut, logService, servers
    <2>2. Heard(call.command, ErrTimeout, Onward(call, "removes"))
      BY <1>1, <1>2, <1>11, ReplyIs, Responded DEF TimeOut
    <2>3. \A x \in calls' : Before(x)
      BY <1>4, <1>6, <2>2
    <2> HIDE DEF Before
    <2> QED
      BY <1>2, <2>1, <2>3, SentKept DEF Before
  <1>12. CASE removeOutdatedNotifyChan(call)
    <2>1. UNCHANGED <<leads, lastIndex, buffers>> /\ calls' \subseteq calls
      BY <1>12 DEF removeOutdatedNotifyChan, logService, Others
    <2>2. removed' = [removed EXCEPT ![call.server][call.index] = @ + 1]
      BY <1>12 DEF removeOutdatedNotifyChan
    <2>3. call.index \in 1 .. MaxLogIndex
      <3>1. call.index \in 0 .. MaxLogIndex /\ call.index # 0
        BY <1>1, <1>12 DEF removeOutdatedNotifyChan, CallOK, Calls
      <3> QED
        BY <3>1
    <2>4. removed' \in [Server -> [1 .. MaxLogIndex -> Nat]]
      <3>1. PICK r \in Server, i \in 1 .. MaxLogIndex : r = call.server /\ i = call.index
        BY <1>2, <2>3
      <3> QED
        BY <1>2, <2>2, <3>1, Removed
    <2> QED
      BY <2>1, <2>4, SentKept
  <1> QED
    BY <1>7, <1>8, <1>9, <1>10, <1>11, <1>12 DEF Command

(* Whoever is elected has in its log all it has answered from.             *)
LEMMA RaftStepSent ==
  ASSUME KVInv, RaftStep, ChosenKept(Len(chosen))
  PROVE  SentOK'
  <1>1. KInv /\ LogOK /\ SentOK
    BY DEF KVInv
  <1>2. UNCHANGED <<buffers, removed, calls, commitIndex>>
    BY DEF RaftStep, servers, pipeline
  <1>3. leads \in [Server -> Nat] /\ lastIndex \in [Server -> 0 .. MaxLogIndex]
    BY <1>1 DEF LogOK
  <1> SUFFICES ASSUME NEW s \in Server, NEW message \in buffers[s]
               PROVE  AnswersOne(s, message)'
    BY <1>1, <1>2 DEF SentOK
  <1>4. AnswersOne(s, message)
    BY <1>1 DEF SentOK
  <1>5. message.index \in Nat /\ message.index <= commitIndex[s] /\ commitIndex[s] \in Nat
    <2>1. /\ message.index \in Nat /\ message.index <= kvApplied[s]
          /\ kvApplied[s] <= commitIndex[s]
      BY <1>1 DEF KInv, SentIsApplied, AppliedCommitted
    <2>2. kvApplied[s] \in Nat /\ commitIndex[s] \in Nat
      BY NumbersOf
    <2> QED
      BY <2>1, <2>2
  <1>6. leads'[s] # 0 => message.index <= lastIndex'[s]
    <2>1. CASE \E e \in pending : Choose(e)
      BY <1>1, <1>4, <2>1, ChooseIs DEF AnswersOne
    <2>2. CASE \E r \in Server : StepDown(r)
      BY <1>3, <1>4, <2>2 DEF StepDown, AnswersOne
    <2>3. CASE \E r \in Server : Elect(r) /\ HoldsCommitted(r)
      <3>1. PICK r \in Server : Elect(r) /\ HoldsCommitted(r)
        BY <2>3
      <3>2. PICK t, base : BecomeLeader(r, t, base)
        BY <3>1 DEF Elect
      <3>3. CASE s = r
        <4>1. commitIndex[s] <= lastIndex'[s]
          BY <3>1, <3>3 DEF HoldsCommitted
        <4>2. lastIndex'[s] = base
          BY <1>3, <3>2, <3>3 DEF BecomeLeader
        <4>3. LogOK'
          BY <1>1, RaftStepKeepsLog
        <4>4. lastIndex'[s] \in Nat
          BY <4>3 DEF LogOK
        <4> QED
          BY <1>5, <4>1, <4>4
      <3>4. CASE s # r
        BY <1>3, <1>4, <3>2, <3>4 DEF BecomeLeader, AnswersOne
      <3> QED
        BY <3>3, <3>4
    <2>4. CASE \E r \in Server : ElectAgain(r)
      <3>1. PICK r \in Server, t \in 1 .. MaxTerm : leads[r] # 0 /\ BecomeLeader(r, t, lastIndex[r])
        BY <2>4 DEF ElectAgain
      <3>2. lastIndex'[s] = lastIndex[s] /\ (leads'[s] # 0 => leads[s] # 0)
        BY <1>3, <3>1 DEF BecomeLeader
      <3> QED
        BY <1>4, <3>2 DEF AnswersOne
    <2> QED
      BY <2>1, <2>2, <2>3, <2>4 DEF RaftStep
  <1>7. \A call \in calls' : Handles(call, s, message.index) =>
          call.command = chosen[message.index].command
    BY <1>2, <1>4 DEF AnswersOne, Handles
  <1> QED
    BY <1>4, <1>6, <1>7, AnswersAgain

(* The leader of the entry's own term answers: whoever waits for the index *)
(* started its command in that term, and it is the one that was chosen.    *)
LEMMA ApplySent ==
  ASSUME KVInv, NEW s \in Server, Apply(s), ChosenKept(Len(chosen))
  PROVE  SentOK'
  <1>1. KInv /\ LogOK /\ CallsOK /\ SentOK /\ CopiesOK /\ batch[s] # NoBatch /\ DOMAIN buffers = Server
    BY DEF KVInv, Apply, SendNext, KInv, PipelineOK
  <1>2. UNCHANGED <<leads, lastIndex, chosen, calls>>
    BY DEF Apply, logService
  <1>3. UNCHANGED removed
    BY DEF Apply, ApplyCommand, servers
  <1>4. CASE UNCHANGED buffers
    <2>1. removed' \in [Server -> [1 .. MaxLogIndex -> Nat]]
      BY <1>1, <1>3 DEF SentOK
    <2> QED
      BY <1>2, <1>4, <2>1, SentKept
  <1>5. CASE ~UNCHANGED buffers
    <2>1. ~Discarded(s) /\ ApplyCommand(s) /\ Notifies(s)
      BY <1>5 DEF Apply, ApplyCommand, servers
    <2>2. PICK index \in 1 .. Len(chosen) : index = batch[s].next /\ AppliedTo(s) = index - 1
      BY <1>1, <2>1, NextOfCopy
    <2> DEFINE new == [index |-> index, channel |-> removed[s][index],
                       response |-> IF Work(chosen[index].command) = "Get" THEN Get(machine[s])
                                                                           ELSE OK]
    <2>3. buffers' = [buffers EXCEPT ![s] = @ \cup {new}]
      BY <2>1, <2>2 DEF ApplyCommand
    <2>4. machine[s] = ValueAfter[index - 1]
      BY <1>1, <2>2 DEF CopiesOK, Fits
    <2>5. new.index = index /\ new.response = ResultOf(index)
      BY <2>4 DEF ResultOf
    <2> HIDE DEF new
    <2>6. PICK e : e = [index |-> index, term |-> chosen[index].term,
                        command |-> chosen[index].command]
      OBVIOUS
    <2>7. /\ e \in pending /\ e.index = index /\ e.term = chosen[index].term
          /\ e.command = chosen[index].command
      BY <1>1, <2>6 DEF LogOK
    <2>8. leads[s] = e.term
      BY <2>1, <2>2, <2>7 DEF Notifies
    <2>9. leads[s] \in DOMAIN elections /\ leads[s] # 0
      BY <1>1, <2>7, <2>8 DEF LogOK, Entries
    <2>10. index <= lastIndex[s] /\ elections[leads[s]].base < index
      BY <1>1, <2>7, <2>8 DEF LogOK
    <2>11. ASSUME NEW call \in calls, Handles(call, s, index)
           PROVE  call.command = chosen[index].command
      <3>1. PICK t \in DOMAIN elections :
              /\ [index |-> call.index, term |-> t, command |-> call.command] \in pending
              /\ elections[t].leader = call.server
              /\ \/ leads[call.server] \in {0, t}
                 \/ /\ t < leads[call.server]
                    /\ call.index <= elections[leads[call.server]].base
        BY <1>1, <2>11 DEF CallsOK, CallOK, Began, Handles
      <3>2. call.server = s /\ call.index = index
        BY <2>11 DEF Handles
      <3>3. ~(index <= elections[leads[s]].base)
        <4>1. elections[leads[s]].base \in Int
          BY <1>1, <2>9 DEF LogOK
        <4> QED
          BY <2>10, <4>1
      <3>4. t = leads[s]
        BY <2>9, <3>1, <3>2, <3>3
      <3>5. PICK f : f = [index |-> index, term |-> t, command |-> call.command]
        OBVIOUS
      <3>6. f \in pending /\ f.index = e.index /\ f.term = e.term /\ f.command = call.command
        BY <2>7, <2>8, <3>1, <3>2, <3>4, <3>5
      <3>7. f = e
        BY <1>1, <2>7, <3>6 DEF LogOK
      <3> QED
        BY <2>7, <3>6, <3>7
    <2>12. AnswersOne(s, new)
      <3>1. new.index \in 1 .. Len(chosen)
        BY <2>5
      <3>2. new.response = ResultOf(new.index)
        BY <2>5
      <3> QED
        BY <2>5, <2>10, <2>11, <3>1, <3>2 DEF AnswersOne, Handles
    <2> SUFFICES ASSUME NEW r \in Server, NEW message \in buffers'[r]
                 PROVE  AnswersOne(r, message)'
      BY <1>1, <1>3 DEF SentOK
    <2>13. AnswersOne(r, message)
      <3>1. CASE message \in buffers[r]
        BY <1>1, <3>1 DEF SentOK
      <3>2. CASE message \notin buffers[r]
        BY <1>1, <2>3, <2>12, <3>2
      <3> QED
        BY <3>1, <3>2
    <2>14. leads'[r] # 0 => message.index <= lastIndex'[r]
      BY <1>2, <2>13 DEF AnswersOne
    <2>15. \A call \in calls' : Handles(call, r, message.index) =>
             call.command = chosen[message.index].command
      BY <1>2, <2>13 DEF AnswersOne, Handles
    <2> QED
      BY <2>13, <2>14, <2>15, AnswersAgain
  <1> QED
    BY <1>4, <1>5

LEMMA NextSent ==
  ASSUME KVInv, [Next]_vars
  PROVE  SentOK'
  <1>1. ChosenKept(Len(chosen))
    BY NextChosen
  <1>2. removed \in [Server -> [1 .. MaxLogIndex -> Nat]] /\ LogOK /\ ClerksOK
        /\ DOMAIN buffers = Server
    BY DEF KVInv, SentOK, KInv, PipelineOK
  <1>3. CASE UNCHANGED <<leads, lastIndex, removed, buffers>> /\ calls' \subseteq calls
    BY <1>1, <1>2, <1>3, SentKept
  <1>4. CASE RaftStep
    BY <1>1, <1>4, RaftStepSent
  <1>5. CASE PipelineStep \/ UNCHANGED vars
             \/ \E s \in Server : \E snap \in snapCh[s] : ApplySnapshot(s, snap)
    BY <1>3, <1>5 DEF PipelineStep, vars, ApplySnapshot, logService, servers
  <1>6. CASE \E call \in calls : Command(call)
    BY <1>1, <1>6, CommandSent
  <1>7. CASE \E s \in Server : Apply(s)
    BY <1>1, <1>7, ApplySent
  <1>8. CASE \E s \in Server : Restart(s)
    <2>1. PICK s \in Server :
            /\ leads' = [leads EXCEPT ![s] = 0] /\ lastIndex' = [lastIndex EXCEPT ![s] = 0]
            /\ removed' = [removed EXCEPT ![s] = [index \in 1 .. MaxLogIndex |-> 0]]
            /\ buffers' = [buffers EXCEPT ![s] = {}]
            /\ calls' \subseteq calls
      BY <1>8 DEF Restart
    <2>2. removed' \in [Server -> [1 .. MaxLogIndex -> Nat]]
      BY <1>2, <2>1
    <2>3. /\ \A r \in Server : buffers'[r] \subseteq buffers[r]
          /\ \A r \in Server : leads'[r] # 0 => leads[r] # 0 /\ lastIndex'[r] = lastIndex[r]
      BY <1>2, <2>1 DEF LogOK
    <2> QED
      BY <1>1, <2>1, <2>2, <2>3, SentKept
  <1>9. CASE \E c \in Clerk : CallFails(c)
    <2>1. PICK c \in Clerk : Hears(c, ErrTimeout, calls) /\ UNCHANGED <<logService, servers>>
      BY <1>9 DEF CallFails
    <2>2. Heard(<<c, clerks[c].id>>, ErrTimeout, calls)
      BY <1>2, <2>1, HearsIs, Responded
    <2>3. \A x \in calls' : x.stage \in {"started", "waits"} => x \in calls
      BY <2>2 DEF Heard
    <2>4. UNCHANGED <<leads, lastIndex, removed, buffers>>
      BY <2>1 DEF logService, servers
    <2> QED
      BY <1>1, <1>2, <2>3, <2>4, SentKept
  <1> QED
    BY <1>4, <1>5, <1>6, <1>7, <1>8, <1>9 DEF Next

-----------------------------------------------------------------------------
LEMMA InitKV == Init => KVInv
  <1> SUFFICES ASSUME Init PROVE KVInv
    OBVIOUS
  <1> DEFINE clerk == [id |-> 1, try |-> 1, leaderId |-> 0]
  <1>1. /\ leads = [s \in Server |-> 0] /\ lastIndex = [s \in Server |-> 0]
        /\ elections = [t \in {} |-> 0] /\ pending = {} /\ chosen = <<>>
        /\ machine = [s \in Server |-> <<>>]
        /\ lastOperations = [s \in Server |-> [c \in Clerk |-> 0]]
        /\ kvApplied = [s \in Server |-> 0]
        /\ removed = [s \in Server |-> [index \in 1 .. MaxLogIndex |-> 0]]
        /\ buffers = [s \in Server |-> {}]
        /\ clerks = [c \in Clerk |-> clerk]
        /\ calls = UNION { Requests(c, clerk) : c \in Clerk }
        /\ answer = [c \in Clerk |-> OK]
    BY DEF Init, LogServiceInit
  <1>2. /\ commitIndex = [s \in Server |-> 0] /\ rfApplied = [s \in Server |-> 0]
        /\ batch = [s \in Server |-> NoBatch] /\ snapCh = [s \in Server |-> {}]
        /\ snapshot = [s \in Server |-> EmptySnapshot]
    BY DEF Init, PipelineInit
  <1>3. KInv
    BY InitInv
  <1>4. MaxLogIndex \in Nat /\ 0 \in 0 .. MaxLogIndex
    BY Bounds
  <1>5. Len(chosen) = 0 /\ chosen \in Seq([term : Nat, command : Clerk \X Nat])
    BY <1>1
  <1>6. LogOK
    <2>1. DOMAIN elections = {} /\ elections \in [{} -> [leader : Server, base : 0 .. MaxLogIndex]]
      BY <1>1
    <2>2. leads \in [Server -> Nat] /\ lastIndex \in [Server -> 0 .. MaxLogIndex]
      BY <1>1, <1>4
    <2> QED
      BY <1>1, <1>5, <2>1, <2>2 DEF LogOK
  <1>7. clerk \in ClerkStates /\ clerk.id = 1
    <2>1. 0 \in Server
      BY ServerCount, Numbered
    <2> QED
      BY <2>1 DEF ClerkStates
  <1>8. \A c \in Clerk : clerks[c] = clerk
    BY <1>1
  <1> HIDE DEF clerk
  <1>9. CallsOK
    <2> SUFFICES ASSUME NEW x \in calls PROVE CallOK(x)
      BY DEF CallsOK
    <2>1. PICK c \in Clerk : x \in Requests(c, clerk)
      BY <1>1
    <2>2. /\ x \in Calls /\ x.stage = "requested" /\ x.index = 0
          /\ x.command = <<c, clerk.id>> /\ clerk.id \in 1 .. Len(Script[c])
      BY <1>7, <2>1, Requested
    <2>3. x.command[1] = c /\ x.command[2] = 1 /\ x.command \in Clerk \X Nat
      BY <1>7, <2>2 DEF Calls
    <2>4. Asked(x.command)
      BY <1>7, <1>8, <2>2, <2>3 DEF Asked
    <2> QED
      BY <2>2, <2>4 DEF CallOK
  <1>10. ClerksOK
    <2>1. clerks \in [Clerk -> ClerkStates] /\ answer \in [Clerk -> Responses]
      BY <1>1, <1>7, Responded
    <2>2. \A c \in Clerk : \A m \in Writes(c) : ~(m < clerks[c].id)
      BY <1>7, <1>8, Scripts DEF Writes
    <2> QED
      BY <1>1, <2>1, <2>2 DEF ClerksOK
  <1>11. OrderOK
    BY <1>5 DEF OrderOK
  <1> DEFINE zeros == [c \in Clerk |-> 0]
  <1>12. Fits(<<>>, zeros, 0)
    <2>1. ValueAfter[0] = <<>>
      BY ValueAfterNow
    <2>2. \A c \in Clerk : \A m \in Writes(c) : ~(m <= zeros[c])
      BY Scripts DEF Writes
    <2>3. \A c, m : ~InLog(c, m, 0)
      BY DEF InLog
    <2>4. zeros \in [Clerk -> Nat] /\ 0 \in 0 .. Len(chosen)
      BY <1>5
    <2> HIDE DEF zeros
    <2> QED
      BY <2>1, <2>2, <2>3, <2>4 DEF Fits
  <1>13. zeros \in [Clerk -> Nat] /\ <<>> \in Seq(Clerk \X Nat)
    OBVIOUS
  <1>14. EmptySnapshot = [index |-> 0, machine |-> <<>>, lastOperations |-> zeros]
    BY DEF EmptySnapshot
  <1>15. \A s \in Server : lastOperations[s] = zeros
    BY <1>1
  <1> HIDE DEF zeros
  <1>16. CopiesOK
    <2>1. SnapshotOK(EmptySnapshot)
      BY <1>12, <1>13, <1>14 DEF SnapshotOK
    <2>2. \A s \in Server : AppliedTo(s) = 0
      BY <1>1, <1>2, <1>14 DEF AppliedTo
    <2>3. machine \in [Server -> Seq(Clerk \X Nat)] /\ lastOperations \in [Server -> [Clerk -> Nat]]
      BY <1>1, <1>13
    <2>4. \A s \in Server : machine[s] = <<>> /\ snapshot[s] = EmptySnapshot /\ snapCh[s] = {}
      BY <1>1, <1>2
    <2> QED
      BY <1>12, <1>15, <2>1, <2>2, <2>3, <2>4 DEF CopiesOK
  <1>17. InOrder
    <2> SUFFICES ASSUME NEW s \in Server PROVE ServerInOrder(s)
      BY OrderByServer
    <2>1. /\ commitIndex[s] = 0 /\ rfApplied[s] = 0 /\ kvApplied[s] = 0 /\ batch[s] = NoBatch
          /\ snapshot[s].index = 0
      BY <1>1, <1>2, <1>14
    <2>2. AppliedTo(s) = 0
      BY <2>1 DEF AppliedTo
    <2> QED
      BY <1>5, <2>1, <2>2 DEF ServerInOrder
  <1>18. SentOK
    BY <1>1 DEF SentOK
  <1> QED
    BY <1>3, <1>6, <1>9, <1>10, <1>11, <1>16, <1>17, <1>18 DEF KVInv

THEOREM ServiceInvariant == Spec => []KVInv
  <1>1. KVInv /\ [Next]_vars => KVInv'
    <2> SUFFICES ASSUME KVInv, [Next]_vars PROVE KVInv'
      OBVIOUS
    <2>1. KInv'
      BY NextKeeps DEF KVInv
    <2>2. LogOK' /\ CallsOK' /\ ClerksOK'
      BY NextAsking DEF Asking
    <2> QED
      BY <2>1, <2>2, NextOrder, NextCopies, NextInOrder, NextSent DEF KVInv
  <1> QED
    BY InitKV, <1>1, PTL DEF Spec

(* Every machine, however its server got there, holds the value that       *)
(* belongs to the index it has applied.                                    *)
THEOREM ReplicasAlwaysAgree == Spec => []ReplicasAgree
  <1>1. KVInv => ReplicasAgree
    BY DEF KVInv, CopiesOK, Fits, ReplicasAgree
  <1> QED
    BY ServiceInvariant, <1>1, PTL

(* The types of the log, the pipeline, the machines and the calls.         *)
THEOREM ServiceTypes == Spec => []TypeOK
  <1>1. ASSUME KVInv PROVE TypeOK
    <2>1. LogOK /\ CallsOK /\ ClerksOK /\ CopiesOK
      BY <1>1 DEF KVInv
    <2>2. leads \in [Server -> {0} \cup DOMAIN elections]
      <3>1. leads \in [Server -> Nat] /\ \A s \in Server : leads[s] \in {0} \cup DOMAIN elections
        BY <2>1 DEF LogOK
      <3> QED
        BY <3>1
    <2>3. elections \in UNION { [T -> [leader : Server, base : 0 .. MaxLogIndex]] :
                                 T \in SUBSET (1 .. MaxTerm) }
      BY <2>1 DEF LogOK
    <2>4. Len(chosen) <= MaxLogIndex /\ Len(chosen) \in Nat /\ MaxLogIndex \in Nat
      <3>1. Len(chosen) \in Nat /\ MaxLogIndex \in Nat
        BY <2>1, Bounds DEF LogOK
      <3>2. CASE Len(chosen) = 0
        BY <3>1, <3>2
      <3>3. CASE Len(chosen) # 0
        <4>1. PICK k \in 1 .. Len(chosen) : k = Len(chosen)
          BY <3>1, <3>3
        <4>2. PICK e : e = [index |-> k, term |-> chosen[k].term, command |-> chosen[k].command]
          OBVIOUS
        <4>3. e \in pending /\ e.index = k
          BY <2>1, <4>2 DEF LogOK
        <4>4. k \in 1 .. MaxLogIndex
          BY <2>1, <4>3 DEF LogOK, Entries
        <4> QED
          BY <3>1, <4>1, <4>4
      <3> QED
        BY <3>2, <3>3
    <2>5. \A snap : SnapshotOK(snap) => snap \in Snapshots
      <3> SUFFICES ASSUME NEW snap, SnapshotOK(snap) PROVE snap \in Snapshots
        OBVIOUS
      <3>1. snap.index \in 0 .. MaxLogIndex
        BY <2>4 DEF SnapshotOK, Fits
      <3>2. snap \in [index : Nat, machine : Seq(Clerk \X Nat), lastOperations : [Clerk -> Nat]]
        BY DEF SnapshotOK
      <3> QED
        BY <3>1, <3>2 DEF Snapshots
    <2>6. ASSUME NEW s \in Server
          PROVE  /\ commitIndex[s] \in 0 .. Len(chosen)
                 /\ rfApplied[s] \in 0 .. commitIndex[s]
                 /\ batch[s] # NoBatch => batch[s].next \in 1 .. batch[s].last
                 /\ kvApplied[s] \in 0 .. commitIndex[s]
                 /\ snapshot[s] \in Snapshots
                 /\ snapCh[s] \subseteq Snapshots
      <3>1. snapshot[s] \in Snapshots /\ snapCh[s] \subseteq Snapshots
        BY <2>1, <2>5 DEF CopiesOK
      <3>2. /\ commitIndex[s] \in Nat /\ rfApplied[s] \in Nat /\ kvApplied[s] \in Nat
            /\ batch[s].next \in Nat /\ batch[s].last \in Nat /\ Len(chosen) \in Nat
            /\ ServerInOrder(s) /\ kvApplied[s] <= commitIndex[s]
            /\ batch[s] # NoBatch => batch[s].next <= batch[s].last
        BY <1>1, NumbersOf
      <3> QED
        BY <3>1, <3>2 DEF ServerInOrder
    <2>7. machine \in [Server -> Seq(Clerk \X Nat)] /\ lastOperations \in [Server -> [Clerk -> Nat]]
      BY <2>1 DEF CopiesOK
    <2>8. \A call \in calls :
            /\ call.stage \in {"requested", "checked", "started", "waits", "removes"}
            /\ call.stage \in {"started", "waits", "removes"} <=> call.index # 0
      BY <2>1 DEF CallsOK, CallOK, Calls
    <2>9. leads \in [Server -> {0} \cup DOMAIN elections] /\ lastIndex \in [Server -> 0 .. MaxLogIndex]
      BY <2>1, <2>2 DEF LogOK
    <2>10. answer \in [Clerk -> Responses]
      BY <2>1 DEF ClerksOK
    <2> QED
      BY <2>3, <2>6, <2>7, <2>8, <2>9, <2>10 DEF TypeOK
  <1>2. KVInv => TypeOK
    BY <1>1
  <1> QED
    BY ServiceInvariant, <1>2, PTL

-----------------------------------------------------------------------------
(* The refinement.                                                         *)
Value      == ValueAfter[Len(chosen)]
Current    == [c \in Clerk |-> clerks[c].id]
ResultsFor(command) == { ResultOf(i) : i \in { i \in DOMAIN chosen : chosen[i].command = command } }
Results    == [c \in Clerk |-> ResultsFor(<<c, clerks[c].id>>)]

(* What is chosen now adds its result, and its write if it is the first.   *)
LEMMA ChooseAdds ==
  ASSUME LogOK, NEW e \in pending, Choose(e)
  PROVE  LET n == Len(chosen) + 1 IN
         /\ \A command : ResultsFor(command)' =
              IF command = e.command
              THEN ResultsFor(command) \cup {IF Work(command) = "Get" THEN Get(Value) ELSE OK}
              ELSE ResultsFor(command)
         /\ Value' = IF Work(e.command) # "Get" /\ ~InLog(e.command[1], e.command[2], Len(chosen))
                     THEN Write(Value, e.command) ELSE Value
  <1>0. Len(chosen) \in Nat
    BY DEF LogOK
  <1>1. PICK n \in Nat : n = Len(chosen)
    BY <1>0
  <1>2. /\ Len(chosen') = n + 1 /\ ChosenKept(n)
        /\ chosen' \in Seq([term : Nat, command : Clerk \X Nat])
        /\ chosen'[n + 1] = [term |-> e.term, command |-> e.command]
    BY <1>1, ChooseIs
  <1>3. DOMAIN chosen = 1 .. n /\ DOMAIN chosen' = 1 .. n + 1
    BY <1>1, <1>2 DEF LogOK
  <1>4. n + 1 \in Nat /\ n + 1 # 0 /\ (n + 1) - 1 = n /\ n \in 0 .. n /\ n + 1 \in 1 .. n + 1
    OBVIOUS
  <1>5. chosen'[n + 1].command = e.command
    BY <1>2
  <1>6. PICK c \in Clerk, m \in Nat : e.command = <<c, m>>
    BY DEF LogOK, Entries
  <1>7. e.command[1] = c /\ e.command[2] = m
    BY <1>6
  <1>8. ValueAfter'[n] = ValueAfter[n]
    BY <1>2, <1>4, ValuesAgain
  <1>9. ResultOf(n + 1)' = IF Work(e.command) = "Get" THEN Get(Value) ELSE OK
    BY <1>1, <1>4, <1>5, <1>8 DEF ResultOf, Value
  <1>10. \A i \in 1 .. n : ResultOf(i)' = ResultOf(i)
    BY <1>2, ResultAgain
  <1>11. ASSUME NEW command
         PROVE  ResultsFor(command)' =
                  IF command = e.command
                  THEN ResultsFor(command) \cup {IF Work(command) = "Get" THEN Get(Value) ELSE OK}
                  ELSE ResultsFor(command)
    <2> DEFINE at == { i \in DOMAIN chosen : chosen[i].command = command }
               at2 == { i \in DOMAIN chosen' : chosen'[i].command = command }
    <2>1. at2 = IF command = e.command THEN at \cup {n + 1} ELSE at
      <3>1. \A i \in 1 .. n : chosen'[i] = chosen[i]
        BY <1>2 DEF ChosenKept
      <3>2. 1 .. n + 1 = (1 .. n) \cup {n + 1} /\ n + 1 \notin 1 .. n
        OBVIOUS
      <3> QED
        BY <1>3, <1>5, <3>1, <3>2
    <2>2. at \subseteq 1 .. n
      BY <1>3
    <2>3. /\ ResultsFor(command)' = { ResultOf(i)' : i \in at2 }
          /\ ResultsFor(command) = { ResultOf(i) : i \in at }
      BY DEF ResultsFor
    <2> HIDE DEF at, at2
    <2>4. { ResultOf(i)' : i \in at } = { ResultOf(i) : i \in at }
      BY <1>10, <2>2
    <2>5. CASE command = e.command
      <3>1. { ResultOf(i)' : i \in at \cup {n + 1} } =
              { ResultOf(i)' : i \in at } \cup {ResultOf(n + 1)'}
        OBVIOUS
      <3> QED
        BY <1>9, <2>1, <2>3, <2>4, <2>5, <3>1
    <2>6. CASE command # e.command
      BY <2>1, <2>3, <2>4, <2>6
    <2> QED
      BY <2>5, <2>6
  <1>12. Value' = IF Work(e.command) # "Get" /\ ~InLog(c, m, n)
                  THEN Write(Value, e.command) ELSE Value
    <2>1. ValueAfter'[n + 1] = IF Counts(n + 1)' THEN Write(ValueAfter'[(n + 1) - 1], e.command)
                                                ELSE ValueAfter'[(n + 1) - 1]
      BY <1>4, <1>5, ValueAfterNext
    <2>2. Counts(n + 1)' <=> Work(e.command) # "Get" /\ ~InLog(c, m, n)
      <3>1. Counts(n + 1)' <=> /\ Work(e.command) # "Get"
                               /\ \A j \in 1 .. n : chosen'[j].command # e.command
        BY <1>4, <1>5 DEF Counts
      <3>2. \A j \in 1 .. n : chosen'[j] = chosen[j]
        BY <1>2 DEF ChosenKept
      <3> QED
        BY <1>6, <3>1, <3>2 DEF InLog
    <2> QED
      BY <1>1, <1>2, <1>4, <1>8, <2>1, <2>2 DEF Value
  <1> QED
    BY <1>1, <1>7, <1>11, <1>12

LEMMA ResultsNotGone ==
  ASSUME LogOK, NEW c, NEW m
  PROVE  /\ InLog(c, m, Len(chosen)) <=> ResultsFor(<<c, m>>) # {}
         /\ Work(<<c, m>>) # "Get" => ResultsFor(<<c, m>>) \subseteq {OK}
  <1>1. DOMAIN chosen = 1 .. Len(chosen)
    BY DEF LogOK
  <1>2. PICK command : command = <<c, m>>
    OBVIOUS
  <1>3. Work(command) # "Get" => ResultsFor(command) \subseteq {OK}
    BY DEF ResultsFor, ResultOf
  <1>4. InLog(c, m, Len(chosen)) <=> ResultsFor(command) # {}
    BY <1>1, <1>2 DEF InLog, ResultsFor
  <1> QED
    BY <1>2, <1>3, <1>4

(* The steps of the atomic service, in the terms of this one.              *)
LEMMA TakesEffectIs ==
  ASSUME NEW c \in Clerk,
         Current[c] <= Len(Script[c]),
         \/ /\ Script[c][Current[c]] = "Get"
            /\ Results' = [Results EXCEPT ![c] = @ \cup {Get(Value)}]
            /\ Value' = Value
         \/ /\ Script[c][Current[c]] # "Get"
            /\ Results[c] = {}
            /\ Results' = [Results EXCEPT ![c] = {OK}]
            /\ Value' = IF Script[c][Current[c]] = "Put" THEN << <<c, Current[c]>> >>
                        ELSE Append(Value, <<c, Current[c]>>),
         Current' = Current, answer' = answer
  PROVE  TheService!TakesEffect(c)
  BY DEF TheService!TakesEffect, TheService!Work, TheService!Read, TheService!OK,
         TheService!Written, Current, Results, ResultsFor, Value, Get, OK

LEMMA ReturnsIs ==
  ASSUME NEW c \in Clerk, NEW r \in Results[c],
         answer' = [answer EXCEPT ![c] = r],
         Current' = [Current EXCEPT ![c] = @ + 1],
         Results' = [Results EXCEPT ![c] = {}],
         Value' = Value
  PROVE  TheService!Returns(c)
  BY DEF TheService!Returns, Current, Results, ResultsFor, Value

LEMMA StuttersIs ==
  ASSUME UNCHANGED <<Value, Current, Results, answer>>
  PROVE  UNCHANGED TheService!vars
  BY DEF TheService!vars, Current, Results, ResultsFor, Value

LEMMA ResultsStay ==
  ASSUME LogOK, UNCHANGED chosen
  PROVE  Value' = Value /\ \A command : ResultsFor(command)' = ResultsFor(command)
  <1>0. Len(chosen) \in Nat /\ DOMAIN chosen = 1 .. Len(chosen)
    BY DEF LogOK
  <1>1. PICK n \in Nat : n = Len(chosen)
    BY <1>0
  <1>2. ChosenKept(n)
    BY <1>1 DEF ChosenKept
  <1>3. ValueAfter'[n] = ValueAfter[n] /\ \A i \in 1 .. n : ResultOf(i)' = ResultOf(i)
    BY <1>2, ValuesAgain, ResultAgain
  <1>4. ASSUME NEW command PROVE ResultsFor(command)' = ResultsFor(command)
    <2> DEFINE at == { i \in DOMAIN chosen : chosen[i].command = command }
    <2>1. at \subseteq 1 .. n
      BY <1>0, <1>1
    <2>2. /\ ResultsFor(command)' = { ResultOf(i)' : i \in at }
          /\ ResultsFor(command) = { ResultOf(i) : i \in at }
      BY DEF ResultsFor
    <2> HIDE DEF at
    <2> QED
      BY <1>3, <2>1, <2>2
  <1> QED
    BY <1>1, <1>3, <1>4 DEF Value

LEMMA ResultsNow ==
  ASSUME LogOK, UNCHANGED chosen
  PROVE  \A d \in Clerk : Results'[d] = ResultsFor(<<d, clerks'[d].id>>)
  <1> SUFFICES ASSUME NEW d \in Clerk PROVE Results'[d] = ResultsFor(<<d, clerks'[d].id>>)
    OBVIOUS
  <1>1. PICK x : x = <<d, clerks'[d].id>>
    OBVIOUS
  <1>2. ResultsFor(x)' = ResultsFor(x)
    BY ResultsStay
  <1>3. Results'[d] = ResultsFor(x)'
    BY <1>1 DEF Results, ResultsFor
  <1> QED
    BY <1>1, <1>2, <1>3

(* No command is in the log before its clerk has got to it.                *)
LEMMA NotYetChosen ==
  ASSUME KVInv, NEW c \in Clerk
  PROVE  ResultsFor(<<c, clerks[c].id + 1>>) = {}
  <1>1. LogOK /\ ClerksOK
    BY DEF KVInv
  <1>2. clerks[c].id \in Nat
    BY <1>1 DEF ClerksOK, ClerkStates
  <1>3. ASSUME NEW k \in 1 .. Len(chosen), chosen[k].command = <<c, clerks[c].id + 1>>
        PROVE  FALSE
    <2>1. PICK e : e = [index |-> k, term |-> chosen[k].term, command |-> chosen[k].command]
      OBVIOUS
    <2>2. e \in pending /\ e.command = <<c, clerks[c].id + 1>>
      BY <1>1, <1>3, <2>1 DEF LogOK
    <2>3. e.command[1] = c /\ e.command[2] = clerks[c].id + 1
      BY <2>2
    <2>4. e.command[2] <= clerks[e.command[1]].id
      BY <1>1, <2>2 DEF ClerksOK, Asked
    <2> QED
      BY <1>2, <2>3, <2>4
  <1>4. PICK m : m = clerks[c].id + 1
    OBVIOUS
  <1>5. ~InLog(c, m, Len(chosen))
    BY <1>3, <1>4 DEF InLog
  <1> QED
    BY <1>1, <1>4, <1>5, ResultsNotGone

LEMMA HeardImplements ==
  ASSUME KVInv, UNCHANGED chosen, NEW command \in Clerk \X Nat, NEW response, NEW rest,
         Heard(command, response, rest),
         command[2] = clerks[command[1]].id
           /\ response.Err \notin {"ErrWrongLeader", "ErrTimeout"} => response \in ResultsFor(command)
  PROVE  TheService!Next \/ UNCHANGED TheService!vars
  <1>1. LogOK /\ ClerksOK
    BY DEF KVInv
  <1>2. Value' = Value /\ \A x : ResultsFor(x)' = ResultsFor(x)
    BY <1>1, ResultsStay
  <1>3. CASE (\A d \in Clerk : clerks'[d].id = clerks[d].id) /\ UNCHANGED answer
    <2>1. Current' = Current
      BY <1>3 DEF Current
    <2>2. Results' = Results
      <3>1. \A d \in Clerk : Results'[d] = Results[d]
        BY <1>1, <1>3, ResultsNow DEF Results
      <3> QED
        BY <3>1 DEF Results
    <2> QED
      BY <1>2, <1>3, <2>1, <2>2, StuttersIs
  <1>4. CASE ~((\A d \in Clerk : clerks'[d].id = clerks[d].id) /\ UNCHANGED answer)
    <2>1. PICK c \in Clerk, m \in Nat : command = <<c, m>>
      OBVIOUS
    <2>2. command[1] = c /\ command[2] = m
      BY <2>1
    <2>3. /\ clerks[c].id = m /\ clerks'[c].id = m + 1
          /\ \A d \in Clerk \ {c} : clerks'[d].id = clerks[d].id
          /\ answer' = [answer EXCEPT ![c] = response]
          /\ response \in ResultsFor(<<c, m>>)
      BY <1>4, <2>1, <2>2 DEF Heard
    <2>4. response \in Results[c]
      BY <2>3 DEF Results
    <2>5. Current' = [Current EXCEPT ![c] = @ + 1]
      BY <2>3 DEF Current
    <2>6. Results' = [Results EXCEPT ![c] = {}]
      <3>1. PICK next : next = [d \in Clerk |-> <<d, clerks'[d].id>>]
        OBVIOUS
      <3>2. Results' = [d \in Clerk |-> ResultsFor(next[d])]
        <4>1. \A d \in Clerk : Results'[d] = ResultsFor(next[d])
          BY <1>1, <3>1, ResultsNow
        <4>2. Results' = [d \in Clerk |-> Results'[d]]
          BY DEF Results
        <4> QED
          BY <4>1, <4>2
      <3>3. ResultsFor(next[c]) = {}
        BY <2>3, <3>1, NotYetChosen
      <3>4. \A d \in Clerk \ {c} : ResultsFor(next[d]) = Results[d]
        BY <2>3, <3>1 DEF Results
      <3>5. Results = [d \in Clerk |-> Results[d]]
        BY DEF Results
      <3> QED
        BY <3>2, <3>3, <3>4, <3>5
    <2>7. TheService!Returns(c)
      BY <1>2, <2>3, <2>4, <2>5, <2>6, ReturnsIs
    <2> QED
      BY <2>7 DEF TheService!Next
  <1> QED
    BY <1>3, <1>4

LEMMA QuietImplements ==
  ASSUME KVInv, UNCHANGED <<chosen, clerks, answer>>
  PROVE  UNCHANGED TheService!vars
  <1>1. Value' = Value /\ \A x : ResultsFor(x)' = ResultsFor(x)
    BY ResultsStay DEF KVInv
  <1>2. Current' = Current
    BY DEF Current
  <1>3. Results' = Results
    BY <1>1 DEF Results, ResultsFor
  <1> QED
    BY <1>1, <1>2, <1>3, StuttersIs

LEMMA ChooseImplements ==
  ASSUME KVInv, NEW e \in pending, Choose(e), UNCHANGED <<clerks, answer>>
  PROVE  TheService!Next \/ UNCHANGED TheService!vars
  <1>1. LogOK /\ ClerksOK /\ Asked(e.command)
    BY DEF KVInv, ClerksOK
  <1>2. PICK c \in Clerk, m \in Nat : e.command = <<c, m>>
    BY <1>1 DEF Asked
  <1>3. e.command[1] = c /\ e.command[2] = m
    BY <1>2
  <1>4. m \in 1 .. Len(Script[c]) /\ m <= clerks[c].id /\ clerks[c].id \in Nat
    BY <1>1, <1>3 DEF Asked, ClerksOK, ClerkStates
  <1>5. Work(<<c, m>>) = Script[c][m]
    BY DEF Work
  <1> DEFINE r == IF Script[c][m] = "Get" THEN Get(Value) ELSE OK
             first == Script[c][m] # "Get" /\ ~InLog(c, m, Len(chosen))
  <1>6. /\ \A x : ResultsFor(x)' = IF x = <<c, m>> THEN ResultsFor(x) \cup {r} ELSE ResultsFor(x)
        /\ Value' = IF first THEN Write(Value, <<c, m>>) ELSE Value
    <2>1. /\ \A x : ResultsFor(x)' =
               IF x = e.command
               THEN ResultsFor(x) \cup {IF Work(x) = "Get" THEN Get(Value) ELSE OK}
               ELSE ResultsFor(x)
          /\ Value' = IF Work(e.command) # "Get" /\ ~InLog(e.command[1], e.command[2], Len(chosen))
                      THEN Write(Value, e.command) ELSE Value
      BY <1>1, ChooseAdds
    <2> QED
      BY <1>2, <1>3, <1>5, <2>1
  <1>7. Current' = Current
    BY DEF Current
  <1>8. ASSUME NEW d \in Clerk
        PROVE  Results'[d] = IF d = c /\ m = clerks[c].id THEN Results[d] \cup {r} ELSE Results[d]
    <2>1. PICK x : x = <<d, clerks[d].id>>
      OBVIOUS
    <2>2. Results'[d] = ResultsFor(x)' /\ Results[d] = ResultsFor(x)
      BY <2>1 DEF Results, ResultsFor
    <2>3. x = <<c, m>> <=> d = c /\ m = clerks[c].id
      BY <2>1
    <2> QED
      BY <1>6, <2>2, <2>3
  <1>9. /\ Results = [d \in Clerk |-> Results[d]] /\ Results' = [d \in Clerk |-> Results'[d]]
        /\ Results[c] = ResultsFor(<<c, clerks[c].id>>)
    BY DEF Results
  <1>10. Current[c] = clerks[c].id
    BY DEF Current
  <1>11. CASE m # clerks[c].id
    <2>1. Results' = Results
      BY <1>8, <1>9, <1>11
    <2>2. Value' = Value
      <3>1. m < clerks[c].id
        BY <1>4, <1>11
      <3>2. Script[c][m] # "Get" => InLog(c, m, Len(chosen))
        BY <1>1, <1>4, <3>1 DEF ClerksOK, Writes
      <3> QED
        BY <1>6, <3>2
    <2> QED
      BY <1>7, <2>1, <2>2, StuttersIs
  <1>12. CASE m = clerks[c].id
    <2>1. Results' = [Results EXCEPT ![c] = @ \cup {r}]
      BY <1>8, <1>9, <1>12
    <2>2. Current[c] = m /\ Current[c] <= Len(Script[c])
      BY <1>4, <1>10, <1>12
    <2>3. CASE Script[c][m] = "Get"
      <3>1. Results' = [Results EXCEPT ![c] = @ \cup {Get(Value)}]
        BY <2>1, <2>3
      <3>2. Value' = Value
        BY <1>6, <2>3
      <3>3. TheService!TakesEffect(c)
        BY <1>7, <2>2, <2>3, <3>1, <3>2, TakesEffectIs
      <3> QED
        BY <3>3 DEF TheService!Next
    <2>4. CASE Script[c][m] # "Get"
      <3>1. /\ InLog(c, m, Len(chosen)) <=> Results[c] # {}
            /\ Results[c] \subseteq {OK}
        BY <1>1, <1>5, <1>9, <1>12, <2>4, ResultsNotGone
      <3>2. Results' = [Results EXCEPT ![c] = {OK}]
        BY <1>9, <2>1, <2>4, <3>1
      <3>3. CASE InLog(c, m, Len(chosen))
        <4>1. Results' = Results
          <5>1. Results[c] = {OK}
            BY <3>1, <3>3
          <5> HIDE DEF Results
          <5> QED
            BY <1>9, <3>2, <5>1
        <4>2. Value' = Value
          BY <1>6, <3>3
        <4> QED
          BY <1>7, <4>1, <4>2, StuttersIs
      <3>4. CASE ~InLog(c, m, Len(chosen))
        <4>1. Value' = Write(Value, <<c, m>>)
          BY <1>6, <2>4, <3>4
        <4>2. Value' = IF Script[c][Current[c]] = "Put" THEN << <<c, Current[c]>> >>
                       ELSE Append(Value, <<c, Current[c]>>)
          BY <1>5, <2>2, <4>1 DEF Write
        <4>3. Results[c] = {}
          BY <3>1, <3>4
        <4>4. TheService!TakesEffect(c)
          BY <1>7, <2>2, <2>4, <3>2, <4>2, <4>3, TakesEffectIs
        <4> QED
          BY <4>4 DEF TheService!Next
      <3> QED
        BY <3>3, <3>4
    <2> QED
      BY <2>3, <2>4
  <1> QED
    BY <1>11, <1>12

LEMMA CommandImplements ==
  ASSUME KVInv, NEW call \in calls, Command(call)
  PROVE  TheService!Next \/ UNCHANGED TheService!vars
  <1>1. /\ LogOK /\ CallsOK /\ ClerksOK /\ CopiesOK /\ SentOK /\ CallOK(call) /\ call \in Calls
    BY DEF KVInv, CallsOK, CallOK
  <1>2. call.command \in Clerk \X Nat /\ call.server \in Server
    BY <1>1 DEF Calls
  <1>3. UNCHANGED chosen
    BY DEF Command, CheckDuplicate, Submit, getNotifyChan, Receive, TimeOut,
           removeOutdatedNotifyChan, Start, logService
  <1>4. CASE UNCHANGED clients
    BY <1>3, <1>4, QuietImplements DEF clients
  <1>5. CASE Reply(call, ErrWrongLeader, Others(call))
    <2>1. Heard(call.command, ErrWrongLeader, Others(call)) /\ ErrWrongLeader.Err = "ErrWrongLeader"
      BY <1>1, <1>2, <1>5, ReplyIs, Responded DEF ErrWrongLeader
    <2> QED
      BY <1>2, <1>3, <2>1, HeardImplements
  <1>6. CASE Reply(call, ErrTimeout, Onward(call, "removes"))
    <2>1. /\ Heard(call.command, ErrTimeout, Onward(call, "removes"))
          /\ ErrTimeout.Err = "ErrTimeout"
      BY <1>1, <1>2, <1>6, ReplyIs, Responded DEF ErrTimeout
    <2> QED
      BY <1>2, <1>3, <2>1, HeardImplements
  <1>7. CASE Receive(call)
    <2>1. PICK message \in buffers[call.server] :
            /\ message.index = call.index
            /\ Reply(call, message.response, Onward(call, "removes"))
      BY <1>7 DEF Receive
    <2>2. call.stage = "waits" /\ AnswersOne(call.server, message)
      BY <1>1, <1>2, <1>7, <2>1 DEF SentOK, Receive
    <2>3. /\ message.index \in 1 .. Len(chosen) /\ message.response = ResultOf(message.index)
          /\ call.command = chosen[message.index].command
      BY <2>1, <2>2 DEF AnswersOne
    <2>4. message.response \in Responses /\ DOMAIN chosen = 1 .. Len(chosen)
      BY <1>1, <2>3, ResultType DEF LogOK
    <2>5. message.response \in ResultsFor(call.command)
      BY <2>3, <2>4 DEF ResultsFor
    <2>6. Heard(call.command, message.response, Onward(call, "removes"))
      BY <1>1, <1>2, <2>1, <2>4, ReplyIs
    <2> QED
      BY <1>2, <1>3, <2>5, <2>6, HeardImplements
  <1>8. CASE /\ Work(call.command) # "Get" /\ isDuplicateRequest(call.server, call.command)
             /\ Reply(call, OK, Others(call))
    <2>1. Heard(call.command, OK, Others(call))
      BY <1>1, <1>2, <1>8, ReplyIs, Responded
    <2>2. PICK c \in Clerk, m \in Nat : call.command = <<c, m>>
      BY <1>2
    <2>3. call.command[1] = c /\ call.command[2] = m
      BY <2>2
    <2>4. m \in Writes(c) /\ m <= lastOperations[call.server][c]
      BY <1>1, <1>8, <2>3 DEF CallOK, Asked, Work, Writes, isDuplicateRequest
    <2>5. InLog(c, m, AppliedTo(call.server)) /\ AppliedTo(call.server) \in 0 .. Len(chosen)
      BY <1>1, <1>2, <2>4 DEF CopiesOK, Fits
    <2>6. InLog(c, m, Len(chosen))
      BY <2>5 DEF InLog
    <2>7. ResultsFor(<<c, m>>) # {} /\ ResultsFor(<<c, m>>) \subseteq {OK}
      BY <1>1, <1>8, <2>2, <2>6, ResultsNotGone
    <2>8. OK \in ResultsFor(call.command)
      BY <2>2, <2>7
    <2> QED
      BY <1>2, <1>3, <2>1, <2>8, HeardImplements
  <1> QED
    BY <1>4, <1>5, <1>6, <1>7, <1>8
       DEF Command, CheckDuplicate, Submit, getNotifyChan, TimeOut, removeOutdatedNotifyChan

LEMMA StepImplements ==
  KVInv /\ [Next]_vars => [TheService!Next]_(TheService!vars)
  <1> SUFFICES ASSUME KVInv, [Next]_vars PROVE TheService!Next \/ UNCHANGED TheService!vars
    OBVIOUS
  <1>1. CASE RaftStep
    <2>1. UNCHANGED <<clerks, answer>>
      BY <1>1 DEF RaftStep, clients
    <2>2. CASE \E e \in pending : Choose(e)
      BY <2>1, <2>2, ChooseImplements
    <2>3. CASE UNCHANGED chosen
      BY <2>1, <2>3, QuietImplements
    <2> QED
      BY <1>1, <2>2, <2>3 DEF RaftStep, Elect, ElectAgain, StepDown, BecomeLeader
  <1>2. CASE \E call \in calls : Command(call)
    BY <1>2, CommandImplements
  <1>3. CASE \/ PipelineStep \/ UNCHANGED vars
             \/ \E s \in Server : \/ Apply(s)
                                  \/ \E snap \in snapCh[s] : ApplySnapshot(s, snap)
                                  \/ Restart(s)
    <2>1. UNCHANGED <<chosen, clerks, answer>>
      BY <1>3 DEF PipelineStep, vars, Apply, ApplySnapshot, Restart, logService, clients
    <2> QED
      BY <2>1, QuietImplements
  <1>4. CASE \E c \in Clerk : CallFails(c)
    <2>1. PICK c \in Clerk : Hears(c, ErrTimeout, calls) /\ UNCHANGED logService
      BY <1>4 DEF CallFails
    <2>2. ClerksOK /\ UNCHANGED chosen
      BY <2>1 DEF KVInv, logService
    <2>3. PICK command \in Clerk \X Nat : command = <<c, clerks[c].id>>
      BY <2>2 DEF ClerksOK, ClerkStates
    <2>4. Heard(command, ErrTimeout, calls) /\ ErrTimeout.Err = "ErrTimeout"
      BY <2>1, <2>2, <2>3, HearsIs, Responded DEF ErrTimeout
    <2> QED
      BY <2>2, <2>4, HeardImplements
  <1> QED
    BY <1>1, <1>2, <1>3, <1>4 DEF Next

LEMMA InitImplements == Init => TheService!Init
  <1> SUFFICES ASSUME Init PROVE TheService!Init
    OBVIOUS
  <1>1. /\ chosen = <<>> /\ answer = [c \in Clerk |-> OK]
        /\ clerks = [c \in Clerk |-> [id |-> 1, try |-> 1, leaderId |-> 0]]
    BY DEF Init, LogServiceInit
  <1>2. Len(chosen) = 0 /\ DOMAIN chosen = {}
    BY <1>1
  <1>3. Value = <<>>
    <2>1. ValueAfter[0] = <<>>
      BY ValueAfterNow
    <2> QED
      BY <1>2, <2>1 DEF Value
  <1>4. \A c \in Clerk : clerks[c].id = 1
    BY <1>1
  <1>5. Current = [c \in Clerk |-> 1]
    BY <1>4 DEF Current
  <1>6. Results = [c \in Clerk |-> {}]
    <2>1. \A command : ResultsFor(command) = {}
      BY <1>2 DEF ResultsFor
    <2> QED
      BY <2>1 DEF Results
  <1>7. Value = <<>> /\ Current = [c \in Clerk |-> 1] /\ Results = [c \in Clerk |-> {}]
        /\ answer = [c \in Clerk |-> [Err |-> "OK", Value |-> <<>>]]
        => TheService!Init
    BY DEF TheService!Init, TheService!OK, Value, Current, Results, ResultsFor
  <1> QED
    BY <1>1, <1>3, <1>5, <1>6, <1>7 DEF OK

(* The service is linearizable: whatever servers fail, retries come late   *)
(* or channels are mixed up, it does what the atomic value does whose      *)
(* commands take effect when they are chosen, each write once.             *)
THEOREM ServiceIsAtomic == Spec => ImplementsAtomicKV
  BY InitImplements, StepImplements, ServiceInvariant, PTL DEF Spec, ImplementsAtomicKV,
     TheService!Spec

=============================================================================
