# A verification project for the MIT 6.824 labs

TLA+ modules for the Go programs of this repository, the TLC configurations
that check them on small instances, and TLAPS proofs of what matters for every
instance. Paths below are relative to the repository's `src/`.

## 1. Inventory

The repository holds three programs. Labs 2A and 2B are earlier stages of the
Raft peer whose final form is lab 2C+D; lab 3 is built on that form.

| Component | State | Operations | Talks to |
|---|---|---|---|
| **Raft peer** `lab2/lab2C+D/{raft,raftwork,rpc}.go`, `lab2/lab2B/Entry.go` | `state`, `currentTerm`, `votedFor`, `logs`, `commitIndex`, `lastApplied`, `nextIndex`, `matchIndex`, timers | handlers `RequestVote`, `AppendEntries`, `InstallSnapshot`; the reply closures; `Start`, `Snapshot`, `CondInstallSnapshot`; `StartElection` and heartbeats from `ticker` | peers by labrpc; its service by `applyCh` and calls back |
| **Persister** `lab2/lab2C+D/persister.go` | `raftstate`, `snapshot` (bytes) | `SaveRaftState`, `SaveStateAndSnapshot`, reads | called under `rf.mu`; survives a crash |
| **Apply pipeline** `raft.go: applier` | `lastApplied`, the batch it has copied | waits on `applyCond`, copies `logs(lastApplied, commitIndex]`, sends it without the lock | the service, in competition with the goroutines of `InstallSnapshot` |
| **Replicators** `raft.go: replicator`, `Entry.go: needReplicating` | a condition variable per peer | wait, `replicateOneRound` | woken by `Start` |
| **KV server** `lab3/{server,serverwork}.go` | `stateMachine`, `lastOperations`, `notifyChans`, `lastApplied` | `Command` (RPC), `applier`, `takeSnapshot`, `restoreSnapshot` | clerk, Raft peer |
| **KV clerk** `lab3/client.go` | `leaderId`, `commandId` | `Command`: retry until an answer | KV servers |
| **KV state machine** `lab3/kvstatemachine.go` | a map | `Get`, `Put`, `Append` | called by the KV server |
| **MapReduce coordinator** `lab1/coordinator.go` | `phase`, `tasks`, `doneCh` | `schedule` (heartbeats and reports, one at a time), `selectTask`, phase changes, `Done` | workers by RPC |
| **MapReduce worker** `lab1/{worker,fileworker}.go` | files `mr-X-Y`, `mr-out-Y` | heartbeat, map or reduce task, `atomicWriteFile`, report | coordinator, file system |
| Labs 2A and 2B `lab2/lab2A`, `lab2/lab2B/{raft,raftwork,rpc}.go` | the Raft peer without logs; without persistence and snapshots | as above | |
| **Test harness** `lab2/config.go` | per server `logs`, `lastApplied`, `saved`, `rafts` | `applier`, `applierSnap`, `crash1`, `start1`, `one`, `nCommitted` | Raft peers: `applyCh`, `Start`, `Snapshot`, `Make`, `Kill` |
| Skeletons `lab2/{raft,persister}.go` | | empty handlers | |

What makes them hard, and what makes them correct:

* **Raft peer.** Replies come late or never and in any order; a handler of a
  reply runs long after the request was built from the state; heartbeats repeat
  requests; a peer crashes between any two steps. Correct means: one leader per
  term; one vote per peer and term, across crashes; the log matching property;
  a leader has every committed entry; `commitIndex` never goes back and what it
  covers never changes; no slice of `rf.logs` leaves its bounds; an
  acknowledged entry is on disk.
* **Snapshots.** The service trims the log, a leader sends the snapshot in
  place of entries, the follower queues it and asks later. Correct means: a
  snapshot stands for committed entries only, it meets the log on disk, and
  installing one late takes nothing back.
* **Apply pipeline.** Entries and snapshots reach one channel from several
  goroutines. Correct means: in order, each entry once.
* **Replicators.** They wait on a condition variable with two locks involved,
  and heartbeats send to the same follower at the same time. Correct means: an
  entry that lags is sent eventually, whatever the two logs look like.
* **Harness.** Goroutines of killed instances share its tables with those of the
  next. Correct means: it raises an alarm only if Raft has failed, and `one`
  returns the index of its own command. The first is not quite so (section 3).
* **KV.** Retries put a command into several logs or several times into one.
  Correct means: each write takes effect once, and a client gets the answer to
  its own command (linearizability).
* **MapReduce.** Workers die, are slow and report late. Correct means: the
  reduce phase begins when every map output exists, and the job ends.

The list of hazards with their lines is in `PROJECT.json`.

## 2. What is modelled now

| Module | Models |
|---|---|
| `RaftLog` | the log: `lab2/lab2B/Entry.go`, and the loops over logs in `raft.go` and `raftwork.go` (merge, conflict search, back-off, trimming) |
| `Raft` | the peers, their persisters and the network; one action per handler, reply closure, service call, timer, crash and loss |
| `RaftVotes` | `Raft` with the history of the votes peers have held, and the election properties |
| `RaftCommits` | `Raft` with the history of what peers counted as committed, and the commitment properties |
| `RaftService` | `RaftCommits` with the history of elections and started entries: that the peers implement `LogService` |
| `MCRaft`, `MCRaftVotes`, `MCRaftCommits`, `MCRaftService` | the instances for TLC: the symmetry of the peers |
| `RaftLogProofs` | lemmas: what the operators of `RaftLog` keep of the shape of a log |
| `RaftProofs` | the inductive invariant of `Raft`, and type correctness; the snapshot on disk ends where the logs begin; a snapshot ends with a committed entry; election safety, one vote per term, a majority behind each leader |
| `RaftHistory` | `Raft` with the history that its safety rests on, and the invariants in terms of it |
| `RaftSafetyProofs` | state machine safety, leader completeness, commits are kept |
| `RaftReplicationProofs` | acknowledged entries are on disk, slices stay in range, log matching |
| `Replication` | how a leader brings one follower up to date: replicator, condition variable, heartbeats and back-off, in lab 2B and in lab 2C+D, under fairness |
| `ReplicationProofs` | types of `Replication`, agreement on what is committed, a majority behind it, and when the leader of lab 2B panics |
| `MCReplication` | the instance for TLC: the heartbeat goroutines |
| `LogService` | the Raft peers as the service above them sees them: leaders, `Start`, one sequence of chosen entries (abstract) |
| `ApplyPipeline` | `applier` of `raft.go` and `applyCh` between the log and the service; extends `LogService` |
| `KVServer` | lab 3: clerks, the handlers of `Command`, `applier`, notify channels, snapshots and restarts of the servers; extends `ApplyPipeline` |
| `KVServerProofs` | batches are never overtaken by snapshots, notify channels never block, replicas agree, and the service implements `AtomicKV` |
| `Harness` | the service, the crashes and the client of the tests of lab 2; extends `ApplyPipeline` |
| `HarnessProofs` | what the harness compares is what Raft chose, its alarms are real but for two races, `one` tells the truth |
| `AtomicKV` | what the service promises: one value, each command at one moment (abstract) |
| `MCKVServer` | instances for TLC: what the clerks ask for |
| `Coordinator` | lab 1: the coordinator, one operator per heartbeat or report that `schedule` handles |
| `MapReduce` | lab 1: workers, their files, `main`, and the clock around `Coordinator` |
| `Job` | what a job promises: two phases of tasks with a barrier between them (abstract) |
| `MCMapReduce` | the instance for TLC: someone lives |
| `MapReduceProofs` | the inductive invariant of `MapReduce`, its safety, and that it implements `Job` |

### Correspondence: Raft

Every handler holds `rf.mu` from its first read to its last write, so each is
one step. The exceptions are where code unlocks to call or to send, and they are
split there:

| Code | Actions |
|---|---|
| `ticker` → `StartElection` | `StartElection(i)`: possible in every role, since the ticker does not look at it |
| its closures | `HandleRequestVoteResponse(m)`; `grantedVotes[i]` is the counter they share |
| `RequestVote` | `RequestVote(m)` |
| `Start` → `appendNewEntry` | `Start(i)`; `BroadcastHeartbeat(false)` only makes a round possible, which it is anyway |
| `replicateOneRound` until `Call` | `ReplicateOneRound(i, p)`: heartbeats and replicators alike |
| `AppendEntries` | `AppendEntries(m)`, with `AppendEntriesStale`, `…BelowFirst`, `…Mismatch`, `…Match` for its four ways out |
| `handleAppendEntriesResponse` | `HandleAppendEntriesResponse(m)` |
| `InstallSnapshot` | `InstallSnapshot(m)`; the goroutine it starts is a member of `snapCh[i]` |
| `handleInstallSnapshotResponse` | `HandleInstallSnapshotResponse(m)` |
| service: snapshot taken off `applyCh` | `CondInstallSnapshot(i, msg)`, in any order with the others that wait |
| service: `Snapshot` | `Snapshot(i, index)`, for an index it can have applied |
| `Kill`, then `Make` with the persister's copy | `Restart(i)` |
| labrpc | `rpcs`, a set; `Drop(m)`; a request or reply of a round may leave a copy behind when it is received, which stands for the same message sent again by the next heartbeat. Vote requests are sent once and received once |

`deferred persist()` is the last conjunct of an action: it encodes the primed
values. `stable[i]` holds what was encoded last and `snapshot[i]` the index up
to which the saved service snapshot goes. A reply keeps the fields of its
request that the closure still reads (`reqTerm`, `PrevLogIndex`, `NumEntries`,
`LastIncludedIndex`).

Left out: command values (index and term identify an entry, since a term has
one leader and it appends one entry per index), the bytes of snapshots (their
index stands for them), the lengths of time of timers, `lastApplied` (it is
written but read only by the applier), and the sizes of encodings.

### Correspondence: replication

`Raft` lets a leader send a round at any time, which is right for safety and says
nothing about progress. `Replication` keeps one term, one leader and one
follower, and splits the replicator where its locks let others in:

| Code | Model |
|---|---|
| `replicator` | `replicatorLoop` (`killed`), `replicatorAsks` (`needReplicating`, under `rf.mu`), `replicatorWaits` (`Wait`, under `replicatorCond.L`), `replicatorSends` |
| `Start`, `BroadcastHeartbeat(false)` | `Start`: `Signal` moves a replicator that is in `Wait` and is lost between `replicatorAsks` and `replicatorWaits`, as it takes no lock |
| `ticker`, `BroadcastHeartbeat(true)` | `Heartbeat(h)`: a goroutine per heartbeat |
| `replicateOneRound` until `Call` | `replicateOneRound(w)`, for replicator and heartbeats; below the log lab 2C+D sends a snapshot, lab 2B indexes `rf.logs` at -1 and dies (`panicked`) |
| labrpc | `calls[w]` is the request of a caller, then the reply; `Lose(w)` at any time |
| `AppendEntries`, `InstallSnapshot`, the reply closures | as in `Raft`, without the tests of terms, which do not change |
| the third peer of the cluster | `OtherAnswers`: an answer with any of the entries. With it the leader commits while the follower lags, and may trim its log |
| both services | `Snapshot(p, index)`, `CondInstallSnapshot` |
| `Kill`, `ticker` | `Kill`, `tickerEnds` |

The initial states are all pairs of logs of earlier terms that the log matching
property allows. `build` says which of the two programs runs; it never changes.

### Correspondence: the harness of lab 2

`Harness` puts the service of `config.go` on `ApplyPipeline` and so on
`LogService`, a Raft that decides one command per index. Each alarm of the
harness (`log.Fatalf`, `t.Fatalf`) ends the run; `failed` says which it was.

| Code | Model |
|---|---|
| `applier`, `applierSnap`, an entry | `Receive(s)` with `takesEntry`: the order by `lastApplied`, then `checkLogs` |
| `applierSnap`, every `SnapShotInterval` entries | `due[s]`, then `Snapshot(s)`, which encodes the map as it is by then |
| `applierSnap`, a snapshot | `ReceiveInstalled(s, snap)` with `ingestSnap` |
| `crash1` | `crash1(s)`. What the instance has copied out of its log, and the snapshots that wait for its `applyCh`, are left to a ghost |
| the goroutines of a killed instance | `GhostSends(s)`, `GhostInstalls(s, snap)`: they write into the same `logs[s]` and `lastApplied[s]`. `meddled` says that this has happened to the instance that is up, `tore` that a snapshot was ever due of a map that was taken back; both are read by properties only |
| `start1` | `start1(s)`: `lastApplied` is 0 or the snapshot's; `logs[s]` is kept if there is no snapshot |
| `one(cmd, expected, true)` | `StartTaken`, `StartRefused` (round robin over the servers), `nCommitted` (one server per step), `givesUp` |
| a test that calls `Start` itself | `TestStarts(s)` |

Left out: partitions (`connect`, `disconnect`: a server that is not led and hears
nothing is in `LogService` anyway), the clock of `one`, `wait`, the checks of
leaders and terms, and statistics.

### Correspondence: the key/value service

`Command` of a server takes `kv.mu` twice and waits between; each stretch is a
step, in `stage` of the call: `CheckDuplicate` (under `RLock`), `Submit`
(`rf.Start`), `getNotifyChan` (under `Lock`), `Receive` or `TimeOut` (the
`select`), `removeOutdatedNotifyChan` (the goroutine the handler leaves behind).
What can happen between two of them is what a test hardly reaches: the entry may
be applied before the handler has made its channel, the channel made may be
that of an earlier call at the same index, and the removal may hit the channel
of a later one.

| Code | Model |
|---|---|
| `notifyChans[index]` | `removed[s][index]` counts how often the channel was deleted, which names the channel the index has now; `buffers[s]` are the responses in channels. A channel that nobody refers to is not kept |
| `KVServer.applier`, a command | `Apply(s)`: one step under `kv.mu`, with the send into the notify channel as a guard (`~Full`), and the snapshot that may follow |
| `KVServer.applier`, a snapshot | `ApplySnapshot(s, snap)`: `CondInstallSnapshot`, then `restoreSnapshot` and `lastApplied` |
| `Raft.applier` | `TakeBatch` copies under `rf.mu`; each `SendNext` (inside `Apply`) sends one entry without it; with the last one `lastApplied` becomes the larger of itself and the batch's end. `LearnCommit` lets `commitIndex` go up in between |
| `StartKVServer` with the persister's copy | `Restart(s)`; `lastApplied` of the server is 0 again, since `restoreSnapshot` does not set it |
| `Clerk.Command` | `Request`, `Hears`, `Retry`: the next server with every wrong leader, timeout or failed call. `CallFails(c)` may happen at any time, and the handler of a call that failed goes on |

Every call of a clerk leaves a handler that may run at any later time, so late
and reordered requests need no network of their own; an answer is delivered as
the handler gives it or is lost (`CallFails` before it).

`LogService` allows at least what the peers of `Raft` allow a service to see, as
long as none crashes between `Start` and the next `persist()` (the finding
below): a term has one leader; the leader of the latest term has the chosen
entries of earlier terms, whatever else it has (`LatestHas`); entries that were
started are chosen in order and for good. Run `rounds` checks it: the peers,
with the history of which elections were won and what was started, implement
`LogService` step by step (`ImplementsLogService`), under the mapping that reads
leaders off `state` and `chosen` off what the peers counted as committed. A
leader elected late, by votes that were under way when a later term already had
its leader, is in `LogService` and in run `votes`; the two messages of `rounds`
are too few for it. `LogService` lets such a leader
have any log that holds what was chosen before its term. A peer's log never ends
below the peer's own `commitIndex` (`SlicesInRange`, proved), and `KVServer`
asks for that when a server is elected (`HoldsCommitted`): otherwise a leader
elected late would put an entry at an index from which it has answered already,
and the old answer would reach the new caller.
One assumption of
time is made, `NoneWaits`: a server that lost its leadership is not elected
again while a handler of its earlier term still waits. `ExecuteTimeout` is
500 ms (`lab3/common.go`), an election timeout at least 1000 ms, and stepping down
starts it anew (`ChangeState`). `time.After` begins with the `select`, so a
handler that has called `Start` and waits for `kv.mu` (stage `started`) is under
no timeout yet; `NoneWaits` covers it too, and there it assumes that this stretch
and the 500 ms together stay below the 1000. Without the assumption two handlers would wait on
one channel. A leader whose own late tick makes it stand again
(`ElectAgain`) keeps its log, and needs no such assumption.

There is one key, as keys do not touch each other. A value is the sequence of
writes it is made of, so that a lost, repeated or swapped write shows.

### Correspondence: MapReduce

`schedule` takes one message from `heartbeatCh` or `reportCh` at a time and
answers it before the next, so `doHeartbeat(w)` and `doReport(w)` are one step
each: what befalls the worker or the clock between sending and answer could
befall it before or after.

| Code | Model |
|---|---|
| `schedule`, heartbeat | `Heartbeat(response)`: `assign`, `initReducePhase` (with the first task of that phase), `initCompletePhase` (which sends to `doneCh`), `sayComplete` |
| `selectTask` | the first task that waits, or that has been worked on for more than `MaxTaskRunInterval` (`overdue`, which `clock(id)` sets at any time) |
| `schedule`, report | `Report(id, phase)`: counts only in its own phase |
| `doMapTask` | one goroutine per reduce task, `writeIntermediate(w, r)`; `endMapTask(w)` is the end of `wg.Wait` |
| `doReduceTask` | one step: it reads files, which are only ever added, dies if one is missing, and writes |
| `atomicWriteFile` | the rename, or `atomicWriteFileFails`: its callers drop the error |
| `call` | `log.Fatal` when the coordinator has gone (`callFails`) |
| `mrcoordinator`'s loop | `mainStep`: `Done`, a second of sleep, exit |

Left out: what the files contain (both functions are deterministic, so a task
done twice writes the same), the polling intervals, and files left over from an
earlier job in the same directory (a fresh directory is assumed).

## 3. Runs

All bounds are CONSTANTS that appear in guards: `MaxTerm` (elections),
`MaxLogIndex` and `MaxPerTerm` (entries), `MaxSnapshotIndex`, `MaxInFlight` and
`MaxRounds` (messages), `MaxCrashes`, and `Candidates` (whose timers run out)
for Raft; `MaxTerm`, `MaxLogIndex`, `MaxTries` (calls per command),
`MaxSnapshots` and `MaxRestarts` for the key/value service; `MaxCrashes` and
`MaxWriteErrors` for MapReduce; `Heartbeats` (heartbeat goroutines at a time),
`MaxOldLog`, `MaxLogIndex` and `MaxSnapshotIndex` for replication; `MaxTries`
(rounds of `one`) and `MaxRestarts` for the harness, with those of `LogService`.
A step that would exceed one is not taken, which loses behaviours and adds none. Deadlock is not checked: when the terms are used
up and the last message is lost, the bounded Raft stops, the real one does not;
clerks and `one` come to the end of their scripts; a leader that has died stays
dead; and a MapReduce job really ends.

Fairness is stated by `mapreduce`, `replication` and `follower_stuck`
(`FairSpec`). In MapReduce, a worker that has not died
goes on (its steps are calls that return and loops that are scheduled), time
passes (`clock`), and the coordinator's `main` polls. `Crash` and failed writes
are not fair. `JobEnds` needs a worker that survives, `MaxCrashes <
Cardinality(Worker)`, which `MCMapReduce` assumes.

In `Replication` goroutines are scheduled and timers fire (weak fairness of the
replicator, of each heartbeat, of the ticker's end and of the follower's
service). labrpc may lose any call, but not every one of a caller that calls
again and again: strong fairness of the delivery of a caller's requests and of
the handling of its replies, since losing a call disables both. Without that no
program could make progress. Nothing is assumed of `Start`, `Snapshot`, `Kill`,
the third peer and the loss of calls, so that a lost wake-up may be the last
one.

| Run | Instance | Question |
|---|---|---|
| `votes` | 3 peers, 2 terms, 3 messages, 1 crash, no entries | elections: `ElectionSafety`, `OneVotePerTerm`, `LeaderHasMajority`, `VotesKept`, `TypeOK` |
| `terms` | 3 peers of which 2 stand, 3 terms, 2 entries at most one per term, 2 messages of which 1 is of a round | `StateMachineSafety`, `ElectableHasCommitted`, `LogMatching` when leaders overwrite each other's entries |
| `rounds` | 3 peers of which 2 stand, 2 terms, 2 entries at most one per term, 2 messages of rounds | `SlicesInRange`, `CommitsKept`, `ImplementsLogService` when requests and replies of rounds overtake each other |
| `snapshots` | 3 peers of which 2 stand, 2 terms, 2 entries, a snapshot, 2 messages of which 1 is of a round | `SnapshotsAreCommitted`, `StateMachineSafety`, also where `CondInstallSnapshot` keeps entries that conflict with the snapshot |
| `pair` | 2 peers, 2 terms, 2 entries, a snapshot, a crash, 3 messages of which 2 are of rounds | `AcksAreDurable`, `SnapshotMeetsLog`: what is on disk; `CommitsKept` when a snapshot is installed late |
| `crash` | 3 peers, 2 terms, 1 entry, a crash | violates `StateMachineSafety`: see below |
| `mapreduce` | 2 workers, 3 map and 2 reduce tasks, a crash, a failed write | `FinishedIsWritten`, `InputsReady`, `ImplementsJob` with tasks handed out twice and reported late; `JobEnds` |
| `replication` | both builds, old logs of at most one entry of 2 terms, 2 entries, a snapshot on either side, a replicator and a heartbeat | `CommitsAgree`, `CommitHasMajority`, `PanicsOnlyOnFirstConflict`; `CatchesUpBehindLeader` and `KilledGoesQuiet` under fairness |
| `follower_stuck` | the same with lab 2C+D alone | violates `CatchesUp`: see below |
| `harness` | 2 servers, 2 terms, 2 entries, no snapshots or one after every entry, a crash, a round of `one` beside another `Start` | `HeldIsChosen`, `NoFalseAlarm`, `OrderFailures`, `OneTellsTruth` |
| `kv` | 2 servers, 2 clerks (one appends with a retry, one reads), 2 terms, 2 entries | `ImplementsAtomicKV` (linearizability) and `NotifyNeverBlocks` |
| `kv_snapshots` | 2 servers, 1 clerk that appends with a retry, 2 terms, 2 entries, snapshots, a restart | `ReplicasAgree`, `BatchInLog` when snapshots overtake entries |

Why these bounds: a stale vote or two leaders of one term need two elections of
one term or two consecutive terms, so two terms and the two or three messages
of one election are enough to break them (each property is broken by a mutant
of the code under its own run). A committed entry that is lost by commitment
of an older term's entry needs three terms and a leader that returns, and no
more than one message of a round at a time; messages that overtake each other
need two in flight, but only one term and two entries. Snapshots multiply the
states, so they have a run of their own with one snapshot. It lets a leader
start two entries in one term: an old leader's second entry is what
`CondInstallSnapshot` then keeps above a snapshot of the next term.

`MaxInFlight` costs behaviours. `StartElection` sends to all other peers in one
step, which with three peers fills the two messages of `terms`, `rounds`,
`snapshots` and `crash`: there an election begins only when nothing is in
flight, everything older having been received or lost. (An old leader that has
not heard of it may go on sending.) Messages that are older than an election are
left to `votes` (three messages), to `pair`, whose elections send one of three,
and to the proofs, which have no bound: they cover what these runs check except
`ImplementsLogService`.

For MapReduce, a late report of the wrong phase needs task numbers that the
phases share and one worker taken for dead; a third map task lets one finish
while another is out twice. For the key/value service, a command that is in the
log twice needs a retry and two entries; a handler that waits at an index where
another's entry is applied needs two terms; a stale read needs a server that
does not know the last entry. A snapshot that overtakes the entries of a batch
needs a batch of two.

For replication, a conflict needs one old entry on each side and two terms that
differ; a follower that is ahead of the leader's log needs one trimmed entry and
one late request, so two callers, one entry that is trimmed and one that then
lags. For the harness, two entries make a batch in whose middle a snapshot is
installed; a crash leaves one ghost beside the next instance; that this takes
back a map of which a snapshot is due needs a snapshot after every entry. A
command that is in the log twice needs a second round of `one`, which the proof
covers and the run leaves out for its size.

### Finding: `Start` does not persist

`lab2/lab2CD.md:2` asks that `currentTerm`, `votedFor` and `logs` be persisted
whenever they change, before the lock is released or an RPC is sent.
`appendNewEntry` (`lab2/lab2B/Entry.go:59-67`) changes `rf.logs` and counts the
leader's own copy in `matchIndex`, and neither it nor `Start` persists. In run
`crash` the leader commits with its own copy and one follower's, crashes,
returns with the log it had before, is elected with the third peer's vote, and
commits another entry at the same index: what `checkLogs`
(`lab2/config.go:140-149`) asserts can never happen. The other runs have
crashes only where no entry depends on them (`votes`, `pair`), which shows that
everything else is persisted in time.

### Finding: a follower that has trimmed further than its leader is stuck

`AppendEntries` answers a request whose `PrevLogIndex` is below the head of its
log with neither `ConflictIndex` nor `ConflictTerm` set
(`lab2/lab2C+D/raft.go:229-234`), and the leader takes the zeros for a conflict:
`nextIndex` becomes 0 or 1 even if it had been right. In run `follower_stuck` a
request that was overtaken arrives after its entry has been committed and
trimmed by the follower's service. From then on every request of the leader is
below the follower's head, or is a snapshot that is not news to it, and the next
entry never reaches it. `lab2/lab2B/README.md:47` has the replicator try without
end until the entries are appended. Run `replication` shows the limit of this:
as long as the follower's log does not stay beyond the leader's
(`CatchesUpBehindLeader`), it catches up, lost wake-ups and all; so the leader's
next snapshot ends it.

### Observations that are no findings

* Lab 2B has no answer to a follower below its log. If the follower's first
  entry has a term the leader's log lacks, `ConflictIndex` is 0, and the next
  request indexes `rf.logs` at -1 (`lab2/lab2B/rpc.go:76`). `replication` shows
  that it happens, and only then (`PanicsOnlyOnFirstConflict`). No document
  speaks of it, and lab 2C+D sends a snapshot there.
* "apply out of order" (`lab2/config.go:229`) can be raised although Raft decides
  one command per index: when a snapshot is installed in the middle of a batch,
  or when a killed instance goes on delivering after `start1`. `OrderFailures`
  shows that there is no third reason. The key/value server of lab 3 discards
  such entries.
* `applierSnap` (`lab2/config.go:247-256`) gives `cfg.mu` back before it encodes
  the map for a snapshot. A killed instance that installs an older snapshot in
  between takes entries out of the map, and the snapshot holds `nil` for them;
  whoever installs it holds them too, and then `checkLogs` or `nCommitted` may
  report a difference that Raft has not made. `HeldIsChosen` says that this is the
  only way to a wrong value, and that it is never another command;
  `NoFalseAlarm` that no other alarm is false. `Snapshot(s)` encodes in one step
  where the code loops: a map that changes under the loop gives a mixture of
  two, each index of which is chosen or a gap as well.
* `doMapTask` and `doReduceTask` (`lab1/worker.go:98`, `132`) drop the error of
  `atomicWriteFile`, and `Worker` reports all the same; whoever is given the
  reduce task then dies when it opens the file. So `FinishedIsWritten`,
  `InputsReady`, `JobEnds` and the part of `Job` that promises a result are
  claimed as long as no write fails.

## 4. Proofs

The proofs are for every finite set of peers, every number of tasks and workers,
and all bounds.

* `RaftLogProofs`: a log is a sequence of entries whose indexes rise by one from
  the placeholder's. Appending, merging a matching request, cutting below an
  index and trimming for a snapshot each give such a log, with the first and
  last index stated.
* `RaftProofs`, `THEOREM TypeCorrect == Spec => []TypeOK`. `TypeOK` is not
  inductive: a request is built from a slice at `nextIndex[p]`, which is a log
  only if `nextIndex[p]` is not beyond it, and `nextIndex[p]` comes from
  replies to requests of any age. `IInv` adds that
  - every message of a round belongs to a term its sender has reached, that the
    sender is no candidate of that term, and that as long as it leads that term
    its log reaches as far as the message says (`FromLeader`): a leader's log
    only grows, and what makes it shrink also makes it leave the term or the
    role for good;
  - the term on disk is the term in memory (`TermPersisted`), so that a crash
    does not bring a sender back to a term in which it could stand again;
  - a log begins at or below `commitIndex` (`FirstCommitted`), so that a
    snapshot above `commitIndex` is not below the log;
  - a leader's `nextIndex` is at most one beyond its log (`NextInLog`).

  One lemma per action shows that it keeps `IInv`. `StepOK` contains what they
  share: messages already in flight stay as they should be as long as each peer
  only takes steps allowed by `SenderStep`.
* Snapshots, in `RaftProofs`: `THEOREM SnapshotContinues == Spec => []SnapshotMeetsLog`,
  on top of `IInv`. `SInv` adds that the snapshots in flight, and those that wait
  for `applyCh`, cover the index they are labelled with: the leader takes label
  and bytes from two places, `rf.logs` and the persister, and
  `CondInstallSnapshot` cuts the log by the one and saves the other. That disk
  and memory both begin there is what makes a restart harmless although `Start`
  does not persist. `FirstCommitted` is needed once more, so that a snapshot
  beyond `commitIndex` cuts the log where its label says. The same gives
  `SnapshotsCommitted == CSpec => []SnapshotsAreCommitted`, with every crash: a log
  begins with what its peer has counted as committed.
* Elections, in `RaftProofs`: `THEOREM OneLeaderPerTerm == VSpec => []ElectionSafety`,
  with `OneVoteHolds`, `MajorityElects` and `VotesKeptHolds`. That two leaders of
  a term are one follows from two majorities of one term's votes that share a
  peer, and a peer that votes once. The first is the hard part, because the
  code only keeps a counter, shared by the closures of an election. `VInv` adds
  to `IInv` that
  - the vote on disk is the vote in memory (`VotePersisted`), so that a restart
    brings back the vote together with the term it was given in;
  - the recorded votes of a peer are of terms it has reached, and the one of its
    current term, if any, is `votedFor` (`VotesOK`); no peer has two of a term
    (`OnlyVote`);
  - a granted answer in flight stands for a recorded vote (`AllAskedOK`), and of
    one candidate, voter and term there is at most one request or answer in
    flight (`AskedOnce`): a request is sent once per election and its answer
    takes its place;
  - a candidate's counter is at most the number of peers that voted for it in
    its term and have no request or answer of that election in flight
    (`CountOK`). An answer that counts takes its voter into that set; a new
    election starts the counter and the set over, and `ElectionGoesOn` keeps
    answers of older elections out.

  Only `StartElection`, `RequestVote` and the closure that counts a vote matter
  to these; all other steps are `Quiet` (`QuietOrElection`).

* `RaftSafetyProofs`: `CommittedAgree == HSpec => [](~lost => StateMachineSafety)`,
  `ElectableComplete` for `ElectableHasCommitted`, and `CommitsKeptHolds == HSpec
  /\ []~lost => CommitsKept`. `HSpec` (`RaftHistory`) is `Spec` with history
  variables, which record and restrict nothing: besides `votes` and `committed`,
  the log each leader of a term has had (`led`), what peers have held of the
  leader of the term they were in (`acks`), what leaders have committed
  (`chosen`), and whether a crash has taken an entry that `Start` had put into a
  log and nothing had saved (`lost`). Run `crash` refutes the first property
  without the condition on `lost`, and the proofs show that there is no other
  way to break it: every other crash is covered. `AgreeWithoutCrashes`
  (`RaftReplicationProofs`) has it for `MaxCrashes = 0` without a condition.

  The argument is `HistoryInv`:
  - one log per leader and term, and an entry of term t comes in any leader's
    log with all that precedes it in the log of the leader of t (`LedInv`,
    `OwnerInv`, `LeaderInv`, `MessagesInv`);
  - a log is of that kind (`Sound`), or it is one that `CondInstallSnapshot` has
    cut without comparing the entry at the cut (`Junk`): then what it should not
    have kept is older than a committed entry above the cut, so that it
    wins no election and is never acknowledged to the leader of its term;
  - an entry of a leader's own term that a majority has acknowledged, or still
    may since it has not gone beyond that term (`Choosable`), is in the log of
    every later leader (`SafeInv`). Whoever acknowledged it keeps it, and a log
    that is as new (`AcksInv`); a vote says that the candidate's log is as new as
    the voter's (`VotersInv`, `AskingInv`); and the two majorities share a peer;
  - what a leader counts in `matchIndex` was acknowledged or is committed
    (`MatchInv`), so that what it commits was acknowledged by a majority
    (`ChosenInv`), and every peer's `commitIndex` covers only what some leader has
    committed (`CommitInv`).

* `RaftReplicationProofs`, on top of `HistoryInv` and under the same condition:
  - `AcksDurable` for `AcksAreDurable`. `DurableInv` says that a follower whose
    answer was counted, or is in flight, `Holds` the leader's log up to there, in
    memory and on disk, as long as it stays in the term. That needs the
    merging of entries that are already there to change nothing.
  - `SlicesStayInRange` for `SlicesInRange`. That `commitIndex` is not beyond the log is
    `CommitInv`; that `nextIndex` does not fall below zero, although the code
    subtracts in a loop and takes over what a reply says, is `BackInv`.
  - `LogsMatch == HSpec => [](~lost /\ NoSnapshots => LogMatching)`. With
    snapshots it is false: the logs `Junk` describes may agree at an index and
    differ below it (the hazard at `CondInstallSnapshot`). That takes five
    peers, so that no run shows it; `HistoryInv` says that it is harmless.

* `ReplicationProofs`, for any heartbeat goroutines, terms and indexes, and both
  builds: `TypeCorrect`, `CommitsAgreeHolds` and `CommitHasMajorityHolds`. Requests and
  replies are compared with the leader's whole log, but the leader trims it, and no
  variable keeps what it has trimmed. So the invariant `RInv` says that there is a
  function G, the leader's terms by index, which everything agrees with:
  - the leader's log where it still is, and each request, to its end
    (`RequestOK`); a snapshot in flight or waiting ends with an entry of G,
    at or below the leader's `commitIndex` (`PointOK`);
  - the follower's log up to its own `commitIndex` (`Commits`). Beyond it the log may
    conflict, but an entry that is G's comes with G's entries at all indexes below it,
    and an entry of the leader's term can only be G's (`FollowerIs`). So a
    late and short request may leave in place what lies beyond it;
  - what `matchIndex` counts, and every answer that may be counted yet, the follower
    `Held` or the leader has committed (`Acked`). `matchIndex` may go back;
    what was held stays held, since no request that matches removes an entry of G.

  A step of the follower keeps G, `Start` extends it (`StartOK`).

  `FirstConflictOnly` for `PanicsOnlyOnFirstConflict` adds `PInv`. That lab 2C+D
  never panics is plain; in lab 2B one back-off may end at 0, where the logs
  always match, or run to -1, and with several requests under way both might
  happen in turn: the first reply says 0 while another request has matched and replaced
  the follower's log. It does not, because every prevLogIndex in flight,
  and every one a reply will lead to, belongs to one `Chain`: until a request
  matches neither log changes where they look at it, so each mismatch has one
  successor (`NextsBelow`), and a chain that reaches -1 has no index that
  matches. That a chain exists from any end of the leader's log is shown by the
  least index that has none (`ChainExists`). Once a request has matched, all
  that is in flight begins where the two logs are the same (`Decided`).

* `KVServerProofs`, for any servers, clerks, scripts and bounds:
  - `NothingOvertaken == Spec => []BatchInLog` and `ApplierNeverBlocks == Spec =>
    []NotifyNeverBlocks`. `BatchInLog` speaks of the moments between batches;
    during one a snapshot may be ahead of Raft's `lastApplied`, but not of what was
    sent (`SnapshotReached`). A channel has room because each response in it is
    about an entry that was applied (`SentIsApplied`), while the next one is not;
    for this `lastApplied` of the server must not go back, and it does not
    because a batch and all that was applied are committed (`BatchCommitted`,
    `AppliedCommitted`) and a snapshot counts only beyond `commitIndex`. A
    restart sets it to 0, but leaves no channel.
  - `ReplicasAlwaysAgree` for `ReplicasAgree`, and `ServiceTypes`. Machine and
    table of last commands of a server, and those of every snapshot, belong to one index
    of the log (`Fits`): the value there, and the writes that are in the log by
    then. For the test `commandId <= lastOperations` to find exactly the repeated
    writes, a clerk's writes must enter the log in order (`OrderOK`), which they do
    as the clerk goes on only when the one before has been chosen (`ClerksOK`).
    And entries must reach a server in order, each once or dropped: what
    it takes next is at most one beyond what machine and table stand for
    (`InOrder`), also after a snapshot in the middle of a batch, and after a
    restart that sets `lastApplied` to 0.
  - `ServiceIsAtomic == Spec => ImplementsAtomicKV`. A command takes effect when its first
    entry is chosen; a clerk hears a response; every other step of
    servers and log changes nothing that `AtomicKV` sees (`StepImplements`). What has to be shown is
    that an answer was given for the very command its clerk asks: the response in a
    channel is for whoever waits at that index (`AnswersOne`), however many
    handlers have used the channel, because a handler that waits has started
    its command in the term its server leads, or in an earlier one whose log
    the server still has (`Began`), and that a duplicate is answered only
    when its write is in the log (`CopiesOK`). `NoneWaits` and `HoldsCommitted` are used here
    and are what makes it true: without either TLC shows an answer that
    belongs to another call.

  `ValueAfter` is a recursive function. That it is what its equation says
  (`ValueAfterIs`) is proved by induction over sets of numbers (`Induction`, from
  the well-foundedness of Nat), as the library's induction theorems, which take
  an operator, are of no use to the provers installed.

* `HarnessProofs`, for any number of servers, crashes, snapshots and rounds of
  `one`: `HarnessTypesOK`, `MapsHoldChosen == Spec => []HeldIsChosen`, `AlarmsAreReal`
  for `NoFalseAlarm`, `OrderFailsForTwoReasons` for `OrderFailures`, and
  `OneReturnsTheTruth` for `OneTellsTruth`. `HInv` says of each server
  - what the maps hold, and the snapshots wherever they are: taken, under way,
    or left to a ghost (`HeldOK`); and how far `commitIndex`, both batches and
    `lastApplied` are in the log (`NumbersOK`);
  - which part of the log the map covers (`CoveredOK`): without snapshots all
    that the live instance or its ghost has sent, since the map survives
    `start1`; with snapshots what `cfg.lastApplied` says, and the index of a
    snapshot that is due unless a ghost has torn the map;
  - that `cfg.lastApplied` keeps step with the live instance's applier unless
    a ghost has meddled or a snapshot goes beyond the batch (`InStepOK`). It
    has to hold through a crash: `start1` sets `cfg.lastApplied` to where the
    persister's snapshot ends, which is where `Make` begins.

  `ClientOK` says that the commands `one` has counted are the one at its index.
  A step changes the tables of one server (`OneMoves`) or extends the log
  (`Grows`); the rest keeps `HInv` by one lemma each (`UntouchedOK`, `ClientStays`).

* `MapReduceProofs`: `MapReduceTypes`, `FinishedIsWrittenHolds`,
  `InputsReadyHolds` and `THEOREM MapReduceImplementsJob == Spec =>
  ImplementsJob`, from `Sizes` alone (`nMap` may be zero; there is a reduce
  task, as the code divides by their number). None of the properties is
  inductive, because a worker holds its task for any length of time: through
  the change of phase, or while another worker does the same one. `MInv` adds
  what a worker has done so far of the task it holds (`ProgressOK`: the files
  of the goroutines that have ended are there, and all of them when it is about
  to report), that a worker with a reduce task lives in a phase after the first
  (`InPhase`), and what a phase leaves behind (`PhasesOK`). All but types and
  `InPhase` is claimed for `writeErrors = 0` only. `Job` is implemented under
  the mapping that reads `mapped` and `reduced` off the files: what the
  coordinator believes is not part of it.

The history and the invariants of these proofs (`HistoryInv`, `DurableInv`,
`BackInv`, `RInv`, `PInv`, `KVInv`) were model-checked on instances like those of section 3 before
they were proved.

Only model-checked: `JobEnds`, `CatchesUpBehindLeader`, `KilledGoesQuiet`
(liveness, out of the prover's reach) and `ImplementsLogService`. `LogMatching`
for logs that snapshots have cut is claimed nowhere: no run checks it and no
theorem states it.

## 5. Not modelled, and the plan

1. `ImplementsLogService` with three terms, with snapshots, and with crashes that lose no started
   entry: one more history variable and a smaller instance.
2. Proofs: `ImplementsLogService` from `HistoryInv`.

Not planned:

* Lab 2A and the elections of lab 2B. Their handlers are those of lab 2C+D
  without the comparison of logs (2A), without `persist()` and without
  snapshots. Their tests restart no peer, so that nothing is lost with the disk,
  and `RaftVotes` shows their elections right for every other behaviour. After a
  restart a peer of theirs could vote twice in a term; no document says otherwise.
* `lab2/lab3/raftwork.go`, a copy of the helpers of lab 2C+D, and
  `GetRaftStateSize`.
* That elections come to an end: it rests on random times.
* The scripts of the tests, the harness's checks of leaders and terms, the
  skeletons (no logic), `labgob`, sizes in bytes, and the layout of files.
