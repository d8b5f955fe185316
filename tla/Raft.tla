-------------------------------- MODULE Raft --------------------------------
(***************************************************************************)
(* The Raft peer of src/lab2/lab2C+D, with the log of src/lab2/lab2B: one  *)
(* action per RPC handler, per reply closure, per call of the service and  *)
(* per timer.  Each of them runs under rf.mu from its first read to its    *)
(* last write, so each is one step; what happens between an unlock and the *)
(* next lock is what the interleaving of steps explores.                   *)
(*                                                                         *)
(* labrpc may lose a request or a reply and delivers in any order.  It     *)
(* never copies a message, but the leader itself sends the same            *)
(* AppendEntries or InstallSnapshot again with every heartbeat: rpcs is a  *)
(* set, and receiving such a request or its reply may leave a copy behind. *)
(* A vote request goes to each peer once per election and is answered once.*)
(***************************************************************************)
EXTENDS RaftLog, FiniteSets

CONSTANTS
  Server,           \* the peers
  None,             \* votedFor's -1
  Candidates,       \* bound: the peers whose election timer may run out
  MaxTerm,          \* bound: no election beyond this term
  MaxLogIndex,      \* bound: Start appends no entry beyond this index
  MaxPerTerm,       \* bound: a leader starts no more than this many entries
  MaxSnapshotIndex, \* bound: the service takes no snapshot beyond this index
  MaxInFlight,      \* bound: messages in flight at a time
  MaxRounds,        \* bound: of these, messages of replication rounds
  MaxCrashes        \* bound: crashes in a behaviour

ASSUME ServerAssumption ==
  IsFiniteSet(Server) /\ None \notin Server /\ Candidates \subseteq Server
ASSUME BoundAssumption ==
  /\ MaxTerm \in Nat /\ MaxLogIndex \in Nat /\ MaxPerTerm \in Nat
  /\ MaxSnapshotIndex \in Nat
  /\ MaxInFlight \in Nat /\ MaxRounds \in Nat /\ MaxCrashes \in Nat

VARIABLES
  \* The Raft struct, one entry per peer.
  state, currentTerm, votedFor, logs, commitIndex,
  nextIndex, matchIndex,  \* matchIndex[i][p]: what leader i knows about p
  grantedVotes,   \* the counter the closures of i's last election share
  snapCh,         \* snapshots i's InstallSnapshot goroutines wait to deliver
  \* The Persister: what survives a crash.
  stable,         \* currentTerm, votedFor and logs as last encoded
  snapshot,       \* index of the last entry the saved service snapshot covers
  \* The network.
  rpcs,           \* requests and replies in flight
  crashes         \* how many crashes there have been

volatile  == <<state, commitIndex, nextIndex, matchIndex, grantedVotes, snapCh>>
hardState == <<currentTerm, votedFor, logs>>
persister == <<stable, snapshot>>
vars      == <<volatile, hardState, persister, rpcs, crashes>>

Requests  == {"RequestVote", "AppendEntries", "InstallSnapshot"}
Follower  == "Follower"
Candidate == "Candidate"
Leader    == "Leader"

-----------------------------------------------------------------------------
(* Pieces of steps.  A definition whose name ends in _Something and whose  *)
(* comment says "mutant" is the next one with a mistake in it; no action   *)
(* uses it, the runs use it to show that a property can fail.              *)

(* encodeState and SaveRaftState with the values the step leaves behind.   *)
Encoded_FieldsSwapped(i) ==  \* mutant: decoded in another order
  [currentTerm |-> votedFor'[i], votedFor |-> currentTerm'[i], logs |-> logs'[i]]
Encoded_LogsBefore(i) ==     \* mutant: logs as they were before the handler
  [currentTerm |-> currentTerm'[i], votedFor |-> votedFor'[i], logs |-> logs[i]]
Encoded(i) ==
  [currentTerm |-> currentTerm'[i], votedFor |-> votedFor'[i], logs |-> logs'[i]]

persist(i) == stable' = [stable EXCEPT ![i] = Encoded(i)] /\ UNCHANGED snapshot

SaveStateAndSnapshot_StateOnly(i, index) ==  \* mutant: the snapshot is not saved
  persist(i)
SaveStateAndSnapshot(i, index) ==
  /\ stable' = [stable EXCEPT ![i] = Encoded(i)]
  /\ snapshot' = [snapshot EXCEPT ![i] = index]

(* ChangeState to a role other than leader: the timers it resets only say  *)
(* when StartElection and ReplicateOneRound may come.                      *)
ChangeState(i, role) == state' = [state EXCEPT ![i] = role]

(* rf.currentTerm, rf.votedFor = term, -1                                  *)
adoptTerm(i, term) ==
  /\ currentTerm' = [currentTerm EXCEPT ![i] = term]
  /\ votedFor' = [votedFor EXCEPT ![i] = None]

(* A term above the peer's own is adopted, an equal one changes nothing.   *)
catchUp_AlsoEqual(i, term) ==  \* mutant: >= for >
  IF term >= currentTerm[i] THEN adoptTerm(i, term)
                            ELSE UNCHANGED <<currentTerm, votedFor>>
catchUp(i, term) ==
  IF term > currentTerm[i] THEN adoptTerm(i, term)
                           ELSE UNCHANGED <<currentTerm, votedFor>>

commitTo(i, index) == commitIndex' = [commitIndex EXCEPT ![i] = index]

(* advanceCommitIndexForFollower, on the log the merge left.               *)
advanceCommitIndexForFollower_Back(i, log, leaderCommit) ==  \* mutant: no >
  commitTo(i, IF leaderCommit < Last(log) THEN leaderCommit ELSE Last(log))
advanceCommitIndexForFollower(i, log, leaderCommit) ==
  LET newCommitIndex == IF leaderCommit < Last(log) THEN leaderCommit
                                                    ELSE Last(log)
  IN  IF newCommitIndex > commitIndex[i] THEN commitTo(i, newCommitIndex)
                                         ELSE UNCHANGED commitIndex

(* srt[n-(n/2+1)]: the largest of the match indexes that more than half of *)
(* the peers reach.                                                        *)
Majority(S) == Cardinality(S) > Cardinality(Server) \div 2

ReachedByMajority_OffByOne(match) ==  \* mutant: srt[n-n/2]
  LET reached == { match[p] : p \in Server }
  IN  { index \in reached : \A other \in reached : other <= index }
ReachedByMajority(match) ==
  LET reached == { match[p] : p \in { p \in Server :
                     Majority({ q \in Server : match[q] >= match[p] }) } }
  IN  { index \in reached : \A other \in reached : other <= index }

advanceCommitIndexForLeader_AnyTerm(i, match) ==  \* mutant: no matchLog
  \E newCommitIndex \in ReachedByMajority(match) :
    IF newCommitIndex > commitIndex[i] THEN commitTo(i, newCommitIndex)
                                       ELSE UNCHANGED commitIndex
advanceCommitIndexForLeader(i, match) ==
  \E newCommitIndex \in ReachedByMajority(match) :
    IF /\ newCommitIndex > commitIndex[i]
       /\ matchLog(logs[i], currentTerm[i], newCommitIndex)
      THEN commitTo(i, newCommitIndex)
      ELSE UNCHANGED commitIndex

(* The messages in flight after a step.                                    *)
Rounds(S) == { m \in S : m.type \notin {"RequestVote", "RequestVoteReply"} }

InFlight(S) ==
  /\ Cardinality(S) <= MaxInFlight /\ Cardinality(Rounds(S)) <= MaxRounds
  /\ rpcs' = S

(* A message received for good, or one of the copies heartbeats made of it.*)
Received(m)   == { rpcs \ {m}, rpcs }
ConsumeOne(m) == \E rest \in Received(m) : InFlight(rest)
AnswerOne(m, reply) == \E rest \in Received(m) : InFlight(rest \cup {reply})

-----------------------------------------------------------------------------
Init ==
  /\ state = [i \in Server |-> Follower]
  /\ currentTerm = [i \in Server |-> 0]
  /\ votedFor = [i \in Server |-> None]
  /\ logs = [i \in Server |-> EmptyLog]
  /\ commitIndex = [i \in Server |-> 0]
  /\ nextIndex = [i \in Server |-> [p \in Server |-> 1]]
  /\ matchIndex = [i \in Server |-> [p \in Server |-> 0]]
  /\ grantedVotes = [i \in Server |-> 0]
  /\ snapCh = [i \in Server |-> {}]
  /\ stable = [i \in Server |-> [currentTerm |-> 0, votedFor |-> None, logs |-> EmptyLog]]
  /\ snapshot = [i \in Server |-> 0]
  /\ rpcs = {}
  /\ crashes = 0

-----------------------------------------------------------------------------
(* Elections.                                                              *)

RequestVoteRequest(i, p, term) ==
  [type |-> "RequestVote", from |-> i, to |-> p, Term |-> term,
   LastLogIndex |-> Last(logs[i]), LastLogTerm |-> getLastLog(logs[i]).Term]

(* The ticker does not look at the role: a tick that was under way when the *)
(* peer won still makes it a candidate again, of the next term.            *)
StartElection(i) ==
  LET term == currentTerm[i] + 1
  IN  /\ i \in Candidates
      /\ term <= MaxTerm
      /\ ChangeState(i, Candidate)
      /\ currentTerm' = [currentTerm EXCEPT ![i] = term]
      /\ grantedVotes' = [grantedVotes EXCEPT ![i] = 1]
      /\ votedFor' = [votedFor EXCEPT ![i] = i]
      /\ InFlight(rpcs \cup { RequestVoteRequest(i, p, term) : p \in Server \ {i} })
      /\ UNCHANGED <<logs, commitIndex, nextIndex, matchIndex, snapCh, crashes>>
      /\ persist(i)

RequestVoteResponse(m, term, granted) ==
  [type |-> "RequestVoteReply", from |-> m.to, to |-> m.from,
   reqTerm |-> m.Term, Term |-> term, VoteGranted |-> granted]

(* The peer has voted for another candidate of this term, or is beyond it. *)
RefusesVote_TermOnly(i, m) ==  \* mutant: votedFor is not asked
  m.Term < currentTerm[i]
RefusesVote(i, m) ==
  \/ m.Term < currentTerm[i]
  \/ m.Term = currentTerm[i] /\ votedFor[i] \notin {None, m.from}

Answer(m, reply) == InFlight((rpcs \ {m}) \cup {reply})

RequestVote(m) ==
  LET i == m.to
  IN  /\ m.type = "RequestVote"
      /\ \/ /\ RefusesVote(i, m)
            /\ Answer(m, RequestVoteResponse(m, currentTerm[i], FALSE))
            /\ UNCHANGED <<state, currentTerm, votedFor>>
         \/ /\ ~RefusesVote(i, m)
            /\ IF m.Term > currentTerm[i] THEN ChangeState(i, Follower)
                                          ELSE UNCHANGED state
            /\ IF isLogUpToDate(logs[i], m.LastLogTerm, m.LastLogIndex)
                 THEN /\ currentTerm' = [currentTerm EXCEPT ![i] = m.Term]
                      /\ votedFor' = [votedFor EXCEPT ![i] = m.from]
                      /\ Answer(m, RequestVoteResponse(m, m.Term, TRUE))
                 ELSE /\ catchUp(i, m.Term)
                      /\ Answer(m, RequestVoteResponse(m, m.Term, FALSE))
      /\ UNCHANGED <<logs, commitIndex, nextIndex, matchIndex, grantedVotes, snapCh,
                     crashes>>
      /\ persist(i)

(* ChangeState(StateLeader): its heartbeats are ReplicateOneRound steps.   *)
becomeLeader(i) ==
  /\ ChangeState(i, Leader)
  /\ nextIndex' = [nextIndex EXCEPT ![i] = [p \in Server |-> Last(logs[i]) + 1]]
  /\ matchIndex' = [matchIndex EXCEPT ![i] = [p \in Server |-> 0]]

(* ChangeState(StateFollower), the new term and persist(), in reply        *)
(* handlers; a term is above the peer's own.                               *)
stepDown_Unpersisted(i, term) ==  \* mutant: no persist()
  /\ ChangeState(i, Follower)
  /\ adoptTerm(i, term)
  /\ UNCHANGED <<logs, commitIndex, nextIndex, matchIndex, persister>>
stepDown(i, term) ==
  /\ ChangeState(i, Follower)
  /\ adoptTerm(i, term)
  /\ UNCHANGED <<logs, commitIndex, nextIndex, matchIndex>>
  /\ persist(i)

(* The closure of StartElection that got a reply; only those of the        *)
(* election that is still going on count.                                  *)
ElectionGoesOn_AnyTerm(i, m) ==  \* mutant: a late reply counts
  state[i] = Candidate
ElectionGoesOn(i, m) ==
  currentTerm[i] = m.reqTerm /\ state[i] = Candidate

HandleRequestVoteResponse(m) ==
  LET i == m.to
      counts == ElectionGoesOn(i, m)
  IN  /\ m.type = "RequestVoteReply"
      /\ InFlight(rpcs \ {m})
      /\ \/ /\ counts /\ m.VoteGranted
            /\ grantedVotes' = [grantedVotes EXCEPT ![i] = @ + 1]
            /\ IF grantedVotes[i] + 1 > Cardinality(Server) \div 2
                 THEN becomeLeader(i)
                 ELSE UNCHANGED <<state, nextIndex, matchIndex>>
            /\ UNCHANGED <<hardState, commitIndex, persister>>
         \/ /\ counts /\ ~m.VoteGranted /\ m.Term > currentTerm[i]
            /\ stepDown(i, m.Term)
            /\ UNCHANGED grantedVotes
         \/ /\ ~counts \/ (~m.VoteGranted /\ m.Term <= currentTerm[i])
            /\ UNCHANGED <<state, hardState, persister, commitIndex,
                           nextIndex, matchIndex, grantedVotes>>
      /\ UNCHANGED <<snapCh, crashes>>

-----------------------------------------------------------------------------
(* Replication.                                                            *)

(* Start: appendNewEntry, which writes rf.logs but never calls persist().  *)
(* The signal to the replicators is a ReplicateOneRound step.              *)
Start(i) ==
  LET newLog == [Index |-> Last(logs[i]) + 1, Term |-> currentTerm[i]]
  IN  /\ state[i] = Leader
      /\ newLog.Index <= MaxLogIndex
      /\ Cardinality({ k \in 1 .. Len(logs[i]) : logs[i][k].Term = newLog.Term }) < MaxPerTerm
      /\ logs' = [logs EXCEPT ![i] = Append(@, newLog)]
      /\ matchIndex' = [matchIndex EXCEPT ![i][i] = newLog.Index]
      /\ nextIndex' = [nextIndex EXCEPT ![i][i] = newLog.Index + 1]
      /\ UNCHANGED <<state, currentTerm, votedFor, commitIndex, grantedVotes, snapCh,
                     persister, rpcs, crashes>>

AppendEntriesRequest(i, p, prevLogIndex) ==
  [type |-> "AppendEntries", from |-> i, to |-> p, Term |-> currentTerm[i],
   PrevLogIndex |-> prevLogIndex, PrevLogTerm |-> TermAt(logs[i], prevLogIndex),
   Entries |-> From(logs[i], prevLogIndex + 1), LeaderCommit |-> commitIndex[i]]

(* The snapshot sent is the one the persister holds.                       *)
InstallSnapshotRequest_LastTerm(i, p) ==  \* mutant: the term of the wrong entry
  [type |-> "InstallSnapshot", from |-> i, to |-> p, Term |-> currentTerm[i],
   LastIncludedIndex |-> First(logs[i]), LastIncludedTerm |-> currentTerm[i],
   Data |-> snapshot[i]]
InstallSnapshotRequest(i, p) ==
  [type |-> "InstallSnapshot", from |-> i, to |-> p, Term |-> currentTerm[i],
   LastIncludedIndex |-> First(logs[i]), LastIncludedTerm |-> getFirstLog(logs[i]).Term,
   Data |-> snapshot[i]]

(* replicateOneRound up to the Call: a heartbeat or a replicator's round.  *)
ReplicateOneRound(i, p) ==
  LET prevLogIndex == nextIndex[i][p] - 1
      request == IF prevLogIndex < First(logs[i])
                   THEN InstallSnapshotRequest(i, p)
                   ELSE AppendEntriesRequest(i, p, prevLogIndex)
  IN  /\ state[i] = Leader
      /\ p # i
      /\ InFlight(rpcs \cup {request})
      /\ UNCHANGED <<volatile, hardState, persister, crashes>>

(* The fields of the request that the reply's closure still reads.         *)
AppendEntriesResponse(m, term, success, conflictIndex, conflictTerm) ==
  [type |-> "AppendEntriesReply", from |-> m.to, to |-> m.from,
   reqTerm |-> m.Term, PrevLogIndex |-> m.PrevLogIndex, NumEntries |-> Len(m.Entries),
   Term |-> term, Success |-> success,
   ConflictIndex |-> conflictIndex, ConflictTerm |-> conflictTerm]

(* A request from a past term.  ConflictIndex and ConflictTerm stay 0.     *)
AppendEntriesStale(i, m) ==
  /\ m.Term < currentTerm[i]
  /\ AnswerOne(m, AppendEntriesResponse(m, currentTerm[i], FALSE, 0, 0))
  /\ UNCHANGED <<state, currentTerm, votedFor, logs, commitIndex>>

(* The log begins above PrevLogIndex: a snapshot has overtaken the         *)
(* request.  Here too the answer's ConflictIndex and ConflictTerm are 0.   *)
AppendEntriesBelowFirst(i, m) ==
  /\ m.PrevLogIndex < First(logs[i])
  /\ AnswerOne(m, AppendEntriesResponse(m, m.Term, FALSE, 0, 0))
  /\ UNCHANGED <<logs, commitIndex>>

AppendEntriesMismatch(i, m) ==
  /\ m.PrevLogIndex >= First(logs[i])
  /\ ~matchLog(logs[i], m.PrevLogTerm, m.PrevLogIndex)
  /\ \/ /\ Last(logs[i]) < m.PrevLogIndex
        /\ AnswerOne(m, AppendEntriesResponse(m, m.Term, FALSE, Last(logs[i]) + 1, NoConflict))
     \/ /\ Last(logs[i]) >= m.PrevLogIndex
        /\ \E index \in ConflictIndexes(logs[i], m.PrevLogIndex) :
             AnswerOne(m, AppendEntriesResponse(m, m.Term, FALSE, index,
                                          TermAt(logs[i], m.PrevLogIndex)))
  /\ UNCHANGED <<logs, commitIndex>>

AppendEntriesMatch(i, m) ==
  /\ matchLog(logs[i], m.PrevLogTerm, m.PrevLogIndex)
  /\ \E k \in FirstLacking(logs[i], m.Entries) :
       LET merged == Merge(logs[i], m.Entries, k)
       IN  /\ logs' = [logs EXCEPT ![i] = merged]
           /\ advanceCommitIndexForFollower(i, merged, m.LeaderCommit)
  /\ AnswerOne(m, AppendEntriesResponse(m, m.Term, TRUE, 0, 0))

AppendEntries(m) ==
  LET i == m.to
  IN  /\ m.type = "AppendEntries"
      /\ \/ AppendEntriesStale(i, m)
         \/ /\ m.Term >= currentTerm[i]
            /\ catchUp(i, m.Term)
            /\ ChangeState(i, Follower)
            /\ \/ AppendEntriesBelowFirst(i, m)
               \/ AppendEntriesMismatch(i, m)
               \/ AppendEntriesMatch(i, m)
      /\ UNCHANGED <<nextIndex, matchIndex, grantedVotes, snapCh, crashes>>
      /\ persist(i)

(* handleAppendEntriesResponse.  m.PrevLogIndex + m.NumEntries is what the *)
(* request said, however old it is.                                        *)
HandleAppendEntriesResponse(m) ==
  LET i == m.to
      p == m.from
      counts == state[i] = Leader /\ currentTerm[i] = m.reqTerm
      match == [matchIndex[i] EXCEPT ![p] = m.PrevLogIndex + m.NumEntries]
  IN  /\ m.type = "AppendEntriesReply"
      /\ ConsumeOne(m)
      /\ \/ /\ counts /\ m.Success
            /\ matchIndex' = [matchIndex EXCEPT ![i] = match]
            /\ nextIndex' = [nextIndex EXCEPT ![i][p] = match[p] + 1]
            /\ advanceCommitIndexForLeader(i, match)
            /\ UNCHANGED <<state, hardState, persister>>
         \/ /\ counts /\ ~m.Success /\ m.Term > currentTerm[i]
            /\ stepDown(i, m.Term)
         \/ /\ counts /\ ~m.Success /\ m.Term = currentTerm[i]
            /\ \E next \in BackOffs(logs[i], m.PrevLogIndex, m.ConflictTerm, m.ConflictIndex) :
                 nextIndex' = [nextIndex EXCEPT ![i][p] = next]
            /\ UNCHANGED <<state, hardState, persister, matchIndex, commitIndex>>
         \/ /\ ~counts \/ (~m.Success /\ m.Term < currentTerm[i])
            /\ UNCHANGED <<state, hardState, persister, nextIndex, matchIndex,
                           commitIndex>>
      /\ UNCHANGED <<grantedVotes, snapCh, crashes>>

-----------------------------------------------------------------------------
(* Snapshots.                                                              *)

(* The reply carries the term the peer had before it adopted the leader's. *)
InstallSnapshotResponse(m, term) ==
  [type |-> "InstallSnapshotReply", from |-> m.to, to |-> m.from,
   reqTerm |-> m.Term, LastIncludedIndex |-> m.LastIncludedIndex, Term |-> term]

(* A snapshot that is news goes to the service, by a goroutine that waits  *)
(* for applyCh; rf.logs only changes when the service comes back.          *)
InstallSnapshot(m) ==
  LET i == m.to
      msg == [SnapshotIndex |-> m.LastIncludedIndex, SnapshotTerm |-> m.LastIncludedTerm,
              Snapshot |-> m.Data]
  IN  /\ m.type = "InstallSnapshot"
      /\ AnswerOne(m, InstallSnapshotResponse(m, currentTerm[i]))
      /\ \/ /\ m.Term < currentTerm[i]
            /\ UNCHANGED <<state, currentTerm, votedFor, snapCh>>
         \/ /\ m.Term >= currentTerm[i]
            /\ catchUp(i, m.Term)
            /\ ChangeState(i, Follower)
            /\ snapCh' = IF m.LastIncludedIndex > commitIndex[i]
                           THEN [snapCh EXCEPT ![i] = @ \cup {msg}]
                           ELSE snapCh
      /\ UNCHANGED <<logs, commitIndex, nextIndex, matchIndex, grantedVotes, crashes>>
      /\ IF m.Term > currentTerm[i] THEN persist(i) ELSE UNCHANGED persister

(* matchIndex counts the snapshot as replicated although the follower may  *)
(* not have installed it yet.                                              *)
HandleInstallSnapshotResponse(m) ==
  LET i == m.to
      p == m.from
      counts == state[i] = Leader /\ currentTerm[i] = m.reqTerm
  IN  /\ m.type = "InstallSnapshotReply"
      /\ ConsumeOne(m)
      /\ \/ /\ counts /\ m.Term > currentTerm[i]
            /\ stepDown(i, m.Term)
         \/ /\ counts /\ m.Term <= currentTerm[i]
            /\ matchIndex' = [matchIndex EXCEPT ![i][p] = m.LastIncludedIndex]
            /\ nextIndex' = [nextIndex EXCEPT ![i][p] = m.LastIncludedIndex + 1]
            /\ UNCHANGED <<state, hardState, persister, commitIndex>>
         \/ /\ ~counts
            /\ UNCHANGED <<state, hardState, persister, nextIndex, matchIndex,
                           commitIndex>>
      /\ UNCHANGED <<grantedVotes, snapCh, crashes>>

(* The service takes a snapshot off applyCh and asks whether to use it: no *)
(* if commitIndex has reached it in the meantime.                          *)
CondInstallSnapshot_Always(i, msg) ==  \* mutant: commitIndex is not asked
  /\ UNCHANGED <<state, currentTerm, votedFor, nextIndex, matchIndex, grantedVotes, rpcs, crashes>>
  /\ snapCh' = [snapCh EXCEPT ![i] = @ \ {msg}]
  /\ logs' = [logs EXCEPT ![i] = Trimmed(@, msg.SnapshotIndex, msg.SnapshotTerm)]
  /\ commitTo(i, msg.SnapshotIndex)
  /\ SaveStateAndSnapshot(i, msg.Snapshot)
CondInstallSnapshot(i, msg) ==
  LET log == Trimmed(logs[i], msg.SnapshotIndex, msg.SnapshotTerm)
  IN  /\ snapCh' = [snapCh EXCEPT ![i] = @ \ {msg}]
      /\ UNCHANGED <<state, currentTerm, votedFor, nextIndex, matchIndex, grantedVotes,
                     rpcs, crashes>>
      /\ IF msg.SnapshotIndex <= commitIndex[i]
           THEN UNCHANGED <<logs, commitIndex, persister>>
           ELSE /\ logs' = [logs EXCEPT ![i] = log]
                /\ commitTo(i, msg.SnapshotIndex)
                /\ SaveStateAndSnapshot(i, msg.Snapshot)

(* Snapshot(index): the service has applied everything up to index, which  *)
(* takes it no further than commitIndex.  At or below the placeholder the  *)
(* call does nothing, beyond the log it would panic.                       *)
Snapshot(i, index) ==
  /\ First(logs[i]) < index /\ index <= commitIndex[i]
  /\ index <= Last(logs[i])
  /\ index <= MaxSnapshotIndex
  /\ logs' = [logs EXCEPT ![i] = From(@, index)]
  /\ UNCHANGED <<volatile, currentTerm, votedFor, rpcs, crashes>>
  /\ SaveStateAndSnapshot(i, index)

-----------------------------------------------------------------------------
(* The environment.                                                        *)

(* Kill, then Make on what the persister holds: everything else starts     *)
(* over, and the closures that waited for replies are gone.                *)
Restart(i) ==
  LET saved == stable[i]
  IN  /\ crashes < MaxCrashes
      /\ crashes' = crashes + 1
      /\ state' = [state EXCEPT ![i] = Follower]
      /\ currentTerm' = [currentTerm EXCEPT ![i] = saved.currentTerm]
      /\ votedFor' = [votedFor EXCEPT ![i] = saved.votedFor]
      /\ logs' = [logs EXCEPT ![i] = saved.logs]
      /\ commitIndex' = [commitIndex EXCEPT ![i] = First(saved.logs)]
      /\ nextIndex' = [nextIndex EXCEPT ![i] = [p \in Server |-> Last(saved.logs) + 1]]
      /\ matchIndex' = [matchIndex EXCEPT ![i] = [p \in Server |-> 0]]
      /\ grantedVotes' = [grantedVotes EXCEPT ![i] = 0]
      /\ snapCh' = [snapCh EXCEPT ![i] = {}]
      /\ rpcs' = { m \in rpcs : m.to = i => m.type \in Requests }
      /\ UNCHANGED persister

(* labrpc loses a request or a reply.                                      *)
Drop(m) ==
  /\ rpcs' = rpcs \ {m}
  /\ UNCHANGED <<volatile, hardState, persister, crashes>>

-----------------------------------------------------------------------------
Receive(m) ==
  \/ RequestVote(m)
  \/ HandleRequestVoteResponse(m)
  \/ AppendEntries(m)
  \/ HandleAppendEntriesResponse(m)
  \/ InstallSnapshot(m)
  \/ HandleInstallSnapshotResponse(m)

Next ==
  \/ \E i \in Server : StartElection(i)
  \/ \E i \in Server : Start(i)
  \/ \E i, p \in Server : ReplicateOneRound(i, p)
  \/ \E i \in Server : \E msg \in snapCh[i] : CondInstallSnapshot(i, msg)
  \/ \E i \in Server : \E index \in 1 .. MaxSnapshotIndex : Snapshot(i, index)
  \/ \E i \in Server : Restart(i)
  \/ \E m \in rpcs : Receive(m)
  \/ \E m \in rpcs : Drop(m)

Spec == Init /\ [][Next]_vars

-----------------------------------------------------------------------------
(* The type invariant.                                                     *)

Message ==
  [type : {"RequestVote"}, from : Server, to : Server, Term : Nat,
   LastLogIndex : Nat, LastLogTerm : Nat]
  \cup
  [type : {"RequestVoteReply"}, from : Server, to : Server, reqTerm : Nat,
   Term : Nat, VoteGranted : BOOLEAN]
  \cup
  [type : {"AppendEntries"}, from : Server, to : Server, Term : Nat,
   PrevLogIndex : Nat, PrevLogTerm : Nat, Entries : Seq(Entry), LeaderCommit : Nat]
  \cup
  [type : {"AppendEntriesReply"}, from : Server, to : Server, reqTerm : Nat,
   PrevLogIndex : Nat, NumEntries : Nat, Term : Nat, Success : BOOLEAN,
   ConflictIndex : Int, ConflictTerm : Nat \cup {NoConflict}]
  \cup
  [type : {"InstallSnapshot"}, from : Server, to : Server, Term : Nat,
   LastIncludedIndex : Nat, LastIncludedTerm : Nat, Data : Nat]
  \cup
  [type : {"InstallSnapshotReply"}, from : Server, to : Server, reqTerm : Nat,
   LastIncludedIndex : Nat, Term : Nat]

(* Every variable has its type; what a peer and its persister hold as logs *)
(* are logs without a gap.                                                 *)
TypeOK ==
  /\ state \in [Server -> {Follower, Candidate, Leader}]
  /\ currentTerm \in [Server -> Nat]
  /\ votedFor \in [Server -> Server \cup {None}]
  /\ logs \in [Server -> Seq(Entry)]
  /\ commitIndex \in [Server -> Nat]
  /\ nextIndex \in [Server -> [Server -> Int]]
  /\ matchIndex \in [Server -> [Server -> Nat]]
  /\ grantedVotes \in [Server -> Nat]
  /\ snapCh \in [Server -> SUBSET [SnapshotIndex : Nat, SnapshotTerm : Nat, Snapshot : Nat]]
  /\ stable \in [Server -> [currentTerm : Nat, votedFor : Server \cup {None}, logs : Seq(Entry)]]
  /\ snapshot \in [Server -> Nat]
  /\ rpcs \subseteq Message
  /\ crashes \in Nat
  /\ \A i \in Server : IsLog(logs[i]) /\ IsLog(stable[i].logs)

-----------------------------------------------------------------------------
(* Properties of a peer and of pairs of peers.                             *)

(* Two logs that hold an entry of the same index and term agree on every   *)
(* index below it that both still hold (lab2B/README.md, the consistency   *)
(* of logs).  AppendEntries keeps this by its check of the previous entry. *)
Both(log1, log2) == { k \in First(log1) .. Last(log1) : First(log2) <= k /\ k <= Last(log2) }

LogMatching ==
  \A i, j \in Server : LET shared == Both(logs[i], logs[j]) IN
    \A k \in shared :
      TermAt(logs[i], k) = TermAt(logs[j], k) =>
        \A l \in shared : l < k => TermAt(logs[i], l) = TermAt(logs[j], l)

(* No slice of rf.logs goes out of range: not the applier's, which reaches *)
(* from the placeholder to commitIndex, nor the leader's, which starts at  *)
(* nextIndex of a peer.                                                    *)
SlicesInRange ==
  \A i \in Server :
    /\ First(logs[i]) <= commitIndex[i] /\ commitIndex[i] <= Last(logs[i])
    /\ state[i] = Leader =>
         \A p \in Server : 0 <= nextIndex[i][p] /\ nextIndex[i][p] <= Last(logs[i]) + 1

(* What a leader counts as replicated on another peer, above what its own  *)
(* snapshot covers, is on that peer's disk for as long as the peer has     *)
(* seen no later term: a follower answers an AppendEntries after           *)
(* persist(), so that a crash takes nothing back that the leader builds    *)
(* commitIndex on.  (Of itself this is not true: Start does not persist.)  *)
AcksAreDurable ==
  \A i \in Server : state[i] = Leader =>
    \A p \in Server \ {i} : stable[p].currentTerm = currentTerm[i] =>
      \A k \in First(logs[i]) + 1 .. matchIndex[i][p] :
        \/ k < First(stable[p].logs)
        \/ matchLog(stable[p].logs, TermAt(logs[i], k), k)

(* The service snapshot on disk ends where the log on disk and the one in  *)
(* memory begin: a restarted service and a follower that is sent the       *)
(* snapshot find neither a gap nor an entry applied twice.                 *)
SnapshotMeetsLog ==
  \A i \in Server :
    /\ snapshot[i] = First(stable[i].logs)
    /\ snapshot[i] = First(logs[i])

(* A peer's term never goes back, and within a term its vote, once given,  *)
(* stays: through every handler and through crashes.                       *)
VoteKept(i) ==
  /\ currentTerm'[i] >= currentTerm[i]
  /\ currentTerm'[i] = currentTerm[i] => votedFor[i] \in {None, votedFor'[i]}

VotesKept == [][\A i \in Server : VoteKept(i)]_vars

(* As long as a peer does not crash, commitIndex never goes back, and the  *)
(* entries it covers stay what they were until a snapshot replaces them.   *)
CommitKept(i) ==
  \/ crashes' # crashes
  \/ /\ commitIndex'[i] >= commitIndex[i]
     /\ \A k \in Both(logs[i], logs'[i]) :
          k <= commitIndex[i] => TermAt(logs[i], k) = TermAt(logs'[i], k)

CommitsKept == [][\A i \in Server : CommitKept(i)]_vars

=============================================================================
