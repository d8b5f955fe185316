----------------------------- MODULE RaftProofs -----------------------------
(***************************************************************************)
(* Type correctness of Raft, for every set of peers and every bound.  It   *)
(* is not inductive by itself: the leader indexes its log at               *)
(* nextIndex[p] - 1, so it also has to be shown that no reply, however     *)
(* late, takes nextIndex beyond the log it has now.                        *)
(*                                                                         *)
(* Then the snapshots: the one on disk ends where the logs begin, and with *)
(* a committed entry, through elections, installed snapshots and crashes.  *)
(*                                                                         *)
(* And the elections.  A leader has counted a majority, so it has to be    *)
(* shown that what it counts are votes of the term it is in, and of        *)
(* different peers: the counter of an election never exceeds the number of *)
(* peers that voted for the candidate and whose answer is not in flight    *)
(* any more.                                                               *)
(***************************************************************************)
EXTENDS RaftVotes, RaftCommits, RaftLogProofs, FiniteSetTheorems

(* What a message keeps of the request it belongs to: who sent the request, *)
(* in which term, and up to which index it spoke of the sender's log.      *)
RoundTypes == {"AppendEntries", "AppendEntriesReply", "InstallSnapshot", "InstallSnapshotReply"}

Sender(m)   == IF m.type \in Requests THEN m.from ELSE m.to
SentTerm(m) == IF m.type \in Requests THEN m.Term ELSE m.reqTerm
Reach(m) ==
  CASE m.type = "AppendEntries"      -> m.PrevLogIndex + Len(m.Entries)
    [] m.type = "AppendEntriesReply" -> m.PrevLogIndex + m.NumEntries
    [] OTHER                         -> m.LastIncludedIndex

(* A round's message is from a term its sender led and has reached, and as *)
(* long as the sender leads that term its log reaches as far.              *)
FromLeader(i, term, reach) ==
  /\ term <= currentTerm[i]
  /\ term = currentTerm[i] =>
       /\ state[i] # Candidate
       /\ state[i] = Leader => reach <= Last(logs[i])

SentByLeader(m) == FromLeader(Sender(m), SentTerm(m), Reach(m))

MessageShape(m) ==
  /\ m.type = "AppendEntries" => Follow(m.Entries, m.PrevLogIndex)
  /\ m.type = "AppendEntriesReply" => m.ConflictIndex <= m.PrevLogIndex

MessageOK(m) == MessageShape(m) /\ (m.type \in RoundTypes => SentByLeader(m))
MessagesOK   == \A m \in rpcs : MessageOK(m)

TermPersisted  == \A i \in Server : stable[i].currentTerm = currentTerm[i]
FirstCommitted == \A i \in Server : First(logs[i]) <= commitIndex[i]
NextInLog ==
  \A i \in Server : state[i] = Leader =>
    \A p \in Server : nextIndex[i][p] <= Last(logs[i]) + 1

IInv == TypeOK /\ MessagesOK /\ TermPersisted /\ FirstCommitted /\ NextInLog

-----------------------------------------------------------------------------
(* The fields of each kind of message.                                     *)
LEMMA MessageFields ==
  ASSUME NEW m \in Message
  PROVE  /\ m.from \in Server /\ m.to \in Server
         /\ m.type \in Requests => m.Term \in Nat
         /\ m.type \notin Requests => m.reqTerm \in Nat /\ m.Term \in Nat
         /\ m.type = "RequestVote" => m.LastLogIndex \in Nat /\ m.LastLogTerm \in Nat
         /\ m.type = "RequestVoteReply" => m.VoteGranted \in BOOLEAN
         /\ m.type = "AppendEntries" =>
              /\ m.PrevLogIndex \in Nat /\ m.PrevLogTerm \in Nat
              /\ m.Entries \in Seq(Entry) /\ m.LeaderCommit \in Nat
         /\ m.type = "AppendEntriesReply" =>
              /\ m.PrevLogIndex \in Nat /\ m.NumEntries \in Nat /\ m.Success \in BOOLEAN
              /\ m.ConflictIndex \in Int /\ m.ConflictTerm \in Nat \cup {NoConflict}
         /\ m.type = "InstallSnapshot" =>
              m.LastIncludedIndex \in Nat /\ m.LastIncludedTerm \in Nat /\ m.Data \in Nat
         /\ m.type = "InstallSnapshotReply" => m.LastIncludedIndex \in Nat
  BY DEF Message, Requests

(* A message of a round and the sender's own steps: a new term leaves the  *)
(* message behind, a candidate has sent none, a leader's log only grows.   *)
SenderStep(i) ==
  \/ currentTerm'[i] > currentTerm[i]
  \/ /\ currentTerm'[i] = currentTerm[i]
     /\ \/ state'[i] = Follower
        \/ state[i] = Candidate
        \/ state'[i] = state[i] /\ Last(logs'[i]) >= Last(logs[i])

LEMMA ReachInt ==
  ASSUME NEW m \in Message, m.type \in RoundTypes
  PROVE  Reach(m) \in Nat /\ Sender(m) \in Server /\ SentTerm(m) \in Nat
  <1>1. m.type = "AppendEntries" => Len(m.Entries) \in Nat
    BY MessageFields, LenProperties
  <1> QED
    BY <1>1, MessageFields DEF Reach, Sender, SentTerm, RoundTypes, Requests

LEMMA FromLeaderKept ==
  ASSUME TypeOK, NEW i \in Server, NEW term \in Nat, NEW reach \in Nat,
         FromLeader(i, term, reach),
         currentTerm'[i] \in Nat, IsLog(logs'[i]), SenderStep(i)
  PROVE  FromLeader(i, term, reach)'
  <1>1. currentTerm[i] \in Nat /\ IsLog(logs[i])
    BY DEF TypeOK
  <1>2. Last(logs[i]) \in Nat /\ Last(logs'[i]) \in Nat
    BY <1>1, LogEnds
  <1> QED
    BY <1>1, <1>2 DEF FromLeader, SenderStep, Follower, Candidate, Leader

(* So every message in flight stays as it should be.                       *)
LEMMA MessagesKept ==
  ASSUME TypeOK, MessagesOK, currentTerm' \in [Server -> Nat],
         \A i \in Server : IsLog(logs'[i]), \A i \in Server : SenderStep(i)
  PROVE  \A m \in rpcs : MessageOK(m)'
  <1> TAKE m \in rpcs
  <1>1. MessageOK(m) /\ m \in Message
    BY DEF MessagesOK, TypeOK
  <1>2. MessageShape(m)'
    BY <1>1 DEF MessageOK, MessageShape
  <1>3. ASSUME m.type \in RoundTypes PROVE SentByLeader(m)'
    <2>1. Sender(m) \in Server /\ SentTerm(m) \in Nat /\ Reach(m) \in Nat
      BY <1>1, <1>3, ReachInt
    <2>2. FromLeader(Sender(m), SentTerm(m), Reach(m))
      BY <1>1, <1>3 DEF MessageOK, SentByLeader
    <2>3. FromLeader(Sender(m), SentTerm(m), Reach(m))'
      BY <2>1, <2>2, FromLeaderKept
    <2> QED
      BY <2>3 DEF SentByLeader
  <1> QED
    BY <1>2, <1>3 DEF MessageOK

LEMMA PeerStands ==
  ASSUME TypeOK, NEW j \in Server, currentTerm'[j] = currentTerm[j],
         state'[j] = state[j], logs'[j] = logs[j]
  PROVE  SenderStep(j)
  <1>1. Last(logs[j]) \in Nat
    BY LogEnds DEF TypeOK
  <1> QED
    BY <1>1 DEF SenderStep

(* What is written to the persister has the type of what is in memory.     *)
StableOK ==
  /\ stable \in [Server -> [currentTerm : Nat, votedFor : Server \cup {None}, logs : Seq(Entry)]]
  /\ \A j \in Server : IsLog(stable[j].logs)
  /\ TermPersisted

LEMMA PersistedOK ==
  ASSUME TypeOK, TermPersisted, NEW i \in Server,
         stable' = [stable EXCEPT ![i] = Encoded(i)],
         currentTerm' \in [Server -> Nat], votedFor' \in [Server -> Server \cup {None}],
         logs' \in [Server -> Seq(Entry)], \A j \in Server : IsLog(logs'[j]),
         \A j \in Server \ {i} : currentTerm'[j] = currentTerm[j]
  PROVE  StableOK'
  <1> DEFINE T == [currentTerm : Nat, votedFor : Server \cup {None}, logs : Seq(Entry)]
  <1>1. Encoded(i) \in T /\ Encoded(i).currentTerm = currentTerm'[i]
        /\ Encoded(i).logs = logs'[i]
    BY DEF Encoded
  <1>2. stable \in [Server -> T]
    BY DEF TypeOK
  <1> HIDE DEF T
  <1>3. stable' \in [Server -> T] /\ stable'[i] = Encoded(i)
        /\ \A j \in Server \ {i} : stable'[j] = stable[j]
    BY <1>1, <1>2
  <1>4. \A j \in Server : IsLog(stable'[j].logs)
    BY <1>1, <1>3 DEF TypeOK
  <1>5. TermPersisted'
    BY <1>1, <1>3 DEF TermPersisted
  <1> QED
    BY <1>3, <1>4, <1>5 DEF StableOK, T

-----------------------------------------------------------------------------
(* One lemma per action.                                                   *)
LEMMA InitOK == Init => IInv
  <1> SUFFICES ASSUME Init PROVE IInv
    OBVIOUS
  <1>1. IsLog(EmptyLog) /\ EmptyLog \in Seq(Entry) /\ First(EmptyLog) = 0 /\ Last(EmptyLog) = 0
    BY DEF EmptyLog, IsLog, Follow, First, Last, getFirstLog, getLastLog, Entry
  <1> HIDE DEF EmptyLog
  <1>2. TypeOK
    BY <1>1 DEF Init, TypeOK, Follower, Candidate, Leader
  <1>3. MessagesOK
    BY DEF Init, MessagesOK
  <1>4. TermPersisted /\ FirstCommitted /\ NextInLog
    BY <1>1 DEF Init, TermPersisted, FirstCommitted, NextInLog, Follower, Leader
  <1> QED
    BY <1>2, <1>3, <1>4 DEF IInv

LEMMA StartElectionOK ==
  ASSUME IInv, NEW i \in Server, StartElection(i)
  PROVE  IInv'
  <1> DEFINE term == currentTerm[i] + 1
             requests == { RequestVoteRequest(i, p, term) : p \in Server \ {i} }
  <1>1. TypeOK /\ MessagesOK /\ TermPersisted /\ FirstCommitted /\ NextInLog
    BY DEF IInv
  <1>2. term \in Nat /\ IsLog(logs[i])
    BY <1>1 DEF TypeOK
  <1>3. /\ state' = [state EXCEPT ![i] = Candidate]
        /\ currentTerm' = [currentTerm EXCEPT ![i] = term]
        /\ votedFor' = [votedFor EXCEPT ![i] = i]
        /\ grantedVotes' = [grantedVotes EXCEPT ![i] = 1]
        /\ rpcs' = rpcs \cup requests
        /\ UNCHANGED <<logs, commitIndex, nextIndex, matchIndex, snapCh, crashes, snapshot>>
        /\ stable' = [stable EXCEPT ![i] = Encoded(i)]
    BY DEF StartElection, ChangeState, InFlight, persist
  <1>4. \A m \in requests : m \in Message /\ m.type = "RequestVote"
    <2>1. Last(logs[i]) \in Nat /\ getLastLog(logs[i]).Term \in Nat
      BY <1>2, LogEnds, LastTerm
    <2> QED
      BY <1>2, <2>1 DEF RequestVoteRequest, Message
  <1> HIDE DEF requests
  <1>5. /\ currentTerm' \in [Server -> Nat]
        /\ votedFor' \in [Server -> Server \cup {None}]
        /\ logs' \in [Server -> Seq(Entry)]
        /\ \A j \in Server : IsLog(logs'[j])
        /\ \A j \in Server \ {i} : currentTerm'[j] = currentTerm[j]
    BY <1>1, <1>2, <1>3 DEF TypeOK
  <1>6. StableOK'
    BY <1>1, <1>3, <1>5, PersistedOK
  <1>7. TypeOK'
    BY <1>1, <1>3, <1>4, <1>5, <1>6 DEF TypeOK, StableOK
  <1>8. \A j \in Server : SenderStep(j)
    <2> TAKE j \in Server
    <2>1. CASE j = i
      BY <1>1, <1>2, <1>3, <2>1 DEF SenderStep, TypeOK
    <2>2. CASE j # i
      BY <1>1, <1>3, <2>2, PeerStands DEF TypeOK
    <2> QED
      BY <2>1, <2>2
  <1>9. MessagesOK'
    <2>1. \A m \in rpcs : MessageOK(m)'
      BY <1>1, <1>5, <1>8, MessagesKept
    <2>2. \A m \in requests : MessageOK(m)'
      BY <1>4 DEF MessageOK, MessageShape, RoundTypes
    <2> QED
      BY <1>3, <2>1, <2>2 DEF MessagesOK
  <1>10. FirstCommitted' /\ NextInLog'
    BY <1>1, <1>3 DEF FirstCommitted, NextInLog, TypeOK, Candidate, Leader
  <1> QED
    BY <1>6, <1>7, <1>9, <1>10 DEF IInv, StableOK

(* What is left to show of a step once its variables have their types.     *)
LEMMA StepOK ==
  ASSUME IInv, TypeOK', TermPersisted', FirstCommitted', NextInLog',
         \A j \in Server : SenderStep(j),
         \A m \in rpcs' \ rpcs : MessageOK(m)'
  PROVE  IInv'
  <1>1. TypeOK /\ MessagesOK
    BY DEF IInv
  <1>2. currentTerm' \in [Server -> Nat] /\ \A i \in Server : IsLog(logs'[i])
    BY DEF TypeOK
  <1>3. \A m \in rpcs : MessageOK(m)'
    BY <1>1, <1>2, MessagesKept
  <1>4. MessagesOK'
    BY <1>3 DEF MessagesOK
  <1> QED
    BY <1>4 DEF IInv

(* A step that changes nothing but the messages in flight.                 *)
LEMMA QuietOK ==
  ASSUME IInv, rpcs' \subseteq rpcs,
         UNCHANGED <<state, currentTerm, votedFor, logs, commitIndex, nextIndex, matchIndex,
                     stable, snapshot>>,
         grantedVotes' \in [Server -> Nat], crashes' \in Nat,
         snapCh' \in [Server -> SUBSET [SnapshotIndex : Nat, SnapshotTerm : Nat, Snapshot : Nat]]
  PROVE  IInv'
  <1>1. TypeOK' /\ TermPersisted' /\ FirstCommitted' /\ NextInLog'
    BY DEF IInv, TypeOK, TermPersisted, FirstCommitted, NextInLog
  <1>2. \A j \in Server : SenderStep(j)
    BY PeerStands DEF IInv
  <1> QED
    BY <1>1, <1>2, StepOK

LEMMA StepDownOK ==
  ASSUME IInv, NEW i \in Server, NEW term \in Nat, term > currentTerm[i],
         stepDown(i, term), rpcs' \subseteq rpcs, UNCHANGED <<grantedVotes, snapCh, crashes>>
  PROVE  IInv'
  <1>1. TypeOK /\ TermPersisted /\ FirstCommitted /\ NextInLog
    BY DEF IInv
  <1>2. /\ state' = [state EXCEPT ![i] = Follower]
        /\ currentTerm' = [currentTerm EXCEPT ![i] = term]
        /\ votedFor' = [votedFor EXCEPT ![i] = None]
        /\ UNCHANGED <<logs, commitIndex, nextIndex, matchIndex, snapshot>>
        /\ stable' = [stable EXCEPT ![i] = Encoded(i)]
    BY DEF stepDown, ChangeState, adoptTerm, persist
  <1>3. /\ currentTerm' \in [Server -> Nat]
        /\ votedFor' \in [Server -> Server \cup {None}]
        /\ logs' \in [Server -> Seq(Entry)]
        /\ \A j \in Server : IsLog(logs'[j])
        /\ \A j \in Server \ {i} : currentTerm'[j] = currentTerm[j]
    BY <1>1, <1>2 DEF TypeOK
  <1>4. StableOK'
    BY <1>1, <1>2, <1>3, PersistedOK
  <1>5. TypeOK'
    BY <1>1, <1>2, <1>3, <1>4 DEF TypeOK, StableOK
  <1>6. \A j \in Server : SenderStep(j)
    <2> TAKE j \in Server
    <2>1. CASE j = i
      BY <1>1, <1>2, <2>1 DEF SenderStep, TypeOK
    <2>2. CASE j # i
      BY <1>1, <1>2, <2>2, PeerStands DEF TypeOK
    <2> QED
      BY <2>1, <2>2
  <1>7. FirstCommitted' /\ NextInLog'
    BY <1>1, <1>2 DEF FirstCommitted, NextInLog, TypeOK, Follower, Leader
  <1> QED
    BY <1>4, <1>5, <1>6, <1>7, StepOK DEF StableOK

LEMMA RequestVoteOK ==
  ASSUME IInv, NEW m \in rpcs, RequestVote(m)
  PROVE  IInv'
  <1> DEFINE i == m.to
  <1>1. TypeOK /\ TermPersisted /\ FirstCommitted /\ NextInLog
    BY DEF IInv
  <1>2. /\ m \in Message /\ m.type = "RequestVote" /\ m.from \in Server /\ i \in Server
        /\ m.Term \in Nat /\ currentTerm[i] \in Nat
    BY <1>1, MessageFields DEF TypeOK, RequestVote, Requests
  <1>3. /\ UNCHANGED <<logs, commitIndex, nextIndex, matchIndex, grantedVotes, snapCh, crashes,
                       snapshot>>
        /\ stable' = [stable EXCEPT ![i] = Encoded(i)]
    BY DEF RequestVote, persist
  <1>4. /\ \/ UNCHANGED <<state, currentTerm>>
           \/ /\ UNCHANGED state /\ m.Term = currentTerm[i]
              /\ currentTerm' = [currentTerm EXCEPT ![i] = m.Term]
           \/ /\ m.Term > currentTerm[i] /\ state' = [state EXCEPT ![i] = Follower]
              /\ currentTerm' = [currentTerm EXCEPT ![i] = m.Term]
        /\ \/ UNCHANGED votedFor
           \/ \E v \in {m.from, None} : votedFor' = [votedFor EXCEPT ![i] = v]
        /\ \E term \in {currentTerm[i], m.Term}, granted \in BOOLEAN :
             rpcs' = (rpcs \ {m}) \cup {RequestVoteResponse(m, term, granted)}
    <2>1. CASE RefusesVote(i, m)
      BY <2>1 DEF RequestVote, Answer, InFlight
    <2>2. CASE ~RefusesVote(i, m)
      <3>1. m.Term > currentTerm[i] \/ m.Term = currentTerm[i]
        BY <1>2, <2>2 DEF RefusesVote
      <3>2. IF m.Term > currentTerm[i] THEN state' = [state EXCEPT ![i] = Follower]
                                      ELSE UNCHANGED state
        BY <2>2 DEF RequestVote, ChangeState
      <3>3. CASE isLogUpToDate(logs[i], m.LastLogTerm, m.LastLogIndex)
        <4>1. /\ currentTerm' = [currentTerm EXCEPT ![i] = m.Term]
              /\ votedFor' = [votedFor EXCEPT ![i] = m.from]
              /\ rpcs' = (rpcs \ {m}) \cup {RequestVoteResponse(m, m.Term, TRUE)}
          BY <2>2, <3>3 DEF RequestVote, Answer, InFlight
        <4> QED
          BY <1>2, <3>1, <3>2, <4>1
      <3>4. CASE ~isLogUpToDate(logs[i], m.LastLogTerm, m.LastLogIndex)
        <4>1. /\ IF m.Term > currentTerm[i]
                   THEN /\ currentTerm' = [currentTerm EXCEPT ![i] = m.Term]
                        /\ votedFor' = [votedFor EXCEPT ![i] = None]
                   ELSE UNCHANGED <<currentTerm, votedFor>>
              /\ rpcs' = (rpcs \ {m}) \cup {RequestVoteResponse(m, m.Term, FALSE)}
          BY <2>2, <3>4 DEF RequestVote, Answer, InFlight, catchUp, adoptTerm
        <4> QED
          BY <1>2, <3>1, <3>2, <4>1
      <3> QED
        BY <3>3, <3>4
    <2> QED
      BY <2>1, <2>2
  <1>5. m.from \in Server /\ m.Term \in Nat
    BY <1>2
  <1> HIDE DEF i
  <1>6. /\ currentTerm' \in [Server -> Nat]
        /\ state' \in [Server -> {Follower, Candidate, Leader}]
        /\ votedFor' \in [Server -> Server \cup {None}]
        /\ \A j \in Server \ {i} : currentTerm'[j] = currentTerm[j] /\ state'[j] = state[j]
        /\ currentTerm'[i] = currentTerm[i] => state'[i] = state[i]
        /\ currentTerm'[i] >= currentTerm[i]
        /\ \A j \in Server : state'[j] = Leader => state[j] = Leader
    <2>1. /\ state \in [Server -> {Follower, Candidate, Leader}]
          /\ currentTerm \in [Server -> Nat]
          /\ votedFor \in [Server -> Server \cup {None}]
      BY <1>1 DEF TypeOK
    <2>2. votedFor' \in [Server -> Server \cup {None}]
      BY <2>1, <1>4, <1>5
    <2>3. CASE UNCHANGED <<state, currentTerm>>
      BY <2>1, <2>2, <2>3, <1>2
    <2>4. CASE /\ UNCHANGED state /\ m.Term = currentTerm[i]
               /\ currentTerm' = [currentTerm EXCEPT ![i] = m.Term]
      BY <2>1, <2>2, <2>4, <1>2
    <2>5. CASE /\ m.Term > currentTerm[i] /\ state' = [state EXCEPT ![i] = Follower]
               /\ currentTerm' = [currentTerm EXCEPT ![i] = m.Term]
      BY <2>1, <2>2, <2>5, <1>2 DEF Follower, Leader
    <2> QED
      BY <1>4, <2>3, <2>4, <2>5
  <1>7. logs' \in [Server -> Seq(Entry)] /\ \A j \in Server : IsLog(logs'[j])
    BY <1>1, <1>3 DEF TypeOK
  <1>8. StableOK'
    BY <1>1, <1>2, <1>3, <1>6, <1>7, PersistedOK
  <1>9. \A reply \in rpcs' \ rpcs : reply \in Message /\ reply.type = "RequestVoteReply"
    BY <1>2, <1>4 DEF RequestVoteResponse, Message, i
  <1>10. TypeOK'
    BY <1>1, <1>3, <1>6, <1>7, <1>8, <1>9 DEF TypeOK, StableOK
  <1>11. \A j \in Server : SenderStep(j)
    <2> TAKE j \in Server
    <2>1. CASE j = i /\ currentTerm'[i] > currentTerm[i]
      BY <2>1 DEF SenderStep
    <2>2. CASE j # i \/ currentTerm'[i] = currentTerm[i]
      BY <1>1, <1>3, <1>6, <2>2, PeerStands
    <2>3. currentTerm[i] \in Nat /\ currentTerm'[i] \in Nat
      BY <1>2, <1>6
    <2> QED
      BY <1>6, <2>1, <2>2, <2>3
  <1>12. FirstCommitted' /\ NextInLog'
    BY <1>1, <1>3, <1>6 DEF FirstCommitted, NextInLog
  <1>13. \A reply \in rpcs' \ rpcs : MessageOK(reply)'
    BY <1>9 DEF MessageOK, MessageShape, RoundTypes
  <1> QED
    BY <1>8, <1>10, <1>11, <1>12, <1>13, StepOK DEF StableOK

LEMMA HandleRequestVoteResponseOK ==
  ASSUME IInv, NEW m \in rpcs, HandleRequestVoteResponse(m)
  PROVE  IInv'
  <1> DEFINE i == m.to
  <1>1. TypeOK /\ TermPersisted /\ FirstCommitted /\ NextInLog
    BY DEF IInv
  <1>2. i \in Server /\ m.Term \in Nat
    BY <1>1, MessageFields DEF TypeOK, HandleRequestVoteResponse, Requests
  <1>3. rpcs' \subseteq rpcs /\ UNCHANGED <<snapCh, crashes>>
    BY DEF HandleRequestVoteResponse, InFlight
  <1>4. CASE ElectionGoesOn(i, m) /\ m.VoteGranted
    <2>1. /\ grantedVotes' = [grantedVotes EXCEPT ![i] = @ + 1]
          /\ IF grantedVotes[i] + 1 > Cardinality(Server) \div 2
               THEN becomeLeader(i)
               ELSE UNCHANGED <<state, nextIndex, matchIndex>>
          /\ UNCHANGED <<currentTerm, votedFor, logs, commitIndex, stable, snapshot>>
          /\ state[i] = Candidate
      BY <1>4 DEF HandleRequestVoteResponse, ElectionGoesOn, hardState, persister
    <2>2. grantedVotes' \in [Server -> Nat]
      BY <1>1, <1>2, <2>1 DEF TypeOK
    <2>3. CASE UNCHANGED <<state, nextIndex, matchIndex>>
      BY <1>1, <1>3, <2>1, <2>2, <2>3, QuietOK DEF TypeOK
    <2>4. CASE becomeLeader(i)
      <3> HIDE DEF i
      <3>1. /\ state' = [state EXCEPT ![i] = Leader]
            /\ nextIndex' = [nextIndex EXCEPT ![i] = [p \in Server |-> Last(logs[i]) + 1]]
            /\ matchIndex' = [matchIndex EXCEPT ![i] = [p \in Server |-> 0]]
        BY <2>4 DEF becomeLeader, ChangeState
      <3>2. Last(logs[i]) \in Nat
        BY <1>1, <1>2, LogEnds DEF TypeOK
      <3>3. TypeOK'
        <4>1. nextIndex' \in [Server -> [Server -> Int]] /\ matchIndex' \in [Server -> [Server -> Nat]]
          BY <1>1, <1>2, <3>1, <3>2 DEF TypeOK
        <4>2. state' \in [Server -> {Follower, Candidate, Leader}]
          BY <1>1, <3>1 DEF TypeOK
        <4> QED
          BY <1>1, <1>3, <2>1, <2>2, <4>1, <4>2 DEF TypeOK
      <3>4. \A j \in Server : SenderStep(j)
        <4> TAKE j \in Server
        <4>1. CASE j = i
          BY <1>1, <2>1, <4>1 DEF SenderStep
        <4>2. CASE j # i
          BY <1>1, <2>1, <3>1, <4>2, PeerStands DEF TypeOK
        <4> QED
          BY <4>1, <4>2
      <3>5. TermPersisted' /\ FirstCommitted'
        BY <1>1, <2>1 DEF TermPersisted, FirstCommitted
      <3>6. NextInLog'
        <4> SUFFICES ASSUME NEW j \in Server, state'[j] = Leader, NEW p \in Server
                     PROVE  nextIndex'[j][p] <= Last(logs[j]) + 1
          BY <2>1 DEF NextInLog
        <4>1. CASE j = i
          <5>1. nextIndex'[j][p] = Last(logs[i]) + 1
            BY <1>1, <3>1, <4>1 DEF TypeOK
          <5> QED
            BY <3>2, <4>1, <5>1
        <4>2. CASE j # i
          BY <1>1, <3>1, <4>2 DEF NextInLog, TypeOK
        <4> QED
          BY <4>1, <4>2
      <3> QED
        BY <1>3, <3>3, <3>4, <3>5, <3>6, StepOK
    <2> QED
      BY <2>1, <2>3, <2>4
  <1>5. CASE ElectionGoesOn(i, m) /\ ~m.VoteGranted /\ m.Term > currentTerm[i]
    <2>0. ~(m.Term <= currentTerm[i])
      BY <1>1, <1>2, <1>5 DEF TypeOK
    <2>1. stepDown(i, m.Term) /\ UNCHANGED grantedVotes
      BY <1>5, <2>0 DEF HandleRequestVoteResponse
    <2> QED
      BY <1>2, <1>3, <1>5, <2>1, StepDownOK
  <1>6. CASE ~ElectionGoesOn(i, m) \/ (~m.VoteGranted /\ m.Term <= currentTerm[i])
    <2>1. ~(m.Term > currentTerm[i] /\ m.Term <= currentTerm[i])
      BY <1>1, <1>2 DEF TypeOK
    <2>2. UNCHANGED <<state, currentTerm, votedFor, logs, commitIndex, nextIndex, matchIndex,
                      grantedVotes, stable, snapshot>>
      BY <1>6, <2>1 DEF HandleRequestVoteResponse, hardState, persister
    <2> QED
      BY <1>1, <1>3, <2>2, QuietOK DEF TypeOK
  <1>7. m.Term > currentTerm[i] \/ m.Term <= currentTerm[i]
    BY <1>1, <1>2 DEF TypeOK
  <1> QED
    BY <1>4, <1>5, <1>6, <1>7

LEMMA StartOK ==
  ASSUME IInv, NEW i \in Server, Start(i)
  PROVE  IInv'
  <1> DEFINE newLog == [Index |-> Last(logs[i]) + 1, Term |-> currentTerm[i]]
             log == Append(logs[i], newLog)
  <1>1. TypeOK /\ TermPersisted /\ FirstCommitted /\ NextInLog
    BY DEF IInv
  <1>2. /\ logs' = [logs EXCEPT ![i] = log]
        /\ matchIndex' = [matchIndex EXCEPT ![i][i] = Last(logs[i]) + 1]
        /\ nextIndex' = [nextIndex EXCEPT ![i][i] = (Last(logs[i]) + 1) + 1]
        /\ UNCHANGED <<state, currentTerm, votedFor, commitIndex, grantedVotes, snapCh,
                       stable, snapshot, rpcs, crashes>>
    BY DEF Start, persister
  <1>3. /\ IsLog(logs[i]) /\ Last(logs[i]) \in Nat /\ currentTerm[i] \in Nat
        /\ newLog \in Entry
    BY <1>1, LogEnds DEF TypeOK, Entry
  <1>4. IsLog(log) /\ First(log) = First(logs[i]) /\ Last(log) = Last(logs[i]) + 1
    BY <1>3, AppendIsLog
  <1> HIDE DEF log
  <1>5. TypeOK'
    <2>1. logs' \in [Server -> Seq(Entry)] /\ \A j \in Server : IsLog(logs'[j])
      BY <1>1, <1>2, <1>4, LogShape DEF TypeOK
    <2>2. nextIndex' \in [Server -> [Server -> Int]] /\ matchIndex' \in [Server -> [Server -> Nat]]
      BY <1>1, <1>2, <1>3 DEF TypeOK
    <2> QED
      BY <1>1, <1>2, <2>1, <2>2 DEF TypeOK
  <1>6. \A j \in Server : SenderStep(j)
    <2> TAKE j \in Server
    <2>1. CASE j = i
      BY <1>1, <1>2, <1>3, <1>4, <2>1 DEF SenderStep, TypeOK
    <2>2. CASE j # i
      BY <1>1, <1>2, <2>2, PeerStands DEF TypeOK
    <2> QED
      BY <2>1, <2>2
  <1>7. TermPersisted' /\ FirstCommitted'
    BY <1>1, <1>2, <1>4 DEF TermPersisted, FirstCommitted, TypeOK
  <1>8. NextInLog'
    <2> SUFFICES ASSUME NEW j \in Server, state[j] = Leader, NEW p \in Server
                 PROVE  nextIndex'[j][p] <= Last(logs'[j]) + 1
      BY <1>2 DEF NextInLog
    <2>1. nextIndex[j][p] <= Last(logs[j]) + 1 /\ nextIndex[j][p] \in Int
      BY <1>1 DEF NextInLog, TypeOK
    <2>2. CASE j = i
      <3>1. logs'[j] = log
        BY <1>1, <1>2, <2>2 DEF TypeOK
      <3>2. nextIndex'[j][p] = IF p = i THEN (Last(logs[i]) + 1) + 1 ELSE nextIndex[j][p]
        BY <1>1, <1>2, <2>2 DEF TypeOK
      <3> QED
        BY <1>3, <1>4, <2>1, <2>2, <3>1, <3>2
    <2>3. CASE j # i
      BY <1>1, <1>2, <2>1, <2>3 DEF TypeOK
    <2> QED
      BY <2>2, <2>3
  <1> QED
    BY <1>2, <1>5, <1>6, <1>7, <1>8, StepOK

LEMMA ReplicateOneRoundOK ==
  ASSUME IInv, NEW i \in Server, NEW p \in Server, ReplicateOneRound(i, p)
  PROVE  IInv'
  <1> DEFINE prevLogIndex == nextIndex[i][p] - 1
             install == InstallSnapshotRequest(i, p)
             append  == AppendEntriesRequest(i, p, prevLogIndex)
  <1>1. TypeOK /\ TermPersisted /\ FirstCommitted /\ NextInLog
    BY DEF IInv
  <1>2. /\ state[i] = Leader
        /\ rpcs' = rpcs \cup {IF prevLogIndex < First(logs[i]) THEN install ELSE append}
        /\ UNCHANGED <<state, currentTerm, votedFor, logs, commitIndex, nextIndex, matchIndex,
                       grantedVotes, snapCh, stable, snapshot, crashes>>
    BY DEF ReplicateOneRound, InFlight, volatile, hardState, persister
  <1>3. /\ IsLog(logs[i]) /\ First(logs[i]) \in Nat /\ Last(logs[i]) \in Nat
        /\ First(logs[i]) <= Last(logs[i]) /\ currentTerm[i] \in Nat
        /\ nextIndex[i][p] \in Int /\ nextIndex[i][p] <= Last(logs[i]) + 1
    BY <1>1, <1>2, LogEnds DEF TypeOK, NextInLog
  <1>4. FromLeader(i, currentTerm[i], First(logs[i]))'
    BY <1>2, <1>3 DEF FromLeader, Candidate, Leader
  <1>5. ASSUME NEW m, m = install
        PROVE  m \in Message /\ MessageOK(m)'
    <2>1. getFirstLog(logs[i]).Term \in Nat /\ snapshot[i] \in Nat
      BY <1>1, <1>3, LastTerm DEF TypeOK
    <2>2. m \in Message
      BY <1>3, <1>5, <2>1 DEF InstallSnapshotRequest, Message
    <2>3. /\ m.type = "InstallSnapshot" /\ Sender(m) = i /\ SentTerm(m) = currentTerm[i]
          /\ Reach(m) = First(logs[i])
      BY <1>5 DEF InstallSnapshotRequest, Sender, SentTerm, Reach, Requests
    <2>4. SentByLeader(m)'
      BY <1>2, <1>4, <2>3 DEF SentByLeader
    <2> QED
      BY <2>2, <2>3, <2>4 DEF MessageOK, MessageShape
  <1>6. ASSUME NEW m, m = append, ~(prevLogIndex < First(logs[i]))
        PROVE  m \in Message /\ MessageOK(m)'
    <2>1. prevLogIndex \in First(logs[i]) .. Last(logs[i]) /\ prevLogIndex \in Nat
      BY <1>3, <1>6
    <2>2. /\ m.type = "AppendEntries" /\ m.from = i /\ m.Term = currentTerm[i]
          /\ m.PrevLogIndex = prevLogIndex /\ m.Entries = From(logs[i], prevLogIndex + 1)
      BY <1>6 DEF AppendEntriesRequest
    <2>3. TermAt(logs[i], prevLogIndex) \in Nat /\ commitIndex[i] \in Nat
      BY <1>1, <1>3, <2>1, TermInLog DEF TypeOK
    <2>4. prevLogIndex + 1 \in First(logs[i]) .. Last(logs[i]) + 1
      BY <1>3, <2>1
    <2>5. Follow(m.Entries, prevLogIndex) /\ prevLogIndex + Len(m.Entries) = Last(logs[i])
      <3> HIDE DEF prevLogIndex
      <3>1. /\ Follow(m.Entries, (prevLogIndex + 1) - 1)
            /\ Len(m.Entries) = Last(logs[i]) + 1 - (prevLogIndex + 1)
        BY <1>3, <2>2, <2>4, FromFollows
      <3>2. /\ (prevLogIndex + 1) - 1 = prevLogIndex
            /\ prevLogIndex + (Last(logs[i]) + 1 - (prevLogIndex + 1)) = Last(logs[i])
        BY <1>3, <2>1
      <3> QED
        BY <3>1, <3>2
    <2>6. m \in Message
      <3>1. From(logs[i], prevLogIndex + 1) \in Seq(Entry)
        BY <2>2, <2>5 DEF Follow
      <3> QED
        BY <1>3, <1>6, <2>1, <2>3, <3>1 DEF AppendEntriesRequest, Message
    <2>7. FromLeader(i, currentTerm[i], Last(logs[i]))'
      BY <1>2, <1>3 DEF FromLeader, Candidate, Leader
    <2>8. Sender(m) = i /\ SentTerm(m) = currentTerm[i] /\ Reach(m) = Last(logs[i])
      BY <2>2, <2>5 DEF Sender, SentTerm, Reach, Requests
    <2>9. SentByLeader(m)'
      BY <1>2, <2>7, <2>8 DEF SentByLeader
    <2> HIDE DEF prevLogIndex
    <2> QED
      BY <2>2, <2>5, <2>6, <2>9 DEF MessageOK, MessageShape
  <1> HIDE DEF install, append
  <1>7. \A m \in rpcs' \ rpcs : m \in Message /\ MessageOK(m)'
    BY <1>2, <1>5, <1>6
  <1>8. TypeOK' /\ TermPersisted' /\ FirstCommitted' /\ NextInLog'
    BY <1>1, <1>2, <1>7 DEF TypeOK, TermPersisted, FirstCommitted, NextInLog
  <1>9. \A j \in Server : SenderStep(j)
    BY <1>1, <1>2, PeerStands
  <1> QED
    BY <1>7, <1>8, <1>9, StepOK

(* What a step adds to the messages in flight answers m: it is about the   *)
(* same sender, term and reach.                                            *)
Answered(m) ==
  \A reply \in rpcs' \ rpcs :
    /\ reply \in Message /\ reply.type \in RoundTypes
    /\ MessageShape(reply)
    /\ Sender(reply) = Sender(m) /\ SentTerm(reply) = SentTerm(m) /\ Reach(reply) = Reach(m)

LEMMA AppendEntriesAnswered ==
  ASSUME NEW m \in Message, m.type = "AppendEntries", NEW term \in Nat,
         NEW success \in BOOLEAN, NEW index \in Int, NEW conflictTerm \in Nat \cup {NoConflict},
         index <= m.PrevLogIndex,
         AnswerOne(m, AppendEntriesResponse(m, term, success, index, conflictTerm))
  PROVE  Answered(m)
  <1> DEFINE r == AppendEntriesResponse(m, term, success, index, conflictTerm)
  <1>1. /\ m.from \in Server /\ m.to \in Server /\ m.Term \in Nat /\ m.PrevLogIndex \in Nat
        /\ Len(m.Entries) \in Nat
    BY MessageFields, LenProperties DEF Requests
  <1>2. r \in Message /\ r.type = "AppendEntriesReply"
    BY <1>1 DEF AppendEntriesResponse, Message
  <1>3. /\ Sender(r) = Sender(m) /\ SentTerm(r) = SentTerm(m) /\ Reach(r) = Reach(m)
        /\ MessageShape(r)
    BY DEF AppendEntriesResponse, Sender, SentTerm, Reach, Requests, MessageShape
  <1>4. rpcs' \ rpcs \subseteq {r}
    BY DEF AnswerOne, Received, InFlight
  <1> HIDE DEF r
  <1> QED
    BY <1>2, <1>3, <1>4 DEF Answered, RoundTypes

LEMMA AnsweredOK ==
  ASSUME IInv, NEW m \in rpcs, m.type \in RoundTypes, Answered(m),
         currentTerm' \in [Server -> Nat], \A i \in Server : IsLog(logs'[i]),
         \A i \in Server : SenderStep(i)
  PROVE  \A reply \in rpcs' \ rpcs : MessageOK(reply)'
  <1> TAKE reply \in rpcs' \ rpcs
  <1>1. TypeOK /\ MessageOK(m) /\ m \in Message
    BY DEF IInv, MessagesOK, TypeOK
  <1>2. Sender(m) \in Server /\ SentTerm(m) \in Nat /\ Reach(m) \in Nat
    BY <1>1, ReachInt
  <1>3. FromLeader(Sender(m), SentTerm(m), Reach(m))
    BY <1>1 DEF MessageOK, SentByLeader
  <1>4. FromLeader(Sender(m), SentTerm(m), Reach(m))'
    BY <1>1, <1>2, <1>3, FromLeaderKept
  <1>5. /\ MessageShape(reply) /\ Sender(reply) = Sender(m) /\ SentTerm(reply) = SentTerm(m)
        /\ Reach(reply) = Reach(m)
    BY DEF Answered
  <1>6. SentByLeader(reply)'
    BY <1>4, <1>5 DEF SentByLeader
  <1> QED
    BY <1>5, <1>6 DEF MessageOK, MessageShape

(* What AppendEntries may do to logs and to commitIndex.                   *)
LogsAfter(i) ==
  /\ logs' \in [Server -> Seq(Entry)] /\ commitIndex' \in [Server -> Nat]
  /\ \A j \in Server :
       /\ IsLog(logs'[j]) /\ First(logs'[j]) = First(logs[j])
       /\ commitIndex'[j] >= commitIndex[j]
       /\ j # i => logs'[j] = logs[j]

LEMMA LogsStay ==
  ASSUME TypeOK, NEW i \in Server, UNCHANGED <<logs, commitIndex>>
  PROVE  LogsAfter(i)
  BY DEF LogsAfter, TypeOK

LEMMA MatchOK ==
  ASSUME IInv, NEW m \in rpcs, m.type = "AppendEntries", AppendEntriesMatch(m.to, m)
  PROVE  LogsAfter(m.to) /\ Answered(m)
  <1> DEFINE i == m.to
  <1>1. TypeOK /\ MessageOK(m) /\ m \in Message
    BY DEF IInv, MessagesOK, TypeOK
  <1>2. /\ i \in Server /\ m.Term \in Nat /\ m.PrevLogIndex \in Nat /\ m.LeaderCommit \in Nat
        /\ Follow(m.Entries, m.PrevLogIndex)
    BY <1>1, MessageFields DEF MessageOK, MessageShape, Requests
  <1> HIDE DEF i
  <1>3. /\ logs \in [Server -> Seq(Entry)] /\ commitIndex \in [Server -> Nat]
        /\ \A j \in Server : IsLog(logs[j])
    BY <1>1 DEF TypeOK
  <1>4. m.PrevLogIndex \in First(logs[i]) .. Last(logs[i])
    <2>1. m.PrevLogIndex >= First(logs[i]) /\ m.PrevLogIndex <= Last(logs[i])
      BY DEF AppendEntriesMatch, matchLog, i
    <2> QED
      BY <1>2, <1>3, <2>1, LogEnds
  <1>5. PICK k \in FirstLacking(logs[i], m.Entries) :
          /\ logs' = [logs EXCEPT ![i] = Merge(logs[i], m.Entries, k)]
          /\ advanceCommitIndexForFollower(i, Merge(logs[i], m.Entries, k), m.LeaderCommit)
    BY DEF AppendEntriesMatch, i
  <1> DEFINE log == Merge(logs[i], m.Entries, k)
             index == IF m.LeaderCommit < Last(log) THEN m.LeaderCommit ELSE Last(log)
  <1>6. IsLog(log) /\ First(log) = First(logs[i])
    BY <1>2, <1>3, <1>4, MergeIsLog
  <1>7. /\ logs' = [logs EXCEPT ![i] = log]
        /\ IF index > commitIndex[i] THEN commitIndex' = [commitIndex EXCEPT ![i] = index]
                                     ELSE UNCHANGED commitIndex
    BY <1>5 DEF advanceCommitIndexForFollower, commitTo
  <1> HIDE DEF log
  <1>8. log \in Seq(Entry) /\ Last(log) \in Nat
    BY <1>6, LogEnds, LogShape
  <1>9. index \in Nat
    BY <1>2, <1>8
  <1> HIDE DEF index
  <1>10. /\ logs' \in [Server -> Seq(Entry)]
         /\ \A j \in Server : /\ IsLog(logs'[j]) /\ First(logs'[j]) = First(logs[j])
                              /\ j # i => logs'[j] = logs[j]
    BY <1>2, <1>3, <1>6, <1>7, <1>8
  <1>11. commitIndex' \in [Server -> Nat] /\ \A j \in Server : commitIndex'[j] >= commitIndex[j]
    <2>1. CASE index > commitIndex[i] /\ commitIndex' = [commitIndex EXCEPT ![i] = index]
      <3> SUFFICES ASSUME NEW j \in Server
                   PROVE  commitIndex' \in [Server -> Nat] /\ commitIndex'[j] >= commitIndex[j]
        BY <1>2
      <3> QED
        BY <1>2, <1>3, <1>9, <2>1
    <2>2. CASE UNCHANGED commitIndex
      BY <1>3, <2>2
    <2> QED
      BY <1>7, <2>1, <2>2
  <1>12. Answered(m)
    <2>1. AnswerOne(m, AppendEntriesResponse(m, m.Term, TRUE, 0, 0))
      BY DEF AppendEntriesMatch
    <2>2. TRUE \in BOOLEAN /\ 0 \in Int /\ 0 \in Nat \cup {NoConflict} /\ 0 <= m.PrevLogIndex
      BY <1>2
    <2> QED
      BY <1>1, <1>2, <2>1, <2>2, AppendEntriesAnswered, Zenon
  <1> QED
    BY <1>10, <1>11, <1>12 DEF LogsAfter, i

LEMMA MismatchOK ==
  ASSUME IInv, NEW m \in rpcs, m.type = "AppendEntries", AppendEntriesMismatch(m.to, m)
  PROVE  LogsAfter(m.to) /\ Answered(m)
  <1> DEFINE i == m.to
  <1>1. TypeOK /\ m \in Message
    BY DEF IInv, TypeOK
  <1>2. i \in Server /\ m.Term \in Nat /\ m.PrevLogIndex \in Nat
    BY <1>1, MessageFields DEF Requests
  <1> HIDE DEF i
  <1>3. IsLog(logs[i]) /\ First(logs[i]) \in Nat /\ Last(logs[i]) \in Nat
    BY <1>1, <1>2, LogEnds DEF TypeOK
  <1>4. LogsAfter(i)
    BY <1>1, <1>2, LogsStay DEF AppendEntriesMismatch
  <1>5. Answered(m)
    <2>0. FALSE \in BOOLEAN
      OBVIOUS
    <2>1. CASE Last(logs[i]) < m.PrevLogIndex
      <3>0. ~(Last(logs[i]) >= m.PrevLogIndex)
        BY <1>2, <1>3, <2>1
      <3>1. AnswerOne(m, AppendEntriesResponse(m, m.Term, FALSE, Last(logs[i]) + 1, NoConflict))
        BY <3>0, Zenon DEF AppendEntriesMismatch, i
      <3>2. /\ Last(logs[i]) + 1 \in Int /\ Last(logs[i]) + 1 <= m.PrevLogIndex
            /\ NoConflict \in Nat \cup {NoConflict}
        BY <1>2, <1>3, <2>1
      <3> QED
        BY <1>1, <1>2, <2>0, <3>1, <3>2, AppendEntriesAnswered, Zenon
    <2>2. CASE Last(logs[i]) >= m.PrevLogIndex
      <3>0. ~(Last(logs[i]) < m.PrevLogIndex)
        BY <1>2, <1>3, <2>2
      <3>1. PICK index \in ConflictIndexes(logs[i], m.PrevLogIndex) :
              AnswerOne(m, AppendEntriesResponse(m, m.Term, FALSE, index,
                                                 TermAt(logs[i], m.PrevLogIndex)))
        BY <3>0, Zenon DEF AppendEntriesMismatch, i
      <3>2. m.PrevLogIndex >= First(logs[i])
        BY DEF AppendEntriesMismatch, i
      <3>3. TermAt(logs[i], m.PrevLogIndex) \in Nat
        BY <1>2, <1>3, <2>2, <3>2, TermInLog
      <3>4. index \in Int /\ index <= m.PrevLogIndex
        BY <1>2, <1>3 DEF ConflictIndexes
      <3>5. TermAt(logs[i], m.PrevLogIndex) \in Nat \cup {NoConflict}
        BY <3>3
      <3> QED
        BY <1>1, <1>2, <2>0, <3>1, <3>4, <3>5, AppendEntriesAnswered, Zenon
    <2> QED
      BY <1>2, <1>3, <2>1, <2>2
  <1> QED
    BY <1>4, <1>5 DEF i

LEMMA AppendEntriesOK ==
  ASSUME IInv, NEW m \in rpcs, AppendEntries(m)
  PROVE  IInv'
  <1> DEFINE i == m.to
  <1>1. TypeOK /\ TermPersisted /\ FirstCommitted /\ NextInLog
    BY DEF IInv
  <1>2. /\ m \in Message /\ m.type = "AppendEntries" /\ i \in Server
        /\ m.Term \in Nat /\ currentTerm[i] \in Nat /\ m.PrevLogIndex \in Nat
    BY <1>1, MessageFields DEF TypeOK, AppendEntries, Requests
  <1>3. /\ UNCHANGED <<nextIndex, matchIndex, grantedVotes, snapCh, crashes, snapshot>>
        /\ stable' = [stable EXCEPT ![i] = Encoded(i)]
    BY DEF AppendEntries, persist
  <1>4. /\ \/ UNCHANGED <<state, currentTerm, votedFor, logs>>
           \/ /\ state' = [state EXCEPT ![i] = Follower]
              /\ m.Term >= currentTerm[i]
              /\ IF m.Term > currentTerm[i]
                   THEN /\ currentTerm' = [currentTerm EXCEPT ![i] = m.Term]
                        /\ votedFor' = [votedFor EXCEPT ![i] = None]
                   ELSE UNCHANGED <<currentTerm, votedFor>>
        /\ LogsAfter(i) /\ Answered(m)
    <2>0. FALSE \in BOOLEAN /\ 0 \in Int /\ 0 \in Nat \cup {NoConflict} /\ 0 <= m.PrevLogIndex
      BY <1>2
    <2>1. CASE AppendEntriesStale(i, m)
      <3>1. AnswerOne(m, AppendEntriesResponse(m, currentTerm[i], FALSE, 0, 0))
            /\ UNCHANGED <<state, currentTerm, votedFor, logs, commitIndex>>
        BY <2>1 DEF AppendEntriesStale
      <3>2. LogsAfter(i)
        BY <1>1, <1>2, <3>1, LogsStay
      <3>3. Answered(m)
        BY <1>2, <2>0, <3>1, AppendEntriesAnswered, Zenon
      <3> QED
        BY <3>1, <3>2, <3>3
    <2>2. CASE /\ m.Term >= currentTerm[i] /\ catchUp(i, m.Term) /\ ChangeState(i, Follower)
               /\ \/ AppendEntriesBelowFirst(i, m) \/ AppendEntriesMismatch(i, m)
                  \/ AppendEntriesMatch(i, m)
      <3>1. CASE AppendEntriesBelowFirst(i, m)
        <4>1. AnswerOne(m, AppendEntriesResponse(m, m.Term, FALSE, 0, 0))
              /\ UNCHANGED <<logs, commitIndex>>
          BY <3>1 DEF AppendEntriesBelowFirst
        <4>2. LogsAfter(i)
          BY <1>1, <1>2, <4>1, LogsStay
        <4>3. Answered(m)
          BY <1>2, <2>0, <4>1, AppendEntriesAnswered, Zenon
        <4> QED
          BY <2>2, <4>2, <4>3 DEF catchUp, adoptTerm, ChangeState
      <3>2. CASE AppendEntriesMismatch(i, m) \/ AppendEntriesMatch(i, m)
        <4>1. LogsAfter(i) /\ Answered(m)
          BY <1>2, <3>2, MatchOK, MismatchOK
        <4> QED
          BY <2>2, <4>1 DEF catchUp, adoptTerm, ChangeState
      <3> QED
        BY <2>2, <3>1, <3>2
    <2> QED
      BY <2>1, <2>2 DEF AppendEntries
  <1> HIDE DEF i
  <1>5. /\ currentTerm' \in [Server -> Nat]
        /\ state' \in [Server -> {Follower, Candidate, Leader}]
        /\ votedFor' \in [Server -> Server \cup {None}]
        /\ \A j \in Server \ {i} : currentTerm'[j] = currentTerm[j] /\ state'[j] = state[j]
        /\ currentTerm'[i] >= currentTerm[i]
    <2>1. /\ state \in [Server -> {Follower, Candidate, Leader}]
          /\ currentTerm \in [Server -> Nat]
          /\ votedFor \in [Server -> Server \cup {None}]
      BY <1>1 DEF TypeOK
    <2> QED
      BY <1>2, <1>4, <2>1
  <1>6. /\ logs' \in [Server -> Seq(Entry)] /\ commitIndex' \in [Server -> Nat]
        /\ \A j \in Server : IsLog(logs'[j])
    BY <1>4 DEF LogsAfter
  <1>7. StableOK'
    BY <1>1, <1>2, <1>3, <1>5, <1>6, PersistedOK
  <1>8. TypeOK'
    BY <1>1, <1>3, <1>4, <1>5, <1>6, <1>7 DEF TypeOK, StableOK, Answered
  <1>9. \A j \in Server : SenderStep(j)
    <2> TAKE j \in Server
    <2>1. CASE j = i
      <3>1. CASE UNCHANGED <<state, currentTerm, votedFor, logs>>
        BY <1>1, <2>1, <3>1, PeerStands
      <3>2. CASE state' = [state EXCEPT ![i] = Follower]
        <4>1. state'[i] = Follower
          BY <1>1, <1>2, <3>2 DEF TypeOK
        <4>2. currentTerm'[i] > currentTerm[i] \/ currentTerm'[i] = currentTerm[i]
          BY <1>2, <1>5
        <4> QED
          BY <2>1, <4>1, <4>2 DEF SenderStep
      <3> QED
        BY <1>4, <3>1, <3>2
    <2>2. CASE j # i
      BY <1>1, <1>4, <1>5, <2>2, PeerStands DEF LogsAfter
    <2> QED
      BY <2>1, <2>2
  <1>10. FirstCommitted'
    <2> SUFFICES ASSUME NEW j \in Server PROVE First(logs'[j]) <= commitIndex'[j]
      BY DEF FirstCommitted
    <2>1. /\ First(logs'[j]) = First(logs[j]) /\ commitIndex'[j] >= commitIndex[j]
          /\ First(logs[j]) <= commitIndex[j]
          /\ First(logs[j]) \in Nat /\ commitIndex[j] \in Nat /\ commitIndex'[j] \in Nat
      BY <1>1, <1>4, <1>6, LogEnds DEF LogsAfter, FirstCommitted, TypeOK
    <2> QED
      BY <2>1
  <1>11. NextInLog'
    <2> SUFFICES ASSUME NEW j \in Server, state'[j] = Leader
                 PROVE  state[j] = Leader /\ logs'[j] = logs[j]
      BY <1>1, <1>3 DEF NextInLog
    <2>1. CASE UNCHANGED <<state, currentTerm, votedFor, logs>>
      BY <2>1
    <2>2. CASE state' = [state EXCEPT ![i] = Follower]
      BY <1>1, <1>2, <1>4, <2>2 DEF TypeOK, LogsAfter, Follower, Leader
    <2> QED
      BY <1>4, <2>1, <2>2
  <1>12. \A reply \in rpcs' \ rpcs : MessageOK(reply)'
    BY <1>2, <1>4, <1>5, <1>6, <1>9, AnsweredOK DEF RoundTypes
  <1> QED
    BY <1>7, <1>8, <1>9, <1>10, <1>11, <1>12, StepOK DEF StableOK

(* What a reply that counts says of the leader's log.                      *)
LEMMA ReplyInLog ==
  ASSUME IInv, NEW m \in rpcs, m.type \in {"AppendEntriesReply", "InstallSnapshotReply"},
         state[m.to] = Leader, currentTerm[m.to] = m.reqTerm
  PROVE  Reach(m) \in Nat /\ Reach(m) <= Last(logs[m.to]) /\ Last(logs[m.to]) \in Nat
  <1>1. TypeOK /\ MessageOK(m) /\ m \in Message
    BY DEF IInv, MessagesOK, TypeOK
  <1>2. m.to \in Server
    BY <1>1, MessageFields
  <1>3. FromLeader(m.to, m.reqTerm, Reach(m))
    BY <1>1 DEF MessageOK, SentByLeader, Sender, SentTerm, Requests, RoundTypes
  <1>4. Reach(m) \in Nat
    BY <1>1, ReachInt DEF RoundTypes
  <1>5. Last(logs[m.to]) \in Nat
    BY <1>1, <1>2, LogEnds DEF TypeOK
  <1> QED
    BY <1>3, <1>4, <1>5 DEF FromLeader

(* A leader's step that only moves what it knows about one peer, and       *)
(* commitIndex forward.                                                    *)
LEMMA LeaderLearnsOK ==
  ASSUME IInv, NEW i \in Server, NEW p \in Server, NEW next \in Int, next <= Last(logs[i]) + 1,
         nextIndex' = [nextIndex EXCEPT ![i][p] = next],
         matchIndex' \in [Server -> [Server -> Nat]],
         commitIndex' \in [Server -> Nat], \A j \in Server : commitIndex'[j] >= commitIndex[j],
         rpcs' \subseteq rpcs,
         UNCHANGED <<state, currentTerm, votedFor, logs, grantedVotes, snapCh, stable, snapshot,
                     crashes>>
  PROVE  IInv'
  <1>1. TypeOK /\ TermPersisted /\ FirstCommitted /\ NextInLog
    BY DEF IInv
  <1>2. nextIndex' \in [Server -> [Server -> Int]]
    BY <1>1 DEF TypeOK
  <1>3. TypeOK' /\ TermPersisted'
    BY <1>1, <1>2 DEF TypeOK, TermPersisted
  <1>4. FirstCommitted'
    <2> SUFFICES ASSUME NEW j \in Server PROVE First(logs[j]) <= commitIndex'[j]
      BY DEF FirstCommitted
    <2>1. First(logs[j]) \in Nat /\ commitIndex[j] \in Nat
      BY <1>1, LogEnds DEF TypeOK
    <2> QED
      BY <1>1, <2>1 DEF FirstCommitted
  <1>5. NextInLog'
    <2> SUFFICES ASSUME NEW j \in Server, state[j] = Leader, NEW q \in Server
                 PROVE  nextIndex'[j][q] <= Last(logs[j]) + 1
      BY DEF NextInLog
    <2>1. nextIndex'[j][q] = IF j = i /\ q = p THEN next ELSE nextIndex[j][q]
      BY <1>1 DEF TypeOK
    <2> QED
      BY <1>1, <2>1 DEF NextInLog
  <1>6. \A j \in Server : SenderStep(j)
    BY <1>1, PeerStands
  <1> QED
    BY <1>3, <1>4, <1>5, <1>6, StepOK

LEMMA HandleAppendEntriesResponseOK ==
  ASSUME IInv, NEW m \in rpcs, HandleAppendEntriesResponse(m)
  PROVE  IInv'
  <1> DEFINE i == m.to
             p == m.from
             match == [matchIndex[i] EXCEPT ![p] = m.PrevLogIndex + m.NumEntries]
             counts == state[i] = Leader /\ currentTerm[i] = m.reqTerm
  <1>1. TypeOK
    BY DEF IInv
  <1>2. /\ m \in Message /\ m.type = "AppendEntriesReply" /\ i \in Server /\ p \in Server
        /\ m.Term \in Nat /\ m.PrevLogIndex \in Nat /\ m.NumEntries \in Nat
        /\ currentTerm[i] \in Nat
        /\ m.ConflictIndex \in Int /\ m.ConflictIndex <= m.PrevLogIndex
    BY <1>1, MessageFields
    DEF TypeOK, HandleAppendEntriesResponse, Requests, IInv, MessagesOK, MessageOK, MessageShape
  <1>3. rpcs' \subseteq rpcs /\ UNCHANGED <<grantedVotes, snapCh, crashes>>
    BY DEF HandleAppendEntriesResponse, ConsumeOne, Received, InFlight
  <1>4. counts => /\ m.PrevLogIndex + m.NumEntries <= Last(logs[i])
                  /\ Last(logs[i]) \in Nat
    BY <1>2, ReplyInLog DEF Reach
  <1>5. CASE /\ counts
             /\ matchIndex' = [matchIndex EXCEPT ![i] = match]
             /\ nextIndex' = [nextIndex EXCEPT ![i][p] = match[p] + 1]
             /\ advanceCommitIndexForLeader(i, match)
             /\ UNCHANGED <<state, hardState, persister>>
    <2>1. match \in [Server -> Nat] /\ match[p] = m.PrevLogIndex + m.NumEntries
      <3>1. matchIndex \in [Server -> [Server -> Nat]]
        BY <1>1 DEF TypeOK
      <3>2. m.PrevLogIndex + m.NumEntries \in Nat
        BY <1>2
      <3> HIDE DEF i, p
      <3> QED
        BY <1>2, <3>1, <3>2
    <2> HIDE DEF match, i, p
    <2>2. matchIndex' \in [Server -> [Server -> Nat]]
      BY <1>1, <1>5, <2>1 DEF TypeOK
    <2>3. match[p] + 1 \in Int /\ match[p] + 1 <= Last(logs[i]) + 1
      BY <1>2, <1>4, <1>5, <2>1
    <2>4. commitIndex' \in [Server -> Nat] /\ \A j \in Server : commitIndex'[j] >= commitIndex[j]
      <3>1. PICK index \in ReachedByMajority(match) :
              \/ index > commitIndex[i] /\ commitIndex' = [commitIndex EXCEPT ![i] = index]
              \/ UNCHANGED commitIndex
        BY <1>5 DEF advanceCommitIndexForLeader, commitTo
      <3>2. index \in Nat
        BY <2>1 DEF ReachedByMajority
      <3>3. commitIndex \in [Server -> Nat]
        BY <1>1 DEF TypeOK
      <3> SUFFICES ASSUME NEW j \in Server
                   PROVE  commitIndex' \in [Server -> Nat] /\ commitIndex'[j] >= commitIndex[j]
        BY <1>2
      <3> QED
        BY <3>1, <3>2, <3>3
    <2> QED
      BY <1>2, <1>3, <1>5, <2>2, <2>3, <2>4, LeaderLearnsOK DEF hardState, persister
  <1>6. CASE m.Term > currentTerm[i] /\ stepDown(i, m.Term)
    BY <1>2, <1>3, <1>6, StepDownOK
  <1>7. CASE /\ counts
             /\ \E next \in BackOffs(logs[i], m.PrevLogIndex, m.ConflictTerm, m.ConflictIndex) :
                  nextIndex' = [nextIndex EXCEPT ![i][p] = next]
             /\ UNCHANGED <<state, hardState, persister, matchIndex, commitIndex>>
    <2>1. PICK next \in BackOffs(logs[i], m.PrevLogIndex, m.ConflictTerm, m.ConflictIndex) :
            nextIndex' = [nextIndex EXCEPT ![i][p] = next]
      BY <1>7
    <2>2. next \in Int /\ next <= m.PrevLogIndex + 1
      <3>1. First(logs[i]) \in Nat
        BY <1>1, <1>2, LogEnds DEF TypeOK
      <3> HIDE DEF i
      <3> QED
        BY <1>2, <3>1 DEF BackOffs
    <2>3. next <= Last(logs[i]) + 1
      BY <1>2, <1>4, <1>7, <2>2
    <2>4. /\ matchIndex' \in [Server -> [Server -> Nat]] /\ commitIndex' \in [Server -> Nat]
          /\ \A j \in Server : commitIndex'[j] >= commitIndex[j]
      BY <1>1, <1>7 DEF TypeOK
    <2> HIDE DEF i, p
    <2> QED
      BY <1>2, <1>3, <1>7, <2>1, <2>2, <2>3, <2>4, LeaderLearnsOK DEF hardState, persister
  <1>8. CASE UNCHANGED <<state, hardState, persister, nextIndex, matchIndex, commitIndex>>
    BY <1>1, <1>3, <1>8, QuietOK DEF TypeOK, hardState, persister
  <1> QED
    BY <1>5, <1>6, <1>7, <1>8, Zenon DEF HandleAppendEntriesResponse

LEMMA HandleInstallSnapshotResponseOK ==
  ASSUME IInv, NEW m \in rpcs, HandleInstallSnapshotResponse(m)
  PROVE  IInv'
  <1> DEFINE i == m.to
             p == m.from
             counts == state[i] = Leader /\ currentTerm[i] = m.reqTerm
  <1>1. TypeOK
    BY DEF IInv
  <1>2. /\ m \in Message /\ m.type = "InstallSnapshotReply" /\ i \in Server /\ p \in Server
        /\ m.Term \in Nat /\ m.LastIncludedIndex \in Nat
    BY <1>1, MessageFields DEF TypeOK, HandleInstallSnapshotResponse, Requests
  <1>3. rpcs' \subseteq rpcs /\ UNCHANGED <<grantedVotes, snapCh, crashes>>
    BY DEF HandleInstallSnapshotResponse, ConsumeOne, Received, InFlight
  <1>4. CASE m.Term > currentTerm[i] /\ stepDown(i, m.Term)
    BY <1>2, <1>3, <1>4, StepDownOK
  <1>5. CASE /\ counts
             /\ matchIndex' = [matchIndex EXCEPT ![i][p] = m.LastIncludedIndex]
             /\ nextIndex' = [nextIndex EXCEPT ![i][p] = m.LastIncludedIndex + 1]
             /\ UNCHANGED <<state, hardState, persister, commitIndex>>
    <2>1. m.LastIncludedIndex + 1 \in Int /\ m.LastIncludedIndex + 1 <= Last(logs[i]) + 1
      BY <1>2, <1>5, ReplyInLog DEF Reach
    <2> HIDE DEF i, p
    <2>2. matchIndex' \in [Server -> [Server -> Nat]]
      <3>1. matchIndex \in [Server -> [Server -> Nat]]
        BY <1>1 DEF TypeOK
      <3>2. [matchIndex[i] EXCEPT ![p] = m.LastIncludedIndex] \in [Server -> Nat]
        BY <1>2, <3>1
      <3> QED
        BY <1>2, <1>5, <3>1, <3>2
    <2>3. commitIndex' \in [Server -> Nat] /\ \A j \in Server : commitIndex'[j] >= commitIndex[j]
      BY <1>1, <1>5 DEF TypeOK
    <2> QED
      BY <1>2, <1>3, <1>5, <2>1, <2>2, <2>3, LeaderLearnsOK DEF hardState, persister
  <1>6. CASE UNCHANGED <<state, hardState, persister, nextIndex, matchIndex, commitIndex>>
    BY <1>1, <1>3, <1>6, QuietOK DEF TypeOK, hardState, persister
  <1> QED
    BY <1>4, <1>5, <1>6, Zenon DEF HandleInstallSnapshotResponse

LEMMA InstallSnapshotOK ==
  ASSUME IInv, NEW m \in rpcs, InstallSnapshot(m)
  PROVE  IInv'
  <1> DEFINE i == m.to
             msg == [SnapshotIndex |-> m.LastIncludedIndex, SnapshotTerm |-> m.LastIncludedTerm,
                     Snapshot |-> m.Data]
             reply == InstallSnapshotResponse(m, currentTerm[i])
             Snapshots == [SnapshotIndex : Nat, SnapshotTerm : Nat, Snapshot : Nat]
  <1>1. TypeOK /\ TermPersisted /\ FirstCommitted /\ NextInLog
    BY DEF IInv
  <1>2. /\ m \in Message /\ m.type = "InstallSnapshot" /\ m.from \in Server /\ i \in Server
        /\ m.Term \in Nat /\ currentTerm[i] \in Nat /\ m.LastIncludedIndex \in Nat
        /\ msg \in Snapshots
    BY <1>1, MessageFields DEF TypeOK, InstallSnapshot, Requests
  <1>3. /\ UNCHANGED <<logs, commitIndex, nextIndex, matchIndex, grantedVotes, crashes>>
        /\ IF m.Term > currentTerm[i]
             THEN stable' = [stable EXCEPT ![i] = Encoded(i)] /\ UNCHANGED snapshot
             ELSE UNCHANGED <<stable, snapshot>>
        /\ AnswerOne(m, reply)
        /\ \/ UNCHANGED <<state, currentTerm, votedFor, snapCh>> /\ m.Term < currentTerm[i]
           \/ /\ m.Term >= currentTerm[i]
              /\ state' = [state EXCEPT ![i] = Follower]
              /\ IF m.Term > currentTerm[i]
                   THEN /\ currentTerm' = [currentTerm EXCEPT ![i] = m.Term]
                        /\ votedFor' = [votedFor EXCEPT ![i] = None]
                   ELSE UNCHANGED <<currentTerm, votedFor>>
              /\ snapCh' \in {snapCh, [snapCh EXCEPT ![i] = @ \cup {msg}]}
    BY DEF InstallSnapshot, catchUp, adoptTerm, ChangeState, persist, persister
  <1>4. Answered(m)
    <2>1. /\ reply \in Message /\ reply.type = "InstallSnapshotReply" /\ MessageShape(reply)
          /\ Sender(reply) = Sender(m) /\ SentTerm(reply) = SentTerm(m)
          /\ Reach(reply) = Reach(m)
      BY <1>2 DEF InstallSnapshotResponse, Message, MessageShape, Sender, SentTerm, Reach, Requests
    <2>2. rpcs' \ rpcs \subseteq {reply}
      BY <1>3 DEF AnswerOne, Received, InFlight
    <2> HIDE DEF reply
    <2> QED
      BY <2>1, <2>2 DEF Answered, RoundTypes
  <1> HIDE DEF i, msg, reply
  <1>5. /\ currentTerm' \in [Server -> Nat]
        /\ state' \in [Server -> {Follower, Candidate, Leader}]
        /\ votedFor' \in [Server -> Server \cup {None}]
        /\ \A j \in Server \ {i} : currentTerm'[j] = currentTerm[j] /\ state'[j] = state[j]
        /\ currentTerm'[i] >= currentTerm[i]
        /\ state'[i] = Leader => state[i] = Leader
        /\ ~(m.Term > currentTerm[i]) => UNCHANGED currentTerm
    <2>1. /\ state \in [Server -> {Follower, Candidate, Leader}]
          /\ currentTerm \in [Server -> Nat]
          /\ votedFor \in [Server -> Server \cup {None}]
      BY <1>1 DEF TypeOK
    <2> QED
      BY <1>2, <1>3, <2>1 DEF Follower, Leader
  <1>6. snapCh' \in [Server -> SUBSET Snapshots]
    <2>1. snapCh \in [Server -> SUBSET Snapshots]
      BY <1>1 DEF TypeOK
    <2> HIDE DEF Snapshots
    <2>2. [snapCh EXCEPT ![i] = @ \cup {msg}] \in [Server -> SUBSET Snapshots]
      BY <1>2, <2>1
    <2> QED
      BY <1>3, <2>1, <2>2
  <1>7. logs' \in [Server -> Seq(Entry)] /\ \A j \in Server : IsLog(logs'[j])
    BY <1>1, <1>3 DEF TypeOK
  <1>8. StableOK'
    <2>1. CASE m.Term > currentTerm[i]
      BY <1>1, <1>2, <1>3, <1>5, <1>7, <2>1, PersistedOK
    <2>2. CASE ~(m.Term > currentTerm[i])
      BY <1>1, <1>3, <1>5, <2>2 DEF StableOK, TypeOK, TermPersisted
    <2> QED
      BY <2>1, <2>2
  <1>9. TypeOK'
    <2>1. snapshot' \in [Server -> Nat] /\ rpcs' \subseteq Message
      BY <1>1, <1>3, <1>4 DEF TypeOK, Answered
    <2> QED
      BY <1>1, <1>3, <1>5, <1>6, <1>7, <1>8, <2>1 DEF TypeOK, StableOK
  <1>10. \A j \in Server : SenderStep(j)
    <2> TAKE j \in Server
    <2>1. CASE j = i
      <3>1. CASE UNCHANGED <<state, currentTerm, votedFor, snapCh>>
        BY <1>1, <1>3, <2>1, <3>1, PeerStands
      <3>2. CASE state' = [state EXCEPT ![i] = Follower]
        <4>1. state'[i] = Follower
          BY <1>1, <1>2, <3>2 DEF TypeOK
        <4>2. currentTerm'[i] > currentTerm[i] \/ currentTerm'[i] = currentTerm[i]
          BY <1>2, <1>5
        <4> QED
          BY <2>1, <4>1, <4>2 DEF SenderStep
      <3> QED
        BY <1>3, <3>1, <3>2
    <2>2. CASE j # i
      BY <1>1, <1>3, <1>5, <2>2, PeerStands
    <2> QED
      BY <2>1, <2>2
  <1>11. FirstCommitted' /\ NextInLog'
    BY <1>1, <1>3, <1>5 DEF FirstCommitted, NextInLog
  <1>12. \A r \in rpcs' \ rpcs : MessageOK(r)'
    BY <1>2, <1>4, <1>5, <1>7, <1>10, AnsweredOK DEF RoundTypes
  <1> QED
    BY <1>8, <1>9, <1>10, <1>11, <1>12, StepOK DEF StableOK

(* The log goes below a snapshot, in memory and in the persister; nothing  *)
(* is sent.                                                                *)
LEMMA SnapshotSavedOK ==
  ASSUME IInv, NEW i \in Server, NEW log, NEW commit \in Nat, NEW saved \in Nat,
         IsLog(log), First(log) <= commit, Last(log) >= Last(logs[i]),
         logs' = [logs EXCEPT ![i] = log],
         commitIndex' = [commitIndex EXCEPT ![i] = commit],
         snapshot' = [snapshot EXCEPT ![i] = saved],
         stable' = [stable EXCEPT ![i] = Encoded(i)],
         snapCh' \in [Server -> SUBSET [SnapshotIndex : Nat, SnapshotTerm : Nat, Snapshot : Nat]],
         UNCHANGED <<state, currentTerm, votedFor, nextIndex, matchIndex, grantedVotes,
                     rpcs, crashes>>
  PROVE  IInv'
  <1>1. TypeOK /\ TermPersisted /\ FirstCommitted /\ NextInLog
    BY DEF IInv
  <1>2. log \in Seq(Entry) /\ Last(log) \in Nat /\ Last(logs[i]) \in Nat
    BY <1>1, LogShape, LogEnds DEF TypeOK
  <1>3. /\ logs' \in [Server -> Seq(Entry)] /\ \A j \in Server : IsLog(logs'[j])
        /\ commitIndex' \in [Server -> Nat] /\ snapshot' \in [Server -> Nat]
    BY <1>1, <1>2 DEF TypeOK
  <1>4. StableOK'
    BY <1>1, <1>3, PersistedOK DEF TypeOK
  <1>5. TypeOK'
    BY <1>1, <1>3, <1>4 DEF TypeOK, StableOK
  <1>6. \A j \in Server : SenderStep(j)
    <2> TAKE j \in Server
    <2>1. CASE j = i
      BY <1>1, <2>1 DEF SenderStep, TypeOK
    <2>2. CASE j # i
      BY <1>1, <2>2, PeerStands DEF TypeOK
    <2> QED
      BY <2>1, <2>2
  <1>7. FirstCommitted'
    BY <1>1 DEF FirstCommitted, TypeOK
  <1>8. NextInLog'
    <2> SUFFICES ASSUME NEW j \in Server, state[j] = Leader, NEW p \in Server
                 PROVE  nextIndex[j][p] <= Last(logs'[j]) + 1
      BY DEF NextInLog
    <2>1. nextIndex[j][p] <= Last(logs[j]) + 1 /\ nextIndex[j][p] \in Int
      BY <1>1 DEF NextInLog, TypeOK
    <2>2. CASE j = i
      <3>1. logs'[j] = log
        BY <1>1, <2>2 DEF TypeOK
      <3> QED
        BY <1>2, <2>1, <2>2, <3>1
    <2>3. CASE j # i
      BY <1>1, <2>1, <2>3 DEF TypeOK
    <2> QED
      BY <2>2, <2>3
  <1> QED
    BY <1>4, <1>5, <1>6, <1>7, <1>8, StepOK DEF StableOK

LEMMA CondInstallSnapshotOK ==
  ASSUME IInv, NEW i \in Server, NEW msg \in snapCh[i], CondInstallSnapshot(i, msg)
  PROVE  IInv'
  <1> DEFINE Snapshots == [SnapshotIndex : Nat, SnapshotTerm : Nat, Snapshot : Nat]
             log == Trimmed(logs[i], msg.SnapshotIndex, msg.SnapshotTerm)
  <1>1. TypeOK /\ FirstCommitted
    BY DEF IInv
  <1>2. snapCh \in [Server -> SUBSET Snapshots]
    BY <1>1 DEF TypeOK
  <1>3. /\ msg.SnapshotIndex \in Nat /\ msg.SnapshotTerm \in Nat /\ msg.Snapshot \in Nat
        /\ snapCh' \in [Server -> SUBSET Snapshots]
    <2>1. snapCh' = [snapCh EXCEPT ![i] = @ \ {msg}]
      BY DEF CondInstallSnapshot
    <2>2. msg \in Snapshots
      BY <1>2
    <2>3. msg.SnapshotIndex \in Nat /\ msg.SnapshotTerm \in Nat /\ msg.Snapshot \in Nat
      BY <2>2
    <2> HIDE DEF Snapshots
    <2>4. snapCh' \in [Server -> SUBSET Snapshots]
      BY <1>2, <2>1
    <2> QED
      BY <2>3, <2>4
  <1>4. UNCHANGED <<state, currentTerm, votedFor, nextIndex, matchIndex, grantedVotes, rpcs, crashes>>
    BY DEF CondInstallSnapshot
  <1>5. CASE msg.SnapshotIndex <= commitIndex[i]
    <2>1. UNCHANGED <<logs, commitIndex, stable, snapshot>>
      BY <1>5 DEF CondInstallSnapshot, persister
    <2> QED
      BY <1>1, <1>3, <1>4, <2>1, QuietOK DEF TypeOK
  <1>6. CASE ~(msg.SnapshotIndex <= commitIndex[i])
    <2>1. /\ logs' = [logs EXCEPT ![i] = log]
          /\ commitIndex' = [commitIndex EXCEPT ![i] = msg.SnapshotIndex]
          /\ stable' = [stable EXCEPT ![i] = Encoded(i)]
          /\ snapshot' = [snapshot EXCEPT ![i] = msg.Snapshot]
      BY <1>6 DEF CondInstallSnapshot, commitTo, SaveStateAndSnapshot
    <2>2. /\ IsLog(logs[i]) /\ First(logs[i]) \in Nat /\ Last(logs[i]) \in Nat
          /\ msg.SnapshotIndex >= First(logs[i])
      <3>1. commitIndex[i] \in Nat /\ First(logs[i]) <= commitIndex[i]
            /\ IsLog(logs[i])
        BY <1>1 DEF TypeOK, FirstCommitted
      <3> QED
        BY <1>3, <1>6, <3>1, LogEnds
    <2>3. /\ IsLog(log) /\ First(log) = msg.SnapshotIndex
          /\ Last(log) = IF msg.SnapshotIndex > Last(logs[i]) THEN msg.SnapshotIndex
                                                              ELSE Last(logs[i])
      BY <1>3, <2>2, TrimmedIsLog
    <2>4. First(log) <= msg.SnapshotIndex /\ Last(log) >= Last(logs[i])
      BY <1>3, <2>2, <2>3
    <2> HIDE DEF log
    <2> QED
      BY <1>3, <1>4, <2>1, <2>3, <2>4, SnapshotSavedOK
  <1> QED
    BY <1>5, <1>6

LEMMA SnapshotOK ==
  ASSUME IInv, NEW i \in Server, NEW index \in 1 .. MaxSnapshotIndex, Snapshot(i, index)
  PROVE  IInv'
  <1> DEFINE log == From(logs[i], index)
  <1>1. TypeOK /\ index \in Nat
    BY BoundAssumption DEF IInv
  <1>2. /\ logs' = [logs EXCEPT ![i] = log]
        /\ stable' = [stable EXCEPT ![i] = Encoded(i)]
        /\ snapshot' = [snapshot EXCEPT ![i] = index]
        /\ UNCHANGED <<state, currentTerm, votedFor, commitIndex, nextIndex, matchIndex,
                       grantedVotes, snapCh, rpcs, crashes>>
        /\ First(logs[i]) < index /\ index <= commitIndex[i] /\ index <= Last(logs[i])
    BY DEF Snapshot, SaveStateAndSnapshot, volatile
  <1>3. IsLog(logs[i]) /\ First(logs[i]) \in Nat /\ Last(logs[i]) \in Nat
    BY <1>1, LogEnds DEF TypeOK
  <1>4. index \in First(logs[i]) .. Last(logs[i])
    BY <1>1, <1>2, <1>3
  <1>5. IsLog(log) /\ First(log) = index /\ Last(log) = Last(logs[i])
    BY <1>3, <1>4, FromIsLog
  <1>6. /\ Last(log) >= Last(logs[i]) /\ First(log) <= commitIndex[i]
        /\ commitIndex[i] \in Nat
        /\ commitIndex' = [commitIndex EXCEPT ![i] = commitIndex[i]]
        /\ snapCh' \in [Server -> SUBSET [SnapshotIndex : Nat, SnapshotTerm : Nat, Snapshot : Nat]]
    BY <1>1, <1>2, <1>3, <1>5 DEF TypeOK
  <1> HIDE DEF log
  <1> QED
    BY <1>1, <1>2, <1>5, <1>6, SnapshotSavedOK

(* After a crash a peer is a follower of the term it was in.               *)
LEMMA RestartOK ==
  ASSUME IInv, NEW i \in Server, Restart(i)
  PROVE  IInv'
  <1> DEFINE T == [currentTerm : Nat, votedFor : Server \cup {None}, logs : Seq(Entry)]
             saved == stable[i]
  <1>1. TypeOK /\ TermPersisted /\ FirstCommitted /\ NextInLog
    BY DEF IInv
  <1>2. /\ state' = [state EXCEPT ![i] = Follower]
        /\ currentTerm' = [currentTerm EXCEPT ![i] = saved.currentTerm]
        /\ votedFor' = [votedFor EXCEPT ![i] = saved.votedFor]
        /\ logs' = [logs EXCEPT ![i] = saved.logs]
        /\ commitIndex' = [commitIndex EXCEPT ![i] = First(saved.logs)]
        /\ nextIndex' = [nextIndex EXCEPT ![i] = [p \in Server |-> Last(saved.logs) + 1]]
        /\ matchIndex' = [matchIndex EXCEPT ![i] = [p \in Server |-> 0]]
        /\ grantedVotes' = [grantedVotes EXCEPT ![i] = 0]
        /\ snapCh' = [snapCh EXCEPT ![i] = {}]
        /\ rpcs' \subseteq rpcs
        /\ crashes' = crashes + 1
        /\ UNCHANGED <<stable, snapshot>>
    BY DEF Restart, persister
  <1>3. saved \in T /\ IsLog(saved.logs) /\ saved.currentTerm = currentTerm[i]
    BY <1>1 DEF TypeOK, TermPersisted
  <1>4. saved.votedFor \in Server \cup {None} /\ saved.logs \in Seq(Entry)
    BY <1>3
  <1> HIDE DEF saved, T
  <1>5. First(saved.logs) \in Nat /\ Last(saved.logs) \in Nat
    BY <1>3, LogEnds
  <1>6. UNCHANGED currentTerm
    BY <1>1, <1>2, <1>3 DEF TypeOK
  <1>7. TypeOK'
    <2>1. /\ logs' \in [Server -> Seq(Entry)] /\ \A j \in Server : IsLog(logs'[j])
          /\ commitIndex' \in [Server -> Nat] /\ votedFor' \in [Server -> Server \cup {None}]
          /\ state' \in [Server -> {Follower, Candidate, Leader}]
      BY <1>1, <1>2, <1>3, <1>4, <1>5 DEF TypeOK
    <2>2. /\ nextIndex' \in [Server -> [Server -> Int]] /\ matchIndex' \in [Server -> [Server -> Nat]]
          /\ grantedVotes' \in [Server -> Nat] /\ crashes' \in Nat
          /\ snapCh' \in [Server -> SUBSET [SnapshotIndex : Nat, SnapshotTerm : Nat, Snapshot : Nat]]
      BY <1>1, <1>2, <1>5 DEF TypeOK
    <2> QED
      BY <1>1, <1>2, <1>6, <2>1, <2>2 DEF TypeOK
  <1>8. \A j \in Server : SenderStep(j)
    <2> TAKE j \in Server
    <2>1. CASE j = i
      BY <1>1, <1>2, <1>6, <2>1 DEF SenderStep, TypeOK
    <2>2. CASE j # i
      BY <1>1, <1>2, <1>6, <2>2, PeerStands DEF TypeOK
    <2> QED
      BY <2>1, <2>2
  <1>9. TermPersisted'
    BY <1>1, <1>2, <1>6 DEF TermPersisted
  <1>10. FirstCommitted'
    <2> SUFFICES ASSUME NEW j \in Server PROVE First(logs'[j]) <= commitIndex'[j]
      BY DEF FirstCommitted
    <2>1. CASE j = i
      <3>1. logs'[j] = saved.logs /\ commitIndex'[j] = First(saved.logs)
        BY <1>1, <1>2, <2>1 DEF TypeOK
      <3> QED
        BY <1>5, <3>1
    <2>2. CASE j # i
      BY <1>1, <1>2, <2>2 DEF FirstCommitted, TypeOK
    <2> QED
      BY <2>1, <2>2
  <1>11. NextInLog'
    BY <1>1, <1>2 DEF NextInLog, TypeOK, Follower, Leader
  <1> QED
    BY <1>2, <1>7, <1>8, <1>9, <1>10, <1>11, StepOK

-----------------------------------------------------------------------------
LEMMA NextOK ==
  ASSUME IInv, [Next]_vars
  PROVE  IInv'
  <1>1. CASE \E i \in Server : StartElection(i)
    BY <1>1, StartElectionOK
  <1>2. CASE \E i \in Server : Start(i)
    BY <1>2, StartOK
  <1>3. CASE \E i, p \in Server : ReplicateOneRound(i, p)
    BY <1>3, ReplicateOneRoundOK
  <1>4. CASE \E i \in Server : \E msg \in snapCh[i] : CondInstallSnapshot(i, msg)
    BY <1>4, CondInstallSnapshotOK
  <1>5. CASE \E i \in Server : \E index \in 1 .. MaxSnapshotIndex : Snapshot(i, index)
    BY <1>5, SnapshotOK
  <1>6. CASE \E i \in Server : Restart(i)
    BY <1>6, RestartOK
  <1>7. CASE \E m \in rpcs : Receive(m)
    BY <1>7, RequestVoteOK, HandleRequestVoteResponseOK, AppendEntriesOK,
       HandleAppendEntriesResponseOK, InstallSnapshotOK, HandleInstallSnapshotResponseOK
    DEF Receive
  <1>8. CASE (\E m \in rpcs : Drop(m)) \/ UNCHANGED vars
    <2>1. /\ rpcs' \subseteq rpcs
          /\ UNCHANGED <<state, currentTerm, votedFor, logs, commitIndex, nextIndex, matchIndex,
                         stable, snapshot, grantedVotes, crashes, snapCh>>
      BY <1>8 DEF Drop, vars, volatile, hardState, persister
    <2> QED
      BY <2>1, QuietOK DEF IInv, TypeOK
  <1> QED
    BY <1>1, <1>2, <1>3, <1>4, <1>5, <1>6, <1>7, <1>8 DEF Next

(* The inductive invariant: TypeOK, and why the leader's slices end within *)
(* its log.                                                                *)
THEOREM InvariantHolds == Spec => []IInv
  <1> QED
    BY InitOK, NextOK, PTL DEF Spec

(* Every variable keeps its type, and what a peer and its persister hold   *)
(* as logs are logs without a gap, whatever raft.go's handlers receive.    *)
THEOREM TypeCorrect == Spec => []TypeOK
  <1>1. IInv => TypeOK
    BY DEF IInv
  <1> QED
    BY InvariantHolds, <1>1, PTL

----------------------------------------------------------------------------
(* SnapshotMeetsLog is not inductive by itself: CondInstallSnapshot cuts   *)
(* the log at SnapshotIndex and saves the bytes it was handed, so the two  *)
(* must agree while a snapshot is in flight, and after a crash the log     *)
(* comes back from the persister, so it must begin there where the one in  *)
(* memory does although Start never persists.                              *)

(* A snapshot under way covers what it says it covers.                     *)
SentWhole    == \A m \in rpcs : m.type = "InstallSnapshot" => m.Data = m.LastIncludedIndex
WaitingWhole == \A i \in Server : \A msg \in snapCh[i] : msg.Snapshot = msg.SnapshotIndex

SInv == SnapshotMeetsLog /\ SentWhole /\ WaitingWhole

(* What a step that takes no snapshot does: the logs begin where they      *)
(* began, and the persister has either kept a log or been given the new.   *)
PersistsOrKeeps ==
  \A j \in Server : stable'[j].logs = stable[j].logs \/ stable'[j].logs = logs'[j]

LEMMA DiskKept ==
  ASSUME SInv, UNCHANGED snapshot, PersistsOrKeeps,
         \A j \in Server : First(logs'[j]) = First(logs[j])
  PROVE  SnapshotMeetsLog'
  <1> SUFFICES ASSUME NEW j \in Server
               PROVE  snapshot'[j] = First(stable'[j].logs) /\ snapshot'[j] = First(logs'[j])
    BY DEF SnapshotMeetsLog
  <1>1. snapshot'[j] = First(stable[j].logs) /\ snapshot'[j] = First(logs'[j])
    BY DEF SInv, SnapshotMeetsLog
  <1> QED
    BY <1>1 DEF PersistsOrKeeps

(* Most steps send no snapshot and hand none to the service.               *)
LEMMA UnderWayKept ==
  ASSUME SInv, \A m \in rpcs' \ rpcs : m.type # "InstallSnapshot",
         \A j \in Server : snapCh'[j] \subseteq snapCh[j]
  PROVE  SentWhole' /\ WaitingWhole'
  BY DEF SInv, SentWhole, WaitingWhole

(* persist() writes the log the handler leaves.                            *)
LEMMA PersistedLogs ==
  ASSUME TypeOK, NEW i \in Server, stable' = [stable EXCEPT ![i] = Encoded(i)]
  PROVE  PersistsOrKeeps
  BY DEF PersistsOrKeeps, TypeOK, Encoded

-----------------------------------------------------------------------------
LEMMA InitWhole == Init => SInv
  <1> SUFFICES ASSUME Init PROVE SInv
    OBVIOUS
  <1>1. First(EmptyLog) = 0
    BY DEF EmptyLog, First, getFirstLog
  <1> HIDE DEF EmptyLog
  <1> QED
    BY <1>1 DEF Init, SInv, SnapshotMeetsLog, SentWhole, WaitingWhole

(* A step that leaves logs, persister and snapCh alone and sends no        *)
(* snapshot.                                                               *)
LEMMA QuietWhole ==
  ASSUME SInv, UNCHANGED <<logs, stable, snapshot, snapCh>>,
         \A m \in rpcs' \ rpcs : m.type # "InstallSnapshot"
  PROVE  SInv'
  <1>1. SnapshotMeetsLog'
    BY DiskKept DEF PersistsOrKeeps
  <1> QED
    BY <1>1, UnderWayKept DEF SInv

(* A step that persists one peer and leaves every log as it is.            *)
LEMMA PersistWhole ==
  ASSUME TypeOK, SInv, NEW i \in Server, persist(i), UNCHANGED <<logs, snapCh>>,
         \A m \in rpcs' \ rpcs : m.type # "InstallSnapshot"
  PROVE  SInv'
  <1>1. PersistsOrKeeps /\ UNCHANGED snapshot
    BY PersistedLogs DEF persist
  <1>2. SnapshotMeetsLog'
    BY <1>1, DiskKept
  <1> QED
    BY <1>2, UnderWayKept DEF SInv

LEMMA StartElectionWhole ==
  ASSUME TypeOK, SInv, NEW i \in Server, StartElection(i)
  PROVE  SInv'
  <1>1. /\ persist(i) /\ UNCHANGED <<logs, snapCh>>
        /\ \A m \in rpcs' \ rpcs : m.type # "InstallSnapshot"
    BY DEF StartElection, InFlight, RequestVoteRequest
  <1> QED
    BY <1>1, PersistWhole

LEMMA RequestVoteWhole ==
  ASSUME TypeOK, SInv, NEW m \in rpcs, RequestVote(m)
  PROVE  SInv'
  <1>1. m.to \in Server
    BY MessageFields DEF TypeOK
  <1>2. persist(m.to) /\ UNCHANGED <<logs, snapCh>>
    BY DEF RequestVote
  <1>3. \A r \in rpcs' \ rpcs : r.type # "InstallSnapshot"
    BY DEF RequestVote, Answer, InFlight, RequestVoteResponse
  <1> QED
    BY <1>1, <1>2, <1>3, PersistWhole

LEMMA HandleRequestVoteResponseWhole ==
  ASSUME TypeOK, SInv, NEW m \in rpcs, HandleRequestVoteResponse(m)
  PROVE  SInv'
  <1>1. m.to \in Server
    BY MessageFields DEF TypeOK
  <1>2. /\ rpcs' \subseteq rpcs /\ UNCHANGED <<logs, snapCh>>
        /\ persist(m.to) \/ UNCHANGED <<stable, snapshot>>
    BY DEF HandleRequestVoteResponse, InFlight, stepDown, hardState, persister
  <1> QED
    BY <1>1, <1>2, PersistWhole, QuietWhole

(* Start appends to the log in memory and not to the one on disk; both     *)
(* begin where they began.                                                 *)
LEMMA StartWhole ==
  ASSUME TypeOK, SInv, NEW i \in Server, Start(i)
  PROVE  SInv'
  <1> DEFINE log == Append(logs[i], [Index |-> Last(logs[i]) + 1, Term |-> currentTerm[i]])
  <1>1. /\ logs' = [logs EXCEPT ![i] = log]
        /\ UNCHANGED <<snapCh, stable, snapshot, rpcs>>
    BY DEF Start, persister
  <1>2. First(log) = First(logs[i])
    <2>1. IsLog(logs[i]) /\ currentTerm[i] \in Nat
      BY DEF TypeOK
    <2> QED
      BY <2>1, AppendIsLog
  <1> HIDE DEF log
  <1>3. \A j \in Server : First(logs'[j]) = First(logs[j])
    BY <1>1, <1>2 DEF TypeOK
  <1>4. SnapshotMeetsLog'
    BY <1>1, <1>3, DiskKept DEF PersistsOrKeeps
  <1> QED
    BY <1>1, <1>4, UnderWayKept DEF SInv

(* The snapshot a leader sends is the one the persister holds, labelled    *)
(* with the first index of the log in memory.                              *)
LEMMA ReplicateOneRoundWhole ==
  ASSUME TypeOK, SInv, NEW i \in Server, NEW p \in Server, ReplicateOneRound(i, p)
  PROVE  SInv'
  <1> DEFINE install == InstallSnapshotRequest(i, p)
  <1>1. /\ UNCHANGED <<logs, stable, snapshot, snapCh>>
        /\ \A m \in rpcs' \ rpcs : m.type = "InstallSnapshot" => m = install
    BY DEF ReplicateOneRound, InFlight, AppendEntriesRequest, volatile, hardState, persister
  <1>2. install.Data = install.LastIncludedIndex
    BY DEF SInv, SnapshotMeetsLog, InstallSnapshotRequest
  <1> HIDE DEF install
  <1>3. SentWhole'
    BY <1>1, <1>2 DEF SInv, SentWhole
  <1>4. SnapshotMeetsLog' /\ WaitingWhole'
    BY <1>1 DEF SInv, SnapshotMeetsLog, WaitingWhole
  <1> QED
    BY <1>3, <1>4 DEF SInv

(* AppendEntries never cuts the log from below, whatever branch it takes.  *)
LEMMA AppendEntriesWhole ==
  ASSUME IInv, SInv, NEW m \in rpcs, AppendEntries(m)
  PROVE  SInv'
  <1>1. TypeOK /\ m.to \in Server /\ m.type = "AppendEntries"
    BY MessageFields DEF IInv, TypeOK, AppendEntries
  <1>2. /\ UNCHANGED <<snapCh, snapshot>>
        /\ stable' = [stable EXCEPT ![m.to] = Encoded(m.to)]
    BY DEF AppendEntries, persist
  <1>3. \A j \in Server : First(logs'[j]) = First(logs[j])
    <2>1. CASE UNCHANGED logs
      BY <2>1
    <2>2. CASE AppendEntriesMatch(m.to, m)
      BY <1>1, <2>2, MatchOK DEF LogsAfter
    <2> QED
      BY <2>1, <2>2 DEF AppendEntries, AppendEntriesStale, AppendEntriesBelowFirst,
                        AppendEntriesMismatch
  <1>4. \A r \in rpcs' \ rpcs : r.type = "AppendEntriesReply"
    <2>1. \E term, success, index, conflictTerm :
            AnswerOne(m, AppendEntriesResponse(m, term, success, index, conflictTerm))
      BY DEF AppendEntries, AppendEntriesStale, AppendEntriesBelowFirst,
             AppendEntriesMismatch, AppendEntriesMatch
    <2> QED
      BY <2>1 DEF AnswerOne, Received, InFlight, AppendEntriesResponse
  <1>5. SnapshotMeetsLog'
    BY <1>1, <1>2, <1>3, PersistedLogs, DiskKept
  <1> QED
    BY <1>2, <1>4, <1>5, UnderWayKept DEF SInv

LEMMA RoundReplyWhole ==
  ASSUME TypeOK, SInv, NEW m \in rpcs,
         HandleAppendEntriesResponse(m) \/ HandleInstallSnapshotResponse(m)
  PROVE  SInv'
  <1>1. m.to \in Server
    BY MessageFields DEF TypeOK
  <1>2. rpcs' \subseteq rpcs /\ UNCHANGED snapCh
    BY DEF HandleAppendEntriesResponse, HandleInstallSnapshotResponse, ConsumeOne, Received,
           InFlight
  <1>3. UNCHANGED logs /\ (persist(m.to) \/ UNCHANGED <<stable, snapshot>>)
    <2>1. CASE HandleAppendEntriesResponse(m)
      BY <2>1 DEF HandleAppendEntriesResponse, stepDown, hardState, persister
    <2>2. CASE HandleInstallSnapshotResponse(m)
      BY <2>2 DEF HandleInstallSnapshotResponse, stepDown, hardState, persister
    <2> QED
      BY <2>1, <2>2
  <1> QED
    BY <1>1, <1>2, <1>3, PersistWhole, QuietWhole

-----------------------------------------------------------------------------
(* What the goroutine of InstallSnapshot hands to the service is what the  *)
(* leader sent.                                                            *)
LEMMA InstallSnapshotWhole ==
  ASSUME TypeOK, SInv, NEW m \in rpcs, InstallSnapshot(m)
  PROVE  SInv'
  <1> DEFINE msg == [SnapshotIndex |-> m.LastIncludedIndex,
                     SnapshotTerm |-> m.LastIncludedTerm, Snapshot |-> m.Data]
  <1>1. m.to \in Server
    BY MessageFields DEF TypeOK
  <1>2. /\ UNCHANGED logs /\ m.type = "InstallSnapshot"
        /\ persist(m.to) \/ UNCHANGED <<stable, snapshot>>
        /\ snapCh' \in {snapCh, [snapCh EXCEPT ![m.to] = @ \cup {msg}]}
    BY DEF InstallSnapshot, persister
  <1>3. \A r \in rpcs' \ rpcs : r.type # "InstallSnapshot"
    BY DEF InstallSnapshot, AnswerOne, Received, InFlight, InstallSnapshotResponse
  <1>4. SnapshotMeetsLog'
    <2>1. PersistsOrKeeps /\ UNCHANGED snapshot
      BY <1>1, <1>2, PersistedLogs DEF persist, PersistsOrKeeps
    <2> QED
      BY <1>2, <2>1, DiskKept
  <1>5. SentWhole'
    BY <1>3 DEF SInv, SentWhole
  <1>6. WaitingWhole'
    <2>1. msg.Snapshot = msg.SnapshotIndex
      BY <1>2 DEF SInv, SentWhole
    <2> HIDE DEF msg
    <2>2. DOMAIN snapCh = Server
      BY DEF TypeOK
    <2>3. \A j \in Server : \A s \in snapCh'[j] : s \in snapCh[j] \/ s = msg
      BY <1>1, <1>2, <2>2
    <2> QED
      BY <2>1, <2>3 DEF SInv, WaitingWhole
  <1> QED
    BY <1>4, <1>5, <1>6 DEF SInv

(* A log cut at an index, saved together with the snapshot up to it.       *)
LEMMA CutWhole ==
  ASSUME TypeOK, SInv, NEW i \in Server, NEW log, NEW index,
         First(log) = index, logs' = [logs EXCEPT ![i] = log],
         SaveStateAndSnapshot(i, index), UNCHANGED rpcs,
         \A j \in Server : snapCh'[j] \subseteq snapCh[j]
  PROVE  SInv'
  <1>1. /\ stable' = [stable EXCEPT ![i] = Encoded(i)]
        /\ snapshot' = [snapshot EXCEPT ![i] = index]
    BY DEF SaveStateAndSnapshot
  <1>2. Encoded(i).logs = logs'[i]
    BY DEF Encoded
  <1>3. SnapshotMeetsLog'
    <2> SUFFICES ASSUME NEW j \in Server
                 PROVE  /\ snapshot'[j] = First(stable'[j].logs)
                        /\ snapshot'[j] = First(logs'[j])
      BY DEF SnapshotMeetsLog
    <2>1. CASE j = i
      BY <1>1, <1>2, <2>1 DEF TypeOK
    <2>2. CASE j # i
      BY <1>1, <2>2 DEF TypeOK, SInv, SnapshotMeetsLog
    <2> QED
      BY <2>1, <2>2
  <1> QED
    BY <1>3, UnderWayKept DEF SInv

LEMMA CondInstallSnapshotWhole ==
  ASSUME IInv, SInv, NEW i \in Server, NEW msg \in snapCh[i], CondInstallSnapshot(i, msg)
  PROVE  SInv'
  <1> DEFINE log == Trimmed(logs[i], msg.SnapshotIndex, msg.SnapshotTerm)
  <1>1. TypeOK /\ FirstCommitted
    BY DEF IInv
  <1>2. /\ UNCHANGED rpcs
        /\ \A j \in Server : snapCh'[j] \subseteq snapCh[j]
    BY <1>1 DEF CondInstallSnapshot, TypeOK
  <1>3. CASE msg.SnapshotIndex <= commitIndex[i]
    <2>1. UNCHANGED <<logs, stable, snapshot>>
      BY <1>3 DEF CondInstallSnapshot, persister
    <2>2. SnapshotMeetsLog'
      BY <2>1 DEF SInv, SnapshotMeetsLog
    <2> QED
      BY <1>2, <2>2, UnderWayKept DEF SInv
  <1>4. CASE ~(msg.SnapshotIndex <= commitIndex[i])
    <2>1. /\ logs' = [logs EXCEPT ![i] = log]
          /\ SaveStateAndSnapshot(i, msg.Snapshot)
      BY <1>4 DEF CondInstallSnapshot
    <2>2. msg.SnapshotIndex \in Nat /\ msg.SnapshotTerm \in Nat
          /\ msg.Snapshot = msg.SnapshotIndex
      BY <1>1 DEF TypeOK, SInv, WaitingWhole
    <2>3. IsLog(logs[i]) /\ msg.SnapshotIndex >= First(logs[i])
      <3>1. /\ IsLog(logs[i]) /\ commitIndex[i] \in Nat
            /\ First(logs[i]) <= commitIndex[i]
        BY <1>1 DEF TypeOK, FirstCommitted
      <3> QED
        BY <1>4, <2>2, <3>1, LogEnds
    <2>4. First(log) = msg.Snapshot
      BY <2>2, <2>3, TrimmedIsLog
    <2> HIDE DEF log
    <2> QED
      BY <1>1, <1>2, <2>1, <2>4, CutWhole
  <1> QED
    BY <1>3, <1>4

LEMMA SnapshotWhole ==
  ASSUME TypeOK, SInv, NEW i \in Server, NEW index \in 1 .. MaxSnapshotIndex,
         Snapshot(i, index)
  PROVE  SInv'
  <1> DEFINE log == From(logs[i], index)
  <1>1. /\ logs' = [logs EXCEPT ![i] = log] /\ UNCHANGED <<snapCh, rpcs>>
        /\ SaveStateAndSnapshot(i, index)
        /\ First(logs[i]) < index /\ index <= Last(logs[i])
    BY DEF Snapshot, volatile
  <1>2. First(log) = index
    <2>1. IsLog(logs[i]) /\ First(logs[i]) \in Nat /\ Last(logs[i]) \in Nat /\ index \in Nat
      BY LogEnds, BoundAssumption DEF TypeOK
    <2>2. index \in First(logs[i]) .. Last(logs[i])
      BY <1>1, <2>1
    <2> QED
      BY <2>1, <2>2, FromIsLog
  <1> HIDE DEF log
  <1> QED
    BY <1>1, <1>2, CutWhole

(* The log comes back from the persister, where it begins with the         *)
(* snapshot.                                                               *)
LEMMA RestartWhole ==
  ASSUME TypeOK, SInv, NEW i \in Server, Restart(i)
  PROVE  SInv'
  <1>1. /\ logs' = [logs EXCEPT ![i] = stable[i].logs]
        /\ snapCh' = [snapCh EXCEPT ![i] = {}]
        /\ rpcs' \subseteq rpcs /\ UNCHANGED <<stable, snapshot>>
    BY DEF Restart, persister
  <1>2. \A j \in Server : First(logs'[j]) = First(logs[j])
    BY <1>1 DEF TypeOK, SInv, SnapshotMeetsLog
  <1>3. SnapshotMeetsLog'
    BY <1>1, <1>2, DiskKept DEF PersistsOrKeeps
  <1>4. \A j \in Server : snapCh'[j] \subseteq snapCh[j]
    BY <1>1 DEF TypeOK
  <1> QED
    BY <1>1, <1>3, <1>4, UnderWayKept DEF SInv

-----------------------------------------------------------------------------
LEMMA NextWhole ==
  ASSUME IInv, SInv, [Next]_vars
  PROVE  SInv'
  <1>0. TypeOK
    BY DEF IInv
  <1>1. CASE \E i \in Server : StartElection(i)
    BY <1>0, <1>1, StartElectionWhole
  <1>2. CASE \E i \in Server : Start(i)
    BY <1>0, <1>2, StartWhole
  <1>3. CASE \E i, p \in Server : ReplicateOneRound(i, p)
    BY <1>0, <1>3, ReplicateOneRoundWhole
  <1>4. CASE \E i \in Server : \E msg \in snapCh[i] : CondInstallSnapshot(i, msg)
    BY <1>4, CondInstallSnapshotWhole
  <1>5. CASE \E i \in Server : \E index \in 1 .. MaxSnapshotIndex : Snapshot(i, index)
    BY <1>0, <1>5, SnapshotWhole
  <1>6. CASE \E i \in Server : Restart(i)
    BY <1>0, <1>6, RestartWhole
  <1>7. CASE \E m \in rpcs : Receive(m)
    BY <1>0, <1>7, RequestVoteWhole, HandleRequestVoteResponseWhole, AppendEntriesWhole,
       RoundReplyWhole, InstallSnapshotWhole DEF Receive
  <1>8. CASE (\E m \in rpcs : Drop(m)) \/ UNCHANGED vars
    <2>1. rpcs' \subseteq rpcs /\ UNCHANGED <<logs, stable, snapshot, snapCh>>
      BY <1>8 DEF Drop, vars, volatile, hardState, persister
    <2> QED
      BY <2>1, QuietWhole
  <1> QED
    BY <1>1, <1>2, <1>3, <1>4, <1>5, <1>6, <1>7, <1>8 DEF Next

(* The snapshot on disk ends where the log on disk and the one in memory   *)
(* begin, in every reachable state: SaveStateAndSnapshot writes the two    *)
(* together, the snapshots that leader, network and applyCh pass on cover  *)
(* the index they are labelled with, and no other handler cuts a log from  *)
(* below.                                                                  *)
THEOREM SnapshotContinues == Spec => []SnapshotMeetsLog
  <1>1. Init => SInv
    BY InitWhole
  <1>2. IInv /\ SInv /\ [Next]_vars => SInv'
    BY NextWhole
  <1>3. SInv => SnapshotMeetsLog
    BY DEF SInv
  <1> QED
    BY InvariantHolds, <1>1, <1>2, <1>3, PTL DEF Spec

-----------------------------------------------------------------------------
(* Where snapshots come from: a leader sends where its log begins, and the *)
(* service gets what was sent.                                             *)
FirstSent(m) ==
  \E i \in Server : /\ m.LastIncludedIndex = First(logs[i])
                    /\ m.LastIncludedTerm = getFirstLog(logs[i]).Term

Delivers(msg, m) ==
  /\ m.type = "InstallSnapshot"
  /\ msg.SnapshotIndex = m.LastIncludedIndex /\ msg.SnapshotTerm = m.LastIncludedTerm

Passed ==
  /\ \A m \in rpcs' \ rpcs : m.type = "InstallSnapshot" => FirstSent(m)
  /\ \A i \in Server : \A msg \in snapCh'[i] :
       msg \in snapCh[i] \/ \E m \in rpcs : Delivers(msg, m)

LEMMA NonePassed ==
  ASSUME \A m \in rpcs' \ rpcs : m.type # "InstallSnapshot",
         \A j \in Server : snapCh'[j] \subseteq snapCh[j]
  PROVE  Passed
  BY DEF Passed

LEMMA ReceivedPassed ==
  ASSUME TypeOK, NEW m \in rpcs, Receive(m)
  PROVE  Passed
  <1>1. CASE RequestVote(m)
    <2>1. /\ UNCHANGED snapCh
          /\ \A r \in rpcs' \ rpcs : r.type # "InstallSnapshot"
      BY <1>1 DEF RequestVote, Answer, InFlight, RequestVoteResponse
    <2> QED
      BY <2>1, NonePassed
  <1>2. CASE HandleRequestVoteResponse(m)
    <2>1. UNCHANGED snapCh /\ rpcs' \subseteq rpcs
      BY <1>2 DEF HandleRequestVoteResponse, InFlight
    <2> QED
      BY <2>1, NonePassed
  <1>3. CASE AppendEntries(m)
    <2>1. \E term, success, index, conflictTerm :
            AnswerOne(m, AppendEntriesResponse(m, term, success, index, conflictTerm))
      BY <1>3 DEF AppendEntries, AppendEntriesStale, AppendEntriesBelowFirst,
                  AppendEntriesMismatch, AppendEntriesMatch
    <2>2. \A r \in rpcs' \ rpcs : r.type # "InstallSnapshot"
      BY <2>1 DEF AnswerOne, Received, InFlight, AppendEntriesResponse
    <2>3. UNCHANGED snapCh
      BY <1>3 DEF AppendEntries
    <2> QED
      BY <2>2, <2>3, NonePassed
  <1>4. CASE HandleAppendEntriesResponse(m) \/ HandleInstallSnapshotResponse(m)
    <2>1. UNCHANGED snapCh /\ rpcs' \subseteq rpcs
      BY <1>4 DEF HandleAppendEntriesResponse, HandleInstallSnapshotResponse, ConsumeOne,
                  Received, InFlight
    <2> QED
      BY <2>1, NonePassed
  <1>5. CASE InstallSnapshot(m)
    <2> DEFINE msg == [SnapshotIndex |-> m.LastIncludedIndex,
                       SnapshotTerm |-> m.LastIncludedTerm, Snapshot |-> m.Data]
    <2>1. m.to \in Server
      BY MessageFields DEF TypeOK
    <2>2. /\ m.type = "InstallSnapshot"
          /\ snapCh' \in {snapCh, [snapCh EXCEPT ![m.to] = @ \cup {msg}]}
      BY <1>5 DEF InstallSnapshot
    <2>3. Delivers(msg, m)
      BY <2>2 DEF Delivers
    <2>4. \A r \in rpcs' \ rpcs : r.type # "InstallSnapshot"
      BY <1>5 DEF InstallSnapshot, AnswerOne, Received, InFlight, InstallSnapshotResponse
    <2> HIDE DEF msg
    <2>5. DOMAIN snapCh = Server
      BY DEF TypeOK
    <2>6. \A j \in Server : \A s \in snapCh'[j] : s \in snapCh[j] \/ s = msg
      BY <2>1, <2>2, <2>5
    <2> QED
      BY <2>3, <2>4, <2>6 DEF Passed
  <1> QED
    BY <1>1, <1>2, <1>3, <1>4, <1>5 DEF Receive

LEMMA NextPassed ==
  ASSUME TypeOK, [Next]_vars
  PROVE  Passed
  <1>1. CASE \E i \in Server : StartElection(i)
    <2>1. /\ UNCHANGED snapCh
          /\ \A r \in rpcs' \ rpcs : r.type # "InstallSnapshot"
      BY <1>1 DEF StartElection, InFlight, RequestVoteRequest
    <2> QED
      BY <2>1, NonePassed
  <1>2. CASE \E i, p \in Server : ReplicateOneRound(i, p)
    <2>1. PICK i \in Server, p \in Server : ReplicateOneRound(i, p)
      BY <1>2
    <2> DEFINE install == InstallSnapshotRequest(i, p)
    <2>2. /\ UNCHANGED snapCh
          /\ \A m \in rpcs' \ rpcs : m.type = "InstallSnapshot" => m = install
      BY <2>1 DEF ReplicateOneRound, InFlight, AppendEntriesRequest, volatile
    <2>3. FirstSent(install)
      BY DEF FirstSent, InstallSnapshotRequest
    <2> HIDE DEF install
    <2> QED
      BY <2>2, <2>3 DEF Passed
  <1>3. CASE \/ \E i \in Server : \E msg \in snapCh[i] : CondInstallSnapshot(i, msg)
             \/ \E i \in Server : Restart(i)
    <2>1. /\ rpcs' \subseteq rpcs
          /\ \E i \in Server : \E waiting \in SUBSET snapCh[i] :
               snapCh' = [snapCh EXCEPT ![i] = waiting]
      <3>1. ASSUME NEW i \in Server, NEW msg \in snapCh[i], CondInstallSnapshot(i, msg)
            PROVE  rpcs' \subseteq rpcs /\ snapCh' = [snapCh EXCEPT ![i] = snapCh[i] \ {msg}]
        BY <3>1 DEF CondInstallSnapshot
      <3>2. ASSUME NEW i \in Server, Restart(i)
            PROVE  rpcs' \subseteq rpcs /\ snapCh' = [snapCh EXCEPT ![i] = {}]
        BY <3>2 DEF Restart
      <3> QED
        BY <1>3, <3>1, <3>2
    <2>2. \A j \in Server : snapCh'[j] \subseteq snapCh[j]
      BY <2>1 DEF TypeOK
    <2> QED
      BY <2>1, <2>2, NonePassed
  <1>4. CASE \/ \E i \in Server : Start(i)
             \/ \E i \in Server : \E index \in 1 .. MaxSnapshotIndex : Snapshot(i, index)
             \/ \E m \in rpcs : Drop(m)
             \/ UNCHANGED vars
    <2>1. UNCHANGED snapCh /\ rpcs' \subseteq rpcs
      BY <1>4 DEF Start, Snapshot, Drop, vars, volatile
    <2> QED
      BY <2>1, NonePassed
  <1>5. CASE \E m \in rpcs : Receive(m)
    BY <1>5, ReceivedPassed
  <1> QED
    BY <1>1, <1>2, <1>3, <1>4, <1>5 DEF Next

(* The entry a log begins with is counted: the log begins at or below      *)
(* commitIndex.                                                            *)
LEMMA FirstCounted ==
  ASSUME IInv, NEW i \in Server
  PROVE  <<First(logs[i]), getFirstLog(logs[i]).Term>> \in Counted
  <1>1. IsLog(logs[i]) /\ First(logs[i]) <= commitIndex[i]
    BY DEF IInv, TypeOK, FirstCommitted
  <1>2. /\ First(logs[i]) \in First(logs[i]) .. Last(logs[i])
        /\ TermAt(logs[i], First(logs[i])) = getFirstLog(logs[i]).Term
    BY <1>1, LogEnds DEF TermAt, EntryAt, getFirstLog
  <1> QED
    BY <1>1, <1>2 DEF Counted, CountedBy

(* Every snapshot ends with an entry that was committed, however long it   *)
(* is under way: ReplicateOneRound sends where the leader's log begins,    *)
(* which is at or below commitIndex, and InstallSnapshot hands on what it  *)
(* was sent.                                                               *)
THEOREM SnapshotsCommitted == CSpec => []SnapshotsAreCommitted
  <1> DEFINE Inv == IInv /\ Counted \subseteq committed /\ SnapshotsAreCommitted
  <1>1. CInit => Inv
    <2> SUFFICES ASSUME CInit PROVE Inv
      OBVIOUS
    <2>1. IInv
      BY InitOK DEF CInit
    <2> QED
      BY <2>1 DEF CInit, Init, SnapshotsAreCommitted
  <1>2. Inv /\ [CNext]_<<vars, committed>> => Inv'
    <2> SUFFICES ASSUME Inv, [CNext]_<<vars, committed>> PROVE Inv'
      OBVIOUS
    <2>1. [Next]_vars
      BY DEF CNext
    <2>2. IInv'
      BY <2>1, NextOK
    <2>3. committed \subseteq committed' /\ Counted' \subseteq committed'
      <3>1. CASE CNext
        BY <3>1 DEF CNext
      <3>2. CASE UNCHANGED <<vars, committed>>
        BY <3>2 DEF vars, volatile, hardState, Counted, CountedBy
      <3> QED
        BY <3>1, <3>2
    <2>4. Passed
      BY <2>1, NextPassed DEF IInv
    <2>5. \A m \in rpcs' : m.type = "InstallSnapshot" =>
            <<m.LastIncludedIndex, m.LastIncludedTerm>> \in committed'
      BY <2>3, <2>4, FirstCounted DEF Passed, FirstSent, SnapshotsAreCommitted
    <2>6. \A i \in Server : \A msg \in snapCh'[i] :
            <<msg.SnapshotIndex, msg.SnapshotTerm>> \in committed'
      BY <2>3, <2>4 DEF Passed, Delivers, SnapshotsAreCommitted
    <2> QED
      BY <2>2, <2>3, <2>5, <2>6 DEF SnapshotsAreCommitted
  <1> QED
    BY <1>1, <1>2, PTL DEF CSpec

-----------------------------------------------------------------------------
(* Elections.                                                              *)

VoteTypes == {"RequestVote", "RequestVoteReply"}

Voter(m) == IF m.type \in Requests THEN m.to ELSE m.from

(* m belongs to the request of candidate i for p's vote in a term.         *)
Asks(m, i, p, term) ==
  m.type \in VoteTypes /\ Sender(m) = i /\ Voter(m) = p /\ SentTerm(m) = term

NotAsked(i, p, term) == \A m \in rpcs : ~Asks(m, i, p, term)

(* Whom the counter of i's election may have counted.                      *)
CountedFor(i) == { p \in VotersOf(i) : NotAsked(i, p, currentTerm[i]) }

VotePersisted == \A i \in Server : stable[i].votedFor = votedFor[i]

VotesOK ==
  /\ votes \subseteq Nat \X Server \X Server
  /\ \A i \in Server : votedFor[i] # None => <<currentTerm[i], i, votedFor[i]>> \in votes
  /\ \A term \in Nat, p, c \in Server : <<term, p, c>> \in votes =>
       term <= currentTerm[p] /\ (term = currentTerm[p] => votedFor[p] = c)

OnlyVote ==
  \A term \in Nat, p, c, d \in Server :
    <<term, p, c>> \in votes /\ <<term, p, d>> \in votes => c = d

AskedOK(m) ==
  /\ SentTerm(m) <= currentTerm[Sender(m)]
  /\ m.type = "RequestVoteReply" /\ m.VoteGranted => <<m.reqTerm, m.from, m.to>> \in votes

AllAskedOK == \A m \in rpcs : m.type \in VoteTypes => AskedOK(m)
AskedOnce  == \A m, n \in rpcs :
                m.type \in VoteTypes /\ Asks(n, Sender(m), Voter(m), SentTerm(m)) => m = n

CountOK == \A i \in Server : state[i] = Candidate => grantedVotes[i] <= Cardinality(CountedFor(i))

VotesInv == /\ VotePersisted /\ VotesOK /\ OnlyVote
            /\ AllAskedOK /\ AskedOnce /\ CountOK /\ LeaderHasMajority
VInv == IInv /\ VotesInv

-----------------------------------------------------------------------------
(* How a step leaves the votes, the roles and the requests for votes.      *)

RoleKept(i) ==
  /\ state'[i] = Candidate => /\ state[i] = Candidate /\ currentTerm'[i] = currentTerm[i]
                              /\ grantedVotes'[i] = grantedVotes[i]
  /\ state'[i] = Leader => state[i] = Leader /\ currentTerm'[i] = currentTerm[i]

VotesStand == VotePersisted' /\ \A i \in Server : VoteKept(i)
RolesStand == \A i \in Server : RoleKept(i)
NoneAsked  == \A m \in rpcs' : m.type \in VoteTypes => m \in rpcs
Quiet      == VotesStand /\ RolesStand /\ NoneAsked

Recorded == votes' = votes \cup Held'

LEMMA NewVotes ==
  ASSUME Recorded, TypeOK', NEW term, NEW p, NEW c
  PROVE  <<term, p, c>> \in votes' <=>
           \/ <<term, p, c>> \in votes
           \/ p \in Server /\ c # None /\ term = currentTerm'[p] /\ c = votedFor'[p]
  <1>1. <<term, p, c>> \in Held' <=>
          p \in Server /\ c # None /\ term = currentTerm'[p] /\ c = votedFor'[p]
    BY DEF Held
  <1> QED
    BY <1>1 DEF Recorded

LEMMA VotesOKKept ==
  ASSUME TypeOK, TypeOK', VotesOK, OnlyVote, VotesStand, Recorded
  PROVE  VotesOK' /\ OnlyVote'
  <1>1. /\ currentTerm \in [Server -> Nat] /\ currentTerm' \in [Server -> Nat]
        /\ votedFor \in [Server -> Server \cup {None}]
        /\ votedFor' \in [Server -> Server \cup {None}]
    BY DEF TypeOK
  <1>2. None \notin Server
    BY ServerAssumption
  <1>3. votes' \subseteq Nat \X Server \X Server
    <2>1. Held' \subseteq Nat \X Server \X Server
      BY <1>1 DEF Held
    <2> QED
      BY <2>1 DEF Recorded, VotesOK
  <1>4. \A i \in Server : votedFor'[i] # None => <<currentTerm'[i], i, votedFor'[i]>> \in votes'
    BY NewVotes
  <1>5. ASSUME NEW term \in Nat, NEW p \in Server, NEW c \in Server, <<term, p, c>> \in votes'
        PROVE  term <= currentTerm'[p] /\ (term = currentTerm'[p] => votedFor'[p] = c)
    <2>1. CASE <<term, p, c>> \in votes
      <3>1. term <= currentTerm[p] /\ (term = currentTerm[p] => votedFor[p] = c)
        BY <2>1 DEF VotesOK
      <3>2. VoteKept(p)
        BY DEF VotesStand
      <3> QED
        BY <1>1, <1>2, <3>1, <3>2 DEF VoteKept
    <2>2. CASE <<term, p, c>> \notin votes
      BY <1>1, <1>5, <2>2, NewVotes
    <2> QED
      BY <2>1, <2>2
  <1>6. VotesOK'
    BY <1>3, <1>4, <1>5 DEF VotesOK
  <1>7. OnlyVote'
    <2> SUFFICES ASSUME NEW term \in Nat, NEW p \in Server, NEW c \in Server, NEW d \in Server,
                        <<term, p, c>> \in votes', <<term, p, d>> \in votes'
                 PROVE  c = d
      BY DEF OnlyVote
    <2>1. CASE <<term, p, c>> \in votes /\ <<term, p, d>> \in votes
      BY <2>1 DEF OnlyVote
    <2>2. CASE term = currentTerm'[p]
      BY <1>5, <2>2
    <2> QED
      BY <2>1, <2>2, NewVotes
  <1> QED
    BY <1>6, <1>7

LEMMA CountedSet ==
  ASSUME NEW i \in Server
  PROVE  /\ CountedFor(i) \subseteq VotersOf(i) /\ VotersOf(i) \subseteq Server
         /\ IsFiniteSet(CountedFor(i)) /\ Cardinality(CountedFor(i)) \in Nat
         /\ IsFiniteSet(VotersOf(i)) /\ Cardinality(VotersOf(i)) \in Nat
         /\ Cardinality(Server) \in Nat
         /\ Cardinality(CountedFor(i)) <= Cardinality(VotersOf(i))
  <1>1. CountedFor(i) \subseteq VotersOf(i) /\ VotersOf(i) \subseteq Server
    BY DEF CountedFor, VotersOf
  <1>2. IsFiniteSet(Server) /\ Cardinality(Server) \in Nat
    BY ServerAssumption, FS_CardinalityType
  <1>3. IsFiniteSet(VotersOf(i)) /\ Cardinality(VotersOf(i)) \in Nat
    BY <1>1, <1>2, FS_Subset, FS_CardinalityType
  <1>4. IsFiniteSet(CountedFor(i)) /\ Cardinality(CountedFor(i)) \in Nat
        /\ Cardinality(CountedFor(i)) <= Cardinality(VotersOf(i))
    BY <1>1, <1>3, FS_Subset, FS_CardinalityType
  <1> QED
    BY <1>1, <1>2, <1>3, <1>4

(* In the term it is in a peer loses no vote.                              *)
LEMMA VotersStay ==
  ASSUME Recorded, NEW i \in Server, currentTerm'[i] = currentTerm[i]
  PROVE  VotersOf(i) \subseteq VotersOf(i)' /\ VotersOf(i)' \subseteq Server
  BY DEF Recorded, VotersOf

(* The larger of two sets of peers has no smaller cardinality.             *)
LEMMA Larger ==
  ASSUME NEW S, NEW T, S \subseteq T, T \subseteq Server
  PROVE  /\ Cardinality(S) \in Nat /\ Cardinality(T) \in Nat
         /\ Cardinality(S) <= Cardinality(T)
         /\ Majority(S) => Majority(T)
  <1>1. IsFiniteSet(T) /\ IsFiniteSet(S)
    BY ServerAssumption, FS_Subset
  <1>2. Cardinality(S) \in Nat /\ Cardinality(T) \in Nat /\ Cardinality(Server) \in Nat
    BY <1>1, ServerAssumption, FS_CardinalityType
  <1>3. Cardinality(S) <= Cardinality(T)
    BY <1>1, FS_Subset
  <1>4. Majority(S) => Majority(T)
    BY <1>2, <1>3 DEF Majority
  <1> QED
    BY <1>2, <1>3, <1>4

LEMMA CountKept ==
  ASSUME TypeOK, TypeOK', Recorded, NEW i \in Server, RoleKept(i),
         state[i] = Candidate => grantedVotes[i] <= Cardinality(CountedFor(i)),
         \A p \in Server, term \in Nat : NotAsked(i, p, term) => NotAsked(i, p, term)'
  PROVE  state'[i] = Candidate => grantedVotes'[i] <= Cardinality(CountedFor(i)')
  <1> SUFFICES ASSUME state'[i] = Candidate
               PROVE  grantedVotes'[i] <= Cardinality(CountedFor(i)')
    OBVIOUS
  <1>1. /\ state[i] = Candidate /\ currentTerm'[i] = currentTerm[i]
        /\ grantedVotes'[i] = grantedVotes[i]
        /\ currentTerm[i] \in Nat /\ grantedVotes[i] \in Nat
    BY DEF RoleKept, TypeOK
  <1>2. CountedFor(i) \subseteq CountedFor(i)' /\ CountedFor(i)' \subseteq Server
    <2>1. VotersOf(i) \subseteq VotersOf(i)' /\ VotersOf(i)' \subseteq Server
      BY <1>1, VotersStay
    <2>2. \A p \in Server : NotAsked(i, p, currentTerm[i]) => NotAsked(i, p, currentTerm[i])'
      <3> SUFFICES ASSUME NEW p \in Server, NotAsked(i, p, currentTerm[i])
                   PROVE  NotAsked(i, p, currentTerm[i])'
        OBVIOUS
      <3>1. PICK term \in Nat : term = currentTerm[i] /\ term = currentTerm'[i]
        BY <1>1
      <3>2. NotAsked(i, p, term)'
        BY <3>1
      <3> QED
        BY <3>1, <3>2 DEF NotAsked, Asks
    <2> QED
      BY <2>1, <2>2 DEF CountedFor
  <1>3. Cardinality(CountedFor(i)) <= Cardinality(CountedFor(i)')
        /\ Cardinality(CountedFor(i)) \in Nat /\ Cardinality(CountedFor(i)') \in Nat
    BY <1>2, Larger
  <1> QED
    BY <1>1, <1>3

LEMMA LeaderKept ==
  ASSUME Recorded, NEW i \in Server, RoleKept(i),
         state[i] = Leader => Majority(VotersOf(i))
  PROVE  state'[i] = Leader => Majority(VotersOf(i)')
  <1> SUFFICES ASSUME state'[i] = Leader PROVE Majority(VotersOf(i)')
    OBVIOUS
  <1>1. state[i] = Leader /\ currentTerm'[i] = currentTerm[i]
    BY DEF RoleKept
  <1>2. VotersOf(i) \subseteq VotersOf(i)' /\ VotersOf(i)' \subseteq Server
    BY <1>1, VotersStay
  <1> QED
    BY <1>1, <1>2, Larger

(* A request or reply in flight stays in order while terms and votes grow. *)
LEMMA AskedKept ==
  ASSUME TypeOK, TypeOK', VotesStand, Recorded, NEW m \in rpcs, m.type \in VoteTypes, AskedOK(m)
  PROVE  AskedOK(m)'
  <1>1. m.from \in Server /\ m.to \in Server /\ SentTerm(m) \in Nat /\ Sender(m) \in Server
    BY MessageFields DEF TypeOK, SentTerm, Sender, VoteTypes, Requests
  <1>2. SentTerm(m) <= currentTerm'[Sender(m)]
    <2>1. VoteKept(Sender(m))
      BY <1>1 DEF VotesStand
    <2>2. currentTerm[Sender(m)] \in Nat /\ currentTerm'[Sender(m)] \in Nat
      BY <1>1 DEF TypeOK
    <2> QED
      BY <1>1, <2>1, <2>2 DEF AskedOK, VoteKept
  <1>3. m.type = "RequestVoteReply" /\ m.VoteGranted => <<m.reqTerm, m.from, m.to>> \in votes'
    BY DEF AskedOK, Recorded
  <1> QED
    BY <1>2, <1>3 DEF AskedOK, SentTerm, Sender

(* A step that is not part of an election.                                 *)
LEMMA QuietVotes ==
  ASSUME VInv, IInv', Quiet, Recorded
  PROVE  VInv'
  <1>1. TypeOK /\ TypeOK' /\ VotesStand /\ RolesStand
    BY DEF VInv, IInv, Quiet
  <1>2. VotePersisted' /\ VotesOK' /\ OnlyVote'
    BY <1>1, VotesOKKept DEF VInv, VotesInv, VotesStand
  <1>3. AllAskedOK' /\ AskedOnce'
    <2>1. ASSUME NEW m \in rpcs', m.type \in VoteTypes PROVE m \in rpcs /\ AskedOK(m)'
      BY <1>1, <2>1, AskedKept DEF Quiet, NoneAsked, VInv, VotesInv, AllAskedOK
    <2>2. AllAskedOK'
      BY <2>1 DEF AllAskedOK
    <2>3. AskedOnce'
      BY <2>1 DEF VInv, VotesInv, AskedOnce, Asks
    <2> QED
      BY <2>2, <2>3
  <1>4. CountOK'
    <2> SUFFICES ASSUME NEW i \in Server
                 PROVE  state'[i] = Candidate => grantedVotes'[i] <= Cardinality(CountedFor(i)')
      BY DEF CountOK
    <2>1. RoleKept(i) /\ (state[i] = Candidate => grantedVotes[i] <= Cardinality(CountedFor(i)))
      BY <1>1 DEF RolesStand, VInv, VotesInv, CountOK
    <2>2. \A p \in Server, term \in Nat : NotAsked(i, p, term) => NotAsked(i, p, term)'
      BY DEF Quiet, NoneAsked, NotAsked, Asks
    <2> QED
      BY <1>1, <2>1, <2>2, CountKept
  <1>5. LeaderHasMajority'
    <2> SUFFICES ASSUME NEW i \in Server
                 PROVE  state'[i] = Leader => Majority(VotersOf(i)')
      BY DEF LeaderHasMajority
    <2>1. RoleKept(i) /\ (state[i] = Leader => Majority(VotersOf(i)))
      BY <1>1 DEF RolesStand, VInv, VotesInv, LeaderHasMajority
    <2> QED
      BY <2>1, LeaderKept
  <1> QED
    BY <1>2, <1>3, <1>4, <1>5 DEF VInv, VotesInv

-----------------------------------------------------------------------------
(* The steps of an election.                                               *)

LEMMA VotesPersisted ==
  ASSUME TypeOK, VotePersisted, NEW i \in Server,
         stable' = [stable EXCEPT ![i] = Encoded(i)],
         \A j \in Server \ {i} : votedFor'[j] = votedFor[j] /\ currentTerm'[j] = currentTerm[j],
         VoteKept(i)
  PROVE  VotesStand
  <1>1. DOMAIN stable = Server /\ currentTerm \in [Server -> Nat]
    BY DEF TypeOK
  <1>2. \A j \in Server : stable'[j].votedFor = votedFor'[j]
    <2> TAKE j \in Server
    <2>1. CASE j = i
      BY <1>1, <2>1 DEF Encoded
    <2>2. CASE j # i
      BY <1>1, <2>2 DEF VotePersisted
    <2> QED
      BY <2>1, <2>2
  <1>3. ASSUME NEW j \in Server \ {i} PROVE VoteKept(j)
    BY <1>1, <1>3 DEF VoteKept
  <1> QED
    BY <1>2, <1>3 DEF VotesStand, VotePersisted

LEMMA VotesUnchanged ==
  ASSUME TypeOK, VotePersisted, UNCHANGED <<currentTerm, votedFor>>,
         \A j \in Server : stable'[j].votedFor = votedFor[j]
  PROVE  VotesStand
  <1>1. currentTerm \in [Server -> Nat]
    BY DEF TypeOK
  <1>2. \A j \in Server : VoteKept(j)
    BY <1>1 DEF VoteKept
  <1> QED
    BY <1>2 DEF VotesStand, VotePersisted

LEMMA StartElectionStands ==
  ASSUME TypeOK, VotePersisted, NEW i \in Server, StartElection(i)
  PROVE  VotesStand
  <1>1. /\ currentTerm' = [currentTerm EXCEPT ![i] = currentTerm[i] + 1]
        /\ votedFor' = [votedFor EXCEPT ![i] = i]
        /\ stable' = [stable EXCEPT ![i] = Encoded(i)]
    BY DEF StartElection, persist
  <1>2. /\ currentTerm \in [Server -> Nat] /\ currentTerm'[i] = currentTerm[i] + 1
        /\ \A j \in Server \ {i} : votedFor'[j] = votedFor[j] /\ currentTerm'[j] = currentTerm[j]
    BY <1>1 DEF TypeOK
  <1>3. VoteKept(i)
    BY <1>2 DEF VoteKept
  <1> QED
    BY <1>1, <1>2, <1>3, VotesPersisted

LEMMA StartElectionVotes ==
  ASSUME VInv, IInv', NEW i \in Server, StartElection(i), Recorded
  PROVE  VInv'
  <1> DEFINE term == currentTerm[i] + 1
             requests == { RequestVoteRequest(i, p, term) : p \in Server \ {i} }
  <1>1. TypeOK /\ TypeOK' /\ VotePersisted /\ VotesOK /\ OnlyVote
    BY DEF VInv, VotesInv, IInv
  <1>2. currentTerm \in [Server -> Nat] /\ term \in Nat /\ None \notin Server
    <2>1. currentTerm \in [Server -> Nat]
      BY <1>1 DEF TypeOK
    <2> QED
      BY <2>1, ServerAssumption
  <1>3. /\ state' = [state EXCEPT ![i] = Candidate]
        /\ currentTerm' = [currentTerm EXCEPT ![i] = term]
        /\ votedFor' = [votedFor EXCEPT ![i] = i]
        /\ grantedVotes' = [grantedVotes EXCEPT ![i] = 1]
        /\ rpcs' = rpcs \cup requests
        /\ stable' = [stable EXCEPT ![i] = Encoded(i)]
    BY DEF StartElection, ChangeState, InFlight, persist
  <1>4. /\ state'[i] = Candidate /\ currentTerm'[i] = term /\ votedFor'[i] = i
        /\ grantedVotes'[i] = 1
        /\ \A j \in Server \ {i} : /\ state'[j] = state[j] /\ currentTerm'[j] = currentTerm[j]
                                   /\ votedFor'[j] = votedFor[j]
                                   /\ grantedVotes'[j] = grantedVotes[j]
    BY <1>1, <1>3 DEF TypeOK
  <1>5. VotesStand
    BY <1>1, StartElectionStands
  <1>6. VotePersisted' /\ VotesOK' /\ OnlyVote'
    BY <1>1, <1>5, VotesOKKept DEF VotesStand
  <1>7. \A m \in requests : /\ m.type = "RequestVote" /\ Sender(m) = i /\ SentTerm(m) = term
                            /\ m = RequestVoteRequest(i, Voter(m), term) /\ Voter(m) # i
    BY DEF RequestVoteRequest, Sender, SentTerm, Voter, Requests
  <1>8. \A m \in rpcs : m.type \in VoteTypes /\ Sender(m) = i => SentTerm(m) # term
    <2> SUFFICES ASSUME NEW m \in rpcs, m.type \in VoteTypes, Sender(m) = i
                 PROVE  SentTerm(m) # term
      OBVIOUS
    <2>1. SentTerm(m) <= currentTerm[i]
      BY DEF VInv, VotesInv, AllAskedOK, AskedOK
    <2>2. SentTerm(m) \in Nat
      BY <1>1, MessageFields DEF TypeOK, SentTerm, VoteTypes, Requests
    <2> QED
      BY <1>2, <2>1, <2>2
  <1> HIDE DEF requests
  <1>9. AllAskedOK'
    <2> SUFFICES ASSUME NEW m \in rpcs', m.type \in VoteTypes PROVE AskedOK(m)'
      BY DEF AllAskedOK
    <2>1. CASE m \in rpcs
      BY <1>1, <1>5, <2>1, AskedKept DEF VInv, VotesInv, AllAskedOK
    <2>2. CASE m \in requests
      <3>1. m.type = "RequestVote" /\ Sender(m) = i /\ SentTerm(m) = term
        BY <1>7, <2>2
      <3>2. Sender(m) = m.from /\ SentTerm(m) = m.Term
        BY <3>1 DEF Sender, SentTerm, Requests
      <3>3. m.Term <= currentTerm'[m.from]
        BY <1>2, <1>4, <3>1, <3>2
      <3> QED
        BY <3>1, <3>2, <3>3 DEF AskedOK, Sender, SentTerm, Requests
    <2> QED
      BY <1>3, <2>1, <2>2
  <1>10. AskedOnce'
    <2> SUFFICES ASSUME NEW m \in rpcs', NEW n \in rpcs', m.type \in VoteTypes,
                        Asks(n, Sender(m), Voter(m), SentTerm(m))
                 PROVE  m = n
      BY DEF AskedOnce, Asks, Sender, Voter, SentTerm
    <2>1. n.type \in VoteTypes /\ Sender(n) = Sender(m) /\ Voter(n) = Voter(m)
          /\ SentTerm(n) = SentTerm(m)
      BY DEF Asks
    <2>2. CASE m \in rpcs /\ n \in rpcs
      BY <2>2 DEF VInv, VotesInv, AskedOnce
    <2>3. CASE m \in requests \/ n \in requests
      <3>1. Sender(m) = i /\ SentTerm(m) = term
        BY <1>7, <2>1, <2>3
      <3>2. m \in requests /\ n \in requests
        BY <1>3, <1>8, <2>1, <3>1
      <3> QED
        BY <1>7, <2>1, <3>2
    <2> QED
      BY <1>3, <2>2, <2>3
  <1>11. ASSUME NEW j \in Server \ {i} PROVE RoleKept(j)
    BY <1>4, <1>11 DEF RoleKept
  <1>12. CountOK'
    <2> SUFFICES ASSUME NEW j \in Server
                 PROVE  state'[j] = Candidate => grantedVotes'[j] <= Cardinality(CountedFor(j)')
      BY DEF CountOK
    <2>1. CASE j = i
      <3>1. i \in VotersOf(i)'
        <4>1. <<term, i, i>> \in votes'
          BY <1>1, <1>2, <1>4, NewVotes
        <4> QED
          BY <1>4, <4>1 DEF VotersOf
      <3>2. NotAsked(i, i, currentTerm[i])'
        BY <1>3, <1>4, <1>7, <1>8 DEF NotAsked, Asks
      <3>3. {i} \subseteq CountedFor(i)' /\ CountedFor(i)' \subseteq Server
        BY <3>1, <3>2 DEF CountedFor, VotersOf
      <3>4. Cardinality({i}) = 1
        BY FS_Singleton
      <3> QED
        BY <1>4, <2>1, <3>3, <3>4, Larger
    <2>2. CASE j # i
      <3>1. \A p \in Server, t \in Nat : NotAsked(j, p, t) => NotAsked(j, p, t)'
        BY <1>3, <1>7, <2>2 DEF NotAsked, Asks
      <3>2. state[j] = Candidate => grantedVotes[j] <= Cardinality(CountedFor(j))
        BY DEF VInv, VotesInv, CountOK
      <3> QED
        BY <1>1, <1>11, <2>2, <3>1, <3>2, CountKept
    <2> QED
      BY <2>1, <2>2
  <1>13. LeaderHasMajority'
    <2> SUFFICES ASSUME NEW j \in Server
                 PROVE  state'[j] = Leader => Majority(VotersOf(j)')
      BY DEF LeaderHasMajority
    <2>1. CASE j = i
      BY <1>4, <2>1 DEF Candidate, Leader
    <2>2. CASE j # i
      BY <1>11, <2>2, LeaderKept DEF VInv, VotesInv, LeaderHasMajority
    <2> QED
      BY <2>1, <2>2
  <1> QED
    BY <1>6, <1>9, <1>10, <1>12, <1>13 DEF VInv, VotesInv

(* What a voter's answer changes: its term and vote, and that it steps     *)
(* down for a higher term.  A vote granted is the vote it holds.           *)
LEMMA RequestVoteSteps ==
  ASSUME TypeOK, VotePersisted, NEW m \in rpcs, RequestVote(m)
  PROVE  /\ VotesStand /\ RolesStand
         /\ m.type = "RequestVote" /\ m.from \in Server /\ m.to \in Server /\ m.Term \in Nat
         /\ \E term \in {currentTerm[m.to], m.Term}, granted \in BOOLEAN :
              /\ rpcs' = (rpcs \ {m}) \cup {RequestVoteResponse(m, term, granted)}
              /\ granted => currentTerm'[m.to] = m.Term /\ votedFor'[m.to] = m.from
  <1> DEFINE i == m.to
  <1>1. /\ m.type = "RequestVote" /\ m.from \in Server /\ i \in Server /\ m.Term \in Nat
        /\ currentTerm \in [Server -> Nat] /\ votedFor \in [Server -> Server \cup {None}]
        /\ state \in [Server -> {Follower, Candidate, Leader}]
        /\ None \notin Server
    BY MessageFields, ServerAssumption DEF TypeOK, RequestVote, Requests
  <1>2. stable' = [stable EXCEPT ![i] = Encoded(i)] /\ UNCHANGED grantedVotes
    BY DEF RequestVote, persist
  <1>3. CASE RefusesVote(i, m)
    <2>1. /\ UNCHANGED <<state, currentTerm, votedFor>>
          /\ rpcs' = (rpcs \ {m}) \cup {RequestVoteResponse(m, currentTerm[i], FALSE)}
      BY <1>3 DEF RequestVote, Answer, InFlight
    <2>2. RolesStand
      BY <1>2, <2>1 DEF RolesStand, RoleKept
    <2>3. VoteKept(i)
      BY <1>1, <2>1 DEF VoteKept
    <2>4. VotesStand
      BY <1>1, <1>2, <2>1, <2>3, VotesPersisted
    <2>5. FALSE \in BOOLEAN
      OBVIOUS
    <2> QED
      BY <1>1, <2>1, <2>2, <2>4, <2>5
  <1>4. CASE ~RefusesVote(i, m)
    <2>1. \/ m.Term > currentTerm[i]
          \/ m.Term = currentTerm[i] /\ votedFor[i] \in {None, m.from}
      BY <1>1, <1>4 DEF RefusesVote
    <2>2. IF m.Term > currentTerm[i] THEN state' = [state EXCEPT ![i] = Follower]
                                    ELSE UNCHANGED state
      BY <1>4 DEF RequestVote, ChangeState
    <2>3. \/ /\ currentTerm' = [currentTerm EXCEPT ![i] = m.Term]
             /\ votedFor' = [votedFor EXCEPT ![i] = m.from]
             /\ rpcs' = (rpcs \ {m}) \cup {RequestVoteResponse(m, m.Term, TRUE)}
          \/ /\ IF m.Term > currentTerm[i]
                  THEN /\ currentTerm' = [currentTerm EXCEPT ![i] = m.Term]
                       /\ votedFor' = [votedFor EXCEPT ![i] = None]
                  ELSE UNCHANGED <<currentTerm, votedFor>>
             /\ rpcs' = (rpcs \ {m}) \cup {RequestVoteResponse(m, m.Term, FALSE)}
      BY <1>4 DEF RequestVote, Answer, InFlight, catchUp, adoptTerm
    <2> HIDE DEF i
    <2>4. \A j \in Server \ {i} : /\ votedFor'[j] = votedFor[j]
                                  /\ currentTerm'[j] = currentTerm[j] /\ state'[j] = state[j]
      BY <1>1, <2>2, <2>3
    <2>5. VoteKept(i)
      <3>1. CASE /\ currentTerm' = [currentTerm EXCEPT ![i] = m.Term]
                 /\ votedFor' = [votedFor EXCEPT ![i] = m.from]
        <4>1. currentTerm'[i] = m.Term /\ votedFor'[i] = m.from /\ currentTerm[i] \in Nat
          BY <1>1, <3>1
        <4> QED
          BY <1>1, <2>1, <4>1 DEF VoteKept
      <3>2. CASE m.Term > currentTerm[i] /\ currentTerm' = [currentTerm EXCEPT ![i] = m.Term]
        BY <1>1, <3>2 DEF VoteKept
      <3>3. CASE UNCHANGED <<currentTerm, votedFor>>
        BY <1>1, <3>3 DEF VoteKept
      <3> QED
        BY <2>3, <3>1, <3>2, <3>3
    <2>6. VotesStand
      BY <1>1, <1>2, <2>4, <2>5, VotesPersisted
    <2>7. RolesStand
      <3> SUFFICES ASSUME NEW j \in Server PROVE RoleKept(j)
        BY DEF RolesStand
      <3>1. CASE j # i
        BY <1>2, <2>4, <3>1 DEF RoleKept
      <3>2. CASE j = i
        BY <1>1, <1>2, <2>1, <2>2, <2>3, <3>2 DEF RoleKept, Follower, Candidate, Leader
      <3> QED
        BY <3>1, <3>2
    <2>8. \E granted \in BOOLEAN :
            /\ rpcs' = (rpcs \ {m}) \cup {RequestVoteResponse(m, m.Term, granted)}
            /\ granted => currentTerm'[i] = m.Term /\ votedFor'[i] = m.from
      BY <1>1, <2>3
    <2> QED
      BY <1>1, <2>6, <2>7, <2>8 DEF i
  <1> QED
    BY <1>3, <1>4

LEMMA RequestVoteVotes ==
  ASSUME VInv, IInv', NEW m \in rpcs, RequestVote(m), Recorded
  PROVE  VInv'
  <1>1. TypeOK /\ TypeOK' /\ VotePersisted /\ VotesOK /\ OnlyVote
    BY DEF VInv, VotesInv, IInv
  <1>2. /\ VotesStand /\ RolesStand
        /\ m.type = "RequestVote" /\ m.from \in Server /\ m.to \in Server /\ m.Term \in Nat
    BY <1>1, RequestVoteSteps
  <1>3. PICK term \in {currentTerm[m.to], m.Term}, granted \in BOOLEAN :
          /\ rpcs' = (rpcs \ {m}) \cup {RequestVoteResponse(m, term, granted)}
          /\ granted => currentTerm'[m.to] = m.Term /\ votedFor'[m.to] = m.from
    BY <1>1, RequestVoteSteps
  <1> DEFINE r == RequestVoteResponse(m, term, granted)
  <1>4. /\ r.type = "RequestVoteReply" /\ r.from = m.to /\ r.to = m.from /\ r.reqTerm = m.Term
        /\ r.VoteGranted = granted
        /\ Sender(r) = Sender(m) /\ Voter(r) = Voter(m) /\ SentTerm(r) = SentTerm(m)
        /\ Sender(m) = m.from /\ Voter(m) = m.to /\ SentTerm(m) = m.Term
    BY <1>2 DEF RequestVoteResponse, Sender, Voter, SentTerm, Requests
  <1>5. rpcs' = (rpcs \ {m}) \cup {r} /\ m.type \in VoteTypes /\ r.type \in VoteTypes
    BY <1>2, <1>3, <1>4 DEF VoteTypes
  <1> HIDE DEF r
  <1>6. VotePersisted' /\ VotesOK' /\ OnlyVote'
    BY <1>1, <1>2, VotesOKKept DEF VotesStand
  <1>7. AskedOK(m)
    BY <1>5 DEF VInv, VotesInv, AllAskedOK
  <1>8. AllAskedOK'
    <2> SUFFICES ASSUME NEW n \in rpcs', n.type \in VoteTypes PROVE AskedOK(n)'
      BY DEF AllAskedOK
    <2>1. CASE n \in rpcs
      BY <1>1, <1>2, <2>1, AskedKept DEF VInv, VotesInv, AllAskedOK
    <2>2. CASE n = r
      <3>1. SentTerm(m) <= currentTerm'[Sender(m)]
        BY <1>1, <1>2, <1>5, <1>7, AskedKept DEF AskedOK, SentTerm, Sender
      <3>2. SentTerm(r) <= currentTerm'[Sender(r)]
        BY <1>4, <3>1
      <3>3. r.VoteGranted => <<r.reqTerm, r.from, r.to>> \in votes'
        <4> SUFFICES ASSUME granted PROVE <<m.Term, m.to, m.from>> \in votes'
          BY <1>4
        <4>1. m.from # None
          BY <1>2, ServerAssumption
        <4> QED
          BY <1>1, <1>2, <1>3, <4>1, NewVotes
      <3> QED
        BY <2>2, <3>2, <3>3 DEF AskedOK, SentTerm, Sender
    <2> QED
      BY <1>5, <2>1, <2>2
  <1>9. \A n \in rpcs \ {m} : n.type \in VoteTypes =>
          ~Asks(n, Sender(m), Voter(m), SentTerm(m))
    BY <1>5 DEF VInv, VotesInv, AskedOnce
  <1>10. AskedOnce'
    <2> SUFFICES ASSUME NEW n \in rpcs', NEW o \in rpcs', n.type \in VoteTypes,
                        Asks(o, Sender(n), Voter(n), SentTerm(n))
                 PROVE  n = o
      BY DEF AskedOnce, Asks, Sender, Voter, SentTerm
    <2>1. o.type \in VoteTypes /\ Asks(n, Sender(o), Voter(o), SentTerm(o))
      BY DEF Asks
    <2>2. CASE n \in rpcs /\ o \in rpcs
      BY <2>2 DEF VInv, VotesInv, AskedOnce
    <2>3. CASE n = r /\ o # r
      BY <1>4, <1>5, <1>9, <2>1, <2>3
    <2>4. CASE o = r /\ n # r
      BY <1>4, <1>5, <1>9, <2>1, <2>4
    <2> QED
      BY <1>5, <2>2, <2>3, <2>4
  <1>11. \A j, p \in Server, t \in Nat : NotAsked(j, p, t) => NotAsked(j, p, t)'
    BY <1>4, <1>5 DEF NotAsked, Asks
  <1>12. CountOK'
    <2> SUFFICES ASSUME NEW j \in Server
                 PROVE  state'[j] = Candidate => grantedVotes'[j] <= Cardinality(CountedFor(j)')
      BY DEF CountOK
    <2>1. RoleKept(j) /\ (state[j] = Candidate => grantedVotes[j] <= Cardinality(CountedFor(j)))
      BY <1>2 DEF RolesStand, VInv, VotesInv, CountOK
    <2> QED
      BY <1>1, <1>11, <2>1, CountKept
  <1>13. LeaderHasMajority'
    <2> SUFFICES ASSUME NEW j \in Server
                 PROVE  state'[j] = Leader => Majority(VotersOf(j)')
      BY DEF LeaderHasMajority
    <2>1. RoleKept(j) /\ (state[j] = Leader => Majority(VotersOf(j)))
      BY <1>2 DEF RolesStand, VInv, VotesInv, LeaderHasMajority
    <2> QED
      BY <2>1, LeaderKept
  <1> QED
    BY <1>6, <1>8, <1>10, <1>12, <1>13 DEF VInv, VotesInv

(* A vote that counts: the voter's answer leaves the network and the voter *)
(* joins those the candidate has counted.                                  *)
LEMMA VoteCounted ==
  ASSUME VInv, IInv', Recorded, NEW m \in rpcs, m.type = "RequestVoteReply", m.VoteGranted,
         rpcs' = rpcs \ {m}, ElectionGoesOn(m.to, m),
         UNCHANGED <<currentTerm, votedFor, stable>>,
         grantedVotes' = [grantedVotes EXCEPT ![m.to] = @ + 1],
         \/ UNCHANGED state
         \/ /\ state' = [state EXCEPT ![m.to] = Leader]
            /\ grantedVotes[m.to] + 1 > Cardinality(Server) \div 2
  PROVE  VInv'
  <1> DEFINE i == m.to
             p == m.from
  <1>1. TypeOK /\ TypeOK' /\ VotePersisted /\ VotesOK /\ OnlyVote
    BY DEF VInv, VotesInv, IInv
  <1>2. /\ i \in Server /\ p \in Server /\ m.reqTerm \in Nat
        /\ grantedVotes \in [Server -> Nat] /\ state \in [Server -> {Follower, Candidate, Leader}]
        /\ state[i] = Candidate /\ currentTerm[i] = m.reqTerm
        /\ Sender(m) = i /\ Voter(m) = p /\ SentTerm(m) = currentTerm[i]
        /\ m.type \in VoteTypes
    BY <1>1, MessageFields DEF TypeOK, ElectionGoesOn, Sender, Voter, SentTerm, VoteTypes, Requests
  <1>3. VotesStand
    BY <1>1, VotesUnchanged DEF VotePersisted
  <1>4. VotePersisted' /\ VotesOK' /\ OnlyVote'
    BY <1>1, <1>3, VotesOKKept DEF VotesStand
  <1>5. AllAskedOK' /\ AskedOnce'
    <2>1. AllAskedOK'
      BY <1>1, <1>3, AskedKept DEF AllAskedOK, VInv, VotesInv
    <2>2. AskedOnce'
      BY DEF VInv, VotesInv, AskedOnce, Asks
    <2> QED
      BY <2>1, <2>2
  <1>6. \A j, q \in Server, t \in Nat : NotAsked(j, q, t) => NotAsked(j, q, t)'
    BY DEF NotAsked, Asks
  <1>7. p \in VotersOf(i) /\ p \notin CountedFor(i)
    <2>1. <<currentTerm[i], p, i>> \in votes
      BY <1>2 DEF VInv, VotesInv, AllAskedOK, AskedOK
    <2>2. Asks(m, i, p, currentTerm[i])
      BY <1>2 DEF Asks
    <2> QED
      BY <1>2, <2>1, <2>2 DEF VotersOf, CountedFor, NotAsked
  <1>8. CountedFor(i) \cup {p} \subseteq CountedFor(i)' /\ CountedFor(i)' \subseteq Server
    <2>1. VotersOf(i) \subseteq VotersOf(i)' /\ VotersOf(i)' \subseteq Server
      BY <1>2, VotersStay
    <2>2. \A q \in Server : NotAsked(i, q, currentTerm[i]) => NotAsked(i, q, currentTerm[i])'
      BY DEF NotAsked, Asks
    <2>3. NotAsked(i, p, currentTerm[i])'
      BY <1>2 DEF NotAsked, Asks, VInv, VotesInv, AskedOnce
    <2> QED
      BY <1>2, <1>7, <2>1, <2>2, <2>3 DEF CountedFor
  <1>9. /\ Cardinality(CountedFor(i)) + 1 <= Cardinality(CountedFor(i)')
        /\ Cardinality(CountedFor(i)) \in Nat /\ Cardinality(CountedFor(i)') \in Nat
    <2>1. IsFiniteSet(CountedFor(i)) /\ Cardinality(CountedFor(i)) \in Nat
      BY <1>2, CountedSet
    <2>2. Cardinality(CountedFor(i) \cup {p}) = Cardinality(CountedFor(i)) + 1
      BY <1>7, <2>1, FS_AddElement
    <2> QED
      BY <1>8, <2>1, <2>2, Larger
  <1>10. grantedVotes[i] <= Cardinality(CountedFor(i))
    BY <1>2 DEF VInv, VotesInv, CountOK
  <1> HIDE DEF i, p
  <1>11. grantedVotes'[i] = grantedVotes[i] + 1 /\ grantedVotes'[i] <= Cardinality(CountedFor(i)')
    BY <1>2, <1>9, <1>10 DEF i
  <1>12. \A j \in Server \ {i} : RoleKept(j)
    BY <1>2 DEF RoleKept, i
  <1>13. CountOK'
    <2> SUFFICES ASSUME NEW j \in Server
                 PROVE  state'[j] = Candidate => grantedVotes'[j] <= Cardinality(CountedFor(j)')
      BY DEF CountOK
    <2>1. CASE j = i
      BY <1>11, <2>1
    <2>2. CASE j # i
      <3>1. state[j] = Candidate => grantedVotes[j] <= Cardinality(CountedFor(j))
        BY DEF VInv, VotesInv, CountOK
      <3> QED
        BY <1>1, <1>6, <1>12, <2>2, <3>1, CountKept
    <2> QED
      BY <2>1, <2>2
  <1>14. LeaderHasMajority'
    <2> SUFFICES ASSUME NEW j \in Server, state'[j] = Leader
                 PROVE  Majority(VotersOf(j)')
      BY DEF LeaderHasMajority
    <2>1. CASE j = i
      <3>1. grantedVotes[i] + 1 > Cardinality(Server) \div 2
        BY <1>2, <2>1 DEF Candidate, Leader, i
      <3>2. Cardinality(Server) \in Nat /\ grantedVotes[i] \in Nat
        BY <1>2, CountedSet
      <3>3. Majority(CountedFor(i)')
        BY <1>9, <1>11, <3>1, <3>2 DEF Majority
      <3>4. CountedFor(i)' \subseteq VotersOf(i)' /\ VotersOf(i)' \subseteq Server
        BY DEF CountedFor, VotersOf
      <3> QED
        BY <2>1, <3>3, <3>4, Larger
    <2>2. CASE j # i
      BY <1>12, <2>2, LeaderKept DEF VInv, VotesInv, LeaderHasMajority
    <2> QED
      BY <2>1, <2>2
  <1> QED
    BY <1>4, <1>5, <1>13, <1>14 DEF VInv, VotesInv

-----------------------------------------------------------------------------
(* The other steps are quiet: a peer may step down, for a higher term or   *)
(* for the leader of its own, and saves what it changes.                   *)
LEMMA FollowsQuietly ==
  ASSUME TypeOK, VotePersisted, NEW i \in Server, NoneAsked, UNCHANGED grantedVotes,
         UNCHANGED state \/ state' = [state EXCEPT ![i] = Follower],
         \/ /\ UNCHANGED <<currentTerm, votedFor>>
            /\ UNCHANGED stable \/ stable' = [stable EXCEPT ![i] = Encoded(i)]
         \/ /\ \E term \in Nat : /\ term > currentTerm[i]
                                 /\ currentTerm' = [currentTerm EXCEPT ![i] = term]
            /\ votedFor' = [votedFor EXCEPT ![i] = None]
            /\ state' = [state EXCEPT ![i] = Follower]
            /\ stable' = [stable EXCEPT ![i] = Encoded(i)]
  PROVE  Quiet
  <1>1. /\ currentTerm \in [Server -> Nat] /\ votedFor \in [Server -> Server \cup {None}]
        /\ state \in [Server -> {Follower, Candidate, Leader}] /\ DOMAIN stable = Server
    BY DEF TypeOK
  <1>2. CASE UNCHANGED <<currentTerm, votedFor>>
    <2>1. RolesStand
      BY <1>1, <1>2 DEF RolesStand, RoleKept, Follower, Candidate, Leader
    <2>2. VotesStand
      <3>1. CASE UNCHANGED stable
        BY <1>2, <3>1, VotesUnchanged DEF VotePersisted
      <3>2. CASE stable' = [stable EXCEPT ![i] = Encoded(i)]
        <4>1. VoteKept(i)
          BY <1>1, <1>2 DEF VoteKept
        <4> QED
          BY <1>2, <3>2, <4>1, VotesPersisted
      <3>3. CASE ~UNCHANGED stable /\ stable' # [stable EXCEPT ![i] = Encoded(i)]
        BY <3>3
      <3> QED
        BY <3>1, <3>2, <3>3
    <2> QED
      BY <2>1, <2>2 DEF Quiet
  <1>3. CASE ~UNCHANGED <<currentTerm, votedFor>>
    <2>1. PICK term \in Nat : /\ term > currentTerm[i]
                              /\ currentTerm' = [currentTerm EXCEPT ![i] = term]
      BY <1>3
    <2>2. /\ votedFor' = [votedFor EXCEPT ![i] = None]
          /\ state' = [state EXCEPT ![i] = Follower]
          /\ stable' = [stable EXCEPT ![i] = Encoded(i)]
      BY <1>3
    <2>3. RolesStand
      BY <1>1, <2>1, <2>2 DEF RolesStand, RoleKept, Follower, Candidate, Leader
    <2>4. VoteKept(i)
      BY <1>1, <2>1 DEF VoteKept
    <2>5. VotesStand
      BY <1>1, <2>1, <2>2, <2>4, VotesPersisted
    <2> QED
      BY <2>3, <2>5 DEF Quiet
  <1> QED
    BY <1>2, <1>3

LEMMA StepsDownQuietly ==
  ASSUME TypeOK, VotePersisted, NEW i \in Server, NEW term \in Nat, term > currentTerm[i],
         stepDown(i, term), NoneAsked, UNCHANGED grantedVotes
  PROVE  Quiet
  <1>1. /\ state' = [state EXCEPT ![i] = Follower]
        /\ currentTerm' = [currentTerm EXCEPT ![i] = term]
        /\ votedFor' = [votedFor EXCEPT ![i] = None]
        /\ stable' = [stable EXCEPT ![i] = Encoded(i)]
    BY DEF stepDown, ChangeState, adoptTerm, persist
  <1> QED
    BY <1>1, FollowsQuietly

LEMMA HandleRequestVoteResponseSteps ==
  ASSUME TypeOK, VotePersisted, NEW m \in rpcs, HandleRequestVoteResponse(m)
  PROVE  \/ Quiet
         \/ /\ m.type = "RequestVoteReply" /\ m.VoteGranted /\ ElectionGoesOn(m.to, m)
            /\ rpcs' = rpcs \ {m}
            /\ UNCHANGED <<currentTerm, votedFor, stable>>
            /\ grantedVotes' = [grantedVotes EXCEPT ![m.to] = @ + 1]
            /\ \/ UNCHANGED state
               \/ /\ state' = [state EXCEPT ![m.to] = Leader]
                  /\ grantedVotes[m.to] + 1 > Cardinality(Server) \div 2
  <1> DEFINE i == m.to
  <1>1. m.type = "RequestVoteReply" /\ i \in Server /\ m.Term \in Nat /\ currentTerm[i] \in Nat
    BY MessageFields DEF TypeOK, HandleRequestVoteResponse, Requests
  <1>2. rpcs' = rpcs \ {m} /\ NoneAsked
    BY DEF HandleRequestVoteResponse, InFlight, NoneAsked
  <1>3. CASE ElectionGoesOn(i, m) /\ m.VoteGranted
    BY <1>1, <1>2, <1>3
    DEF HandleRequestVoteResponse, hardState, persister, becomeLeader, ChangeState
  <1>4. CASE ElectionGoesOn(i, m) /\ ~m.VoteGranted /\ m.Term > currentTerm[i]
    <2>1. ~(m.Term <= currentTerm[i])
      BY <1>1, <1>4
    <2>2. stepDown(i, m.Term) /\ UNCHANGED grantedVotes
      BY <1>4, <2>1 DEF HandleRequestVoteResponse
    <2> QED
      BY <1>1, <1>2, <1>4, <2>2, StepsDownQuietly
  <1>5. CASE ~ElectionGoesOn(i, m) \/ (~m.VoteGranted /\ m.Term <= currentTerm[i])
    <2>1. ~(m.Term > currentTerm[i] /\ m.Term <= currentTerm[i])
      BY <1>1
    <2>2. UNCHANGED <<state, currentTerm, votedFor, grantedVotes, stable>>
      BY <1>5, <2>1 DEF HandleRequestVoteResponse, hardState, persister
    <2> QED
      BY <1>1, <1>2, <2>2, FollowsQuietly
  <1>6. m.Term > currentTerm[i] \/ m.Term <= currentTerm[i]
    BY <1>1
  <1> QED
    BY <1>3, <1>4, <1>5, <1>6

(* The handlers of a replication round, and what answers them.             *)
LEMMA AppendEntriesQuiet ==
  ASSUME TypeOK, VotePersisted, NEW m \in rpcs, AppendEntries(m)
  PROVE  Quiet
  <1> DEFINE i == m.to
  <1>1. i \in Server /\ m.type = "AppendEntries" /\ m.Term \in Nat /\ currentTerm[i] \in Nat
    BY MessageFields DEF TypeOK, AppendEntries, Requests
  <1>2. UNCHANGED grantedVotes /\ stable' = [stable EXCEPT ![i] = Encoded(i)]
    BY DEF AppendEntries, persist
  <1>3. \/ UNCHANGED <<state, currentTerm, votedFor>>
        \/ /\ state' = [state EXCEPT ![i] = Follower]
           /\ IF m.Term > currentTerm[i]
                THEN /\ currentTerm' = [currentTerm EXCEPT ![i] = m.Term]
                     /\ votedFor' = [votedFor EXCEPT ![i] = None]
                ELSE UNCHANGED <<currentTerm, votedFor>>
    BY DEF AppendEntries, AppendEntriesStale, catchUp, adoptTerm, ChangeState
  <1>4. \E term, success, index, conflictTerm :
          AnswerOne(m, AppendEntriesResponse(m, term, success, index, conflictTerm))
    BY DEF AppendEntries, AppendEntriesStale, AppendEntriesBelowFirst, AppendEntriesMismatch,
           AppendEntriesMatch
  <1>5. NoneAsked
    BY <1>4 DEF AnswerOne, Received, InFlight, NoneAsked, VoteTypes, AppendEntriesResponse
  <1> HIDE DEF i
  <1> QED
    BY <1>1, <1>2, <1>3, <1>5, FollowsQuietly

LEMMA HandleAppendEntriesResponseQuiet ==
  ASSUME TypeOK, VotePersisted, NEW m \in rpcs, HandleAppendEntriesResponse(m)
  PROVE  Quiet
  <1> DEFINE i == m.to
  <1>1. i \in Server /\ m.Term \in Nat
    BY MessageFields DEF TypeOK, HandleAppendEntriesResponse, Requests
  <1>2. NoneAsked /\ UNCHANGED grantedVotes
    BY DEF HandleAppendEntriesResponse, ConsumeOne, Received, InFlight, NoneAsked
  <1>3. \/ UNCHANGED <<state, currentTerm, votedFor, stable>>
        \/ m.Term > currentTerm[i] /\ stepDown(i, m.Term)
    BY DEF HandleAppendEntriesResponse, hardState, persister
  <1> HIDE DEF i
  <1> QED
    BY <1>1, <1>2, <1>3, FollowsQuietly, StepsDownQuietly

LEMMA InstallSnapshotQuiet ==
  ASSUME TypeOK, VotePersisted, NEW m \in rpcs, InstallSnapshot(m)
  PROVE  Quiet
  <1> DEFINE i == m.to
  <1>1. i \in Server /\ m.type = "InstallSnapshot" /\ m.Term \in Nat /\ currentTerm[i] \in Nat
    BY MessageFields DEF TypeOK, InstallSnapshot, Requests
  <1>2. UNCHANGED grantedVotes
    BY DEF InstallSnapshot
  <1>3. \/ m.Term < currentTerm[i] /\ UNCHANGED <<state, currentTerm, votedFor>>
        \/ /\ state' = [state EXCEPT ![i] = Follower]
           /\ IF m.Term > currentTerm[i]
                THEN /\ currentTerm' = [currentTerm EXCEPT ![i] = m.Term]
                     /\ votedFor' = [votedFor EXCEPT ![i] = None]
                ELSE UNCHANGED <<currentTerm, votedFor>>
    BY DEF InstallSnapshot, catchUp, adoptTerm, ChangeState
  <1>4. IF m.Term > currentTerm[i] THEN stable' = [stable EXCEPT ![i] = Encoded(i)]
                                   ELSE UNCHANGED stable
    BY DEF InstallSnapshot, persist, persister
  <1>5. NoneAsked
    BY DEF InstallSnapshot, AnswerOne, Received, InFlight, NoneAsked, VoteTypes,
           InstallSnapshotResponse
  <1> HIDE DEF i
  <1> QED
    BY <1>1, <1>2, <1>3, <1>4, <1>5, FollowsQuietly

LEMMA HandleInstallSnapshotResponseQuiet ==
  ASSUME TypeOK, VotePersisted, NEW m \in rpcs, HandleInstallSnapshotResponse(m)
  PROVE  Quiet
  <1> DEFINE i == m.to
  <1>1. i \in Server /\ m.Term \in Nat
    BY MessageFields DEF TypeOK, HandleInstallSnapshotResponse, Requests
  <1>2. NoneAsked /\ UNCHANGED grantedVotes
    BY DEF HandleInstallSnapshotResponse, ConsumeOne, Received, InFlight, NoneAsked
  <1>3. \/ UNCHANGED <<state, currentTerm, votedFor, stable>>
        \/ m.Term > currentTerm[i] /\ stepDown(i, m.Term)
    BY DEF HandleInstallSnapshotResponse, hardState, persister
  <1> HIDE DEF i
  <1> QED
    BY <1>1, <1>2, <1>3, FollowsQuietly, StepsDownQuietly

(* A restarted peer reads back the term it was in and the vote it held.    *)
LEMMA RestartQuiet ==
  ASSUME TypeOK, TermPersisted, VotePersisted, NEW i \in Server, Restart(i)
  PROVE  Quiet
  <1>1. /\ state' = [state EXCEPT ![i] = Follower]
        /\ currentTerm' = [currentTerm EXCEPT ![i] = stable[i].currentTerm]
        /\ votedFor' = [votedFor EXCEPT ![i] = stable[i].votedFor]
        /\ grantedVotes' = [grantedVotes EXCEPT ![i] = 0]
        /\ rpcs' \subseteq rpcs /\ UNCHANGED stable
    BY DEF Restart, persister
  <1>2. UNCHANGED <<currentTerm, votedFor>>
    BY <1>1 DEF TypeOK, TermPersisted, VotePersisted
  <1>3. VotesStand
    BY <1>1, <1>2, VotesUnchanged DEF VotePersisted
  <1>4. RolesStand
    BY <1>1, <1>2 DEF RolesStand, RoleKept, TypeOK, Follower, Candidate, Leader
  <1> QED
    BY <1>1, <1>3, <1>4 DEF Quiet, NoneAsked

(* The steps of the service, of a leader that sends, and of the network.   *)
LEMMA StandsQuietly ==
  ASSUME TypeOK, VotePersisted, NoneAsked,
         UNCHANGED <<state, currentTerm, votedFor, grantedVotes>>,
         UNCHANGED stable \/ \E i \in Server : stable' = [stable EXCEPT ![i] = Encoded(i)]
  PROVE  Quiet
  <1>1. CASE UNCHANGED stable
    <2>1. VotesStand
      BY <1>1, VotesUnchanged DEF VotePersisted
    <2> QED
      BY <2>1 DEF Quiet, RolesStand, RoleKept
  <1>2. CASE \E i \in Server : stable' = [stable EXCEPT ![i] = Encoded(i)]
    BY <1>2, FollowsQuietly
  <1> QED
    BY <1>1, <1>2

LEMMA OthersQuiet ==
  ASSUME TypeOK, VotePersisted,
         \/ \E i \in Server : Start(i)
         \/ \E i, p \in Server : ReplicateOneRound(i, p)
         \/ \E i \in Server : \E msg \in snapCh[i] : CondInstallSnapshot(i, msg)
         \/ \E i \in Server : \E index \in 1 .. MaxSnapshotIndex : Snapshot(i, index)
         \/ \E m \in rpcs : Drop(m)
         \/ UNCHANGED vars
  PROVE  Quiet
  <1>1. ASSUME NEW i \in Server, Start(i) PROVE Quiet
    BY <1>1, StandsQuietly DEF Start, persister, NoneAsked
  <1>2. ASSUME NEW i \in Server, NEW p \in Server, ReplicateOneRound(i, p) PROVE Quiet
    <2>1. UNCHANGED <<state, currentTerm, votedFor, grantedVotes, stable>>
      BY <1>2 DEF ReplicateOneRound, volatile, hardState, persister
    <2> DEFINE request == IF nextIndex[i][p] - 1 < First(logs[i])
                            THEN InstallSnapshotRequest(i, p)
                            ELSE AppendEntriesRequest(i, p, nextIndex[i][p] - 1)
    <2>2. rpcs' = rpcs \cup {request}
      BY <1>2 DEF ReplicateOneRound, InFlight
    <2>3. request.type \notin VoteTypes
      BY DEF AppendEntriesRequest, InstallSnapshotRequest, VoteTypes
    <2> HIDE DEF request
    <2>4. NoneAsked
      BY <2>2, <2>3 DEF NoneAsked
    <2> QED
      BY <2>1, <2>4, StandsQuietly
  <1>3. ASSUME NEW i \in Server, NEW msg \in snapCh[i], CondInstallSnapshot(i, msg) PROVE Quiet
    BY <1>3, StandsQuietly DEF CondInstallSnapshot, SaveStateAndSnapshot, persister, NoneAsked
  <1>4. ASSUME NEW i \in Server, NEW index \in 1 .. MaxSnapshotIndex, Snapshot(i, index)
        PROVE  Quiet
    BY <1>4, StandsQuietly DEF Snapshot, SaveStateAndSnapshot, volatile, NoneAsked
  <1>5. ASSUME NEW m \in rpcs, Drop(m) PROVE Quiet
    BY <1>5, StandsQuietly DEF Drop, volatile, hardState, persister, NoneAsked
  <1>6. ASSUME UNCHANGED vars PROVE Quiet
    BY <1>6, StandsQuietly DEF vars, volatile, hardState, persister, NoneAsked
  <1> QED
    BY <1>1, <1>2, <1>3, <1>4, <1>5, <1>6

-----------------------------------------------------------------------------
LEMMA VInitOK == VInit => VInv
  <1> SUFFICES ASSUME VInit PROVE VInv
    OBVIOUS
  <1>1. IInv
    BY InitOK DEF VInit
  <1>2. /\ votes = {} /\ rpcs = {}
        /\ \A i \in Server : /\ state[i] = Follower /\ votedFor[i] = None
                             /\ stable[i].votedFor = None
    BY DEF VInit, Init
  <1>3. VotePersisted /\ VotesOK /\ OnlyVote /\ AllAskedOK /\ AskedOnce
    BY <1>2 DEF VotePersisted, VotesOK, OnlyVote, AllAskedOK, AskedOnce
  <1>4. CountOK /\ LeaderHasMajority
    BY <1>2 DEF CountOK, LeaderHasMajority, Follower, Candidate, Leader
  <1> QED
    BY <1>1, <1>3, <1>4 DEF VInv, VotesInv

(* Every step is quiet or one of the three steps of an election.           *)
LEMMA QuietOrElection ==
  ASSUME TypeOK, TermPersisted, VotePersisted, [Next]_vars
  PROVE  \/ Quiet
         \/ \E i \in Server : StartElection(i)
         \/ \E m \in rpcs : RequestVote(m)
         \/ \E m \in rpcs : HandleRequestVoteResponse(m)
  <1>1. CASE \E i \in Server : Restart(i)
    BY <1>1, RestartQuiet
  <1>2. CASE \E m \in rpcs : Receive(m)
    BY <1>2, AppendEntriesQuiet, HandleAppendEntriesResponseQuiet, InstallSnapshotQuiet,
       HandleInstallSnapshotResponseQuiet DEF Receive
  <1> QED
    BY <1>1, <1>2, OthersQuiet DEF Next

LEMMA NextVotesStand ==
  ASSUME TypeOK, TermPersisted, VotePersisted, [Next]_vars
  PROVE  VotesStand
  <1>1. ASSUME NEW m \in rpcs, HandleRequestVoteResponse(m) PROVE VotesStand
    BY <1>1, HandleRequestVoteResponseSteps, VotesUnchanged DEF Quiet, VotePersisted
  <1> QED
    BY <1>1, QuietOrElection, StartElectionStands, RequestVoteSteps DEF Quiet

LEMMA VNextOK ==
  ASSUME VInv, [VNext]_<<vars, votes>>
  PROVE  VInv'
  <1>1. [Next]_vars
    BY DEF VNext
  <1>2. IInv' /\ TypeOK /\ TermPersisted /\ VotePersisted
    BY <1>1, NextOK DEF VInv, VotesInv, IInv
  <1>3. Recorded
    BY DEF VNext, Recorded, Held, VInv, VotesInv, VotesOK, vars, hardState
  <1>4. CASE \E m \in rpcs : HandleRequestVoteResponse(m)
    BY <1>2, <1>3, <1>4, HandleRequestVoteResponseSteps, QuietVotes, VoteCounted
  <1> QED
    BY <1>1, <1>2, <1>3, <1>4, QuietOrElection, QuietVotes, StartElectionVotes, RequestVoteVotes

(* Two majorities share a peer, and that peer voted once.                  *)
LEMMA MajoritiesMeet ==
  ASSUME NEW S \in SUBSET Server, NEW T \in SUBSET Server, Majority(S), Majority(T)
  PROVE  S \cap T # {}
  <1>1. IsFiniteSet(S) /\ IsFiniteSet(T) /\ IsFiniteSet(S \cup T) /\ IsFiniteSet(Server)
    BY ServerAssumption, FS_Subset, FS_Union
  <1>2. /\ Cardinality(S) \in Nat /\ Cardinality(T) \in Nat /\ Cardinality(Server) \in Nat
        /\ Cardinality(S \cup T) \in Nat
    BY <1>1, FS_CardinalityType
  <1>3. Cardinality(S \cup T) <= Cardinality(Server)
    BY <1>1, FS_Subset
  <1>4. Cardinality(S \cup T) = Cardinality(S) + Cardinality(T) - Cardinality(S \cap T)
    BY <1>1, FS_Union
  <1>5. Cardinality(S) + Cardinality(T) > Cardinality(Server)
    BY <1>2 DEF Majority
  <1>6. Cardinality({}) = 0
    BY FS_EmptySet
  <1> QED
    BY <1>2, <1>3, <1>4, <1>5, <1>6

LEMMA VInvImplies == VInv => OneVotePerTerm /\ LeaderHasMajority /\ ElectionSafety
  <1> SUFFICES ASSUME VInv PROVE OneVotePerTerm /\ LeaderHasMajority /\ ElectionSafety
    OBVIOUS
  <1>1. OneVotePerTerm
    BY DEF OneVotePerTerm, VInv, VotesInv, VotesOK, OnlyVote
  <1>2. LeaderHasMajority
    BY DEF VInv, VotesInv
  <1>3. ElectionSafety
    <2> SUFFICES ASSUME NEW i \in Server, NEW j \in Server, state[i] = Leader, state[j] = Leader,
                        currentTerm[i] = currentTerm[j]
                 PROVE  i = j
      BY DEF ElectionSafety
    <2>1. VotersOf(i) \cap VotersOf(j) # {}
      BY <1>2, MajoritiesMeet DEF LeaderHasMajority, VotersOf
    <2>2. PICK p \in Server : /\ <<currentTerm[i], p, i>> \in votes
                              /\ <<currentTerm[i], p, j>> \in votes
      BY <2>1 DEF VotersOf
    <2>3. currentTerm[i] \in Nat
      BY DEF VInv, IInv, TypeOK
    <2> QED
      BY <2>2, <2>3 DEF VInv, VotesInv, OnlyVote
  <1> QED
    BY <1>1, <1>2, <1>3

-----------------------------------------------------------------------------
LEMMA VotesInvariant == VSpec => []VInv
  BY VInitOK, VNextOK, PTL DEF VSpec

(* No two peers lead in the same term: StartElection, RequestVote and the  *)
(* closure that counts, with any number of peers, messages lost and late,  *)
(* and any number of crashes.                                              *)
THEOREM OneLeaderPerTerm == VSpec => []ElectionSafety
  BY VotesInvariant, VInvImplies, PTL

(* A peer votes once in a term, because RequestVote persists its vote      *)
(* before it answers and a restart reads it back.                          *)
THEOREM OneVoteHolds == VSpec => []OneVotePerTerm
  BY VotesInvariant, VInvImplies, PTL

(* Who leads has been voted for by a majority in that very term: the       *)
(* closures of StartElection count no answer of another election and no    *)
(* peer twice.                                                             *)
THEOREM MajorityElects == VSpec => []LeaderHasMajority
  BY VotesInvariant, VInvImplies, PTL

(* Through every handler and through crashes, a peer's term never goes     *)
(* back and its vote stays for the term.                                   *)
THEOREM VotesKeptHolds == Spec => VotesKept
  <1> DEFINE Inv == IInv /\ VotePersisted
  <1>1. Init => Inv
    BY InitOK DEF Init, VotePersisted
  <1>2. Inv /\ [Next]_vars => Inv' /\ [\A i \in Server : VoteKept(i)]_vars
    BY NextOK, NextVotesStand DEF IInv, VotesStand
  <1> QED
    BY <1>1, <1>2, PTL DEF Spec, VotesKept

=============================================================================
