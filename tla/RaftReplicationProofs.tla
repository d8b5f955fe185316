------------------------ MODULE RaftReplicationProofs ------------------------
(***************************************************************************)
(* What follows from the safety of Raft for the replication of one log to  *)
(* another: what a leader counts as replicated is on the follower's disk.  *)
(* As there, for every set of peers and every bound, as long as no crash   *)
(* takes an entry that Start appended and nothing saved.                   *)
(***************************************************************************)
EXTENDS RaftSafetyProofs

-----------------------------------------------------------------------------
(* A merge that has nothing to add.                                        *)
LEMMA MergeOfHeld ==
  ASSUME NEW log, NEW entries, NEW k \in FirstLacking(log, entries),
         Len(entries) \in Nat,
         \A j \in 1 .. Len(entries) : ~Lacks(log, entries[j])
  PROVE  Merge(log, entries, k) = log
  <1>1. k \in 1 .. Len(entries) + 1 /\ (k <= Len(entries) => Lacks(log, entries[k]))
    BY DEF FirstLacking
  <1>2. k > Len(entries)
    <2> SUFFICES ASSUME k <= Len(entries) PROVE FALSE
      BY <1>1
    <2>1. k \in 1 .. Len(entries)
      BY <1>1
    <2> QED
      BY <1>1, <2>1
  <1> QED
    BY <1>2 DEF Merge

-----------------------------------------------------------------------------
(* What a peer holds of a leader's log it keeps: the parts of a step.      *)

(* The peer's log keeps what it has in common with the leader of its term. *)
LogStaysIn(p) ==
  \A n \in Nat : Agrees(p, currentTerm[p], n) =>
    \A k \in First(logs'[p]) .. n :
      k <= Last(logs'[p]) /\ <<currentTerm[p], k, TermAt(logs'[p], k)>> \in led'

HoldStep(p) ==
  currentTerm'[p] = currentTerm[p] /\ state[p] = Follower /\ stable[p].logs = logs[p] =>
    /\ state'[p] = Follower
    /\ stable'[p].logs = logs'[p]
    /\ LogStaysIn(p)

LEMMA HoldsStay ==
  ASSUME Moves, NEW p \in Server, HoldStep(p), NEW T \in Nat, NEW n \in Nat, Holds(p, T, n)
  PROVE  Holds(p, T, n)'
  <1>1. PICK v \in Nat, w \in Nat : v = currentTerm[p] /\ w = currentTerm'[p] /\ v <= w
    <2>1. currentTerm[p] \in Nat /\ currentTerm'[p] \in Nat /\ currentTerm[p] <= currentTerm'[p]
      BY Types DEF Moves
    <2> QED
      BY <2>1
  <1>2. T <= w
    BY <1>1 DEF Holds
  <1>3. ASSUME w = T
        PROVE  state'[p] = Follower /\ stable'[p].logs = logs'[p] /\ Agrees(p, T, n)'
    <2>1. v = T
      BY <1>1, <1>3 DEF Holds
    <2>2. state[p] = Follower /\ stable[p].logs = logs[p] /\ Agrees(p, T, n)
      BY <1>1, <2>1 DEF Holds
    <2>3. state'[p] = Follower /\ stable'[p].logs = logs'[p] /\ LogStaysIn(p)
      BY <1>1, <1>3, <2>1, <2>2 DEF HoldStep
    <2>4. \A k \in First(logs'[p]) .. n :
            k <= Last(logs'[p]) /\ <<T, k, TermAt(logs'[p], k)>> \in led'
      BY <1>1, <2>1, <2>2, <2>3 DEF LogStaysIn
    <2> QED
      BY <2>3, <2>4 DEF Agrees, Led
  <1> QED
    BY <1>1, <1>2, <1>3 DEF Holds

(* A peer whose log stays as it is.                                        *)
LEMMA LogStaysInPlace ==
  ASSUME Moves, NEW p \in Server, logs'[p] = logs[p]
  PROVE  LogStaysIn(p)
  <1> SUFFICES ASSUME NEW n \in Nat, Agrees(p, currentTerm[p], n),
                      NEW k \in First(logs[p]) .. n
               PROVE  k <= Last(logs[p]) /\ <<currentTerm[p], k, TermAt(logs[p], k)>> \in led'
    BY DEF LogStaysIn
  <1>1. k <= Last(logs[p]) /\ Led(currentTerm[p], k, TermAt(logs[p], k))
    BY DEF Agrees
  <1> QED
    BY <1>1, Grows DEF Led

LEMMA PlaceHolds ==
  ASSUME Moves, NEW p \in Server, logs'[p] = logs[p],
         state'[p] = state[p] \/ state'[p] = Follower \/ currentTerm'[p] # currentTerm[p]
           \/ state[p] # Follower,
         stable'[p] = stable[p] \/ stable'[p].logs = logs'[p]
  PROVE  HoldStep(p)
  BY LogStaysInPlace DEF HoldStep

(* A step of one peer that leaves its log.                                 *)
LEMMA OneHolds ==
  ASSUME Moves, NEW i \in Server, UNCHANGED logs,
         \A p \in Server \ {i} : state'[p] = state[p] /\ stable'[p] = stable[p],
         state'[i] \in {state[i], Follower} \/ currentTerm'[i] # currentTerm[i]
           \/ state[i] # Follower,
         stable'[i] = stable[i] \/ stable'[i].logs = logs'[i]
  PROVE  \A p \in Server : HoldStep(p)
  <1> TAKE p \in Server
  <1>1. CASE p = i
    BY <1>1, PlaceHolds
  <1>2. CASE p # i
    BY <1>2, PlaceHolds
  <1> QED
    BY <1>1, <1>2

LEMMA Saved ==
  ASSUME TypeOK, NEW i \in Server, stable' = [stable EXCEPT ![i] = Encoded(i)]
  PROVE  /\ stable'[i].logs = logs'[i]
         /\ \A p \in Server \ {i} : stable'[p] = stable[p]
  BY DEF TypeOK, Encoded

LEMMA StillHolds ==
  ASSUME Moves, UNCHANGED <<state, logs, stable>>
  PROVE  \A p \in Server : HoldStep(p)
  BY PlaceHolds

LEMMA StepDownHolds ==
  ASSUME Moves, NEW i \in Server, NEW term, stepDown(i, term)
  PROVE  \A p \in Server : HoldStep(p)
  <1>1. TypeOK
    BY DEF Moves, VInv, IInv
  <1>2. /\ UNCHANGED logs /\ state' = [state EXCEPT ![i] = Follower]
        /\ stable' = [stable EXCEPT ![i] = Encoded(i)]
    BY DEF stepDown, ChangeState, persist
  <1>3. state \in [Server -> {Follower, Candidate, Leader}]
    BY Types
  <1>4. /\ \A p \in Server \ {i} : state'[p] = state[p] /\ stable'[p] = stable[p]
        /\ state'[i] = Follower /\ stable'[i].logs = logs'[i]
    BY <1>1, <1>2, <1>3, Saved
  <1> QED
    BY <1>2, <1>4, OneHolds

LEMMA StartElectionHolds ==
  ASSUME Moves, NEW i \in Server, StartElection(i)
  PROVE  \A p \in Server : HoldStep(p)
  <1>1. TypeOK
    BY DEF Moves, VInv, IInv
  <1>2. /\ UNCHANGED logs /\ state' = [state EXCEPT ![i] = Candidate]
        /\ currentTerm' = [currentTerm EXCEPT ![i] = currentTerm[i] + 1]
        /\ stable' = [stable EXCEPT ![i] = Encoded(i)]
    BY DEF StartElection, ChangeState, persist
  <1>3. /\ state \in [Server -> {Follower, Candidate, Leader}]
        /\ currentTerm \in [Server -> Nat]
    BY Types
  <1>4. currentTerm'[i] # currentTerm[i]
    <2>1. currentTerm[i] \in Nat /\ currentTerm'[i] = currentTerm[i] + 1
      BY <1>2, <1>3
    <2> QED
      BY <2>1
  <1>5. /\ \A p \in Server \ {i} : state'[p] = state[p] /\ stable'[p] = stable[p]
        /\ stable'[i].logs = logs'[i]
    BY <1>1, <1>2, <1>3, Saved
  <1> QED
    BY <1>2, <1>4, <1>5, OneHolds

LEMMA RequestVoteHolds ==
  ASSUME Moves, NEW m \in rpcs, RequestVote(m)
  PROVE  \A p \in Server : HoldStep(p)
  <1>1. PICK i \in Server : i = m.to
    BY Types, MessageFields
  <1>2. TypeOK
    BY DEF Moves, VInv, IInv
  <1>3. /\ UNCHANGED logs
        /\ UNCHANGED state \/ state' = [state EXCEPT ![i] = Follower]
        /\ stable' = [stable EXCEPT ![i] = Encoded(i)]
    BY <1>1 DEF RequestVote, ChangeState, persist
  <1>4. state \in [Server -> {Follower, Candidate, Leader}]
    BY Types
  <1>5. /\ UNCHANGED logs
        /\ \A p \in Server \ {i} : state'[p] = state[p] /\ stable'[p] = stable[p]
        /\ state'[i] \in {state[i], Follower} /\ stable'[i].logs = logs'[i]
    BY <1>1, <1>2, <1>3, <1>4, Saved DEF RequestVote
  <1> QED
    BY <1>5, OneHolds

LEMMA HandleRequestVoteResponseHolds ==
  ASSUME Moves, NEW m \in rpcs, HandleRequestVoteResponse(m)
  PROVE  \A p \in Server : HoldStep(p)
  <1>1. PICK i \in Server : i = m.to
    BY Types, MessageFields
  <1>2. state \in [Server -> {Follower, Candidate, Leader}]
    BY Types
  <1>3. CASE /\ ElectionGoesOn(i, m)
             /\ UNCHANGED <<logs, stable>>
             /\ UNCHANGED state \/ state' = [state EXCEPT ![i] = Leader]
    <2>1. state[i] # Follower /\ \A p \in Server \ {i} : state'[p] = state[p]
      BY <1>2, <1>3 DEF ElectionGoesOn, Follower, Candidate
    <2> QED
      BY <1>3, <2>1, OneHolds
  <1>4. CASE stepDown(i, m.Term)
    BY <1>4, StepDownHolds
  <1>5. CASE UNCHANGED <<state, logs, stable>>
    BY <1>5, StillHolds
  <1> QED
    BY <1>1, <1>3, <1>4, <1>5
    DEF HandleRequestVoteResponse, becomeLeader, ChangeState, hardState, persister

LEMMA RepliesHold ==
  ASSUME Moves, NEW m \in rpcs,
         HandleAppendEntriesResponse(m) \/ HandleInstallSnapshotResponse(m)
  PROVE  \A p \in Server : HoldStep(p)
  <1>1. m.to \in Server
    BY Types, MessageFields
  <1>2. CASE stepDown(m.to, m.Term)
    BY <1>1, <1>2, StepDownHolds
  <1>3. CASE UNCHANGED <<state, logs, stable>>
    BY <1>3, StillHolds
  <1> QED
    BY <1>2, <1>3
    DEF HandleAppendEntriesResponse, HandleInstallSnapshotResponse, hardState, persister

LEMMA InstallSnapshotHolds ==
  ASSUME Moves, NEW m \in rpcs, InstallSnapshot(m)
  PROVE  \A p \in Server : HoldStep(p)
  <1>1. PICK i \in Server : i = m.to
    BY Types, MessageFields
  <1>2. TypeOK
    BY DEF Moves, VInv, IInv
  <1>3. /\ UNCHANGED logs
        /\ UNCHANGED state \/ state' = [state EXCEPT ![i] = Follower]
    BY <1>1 DEF InstallSnapshot, ChangeState
  <1>4. UNCHANGED stable \/ stable' = [stable EXCEPT ![i] = Encoded(i)]
    BY <1>1 DEF InstallSnapshot, persist, persister
  <1>5. state \in [Server -> {Follower, Candidate, Leader}]
    BY Types
  <1>6. /\ \A p \in Server \ {i} : state'[p] = state[p]
        /\ state'[i] \in {state[i], Follower}
    BY <1>3, <1>5
  <1>7. /\ \A p \in Server \ {i} : stable'[p] = stable[p]
        /\ stable'[i] = stable[i] \/ stable'[i].logs = logs'[i]
    BY <1>2, <1>4, Saved
  <1> QED
    BY <1>3, <1>6, <1>7, OneHolds

(* Steps that change a log.                                                *)
LEMMA StartHolds ==
  ASSUME Moves, NEW i \in Server, Start(i)
  PROVE  \A p \in Server : HoldStep(p)
  <1>1. TypeOK
    BY DEF Moves, VInv, IInv
  <1>2. /\ state[i] = Leader /\ UNCHANGED <<state, stable>>
        /\ \A p \in Server \ {i} : logs'[p] = logs[p]
    BY <1>1 DEF Start, persister, TypeOK
  <1>3. HoldStep(i)
    BY <1>2 DEF HoldStep, Leader, Follower
  <1>4. \A p \in Server \ {i} : HoldStep(p)
    BY <1>2, PlaceHolds
  <1> QED
    BY <1>3, <1>4

LEMMA RestartHolds ==
  ASSUME Moves, NEW i \in Server, Restart(i)
  PROVE  \A p \in Server : HoldStep(p)
  <1>1. TypeOK
    BY DEF Moves, VInv, IInv
  <1>2. /\ UNCHANGED stable /\ state'[i] = Follower /\ logs'[i] = stable[i].logs
        /\ \A p \in Server \ {i} : logs'[p] = logs[p] /\ state'[p] = state[p]
    BY <1>1 DEF Restart, persister, TypeOK
  <1>3. HoldStep(i)
    BY <1>2, LogStaysInPlace DEF HoldStep
  <1>4. \A p \in Server \ {i} : HoldStep(p)
    BY <1>2, PlaceHolds
  <1> QED
    BY <1>3, <1>4

LEMMA SnapshotHolds ==
  ASSUME Moves, NEW i \in Server, NEW s \in 1 .. MaxSnapshotIndex, Snapshot(i, s)
  PROVE  \A p \in Server : HoldStep(p)
  <1>1. TypeOK
    BY DEF Moves, VInv, IInv
  <1>2. /\ First(logs[i]) < s /\ s <= Last(logs[i]) /\ UNCHANGED state
        /\ logs' = [logs EXCEPT ![i] = From(logs[i], s)]
        /\ stable' = [stable EXCEPT ![i] = Encoded(i)]
    BY DEF Snapshot, SaveStateAndSnapshot, volatile
  <1>3. /\ stable'[i].logs = logs'[i] /\ logs'[i] = From(logs[i], s)
        /\ \A p \in Server \ {i} : stable'[p] = stable[p] /\ logs'[p] = logs[p]
    BY <1>1, <1>2, Saved, Types
  <1>4. LogStaysIn(i)
    <2>1. PICK log, new, v : log = logs[i] /\ new = logs'[i] /\ v = currentTerm[i]
      OBVIOUS
    <2>2. /\ IsLog(log) /\ new = From(log, s) /\ First(log) \in Nat /\ Last(log) \in Nat
          /\ s \in Nat /\ First(log) < s /\ s <= Last(log)
      BY <1>2, <1>3, <2>1, Types, LogEnds
    <2>3. s \in First(log) .. Last(log)
      BY <2>2
    <2>4. /\ First(new) = s /\ Last(new) = Last(log)
          /\ \A k \in s .. Last(log) : TermAt(new, k) = TermAt(log, k)
      BY <2>2, <2>3, FromIsLog
    <2>5. ASSUME NEW n \in Nat, NEW k \in First(new) .. n,
                 \A l \in First(log) .. n : l <= Last(log) /\ Led(v, l, TermAt(log, l))
          PROVE  k <= Last(new) /\ <<v, k, TermAt(new, k)>> \in led'
      <3>1. k \in First(log) .. n
        BY <2>2, <2>4
      <3>2. k <= Last(log) /\ Led(v, k, TermAt(log, k))
        BY <2>5, <3>1
      <3>3. k \in s .. Last(log)
        BY <2>2, <2>4, <3>2
      <3>4. TermAt(new, k) = TermAt(log, k)
        BY <2>4, <3>3
      <3> QED
        BY <2>4, <3>2, <3>4, Grows DEF Led
    <2> QED
      BY <2>1, <2>5 DEF LogStaysIn, Agrees
  <1>5. HoldStep(i)
    BY <1>2, <1>3, <1>4 DEF HoldStep
  <1>6. \A p \in Server \ {i} : HoldStep(p)
    BY <1>2, <1>3, PlaceHolds
  <1> QED
    BY <1>5, <1>6

(* What CondInstallSnapshot puts in place of the head of the log is        *)
(* committed, and so in the log of the term's leader.                      *)
LEMMA CondInstallSnapshotHolds ==
  ASSUME Moves, NEW i \in Server, NEW msg \in snapCh[i], CondInstallSnapshot(i, msg)
  PROVE  \A p \in Server : HoldStep(p)
  <1>1. TypeOK
    BY DEF Moves, VInv, IInv
  <1>2. PICK s \in Nat, ts \in Nat : s = msg.SnapshotIndex /\ ts = msg.SnapshotTerm
    <2>1. msg.SnapshotIndex \in Nat /\ msg.SnapshotTerm \in Nat
      BY Types
    <2> QED
      BY <2>1
  <1>3. UNCHANGED state
    BY DEF CondInstallSnapshot
  <1>4. CASE UNCHANGED <<logs, stable>>
    BY <1>3, <1>4, StillHolds
  <1>5. CASE /\ ~(s <= commitIndex[i])
             /\ logs' = [logs EXCEPT ![i] = Trimmed(logs[i], s, ts)]
             /\ stable' = [stable EXCEPT ![i] = Encoded(i)]
    <2>1. /\ stable'[i].logs = logs'[i] /\ logs'[i] = Trimmed(logs[i], s, ts)
          /\ \A p \in Server \ {i} : stable'[p] = stable[p] /\ logs'[p] = logs[p]
      BY <1>1, <1>5, Saved, Types
    <2>2. PICK log, new : log = logs[i] /\ new = logs'[i]
      OBVIOUS
    <2>3. PICK v \in Nat : v = currentTerm[i]
      BY Types
    <2>4. /\ IsLog(log) /\ new = Trimmed(log, s, ts) /\ CommittedIn(s, ts, v)
          /\ commitIndex[i] \in Nat /\ First(log) <= commitIndex[i]
          /\ First(log) \in Nat /\ Last(log) \in Nat /\ First(log) <= Last(log)
      BY <1>2, <2>1, <2>2, <2>3, Types, LogEnds, Invariants DEF CommitInv, CommitSound
    <2>5. First(log) < s
      BY <1>5, <2>4
    <2>6. /\ First(new) = s
          /\ Last(new) = (IF s > Last(log) THEN s ELSE Last(log))
          /\ TermAt(new, s) = ts
          /\ \A k \in s + 1 .. Last(log) : TermAt(new, k) = TermAt(log, k)
      BY <2>4, <2>5, TrimmedIsLog
    <2>7. ASSUME NEW n \in Nat, NEW k \in First(new) .. n,
                 \A l \in First(log) .. n : l <= Last(log) /\ Led(v, l, TermAt(log, l))
          PROVE  k <= Last(new) /\ <<v, k, TermAt(new, k)>> \in led'
      <3>1. k \in First(log) .. n /\ First(log) \in First(log) .. n /\ k \in Nat
        BY <2>4, <2>5, <2>6
      <3>2. k <= Last(log) /\ Led(v, k, TermAt(log, k)) /\ Led(v, First(log), TermAt(log, First(log)))
        BY <2>7, <3>1
      <3>3. First(log) \in Nat /\ TermAt(log, First(log)) \in Nat /\ LedInv /\ ChosenInv /\ SafeInv
        BY <2>4, LogTerms, Invariants
      <3>4. CASE k = s
        <4>1. Elected(v)
          BY <3>2, <3>3, LedFacts
        <4>2. Led(v, s, ts)
          BY <2>4, <3>3, <4>1, CommittedLed
        <4> QED
          BY <2>4, <2>6, <3>2, <3>4, <4>2, Grows DEF Led
      <3>5. CASE k # s
        <4>1. k \in s + 1 .. Last(log)
          BY <2>6, <3>1, <3>2, <3>5
        <4>2. TermAt(new, k) = TermAt(log, k)
          BY <2>6, <4>1
        <4>3. k <= Last(new)
          BY <2>4, <2>6, <3>1, <3>2, <4>1
        <4> QED
          BY <3>2, <4>2, <4>3, Grows DEF Led
      <3> QED
        BY <3>4, <3>5
    <2>8. LogStaysIn(i)
      BY <2>2, <2>3, <2>7 DEF LogStaysIn, Agrees
    <2>9. HoldStep(i)
      BY <1>3, <2>1, <2>8 DEF HoldStep
    <2>10. \A p \in Server \ {i} : HoldStep(p)
      BY <1>3, <2>1, PlaceHolds
    <2> QED
      BY <2>9, <2>10
  <1> QED
    BY <1>2, <1>4, <1>5 DEF CondInstallSnapshot, SaveStateAndSnapshot, persister

(* AppendEntries, as long as it matches: up to the end of the request the  *)
(* follower then holds the leader's log, and a request of the same term    *)
(* takes nothing away that it held already.                                *)
LEMMA MatchHolds ==
  ASSUME Moves, NEW m \in rpcs, m.type = "AppendEntries", m.Term >= currentTerm[m.to],
         AppendEntriesMatch(m.to, m), NEW i \in Server, i = m.to,
         currentTerm'[i] = m.Term, state'[i] = Follower, stable'[i].logs = logs'[i],
         \A p \in Server \ {i} : state'[p] = state[p] /\ stable'[p] = stable[p]
  PROVE  /\ \A p \in Server : HoldStep(p)
         /\ Holds(i, m.Term, m.PrevLogIndex + Len(m.Entries))'
  <1>1. PICK log, new, end, entries :
          /\ log = logs[i] /\ new = logs'[i] /\ end = m.PrevLogIndex + Len(m.Entries)
          /\ entries = m.Entries
    OBVIOUS
  <1>2. PICK v \in Nat, T \in Nat, prev \in Nat : v = currentTerm[i] /\ T = m.Term /\ prev = m.PrevLogIndex
    <2>1. currentTerm[i] \in Nat /\ m.Term \in Nat /\ m.PrevLogIndex \in Nat
      BY Types, MessageFields DEF Requests
    <2> QED
      BY <2>1
  <1>3. /\ logs' = [logs EXCEPT ![i] = new]
        /\ IsLog(new) /\ First(new) = First(log)
        /\ end \in First(new) .. Last(new)
        /\ \A l \in First(new) .. end : Led(T, l, TermAt(new, l))
    BY <1>1, <1>2, AppendEntriesMerges
  <1>4. \A p \in Server \ {i} : logs'[p] = logs[p]
    BY <1>3, Types
  <1>5. IsLog(log) /\ First(new) \in Nat /\ Last(new) \in Nat /\ end \in Nat /\ Last(log) \in Nat
    BY <1>1, <1>3, Types, LogEnds
  <1>6. Holds(i, m.Term, m.PrevLogIndex + Len(m.Entries))'
    <2>1. \A l \in First(new) .. end : l <= Last(new) /\ <<T, l, TermAt(new, l)>> \in led'
      BY <1>3, <1>5, Grows DEF Led
    <2>2. /\ \A l \in First(logs'[i]) .. end :
               l <= Last(logs'[i]) /\ <<T, l, TermAt(logs'[i], l)>> \in led'
          /\ T <= currentTerm'[i] /\ state'[i] = Follower /\ stable'[i].logs = logs'[i]
      BY <1>1, <1>2, <2>1
    <2>3. Holds(i, T, end)'
      BY <2>2 DEF Holds, Agrees, Led
    <2> QED
      BY <1>1, <1>2, <2>3
  <1>7. Len(entries) \in Nat /\ Follow(entries, prev) /\ prev \in First(log) .. Last(log)
        /\ TermAt(log, prev) = m.PrevLogTerm
        /\ \A j \in 1 .. Len(entries) : Led(T, prev + j, entries[j].Term)
    <2>1. Follow(entries, prev)
      BY <1>1, <1>2, Types DEF MessageOK, MessageShape
    <2>2. Len(entries) \in Nat
      BY <2>1, LenProperties DEF Follow
    <2>3. AppendEntriesInv(m)
      BY Invariants DEF MessagesInv, MessageInv
    <2>4. prev \in First(log) .. Last(log) /\ TermAt(log, prev) = m.PrevLogTerm
      <3>1. First(log) \in Nat
        BY <1>5, LogEnds
      <3> QED
        BY <1>1, <1>2, <1>5, <3>1 DEF AppendEntriesMatch, matchLog
    <2> QED
      BY <1>1, <1>2, <2>1, <2>2, <2>3, <2>4 DEF AppendEntriesInv
  <1>8. \A j \in 1 .. Len(entries) :
          prev + j \in Nat /\ entries[j].Index = prev + j /\ entries[j].Term \in Nat
    <2> TAKE j \in 1 .. Len(entries)
    <2>1. entries[j] \in Entry /\ entries[j].Index = prev + j
      BY <1>7, ElementOfSeq DEF Follow
    <2> QED
      BY <1>2, <1>7, <2>1 DEF Entry
  <1>9. ASSUME v = T, NEW n \in Nat, end < n,
               \A l \in First(log) .. n : l <= Last(log) /\ Led(v, l, TermAt(log, l))
        PROVE  new = log
    <2>1. PICK k \in FirstLacking(log, entries) : logs' = [logs EXCEPT ![i] = Merge(log, entries, k)]
      BY <1>1 DEF AppendEntriesMatch
    <2>2. ASSUME NEW j \in 1 .. Len(entries) PROVE ~Lacks(log, entries[j])
      <3>1. /\ end = prev + Len(entries) /\ prev + j \in Nat /\ prev + j <= end
            /\ First(log) \in Nat /\ First(log) <= prev + j
        BY <1>1, <1>2, <1>3, <1>5, <1>7, <2>2
      <3>2. prev + j \in First(log) .. n
        BY <1>5, <1>9, <3>1
      <3>3. prev + j <= Last(log) /\ Led(T, prev + j, TermAt(log, prev + j))
        BY <1>9, <3>2
      <3>4. prev + j \in First(log) .. Last(log)
        BY <1>5, <3>1, <3>3
      <3>5. TermAt(log, prev + j) \in Nat /\ LedInv
        BY <1>5, <3>4, LogTerms, Invariants
      <3>6. TermAt(log, prev + j) = entries[j].Term
        BY <1>7, <1>8, <3>3, <3>5, LedOnce
      <3> QED
        BY <1>5, <1>8, <3>3, <3>6 DEF Lacks
    <2>3. Merge(log, entries, k) = log
      BY <1>7, <2>2, MergeOfHeld
    <2> QED
      BY <1>1, <2>1, <2>3, Types
  <1>10. ASSUME v = T, NEW n \in Nat, NEW l \in First(new) .. n,
                \A k \in First(log) .. n : k <= Last(log) /\ Led(v, k, TermAt(log, k))
         PROVE  l <= Last(new) /\ <<v, l, TermAt(new, l)>> \in led'
    <2>1. CASE n <= end
      <3>1. l \in First(new) .. end
        BY <1>5, <1>10, <2>1
      <3> QED
        BY <1>3, <1>5, <1>10, <3>1, Grows DEF Led
    <2>2. CASE end < n
      <3>1. new = log
        BY <1>9, <1>10, <2>2
      <3> QED
        BY <1>10, <3>1, Grows DEF Led
    <2> QED
      BY <1>5, <2>1, <2>2
  <1>11. currentTerm'[i] = currentTerm[i] => LogStaysIn(i)
    BY <1>1, <1>2, <1>10 DEF LogStaysIn, Agrees
  <1>12. HoldStep(i)
    BY <1>11 DEF HoldStep
  <1>13. \A p \in Server \ {i} : HoldStep(p)
    BY <1>4, PlaceHolds
  <1> QED
    BY <1>6, <1>12, <1>13

LEMMA AppendEntriesHolds ==
  ASSUME Moves, NEW m \in rpcs, AppendEntries(m)
  PROVE  /\ \A p \in Server : HoldStep(p)
         /\ \A r \in rpcs' \ rpcs : ReplyHeld(r)'
  <1>1. PICK i \in Server : i = m.to
    BY Types, MessageFields
  <1>2. TypeOK
    BY DEF Moves, VInv, IInv
  <1>3. /\ m.type = "AppendEntries" /\ m.Term \in Nat
        /\ stable' = [stable EXCEPT ![i] = Encoded(i)]
    BY <1>1, Types, MessageFields DEF AppendEntries, persist, Requests
  <1>4. /\ stable'[i].logs = logs'[i]
        /\ \A p \in Server \ {i} : stable'[p] = stable[p]
    BY <1>2, <1>3, Saved
  <1>5. state \in [Server -> {Follower, Candidate, Leader}]
    BY Types
  <1>6. ASSUME UNCHANGED logs, UNCHANGED state \/ state' = [state EXCEPT ![i] = Follower],
               NEW term, NEW index, NEW conflictTerm,
               AnswerOne(m, AppendEntriesResponse(m, term, FALSE, index, conflictTerm))
        PROVE  /\ \A p \in Server : HoldStep(p)
               /\ \A r \in rpcs' \ rpcs : ReplyHeld(r)'
    <2>1. \A r \in rpcs' \ rpcs : ~r.Success
      BY <1>6 DEF AnswerOne, Received, InFlight, AppendEntriesResponse
    <2>2. /\ \A p \in Server \ {i} : state'[p] = state[p]
          /\ state'[i] \in {state[i], Follower}
      BY <1>5, <1>6
    <2> QED
      BY <1>4, <1>6, <2>1, <2>2, OneHolds DEF ReplyHeld
  <1>7. CASE AppendEntriesStale(i, m)
    BY <1>6, <1>7 DEF AppendEntriesStale
  <1>8. CASE ChangeState(i, Follower) /\ AppendEntriesBelowFirst(i, m)
    BY <1>6, <1>8 DEF AppendEntriesBelowFirst, ChangeState
  <1>9. CASE ChangeState(i, Follower) /\ AppendEntriesMismatch(i, m)
    BY <1>6, <1>9 DEF AppendEntriesMismatch, ChangeState
  <1>10. CASE /\ m.Term >= currentTerm[i] /\ catchUp(i, m.Term) /\ ChangeState(i, Follower)
              /\ AppendEntriesMatch(i, m)
    <2>1. currentTerm'[i] = m.Term
      <3>1. currentTerm \in [Server -> Nat]
        BY Types
      <3> QED
        BY <1>3, <1>10, <3>1 DEF catchUp, adoptTerm
    <2>2. state'[i] = Follower /\ \A p \in Server \ {i} : state'[p] = state[p]
      BY <1>5, <1>10 DEF ChangeState
    <2>3. /\ \A p \in Server : HoldStep(p)
          /\ Holds(i, m.Term, m.PrevLogIndex + Len(m.Entries))'
      BY <1>1, <1>3, <1>4, <1>10, <2>1, <2>2, MatchHolds
    <2>4. \A r \in rpcs' \ rpcs : r.from = i /\ r.reqTerm = m.Term
                                  /\ r.PrevLogIndex = m.PrevLogIndex /\ r.NumEntries = Len(m.Entries)
      BY <1>1, <1>10 DEF AppendEntriesMatch, AnswerOne, Received, InFlight, AppendEntriesResponse
    <2>5. \A r \in rpcs' \ rpcs : ReplyHeld(r)'
      BY <2>3, <2>4 DEF ReplyHeld
    <2> QED
      BY <2>3, <2>5
  <1> QED
    BY <1>1, <1>7, <1>8, <1>9, <1>10 DEF AppendEntries

-----------------------------------------------------------------------------
(* What leaders count.                                                     *)

(* How the leader of a term comes by what it counts of p.                  *)
LeaderCounts(i, p) ==
  /\ state[i] = Leader /\ currentTerm'[i] = currentTerm[i]
  /\ First(logs[i]) <= First(logs'[i])
  /\ \/ matchIndex'[i][p] = matchIndex[i][p]
     \/ matchIndex'[i][p] <= First(logs'[i])
     \/ \E m \in rpcs :
          /\ m.type = "AppendEntriesReply" /\ m.Success
          /\ m.from = p /\ m.reqTerm = currentTerm[i]
          /\ matchIndex'[i][p] = m.PrevLogIndex + m.NumEntries

LeadersCount ==
  \A i \in Server : state'[i] = Leader =>
    \A p \in Server \ {i} : matchIndex'[i][p] = 0 \/ LeaderCounts(i, p)

LeadersStay ==
  \A i \in Server : state'[i] = Leader =>
    state[i] = Leader /\ currentTerm'[i] = currentTerm[i]

LEMMA CountsStay ==
  ASSUME Moves, LeadersStay,
         \A i \in Server : state'[i] = Leader =>
           matchIndex'[i] = matchIndex[i] /\ First(logs[i]) <= First(logs'[i])
  PROVE  LeadersCount
  BY DEF LeadersCount, LeaderCounts, LeadersStay

LEMMA CountsStayInPlace ==
  ASSUME Moves, LeadersStay, UNCHANGED <<logs, matchIndex>>
  PROVE  LeadersCount
  <1>1. \A i \in Server : First(logs[i]) <= First(logs[i])
    <2> TAKE i \in Server
    <2>1. First(logs[i]) \in Nat
      BY Types, LogEnds
    <2> QED
      BY <2>1
  <1> QED
    BY <1>1, CountsStay

LEMMA ElectionsCount ==
  ASSUME Moves,
         \/ \E i \in Server : StartElection(i)
         \/ \E m \in rpcs : RequestVote(m)
  PROVE  LeadersCount
  <1>1. /\ state \in [Server -> {Follower, Candidate, Leader}]
        /\ currentTerm \in [Server -> Nat]
    BY Types
  <1>2. ASSUME NEW i \in Server, StartElection(i) PROVE LeadersCount
    <2>1. LeadersStay
      BY <1>1, <1>2 DEF StartElection, ChangeState, LeadersStay, Candidate, Leader
    <2> QED
      BY <1>2, <2>1, CountsStayInPlace DEF StartElection
  <1>3. ASSUME NEW m \in rpcs, RequestVote(m) PROVE LeadersCount
    <2>1. PICK i \in Server : i = m.to
      BY Types, MessageFields
    <2>2. m.type = "RequestVote" /\ m.Term \in Nat
      BY <1>3, Types, MessageFields DEF RequestVote, Requests
    <2>3. \/ UNCHANGED <<state, currentTerm>>
          \/ /\ m.Term > currentTerm[i] /\ state' = [state EXCEPT ![i] = Follower]
             /\ currentTerm' = [currentTerm EXCEPT ![i] = m.Term]
          \/ ~(m.Term > currentTerm[i]) /\ ~(m.Term < currentTerm[i])
             /\ UNCHANGED state /\ currentTerm' = [currentTerm EXCEPT ![i] = m.Term]
      BY <1>3, <2>1 DEF RequestVote, RefusesVote, ChangeState, catchUp, adoptTerm
    <2>4. LeadersStay
      BY <1>1, <2>2, <2>3 DEF LeadersStay, Follower, Leader
    <2> QED
      BY <1>3, <2>4, CountsStayInPlace DEF RequestVote
  <1> QED
    BY <1>2, <1>3

LEMMA WinnerCounts ==
  ASSUME Moves, NEW m \in rpcs, HandleRequestVoteResponse(m)
  PROVE  LeadersCount
  <1>1. PICK i \in Server : i = m.to
    BY Types, MessageFields
  <1>2. /\ state \in [Server -> {Follower, Candidate, Leader}]
        /\ matchIndex \in [Server -> [Server -> Nat]]
        /\ currentTerm \in [Server -> Nat]
    BY Types
  <1>3. CASE /\ UNCHANGED <<logs, currentTerm>>
             /\ state' = [state EXCEPT ![i] = Leader]
             /\ matchIndex' = [matchIndex EXCEPT ![i] = [p \in Server |-> 0]]
    <2>1. \A j \in Server : First(logs[j]) <= First(logs[j])
      <3> TAKE j \in Server
      <3>1. First(logs[j]) \in Nat
        BY Types, LogEnds
      <3> QED
        BY <3>1
    <2>2. \A p \in Server : matchIndex'[i][p] = 0
      BY <1>2, <1>3
    <2>3. \A j \in Server \ {i} : state'[j] = state[j] /\ matchIndex'[j] = matchIndex[j]
      BY <1>2, <1>3
    <2> QED
      BY <1>3, <2>1, <2>2, <2>3 DEF LeadersCount, LeaderCounts
  <1>4. CASE UNCHANGED <<logs, matchIndex>> /\ stepDown(i, m.Term)
    <2>1. LeadersStay
      BY <1>2, <1>4 DEF stepDown, ChangeState, adoptTerm, LeadersStay, Follower, Leader
    <2> QED
      BY <1>4, <2>1, CountsStayInPlace
  <1>5. CASE UNCHANGED <<state, currentTerm, logs, matchIndex>>
    <2>1. LeadersStay
      BY <1>5 DEF LeadersStay
    <2> QED
      BY <1>5, <2>1, CountsStayInPlace
  <1> QED
    BY <1>1, <1>3, <1>4, <1>5
    DEF HandleRequestVoteResponse, becomeLeader, ChangeState, hardState, persister, stepDown

LEMMA LogsCount ==
  ASSUME Moves, ~lost',
         \/ \E i \in Server : Start(i)
         \/ \E i \in Server : \E s \in 1 .. MaxSnapshotIndex : Snapshot(i, s)
         \/ \E i \in Server : \E msg \in snapCh[i] : CondInstallSnapshot(i, msg)
         \/ \E i \in Server : Restart(i)
         \/ \E m \in rpcs : AppendEntries(m)
  PROVE  LeadersCount
  <1>1. TypeOK /\ TermPersisted /\ VotePersisted
    BY DEF Moves, VInv, VotesInv, IInv
  <1>2. LeadersStay
    <2>1. Quiet
      BY <1>1, OthersQuiet, RestartQuiet, AppendEntriesQuiet
    <2> QED
      BY <2>1, RolesCandidates DEF Quiet, LeadersStay
  <1>3. \A i \in Server : IsLog(logs[i]) /\ First(logs[i]) \in Nat /\ Last(logs[i]) \in Nat
    BY Types, LogEnds
  <1>4. ASSUME NEW i \in Server, \A j \in Server \ {i} : logs'[j] = logs[j],
               state'[i] = Leader => First(logs[i]) <= First(logs'[i])
        PROVE  \A j \in Server : state'[j] = Leader => First(logs[j]) <= First(logs'[j])
    BY <1>3, <1>4
  <1>5. ASSUME NEW i \in Server, Start(i) PROVE LeadersCount
    <2>1. /\ logs' = [logs EXCEPT ![i] = Append(logs[i], [Index |-> Last(logs[i]) + 1, Term |-> currentTerm[i]])]
          /\ \E last : matchIndex' = [matchIndex EXCEPT ![i][i] = last]
      BY <1>5 DEF Start
    <2>2. First(logs'[i]) = First(logs[i])
      <3>1. currentTerm[i] \in Nat
        BY Types
      <3>2. logs'[i] = Append(logs[i], [Index |-> Last(logs[i]) + 1, Term |-> currentTerm[i]])
        BY <2>1, Types
      <3> QED
        BY <1>3, <3>1, <3>2, AppendIsLog
    <2>3. \A j \in Server \ {i} : logs'[j] = logs[j]
      BY <2>1, Types
    <2>4. \A j \in Server : state'[j] = Leader => First(logs[j]) <= First(logs'[j])
      BY <1>3, <1>4, <2>2, <2>3
    <2>5. matchIndex \in [Server -> [Server -> Nat]]
      BY Types
    <2>6. \A j \in Server : \A p \in Server \ {j} : matchIndex'[j][p] = matchIndex[j][p]
      BY <2>1, <2>5
    <2> QED
      BY <1>2, <2>4, <2>6 DEF LeadersCount, LeaderCounts, LeadersStay
  <1>6. ASSUME UNCHANGED matchIndex, NEW i \in Server, \A j \in Server \ {i} : logs'[j] = logs[j],
               state'[i] = Leader => First(logs[i]) <= First(logs'[i])
        PROVE  LeadersCount
    <2>1. \A j \in Server : state'[j] = Leader => First(logs[j]) <= First(logs'[j])
      BY <1>4, <1>6
    <2> QED
      BY <1>2, <1>6, <2>1, CountsStay
  <1>7. ASSUME NEW i \in Server, NEW s \in 1 .. MaxSnapshotIndex, Snapshot(i, s)
        PROVE  LeadersCount
    <2>1. /\ First(logs[i]) < s /\ s <= Last(logs[i]) /\ UNCHANGED matchIndex
          /\ logs' = [logs EXCEPT ![i] = From(logs[i], s)]
      BY <1>7 DEF Snapshot, volatile
    <2>2. s \in First(logs[i]) .. Last(logs[i]) /\ s \in Nat
      BY <1>3, <2>1
    <2>3. logs'[i] = From(logs[i], s) /\ \A j \in Server \ {i} : logs'[j] = logs[j]
      BY <2>1, Types
    <2>4. First(logs'[i]) = s
      BY <1>3, <2>2, <2>3, FromIsLog
    <2>5. First(logs[i]) <= First(logs'[i])
      BY <1>3, <2>1, <2>2, <2>4
    <2> QED
      BY <1>6, <2>1, <2>3, <2>5
  <1>8. ASSUME NEW i \in Server, NEW msg \in snapCh[i], CondInstallSnapshot(i, msg)
        PROVE  LeadersCount
    <2>1. UNCHANGED matchIndex
      BY <1>8 DEF CondInstallSnapshot
    <2>2. CASE UNCHANGED logs
      BY <1>2, <2>1, <2>2, CountsStayInPlace
    <2>3. CASE /\ ~(msg.SnapshotIndex <= commitIndex[i])
               /\ logs' = [logs EXCEPT ![i] = Trimmed(logs[i], msg.SnapshotIndex, msg.SnapshotTerm)]
      <3>1. /\ logs'[i] = Trimmed(logs[i], msg.SnapshotIndex, msg.SnapshotTerm)
            /\ \A j \in Server \ {i} : logs'[j] = logs[j]
        BY <2>3, Types
      <3>2. msg.SnapshotIndex \in Nat /\ msg.SnapshotTerm \in Nat
            /\ commitIndex[i] \in Nat /\ First(logs[i]) <= commitIndex[i]
        BY <1>8, Types
      <3>3. msg.SnapshotIndex >= First(logs[i])
        BY <1>3, <2>3, <3>2
      <3>4. First(logs'[i]) = msg.SnapshotIndex
        BY <1>3, <3>1, <3>2, <3>3, TrimmedIsLog
      <3>5. First(logs[i]) <= First(logs'[i])
        BY <1>3, <3>2, <3>3, <3>4
      <3> QED
        BY <1>6, <2>1, <3>1, <3>5
    <2> QED
      BY <1>8, <2>2, <2>3 DEF CondInstallSnapshot
  <1>9. ASSUME NEW i \in Server, Restart(i) PROVE LeadersCount
    <2>1. /\ state'[i] = Follower /\ \A j \in Server \ {i} : logs'[j] = logs[j]
          /\ \A j \in Server \ {i} : matchIndex'[j] = matchIndex[j]
      BY <1>1, <1>9 DEF Restart, TypeOK
    <2>2. state'[i] # Leader
      BY <2>1 DEF Follower, Leader
    <2>3. \A j \in Server : state'[j] = Leader =>
            matchIndex'[j] = matchIndex[j] /\ First(logs[j]) <= First(logs'[j])
      BY <1>4, <2>1, <2>2
    <2> QED
      BY <1>2, <2>3, CountsStay
  <1>10. ASSUME NEW m \in rpcs, AppendEntries(m) PROVE LeadersCount
    <2>1. PICK i \in Server : i = m.to
      BY Types, MessageFields
    <2>2. UNCHANGED matchIndex
      BY <1>10 DEF AppendEntries
    <2>3. CASE UNCHANGED logs
      BY <1>2, <2>2, <2>3, CountsStayInPlace
    <2>4. CASE ChangeState(i, Follower) /\ \E log : logs' = [logs EXCEPT ![i] = log]
      <3>1. state'[i] # Leader
        BY <1>1, <2>4 DEF ChangeState, TypeOK, Follower, Leader
      <3>2. \A j \in Server \ {i} : logs'[j] = logs[j]
        BY <2>4, Types
      <3> QED
        BY <1>6, <2>2, <3>1, <3>2
    <2> QED
      BY <1>10, <2>1, <2>3, <2>4
      DEF AppendEntries, AppendEntriesStale, AppendEntriesBelowFirst, AppendEntriesMismatch,
          AppendEntriesMatch
  <1> QED
    BY <1>5, <1>7, <1>8, <1>9, <1>10

LEMMA RepliesCount ==
  ASSUME Moves, NEW m \in rpcs,
         HandleAppendEntriesResponse(m) \/ HandleInstallSnapshotResponse(m)
  PROVE  LeadersCount
  <1>1. TypeOK /\ VotePersisted
    BY DEF Moves, VInv, VotesInv, IInv
  <1>2. LeadersStay
    <2>1. Quiet
      BY <1>1, HandleAppendEntriesResponseQuiet, HandleInstallSnapshotResponseQuiet
    <2> QED
      BY <2>1, RolesCandidates DEF Quiet, LeadersStay
  <1>3. PICK i \in Server, p \in Server : i = m.to /\ p = m.from
    BY Types, MessageFields
  <1>4. CASE UNCHANGED <<logs, matchIndex>>
    BY <1>2, <1>4, CountsStayInPlace
  <1>5. ASSUME UNCHANGED <<logs, state, currentTerm>>, state[i] = Leader,
               NEW n, matchIndex' = [matchIndex EXCEPT ![i] = [matchIndex[i] EXCEPT ![p] = n]],
               \/ n <= First(logs[i])
               \/ /\ m.type = "AppendEntriesReply" /\ m.Success /\ m.reqTerm = currentTerm[i]
                  /\ n = m.PrevLogIndex + m.NumEntries
        PROVE  LeadersCount
    <2>1. matchIndex \in [Server -> [Server -> Nat]]
      BY Types
    <2>2. /\ matchIndex'[i][p] = n
          /\ \A q \in Server \ {p} : matchIndex'[i][q] = matchIndex[i][q]
          /\ \A j \in Server \ {i} : matchIndex'[j] = matchIndex[j]
      BY <1>5, <2>1
    <2>3. \A j \in Server : First(logs[j]) <= First(logs[j])
      <3> TAKE j \in Server
      <3>1. First(logs[j]) \in Nat
        BY Types, LogEnds
      <3> QED
        BY <3>1
    <2>4. LeaderCounts(i, p)
      BY <1>3, <1>5, <2>2, <2>3 DEF LeaderCounts
    <2> QED
      BY <1>5, <2>2, <2>3, <2>4 DEF LeadersCount, LeaderCounts
  <1>6. CASE HandleAppendEntriesResponse(m)
    <2>1. CASE /\ state[i] = Leader /\ currentTerm[i] = m.reqTerm /\ m.Success
               /\ matchIndex' = [matchIndex EXCEPT ![i] =
                    [matchIndex[i] EXCEPT ![p] = m.PrevLogIndex + m.NumEntries]]
               /\ UNCHANGED <<logs, state, currentTerm>>
      <3>1. m.type = "AppendEntriesReply"
        BY <1>6 DEF HandleAppendEntriesResponse
      <3> QED
        BY <1>5, <2>1, <3>1
    <2> QED
      BY <1>3, <1>4, <1>6, <2>1 DEF HandleAppendEntriesResponse, stepDown, hardState
  <1>7. CASE HandleInstallSnapshotResponse(m)
    <2>1. CASE /\ state[i] = Leader /\ currentTerm[i] = m.reqTerm
               /\ matchIndex' = [matchIndex EXCEPT ![i][p] = m.LastIncludedIndex]
               /\ UNCHANGED <<logs, state, currentTerm>>
      <3>1. m.type = "InstallSnapshotReply"
        BY <1>7 DEF HandleInstallSnapshotResponse
      <3>2. m.LastIncludedIndex <= First(logs[i])
        BY <1>3, <2>1, <3>1, Invariants DEF MessagesInv, MessageInv, SnapshotOf
      <3> QED
        BY <1>5, <2>1, <3>2
    <2> QED
      BY <1>3, <1>4, <1>7, <2>1 DEF HandleInstallSnapshotResponse, stepDown, hardState
  <1> QED
    BY <1>6, <1>7

LEMMA OthersCount ==
  ASSUME Moves,
         \/ \E i, p \in Server : ReplicateOneRound(i, p)
         \/ \E m \in rpcs : Drop(m)
         \/ \E m \in rpcs : InstallSnapshot(m)
         \/ UNCHANGED <<vars, history>>
  PROVE  LeadersCount
  <1>1. TypeOK /\ VotePersisted
    BY DEF Moves, VInv, VotesInv, IInv
  <1>2. LeadersStay
    <2>1. Quiet
      BY <1>1, OthersQuiet, InstallSnapshotQuiet
    <2> QED
      BY <2>1, RolesCandidates DEF Quiet, LeadersStay
  <1>3. UNCHANGED <<logs, matchIndex>>
    BY DEF ReplicateOneRound, Drop, InstallSnapshot, vars, volatile, hardState
  <1> QED
    BY <1>2, <1>3, CountsStayInPlace

-----------------------------------------------------------------------------
(* Every step.                                                             *)

LEMMA NextHolds ==
  ASSUME Moves, Next \/ UNCHANGED <<vars, history>>
  PROVE  \A p \in Server : HoldStep(p)
  <1>1. CASE \E i \in Server : StartElection(i)
    BY <1>1, StartElectionHolds
  <1>2. CASE \E i \in Server : Start(i)
    BY <1>2, StartHolds
  <1>3. CASE \/ \E i, p \in Server : ReplicateOneRound(i, p)
             \/ \E m \in rpcs : Drop(m)
             \/ UNCHANGED <<vars, history>>
    <2>1. UNCHANGED <<state, logs, stable>>
      BY <1>3 DEF ReplicateOneRound, Drop, vars, volatile, hardState, persister
    <2> QED
      BY <2>1, StillHolds
  <1>4. CASE \E i \in Server : \E msg \in snapCh[i] : CondInstallSnapshot(i, msg)
    BY <1>4, CondInstallSnapshotHolds
  <1>5. CASE \E i \in Server : \E index \in 1 .. MaxSnapshotIndex : Snapshot(i, index)
    BY <1>5, SnapshotHolds
  <1>6. CASE \E i \in Server : Restart(i)
    BY <1>6, RestartHolds
  <1>7. CASE \E m \in rpcs : Receive(m)
    BY <1>7, RequestVoteHolds, HandleRequestVoteResponseHolds, AppendEntriesHolds, RepliesHold,
       InstallSnapshotHolds DEF Receive
  <1> QED
    BY <1>1, <1>2, <1>3, <1>4, <1>5, <1>6, <1>7 DEF Next

LEMMA NextCounts ==
  ASSUME Moves, ~lost', Next \/ UNCHANGED <<vars, history>>
  PROVE  LeadersCount
  <1>1. CASE \E m \in rpcs : Receive(m)
    BY <1>1, ElectionsCount, WinnerCounts, LogsCount, RepliesCount, OthersCount DEF Receive
  <1>2. CASE ~\E m \in rpcs : Receive(m)
    BY <1>2, ElectionsCount, LogsCount, OthersCount DEF Next
  <1> QED
    BY <1>1, <1>2

(* Only AppendEntries answers an AppendEntries.                            *)
LEMMA NoOtherReplies ==
  ASSUME Next \/ UNCHANGED <<vars, history>>, ~\E m \in rpcs : AppendEntries(m)
  PROVE  \A r \in rpcs' \ rpcs : r.type # "AppendEntriesReply"
  <1>1. ASSUME NEW m \in rpcs, RequestVote(m) PROVE \A r \in rpcs' \ rpcs : r.type # "AppendEntriesReply"
    BY <1>1 DEF RequestVote, Answer, InFlight, RequestVoteResponse
  <1>2. ASSUME NEW m \in rpcs, InstallSnapshot(m) PROVE \A r \in rpcs' \ rpcs : r.type # "AppendEntriesReply"
    BY <1>2 DEF InstallSnapshot, AnswerOne, Received, InFlight, InstallSnapshotResponse
  <1>3. ASSUME NEW m \in rpcs,
               \/ HandleRequestVoteResponse(m)
               \/ HandleAppendEntriesResponse(m)
               \/ HandleInstallSnapshotResponse(m)
        PROVE  \A r \in rpcs' \ rpcs : r.type # "AppendEntriesReply"
    BY <1>3 DEF HandleRequestVoteResponse, HandleAppendEntriesResponse,
                HandleInstallSnapshotResponse, ConsumeOne, Received, InFlight
  <1>4. ASSUME NEW i \in Server, StartElection(i)
        PROVE  \A r \in rpcs' \ rpcs : r.type # "AppendEntriesReply"
    BY <1>4 DEF StartElection, InFlight, RequestVoteRequest
  <1>5. ASSUME NEW i \in Server, NEW p \in Server, ReplicateOneRound(i, p)
        PROVE  \A r \in rpcs' \ rpcs : r.type # "AppendEntriesReply"
    BY <1>5 DEF ReplicateOneRound, InFlight, AppendEntriesRequest, InstallSnapshotRequest
  <1>6. CASE \/ \E i \in Server : Start(i)
             \/ \E i \in Server : \E msg \in snapCh[i] : CondInstallSnapshot(i, msg)
             \/ \E i \in Server : \E index \in 1 .. MaxSnapshotIndex : Snapshot(i, index)
             \/ \E i \in Server : Restart(i)
             \/ \E m \in rpcs : Drop(m)
             \/ UNCHANGED <<vars, history>>
    <2>1. rpcs' \subseteq rpcs
      BY <1>6 DEF Start, CondInstallSnapshot, Snapshot, Restart, Drop, vars
    <2> QED
      BY <2>1
  <1> QED
    BY <1>1, <1>2, <1>3, <1>4, <1>5, <1>6 DEF Next, Receive

LEMMA NextReplies ==
  ASSUME Moves, Next \/ UNCHANGED <<vars, history>>
  PROVE  \A r \in rpcs' \ rpcs : ReplyHeld(r)'
  <1>1. CASE \E m \in rpcs : AppendEntries(m)
    BY <1>1, AppendEntriesHolds
  <1>2. CASE ~\E m \in rpcs : AppendEntries(m)
    <2>1. \A r \in rpcs' \ rpcs : r.type # "AppendEntriesReply"
      BY <1>2, NoOtherReplies
    <2> QED
      BY <2>1 DEF ReplyHeld
  <1> QED
    BY <1>1, <1>2

LEMMA DurableKept ==
  ASSUME Moves, ~lost', DurableInv, Next \/ UNCHANGED <<vars, history>>
  PROVE  DurableInv'
  <1>1. (\A p \in Server : HoldStep(p)) /\ LeadersCount
    BY NextHolds, NextCounts
  <1>2. ASSUME NEW m \in rpcs, ReplyHeld(m) PROVE ReplyHeld(m)'
    <2> SUFFICES ASSUME m.type = "AppendEntriesReply", m.Success
                 PROVE  Holds(m.from, m.reqTerm, m.PrevLogIndex + m.NumEntries)'
      BY DEF ReplyHeld
    <2>1. PICK p \in Server, T \in Nat, n \in Nat :
            p = m.from /\ T = m.reqTerm /\ n = m.PrevLogIndex + m.NumEntries
      <3>1. /\ m.from \in Server /\ m.reqTerm \in Nat
            /\ m.PrevLogIndex \in Nat /\ m.NumEntries \in Nat
        BY Types, MessageFields DEF Requests
      <3> QED
        BY <3>1
    <2>2. Holds(p, T, n)
      BY <1>2, <2>1 DEF ReplyHeld
    <2>3. Holds(p, T, n)'
      BY <1>1, <2>2, HoldsStay
    <2> QED
      BY <2>1, <2>3
  <1>3. \A m \in rpcs' : ReplyHeld(m)'
    BY <1>2, NextReplies DEF DurableInv
  <1>4. ASSUME NEW i \in Server, state'[i] = Leader, NEW p \in Server \ {i},
               First(logs'[i]) < matchIndex'[i][p]
        PROVE  /\ currentTerm'[i] <= currentTerm'[p]
               /\ currentTerm'[p] = currentTerm'[i] =>
                    /\ state'[p] = Follower
                    /\ stable'[p].logs = logs'[p]
                    /\ \A k \in First(logs'[p]) .. matchIndex'[i][p] :
                         /\ k <= Last(logs'[p])
                         /\ <<currentTerm'[i], k, TermAt(logs'[p], k)>> \in led'
    <2>1. PICK n \in Nat, f \in Nat, T \in Nat, g \in Nat, v \in Nat :
            /\ n = matchIndex'[i][p] /\ f = First(logs'[i]) /\ T = currentTerm[i]
            /\ g = First(logs[i]) /\ v = matchIndex[i][p]
      <3>1. /\ IsLog(logs'[i]) /\ IsLog(logs[i]) /\ currentTerm[i] \in Nat
            /\ matchIndex'[i][p] \in Nat /\ matchIndex[i][p] \in Nat
        BY Types
      <3> QED
        BY <3>1, LogEnds
    <2>2. f < n /\ n # 0
      BY <1>4, <2>1
    <2>3. LeaderCounts(i, p)
      BY <1>1, <1>4, <2>1, <2>2 DEF LeadersCount
    <2>4. state[i] = Leader /\ currentTerm'[i] = T /\ g <= f
      BY <2>1, <2>3 DEF LeaderCounts
    <2>5. Holds(p, T, n)
      <3>1. CASE n = v
        <4>1. g < v
          BY <2>2, <2>4, <3>1
        <4> QED
          BY <2>1, <2>4, <3>1, <4>1 DEF DurableInv, MatchHeld
      <3>2. ASSUME NEW m \in rpcs, m.type = "AppendEntriesReply", m.Success,
                   m.from = p, m.reqTerm = T, n = m.PrevLogIndex + m.NumEntries
            PROVE  Holds(p, T, n)
        BY <3>2 DEF DurableInv, ReplyHeld
      <3>3. ~(n <= f)
        BY <2>2
      <3> QED
        BY <2>1, <2>3, <3>1, <3>2, <3>3 DEF LeaderCounts
    <2>6. Holds(p, T, n)'
      BY <1>1, <2>5, HoldsStay
    <2>7. /\ T <= currentTerm'[p]
          /\ currentTerm'[p] = T =>
               /\ state'[p] = Follower
               /\ stable'[p].logs = logs'[p]
               /\ \A k \in First(logs'[p]) .. n :
                    k <= Last(logs'[p]) /\ <<T, k, TermAt(logs'[p], k)>> \in led'
      BY <2>6 DEF Holds, Agrees, Led
    <2> QED
      BY <2>1, <2>4, <2>7
  <1>5. \A i \in Server : state'[i] = Leader => MatchHeld(i)'
    BY <1>4 DEF MatchHeld, Holds, Agrees, Led
  <1> QED
    BY <1>3, <1>5 DEF DurableInv

(* The history's invariant and this one.                                   *)
LInv == HInv /\ (~lost => DurableInv)

LEMMA LInvHolds == HSpec => []LInv
  <1>1. HInit => LInv
    <2> SUFFICES ASSUME HInit PROVE LInv
      OBVIOUS
    <2>1. HInv
      BY HInitOK, VInitOK DEF HInit, HInv, VInit
    <2>2. \A i \in Server : state[i] # Leader
      BY DEF HInit, Init, Follower, Leader
    <2>3. rpcs = {}
      BY DEF HInit, Init
    <2> QED
      BY <2>1, <2>2, <2>3 DEF LInv, DurableInv
  <1>2. LInv /\ [HNext]_<<vars, history>> => LInv'
    <2> SUFFICES ASSUME LInv, [HNext]_<<vars, history>> PROVE LInv'
      OBVIOUS
    <2>1. HInv'
      BY HNextOK DEF LInv
    <2>2. ASSUME ~lost' PROVE DurableInv'
      <3>1. ~lost
        BY <2>2 DEF HNext, Record, history
      <3>2. Moves
        BY <3>1, StepMoves, StutterMoves DEF LInv
      <3>3. Next \/ UNCHANGED <<vars, history>>
        BY DEF HNext
      <3> QED
        BY <2>2, <3>1, <3>2, <3>3, DurableKept DEF LInv
    <2> QED
      BY <2>1, <2>2 DEF LInv
  <1> QED
    BY <1>1, <1>2, PTL DEF HSpec

LEMMA DurableAcks ==
  ASSUME HInv, ~lost, DurableInv
  PROVE  AcksAreDurable
  <1> SUFFICES ASSUME NEW i \in Server, state[i] = Leader, NEW p \in Server \ {i},
                      stable[p].currentTerm = currentTerm[i],
                      NEW k \in First(logs[i]) + 1 .. matchIndex[i][p]
               PROVE  \/ k < First(stable[p].logs)
                      \/ matchLog(stable[p].logs, TermAt(logs[i], k), k)
    BY DEF AcksAreDurable
  <1>1. PICK T \in Nat, n \in Nat, f \in Nat, g \in Nat :
          T = currentTerm[i] /\ n = matchIndex[i][p] /\ f = First(logs[i]) /\ g = First(logs[p])
    <2>1. /\ currentTerm[i] \in Nat /\ matchIndex[i][p] \in Nat
          /\ IsLog(logs[i]) /\ IsLog(logs[p])
      BY DEF HInv, VInv, IInv, TypeOK
    <2> QED
      BY <2>1, LogEnds
  <1>2. currentTerm[p] = T
    BY <1>1 DEF HInv, VInv, IInv, TermPersisted
  <1>3. f < n /\ k \in Nat /\ f < k /\ k <= n
    BY <1>1
  <1>4. stable[p].logs = logs[p] /\ Agrees(p, T, n)
    BY <1>1, <1>2, <1>3 DEF DurableInv, MatchHeld, Holds
  <1>5. LedInv /\ LeaderLed(i)
    BY DEF HInv, HistoryInv, LeaderInv
  <1>6. CASE g <= k
    <2>1. k <= Last(logs[p]) /\ Led(T, k, TermAt(logs[p], k))
      BY <1>1, <1>3, <1>4, <1>6 DEF Agrees
    <2>2. /\ IsLog(logs[p]) /\ Last(logs[p]) \in Nat /\ IsLog(logs[i]) /\ Last(logs[i]) \in Nat
      BY LogEnds DEF HInv, VInv, IInv, TypeOK
    <2>3. k \in First(logs[p]) .. Last(logs[p])
      BY <1>1, <1>3, <1>6, <2>1, <2>2
    <2>4. TermAt(logs[p], k) \in Nat
      BY <2>2, <2>3, LogTerms
    <2>5. k <= Last(logs[i])
      BY <1>1, <1>3, <1>5, <2>1, <2>4 DEF LeaderLed
    <2>6. k \in First(logs[i]) .. Last(logs[i])
      BY <1>1, <1>3, <2>2, <2>5
    <2>7. Led(T, k, TermAt(logs[i], k)) /\ TermAt(logs[i], k) \in Nat
      BY <1>1, <1>5, <2>2, <2>6, LogTerms DEF LeaderLed
    <2>8. TermAt(logs[p], k) = TermAt(logs[i], k)
      BY <1>3, <1>5, <2>1, <2>4, <2>7, LedOnce
    <2> QED
      BY <1>1, <1>4, <1>6, <2>1, <2>8 DEF matchLog
  <1>7. CASE k < g
    BY <1>1, <1>4, <1>7
  <1> QED
    BY <1>1, <1>3, <1>6, <1>7

(* What a leader counts as replicated on a peer is on that peer's disk     *)
(* while the peer is in the leader's term, whatever replies come late:     *)
(* AppendEntries answers after persist(), a late request of the same term  *)
(* cuts off nothing, and neither a snapshot nor a crash takes it back.     *)
THEOREM AcksDurable == HSpec => [](~lost => AcksAreDurable)
  <1>1. LInv => (~lost => AcksAreDurable)
    BY DurableAcks DEF LInv
  <1> QED
    BY <1>1, LInvHolds, PTL


-----------------------------------------------------------------------------
(* How far a leader goes back.                                             *)

(* Who leads after a step led before it, or was the candidate.             *)
LEMMA RolesMove ==
  ASSUME Moves, Next \/ UNCHANGED <<vars, history>>, NEW i \in Server, state'[i] = Leader
  PROVE  currentTerm'[i] = currentTerm[i] /\ state[i] \in {Leader, Candidate}
  <1>1. /\ TypeOK /\ TermPersisted /\ VotePersisted
        /\ state \in [Server -> {Follower, Candidate, Leader}] /\ DOMAIN currentTerm = Server
    BY DEF Moves, VInv, VotesInv, IInv, TypeOK
  <1>2. CASE Quiet
    BY <1>2 DEF Quiet, RolesStand, RoleKept
  <1>3. CASE \E j \in Server : StartElection(j)
    BY <1>1, <1>3 DEF StartElection, ChangeState, Candidate, Leader
  <1>4. ASSUME NEW m \in rpcs, RequestVote(m)
        PROVE  currentTerm'[i] = currentTerm[i] /\ state[i] = Leader
    <2>1. PICK j \in Server : j = m.to
      BY Types, MessageFields
    <2>2. m.Term \in Nat /\ currentTerm[j] \in Nat
      BY <1>4, Types, MessageFields DEF RequestVote, Requests
    <2>3. \/ UNCHANGED <<state, currentTerm>>
          \/ /\ m.Term > currentTerm[j] /\ state' = [state EXCEPT ![j] = Follower]
             /\ currentTerm' = [currentTerm EXCEPT ![j] = m.Term]
          \/ /\ ~(m.Term > currentTerm[j]) /\ ~(m.Term < currentTerm[j])
             /\ UNCHANGED state /\ currentTerm' = [currentTerm EXCEPT ![j] = m.Term]
      BY <1>4, <2>1 DEF RequestVote, RefusesVote, ChangeState, catchUp, adoptTerm
    <2> QED
      BY <1>1, <2>2, <2>3 DEF Follower, Leader
  <1>5. ASSUME NEW m \in rpcs, HandleRequestVoteResponse(m)
        PROVE  currentTerm'[i] = currentTerm[i] /\ state[i] \in {Leader, Candidate}
    <2>1. \/ Quiet
          \/ /\ ElectionGoesOn(m.to, m) /\ UNCHANGED currentTerm
             /\ \/ UNCHANGED state
                \/ state' = [state EXCEPT ![m.to] = Leader]
      BY <1>1, <1>5, HandleRequestVoteResponseSteps
    <2> QED
      BY <1>1, <1>2, <2>1 DEF ElectionGoesOn
  <1>6. [Next]_vars
    BY DEF history
  <1> QED
    BY <1>1, <1>2, <1>3, <1>4, <1>5, <1>6, QuietOrElection

LEMMA NobodyLedZero ==
  ASSUME Moves, BackInv, Next \/ UNCHANGED <<vars, history>>
  PROVE  /\ \A i \in Server : state'[i] = Leader => currentTerm'[i] # 0
         /\ \A k, t \in Nat : <<0, k, t>> \in led' => k = 0
  <1>1. ASSUME NEW i \in Server, state'[i] = Leader PROVE currentTerm'[i] # 0
    <2>1. currentTerm'[i] = currentTerm[i] /\ state[i] \in {Leader, Candidate}
      BY <1>1, RolesMove
    <2>2. state[i] = Candidate => currentTerm[i] # 0
      BY Invariants DEF OwnerInv
    <2> QED
      BY <2>1, <2>2 DEF BackInv
  <1>2. ASSUME NEW k \in Nat, NEW t \in Nat, <<0, k, t>> \in led' PROVE k = 0
    <2>1. CASE <<0, k, t>> \in led
      BY <2>1 DEF BackInv, Led
    <2>2. CASE <<0, k, t>> \notin led
      <3>1. PICK i \in Server : state'[i] = Leader /\ <<0, k, t>> \in NewlyLed(i)
        BY <1>2, <2>2 DEF Moves, Record
      <3>2. currentTerm'[i] = 0
        BY <3>1 DEF NewlyLed
      <3> QED
        BY <1>1, <3>1, <3>2
    <2> QED
      BY <2>1, <2>2
  <1> QED
    BY <1>1, <1>2

(* An entry of term 0 is the placeholder of index 0.                       *)
LEMMA TermZero ==
  ASSUME HistoryInv, BackInv, NEW i \in Server, IsLog(logs[i]),
         First(logs[i]) <= commitIndex[i], commitIndex[i] \in Nat, currentTerm[i] \in Nat
  PROVE  /\ First(logs[i]) = 0 => TermAt(logs[i], 0) = 0
         /\ \A k \in First(logs[i]) + 1 .. Last(logs[i]) : TermAt(logs[i], k) # 0
  <1>0. PICK log : log = logs[i]
    OBVIOUS
  <1>1. PICK f \in Nat, n \in Nat :
          log = logs[i] /\ IsLog(log) /\ f = First(log) /\ n = Last(log) /\ f <= n
    BY <1>0, LogEnds
  <1>2. \A k \in f .. n : k \in Nat /\ TermAt(log, k) \in Nat
    BY <1>1, LogTerms
  <1>3. LedInv /\ LogSound(i) /\ CommitSound(i) /\ ChosenInv
    BY DEF HistoryInv, LogsInv, CommitInv
  <1>4. ASSUME f = 0 PROVE TermAt(log, 0) = 0
    <2>1. CommittedIn(0, TermAt(log, 0), currentTerm[i])
      BY <1>1, <1>3, <1>4 DEF CommitSound
    <2>2. PICK w \in Nat : Led(w, 0, TermAt(log, 0))
      BY <2>1 DEF CommittedIn
    <2>3. TermAt(log, 0) \in Nat
      BY <1>1, <1>2, <1>4
    <2>4. Led(w, 0, 0)
      BY <1>3, <2>2, <2>3, LedFacts DEF Elected
    <2> QED
      BY <1>3, <2>2, <2>3, <2>4, LedOnce
  <1>5. ASSUME NEW k \in f + 1 .. n, TermAt(log, k) = 0 PROVE FALSE
    <2>1. k \in f .. n /\ k \in Nat /\ k # 0 /\ k \in f .. k
      BY <1>1
    <2>2. Led(0, k, 0)
      <3>1. CASE Sound(log)
        BY <1>1, <1>5, <2>1, <3>1 DEF Sound
      <3>2. CASE Junk(log, currentTerm[i])
        BY <1>1, <1>5, <2>1, <3>2 DEF Junk
      <3> QED
        BY <1>1, <1>3, <3>1, <3>2 DEF LogSound
    <2> QED
      BY <2>1, <2>2 DEF BackInv
  <1> QED
    BY <1>1, <1>4, <1>5

LEMMA ConflictInRange ==
  ASSUME Moves, BackInv, NEW m \in rpcs, m.type = "AppendEntries",
         NEW i \in Server, i = m.to, AppendEntriesMismatch(i, m),
         NEW index \in ConflictIndexes(logs[i], m.PrevLogIndex),
         Last(logs[i]) >= m.PrevLogIndex
  PROVE  0 <= index
  <1>1. PICK f \in Nat, n \in Nat, q \in Nat :
          f = First(logs[i]) /\ n = Last(logs[i]) /\ q = m.PrevLogIndex
    <2>1. m.PrevLogIndex \in Nat /\ IsLog(logs[i])
      BY Types, MessageFields
    <2> QED
      BY <2>1, LogEnds
  <1>2. m.PrevLogTerm \in Nat /\ m.Term \in Nat
    BY Types, MessageFields DEF Requests
  <1>3. f <= q /\ q <= n /\ ~matchLog(logs[i], m.PrevLogTerm, q)
    BY <1>1 DEF AppendEntriesMismatch
  <1>4. /\ index \in f - 1 .. q - 1
        /\ \A k \in index + 1 .. q - 1 : TermAt(logs[i], k) = TermAt(logs[i], q)
    BY <1>1 DEF ConflictIndexes
  <1>5. /\ f = 0 => TermAt(logs[i], 0) = 0
        /\ \A k \in f + 1 .. n : TermAt(logs[i], k) # 0
    <2>1. HistoryInv /\ IsLog(logs[i]) /\ First(logs[i]) <= commitIndex[i]
          /\ commitIndex[i] \in Nat /\ currentTerm[i] \in Nat
      BY Types DEF Moves
    <2> QED
      BY <1>1, <2>1, TermZero
  <1>6. q = 0 => m.PrevLogTerm = 0
    <2> SUFFICES ASSUME q = 0 PROVE m.PrevLogTerm = 0
      OBVIOUS
    <2>1. Led(m.Term, 0, m.PrevLogTerm) /\ LedInv
      BY <1>1, Invariants DEF MessagesInv, MessageInv, AppendEntriesInv
    <2>2. Led(m.Term, 0, 0)
      BY <1>2, <2>1, LedFacts DEF Elected
    <2> QED
      BY <1>2, <2>1, <2>2, LedOnce
  <1>7. ASSUME f = 0, q = 0 PROVE FALSE
    BY <1>1, <1>3, <1>5, <1>6, <1>7 DEF matchLog
  <1>8. ASSUME index < 0 PROVE FALSE
    <2>1. f = 0 /\ q # 0 /\ index = -1
      BY <1>3, <1>4, <1>7, <1>8
    <2>2. 0 \in index + 1 .. q - 1 /\ q \in f + 1 .. n
      BY <1>3, <2>1
    <2> QED
      BY <1>4, <1>5, <2>1, <2>2
  <1> QED
    BY <1>4, <1>8

LEMMA RepliesInRange ==
  ASSUME Moves, BackInv, Next \/ UNCHANGED <<vars, history>>
  PROVE  \A r \in rpcs' : r.type = "AppendEntriesReply" => 0 <= r.ConflictIndex
  <1>1. ASSUME NEW m \in rpcs, AppendEntries(m)
        PROVE  \A r \in rpcs' \ rpcs : r.type = "AppendEntriesReply" => 0 <= r.ConflictIndex
    <2>1. PICK i \in Server : i = m.to
      BY Types, MessageFields
    <2>2. m.type = "AppendEntries" /\ m.PrevLogIndex \in Nat
          /\ First(logs[i]) \in Nat /\ Last(logs[i]) \in Nat
      BY <1>1, Types, MessageFields, LogEnds DEF AppendEntries
    <2>3. \E term, success, index, conflictTerm :
            /\ AnswerOne(m, AppendEntriesResponse(m, term, success, index, conflictTerm))
            /\ 0 <= index
      <3>1. CASE \/ AppendEntriesStale(i, m)
                \/ AppendEntriesBelowFirst(i, m)
                \/ AppendEntriesMatch(i, m)
        <4>1. \/ AnswerOne(m, AppendEntriesResponse(m, currentTerm[i], FALSE, 0, 0))
              \/ AnswerOne(m, AppendEntriesResponse(m, m.Term, FALSE, 0, 0))
              \/ AnswerOne(m, AppendEntriesResponse(m, m.Term, TRUE, 0, 0))
          BY <3>1 DEF AppendEntriesStale, AppendEntriesBelowFirst, AppendEntriesMatch
        <4>2. 0 <= 0
          OBVIOUS
        <4> QED
          BY <4>1, <4>2
      <3>2. CASE AppendEntriesMismatch(i, m) /\ Last(logs[i]) < m.PrevLogIndex
        <4>1. ~(Last(logs[i]) >= m.PrevLogIndex)
          BY <2>2, <3>2
        <4>2. AnswerOne(m, AppendEntriesResponse(m, m.Term, FALSE, Last(logs[i]) + 1, NoConflict))
          BY <3>2, <4>1, Zenon DEF AppendEntriesMismatch
        <4>3. 0 <= Last(logs[i]) + 1
          BY <2>2
        <4> QED
          BY <4>2, <4>3
      <3>3. CASE AppendEntriesMismatch(i, m) /\ ~(Last(logs[i]) < m.PrevLogIndex)
        <4>1. PICK index \in ConflictIndexes(logs[i], m.PrevLogIndex) :
                AnswerOne(m, AppendEntriesResponse(m, m.Term, FALSE, index,
                                                   TermAt(logs[i], m.PrevLogIndex)))
          BY <3>3, Zenon DEF AppendEntriesMismatch
        <4>2. Last(logs[i]) >= m.PrevLogIndex
          BY <2>2, <3>3
        <4>3. 0 <= index
          BY <2>1, <2>2, <3>3, <4>1, <4>2, ConflictInRange
        <4> QED
          BY <4>1, <4>3
      <3> QED
        BY <1>1, <2>1, <3>1, <3>2, <3>3 DEF AppendEntries
    <2> QED
      BY <2>3 DEF AnswerOne, Received, InFlight, AppendEntriesResponse
  <1>2. ASSUME NEW r \in rpcs', r \notin rpcs, r.type = "AppendEntriesReply"
        PROVE  \E m \in rpcs : AppendEntries(m)
    BY <1>2, NoOtherReplies
  <1> QED
    BY <1>1, <1>2 DEF BackInv

LEMMA NextsInRange ==
  ASSUME Moves, BackInv, Next \/ UNCHANGED <<vars, history>>
  PROVE  \A i, p \in Server : 0 <= nextIndex'[i][p]
  <1>1. /\ nextIndex \in [Server -> [Server -> Int]] /\ \A i, p \in Server : 0 <= nextIndex[i][p]
        /\ \A i \in Server : First(logs[i]) \in Nat /\ Last(logs[i]) \in Nat
    BY Types, LogEnds DEF BackInv
  <1>2. ASSUME NEW i \in Server, NEW p \in Server, NEW n \in Int, 0 <= n,
               nextIndex' = [nextIndex EXCEPT ![i][p] = n]
        PROVE  \A j, q \in Server : 0 <= nextIndex'[j][q]
    BY <1>1, <1>2
  <1>3. ASSUME NEW i \in Server, NEW n \in Int, 0 <= n,
               nextIndex' = [nextIndex EXCEPT ![i] = [p \in Server |-> n]]
        PROVE  \A j, q \in Server : 0 <= nextIndex'[j][q]
    BY <1>1, <1>3
  <1>4. CASE UNCHANGED nextIndex
    BY <1>1, <1>4
  <1>5. ASSUME NEW i \in Server, Start(i) PROVE \A j, q \in Server : 0 <= nextIndex'[j][q]
    <2>1. nextIndex' = [nextIndex EXCEPT ![i][i] = Last(logs[i]) + 1 + 1]
      BY <1>5 DEF Start
    <2> QED
      BY <1>1, <1>2, <2>1
  <1>6. ASSUME NEW i \in Server, Restart(i) PROVE \A j, q \in Server : 0 <= nextIndex'[j][q]
    <2>1. PICK n \in Nat : n = Last(stable[i].logs)
      BY LogEnds DEF Moves, VInv, IInv, TypeOK
    <2>2. nextIndex' = [nextIndex EXCEPT ![i] = [p \in Server |-> n + 1]]
      BY <1>6, <2>1 DEF Restart
    <2>3. n + 1 \in Int /\ 0 <= n + 1
      OBVIOUS
    <2> QED
      BY <1>3, <2>2, <2>3
  <1>7. ASSUME NEW m \in rpcs, HandleRequestVoteResponse(m)
        PROVE  \A j, q \in Server : 0 <= nextIndex'[j][q]
    <2>1. PICK i \in Server : i = m.to
      BY Types, MessageFields
    <2>2. \/ UNCHANGED nextIndex
          \/ nextIndex' = [nextIndex EXCEPT ![i] = [p \in Server |-> Last(logs[i]) + 1]]
      BY <1>7, <2>1 DEF HandleRequestVoteResponse, becomeLeader, stepDown
    <2> QED
      BY <1>1, <1>3, <1>4, <2>2
  <1>8. ASSUME NEW m \in rpcs, HandleInstallSnapshotResponse(m)
        PROVE  \A j, q \in Server : 0 <= nextIndex'[j][q]
    <2>1. PICK i \in Server, p \in Server : i = m.to /\ p = m.from
      BY Types, MessageFields
    <2>2. m.LastIncludedIndex \in Nat
      BY <1>8, Types, MessageFields DEF HandleInstallSnapshotResponse
    <2>3. \/ UNCHANGED nextIndex
          \/ nextIndex' = [nextIndex EXCEPT ![i][p] = m.LastIncludedIndex + 1]
      BY <1>8, <2>1 DEF HandleInstallSnapshotResponse, stepDown
    <2> QED
      BY <1>2, <1>4, <2>2, <2>3
  <1>9. ASSUME NEW m \in rpcs, HandleAppendEntriesResponse(m)
        PROVE  \A j, q \in Server : 0 <= nextIndex'[j][q]
    <2>1. PICK i \in Server, p \in Server : i = m.to /\ p = m.from
      BY Types, MessageFields
    <2>2. /\ m.type = "AppendEntriesReply"
          /\ m.PrevLogIndex \in Nat /\ m.NumEntries \in Nat
          /\ m.ConflictIndex \in Int /\ 0 <= m.ConflictIndex
      BY <1>9, Types, MessageFields DEF HandleAppendEntriesResponse, BackInv
    <2>3. \/ UNCHANGED nextIndex
          \/ nextIndex' = [nextIndex EXCEPT ![i][p] = m.PrevLogIndex + m.NumEntries + 1]
          \/ \E next \in BackOffs(logs[i], m.PrevLogIndex, m.ConflictTerm, m.ConflictIndex) :
               nextIndex' = [nextIndex EXCEPT ![i][p] = next]
      <3>1. p \in DOMAIN matchIndex[i]
        BY <2>1, Types
      <3> QED
        BY <1>9, <2>1, <3>1 DEF HandleAppendEntriesResponse, stepDown
    <2>4. \A next \in BackOffs(logs[i], m.PrevLogIndex, m.ConflictTerm, m.ConflictIndex) :
            next \in Int /\ 0 <= next
      BY <1>1, <2>1, <2>2 DEF BackOffs
    <2> QED
      BY <1>2, <1>4, <2>2, <2>3, <2>4
  <1>10. \/ UNCHANGED nextIndex
         \/ \E i \in Server : Start(i) \/ Restart(i)
         \/ \E m \in rpcs : \/ HandleRequestVoteResponse(m)
                            \/ HandleInstallSnapshotResponse(m)
                            \/ HandleAppendEntriesResponse(m)
    BY DEF Next, Receive, StartElection, ReplicateOneRound, CondInstallSnapshot, Snapshot, Drop,
           RequestVote, AppendEntries, InstallSnapshot, vars, volatile
  <1> QED
    BY <1>4, <1>5, <1>6, <1>7, <1>8, <1>9, <1>10

LEMMA BackKept ==
  ASSUME Moves, BackInv, Next \/ UNCHANGED <<vars, history>>
  PROVE  BackInv'
  BY NobodyLedZero, RepliesInRange, NextsInRange DEF BackInv, Led

LEMMA BackHolds == HSpec => [](HInv /\ (~lost => BackInv))
  <1> DEFINE Inv == HInv /\ (~lost => BackInv)
  <1>1. HInit => Inv
    <2> SUFFICES ASSUME HInit PROVE Inv
      OBVIOUS
    <2>1. HInv
      BY HInitOK, VInitOK DEF HInit, HInv, VInit
    <2>2. BackInv
      BY DEF HInit, Init, BackInv, Led, Follower, Leader
    <2> QED
      BY <2>1, <2>2
  <1>2. Inv /\ [HNext]_<<vars, history>> => Inv'
    <2> SUFFICES ASSUME Inv, [HNext]_<<vars, history>> PROVE Inv'
      OBVIOUS
    <2>1. HInv'
      BY HNextOK
    <2>2. ASSUME ~lost' PROVE BackInv'
      <3>1. ~lost
        BY <2>2 DEF HNext, Record, history
      <3>2. Moves
        BY <3>1, StepMoves, StutterMoves
      <3>3. Next \/ UNCHANGED <<vars, history>>
        BY DEF HNext
      <3> QED
        BY <3>1, <3>2, <3>3, BackKept
    <2> QED
      BY <2>1, <2>2
  <1> QED
    BY <1>1, <1>2, PTL DEF HSpec

(* No slice of a log goes out of range: the applier's, because a log       *)
(* begins at or below commitIndex and ends at or above it, and the         *)
(* leader's, because no reply, however late, takes nextIndex beyond the    *)
(* log's end or below index 0.                                             *)
THEOREM SlicesStayInRange == HSpec => [](~lost => SlicesInRange)
  <1>1. HInv /\ (~lost => BackInv) => (~lost => SlicesInRange)
    <2> SUFFICES ASSUME HInv, ~lost, BackInv, NEW i \in Server
                 PROVE  /\ First(logs[i]) <= commitIndex[i] /\ commitIndex[i] <= Last(logs[i])
                        /\ state[i] = Leader => \A p \in Server :
                             0 <= nextIndex[i][p] /\ nextIndex[i][p] <= Last(logs[i]) + 1
      BY DEF SlicesInRange
    <2>1. HistoryInv /\ IInv
      BY DEF HInv, VInv
    <2>2. CommitSound(i)
      BY <2>1 DEF HistoryInv, CommitInv
    <2> QED
      BY <2>1, <2>2 DEF IInv, FirstCommitted, NextInLog, CommitSound, BackInv
  <1> QED
    BY <1>1, BackHolds, PTL

-----------------------------------------------------------------------------
(* Logs that no snapshot has cut.                                          *)
NoSnapshots == \A i \in Server : First(logs[i]) = 0

(* Only what CondInstallSnapshot keeps is unsound: an entry above index 0  *)
(* follows the placeholder in the log of the leader that appended it.      *)
LEMMA WholeIsSound ==
  ASSUME LedInv, NEW i \in Server, IsLog(logs[i]), LogSound(i), First(logs[i]) = 0,
         ChosenInv
  PROVE  Sound(logs[i])
  <1> SUFFICES ASSUME Junk(logs[i], currentTerm[i]) PROVE FALSE
    BY DEF LogSound
  <1>0. PICK log : log = logs[i]
    OBVIOUS
  <1>1. PICK n \in Nat : n = Last(log) /\ 0 < n
    BY <1>0, LogEnds DEF Junk
  <1>2. n \in 0 + 1 .. n /\ n \in 0 .. n
    BY <1>1
  <1>3. TermAt(log, n) \in Nat /\ TermAt(log, 0) \in Nat
    <2>1. 0 \in 0 .. n
      BY <1>1
    <2> QED
      BY <1>0, <1>1, <1>2, <2>1, LogTerms
  <1>4. /\ Led(TermAt(log, n), n, TermAt(log, n))
        /\ ~Led(TermAt(log, n), 0, TermAt(log, 0))
    BY <1>0, <1>1, <1>2 DEF Junk
  <1>5. \E w \in Nat : Led(w, 0, TermAt(log, 0))
    BY <1>0 DEF Junk
  <1>6. TermAt(log, 0) = 0
    BY <1>3, <1>5, LedFacts, LedOnce DEF Elected
  <1>7. Led(TermAt(log, n), 0, 0)
    BY <1>1, <1>3, <1>4, LedFacts DEF Elected
  <1> QED
    BY <1>4, <1>6, <1>7

LEMMA SoundMatch ==
  ASSUME LedInv, NEW log1, NEW log2, IsLog(log1), IsLog(log2), Sound(log1), Sound(log2),
         NEW k \in Both(log1, log2), NEW l \in Both(log1, log2), l < k,
         TermAt(log1, k) = TermAt(log2, k)
  PROVE  TermAt(log1, l) = TermAt(log2, l)
  <1>1. PICK f1 \in Nat, n1 \in Nat, f2 \in Nat, n2 \in Nat :
          f1 = First(log1) /\ n1 = Last(log1) /\ f2 = First(log2) /\ n2 = Last(log2)
    BY LogEnds
  <1>2. /\ k \in f1 .. n1 /\ k \in f2 .. n2 /\ l \in f1 .. k /\ l \in f2 .. k
        /\ l \in f1 .. n1 /\ l \in f2 .. n2 /\ l \in Nat
    BY <1>1 DEF Both
  <1>3. TermAt(log1, k) \in Nat /\ TermAt(log1, l) \in Nat /\ TermAt(log2, l) \in Nat
    BY <1>1, <1>2, LogTerms
  <1>4. Led(TermAt(log1, k), l, TermAt(log1, l)) /\ Led(TermAt(log1, k), l, TermAt(log2, l))
    BY <1>1, <1>2 DEF Sound
  <1> QED
    BY <1>2, <1>3, <1>4, LedOnce

(* Log matching, as long as no peer has taken or installed a snapshot:     *)
(* the check of the previous entry that AppendEntries makes, entry by      *)
(* entry, keeps two logs the same below any entry they share.              *)
THEOREM LogsMatch == HSpec => [](~lost /\ NoSnapshots => LogMatching)
  <1>1. HInv => (~lost /\ NoSnapshots => LogMatching)
    <2> SUFFICES ASSUME HInv, ~lost, NoSnapshots, NEW i \in Server, NEW j \in Server,
                        NEW k \in Both(logs[i], logs[j]), NEW l \in Both(logs[i], logs[j]),
                        TermAt(logs[i], k) = TermAt(logs[j], k), l < k
                 PROVE  TermAt(logs[i], l) = TermAt(logs[j], l)
      BY DEF LogMatching
    <2>1. LedInv /\ ChosenInv /\ \A p \in Server : LogSound(p)
      BY DEF HInv, HistoryInv, LogsInv
    <2>2. \A p \in Server : IsLog(logs[p]) /\ First(logs[p]) = 0
      BY DEF HInv, VInv, IInv, TypeOK, NoSnapshots
    <2>3. Sound(logs[i]) /\ Sound(logs[j])
      BY <2>1, <2>2, WholeIsSound
    <2> QED
      BY <2>1, <2>2, <2>3, SoundMatch
  <1> QED
    BY <1>1, HistoryInvariant, PTL

-----------------------------------------------------------------------------
(* Peers that do not crash.                                                *)
LEMMA NothingLost ==
  ASSUME MaxCrashes = 0
  PROVE  HSpec => []~lost
  <1> DEFINE Inv == crashes = 0 /\ lost = FALSE
  <1>1. HInit => Inv
    BY DEF HInit, Init
  <1>2. Inv /\ [HNext]_<<vars, history>> => Inv'
    <2> SUFFICES ASSUME Inv, [HNext]_<<vars, history>> PROVE Inv'
      OBVIOUS
    <2>1. crashes' = crashes
      <3>1. CASE \E i \in Server : Restart(i)
        BY <3>1 DEF Restart
      <3>2. CASE ~\E i \in Server : Restart(i)
        BY <3>2 DEF HNext, Next, Receive, StartElection, Start, ReplicateOneRound,
             CondInstallSnapshot, Snapshot, Drop, RequestVote, HandleRequestVoteResponse,
             AppendEntries, HandleAppendEntriesResponse, InstallSnapshot,
             HandleInstallSnapshotResponse, vars
      <3> QED
        BY <3>1, <3>2
    <2>2. lost' = lost
      <3>1. CASE HNext
        <4>1. lost' = (lost \/ (crashes' # crashes /\ logs' # logs))
          BY <3>1 DEF HNext, Record
        <4>2. lost = FALSE
          OBVIOUS
        <4> QED
          BY <2>1, <4>1, <4>2
      <3>2. CASE UNCHANGED <<vars, history>>
        BY <3>2 DEF history
      <3> QED
        BY <3>1, <3>2
    <2> QED
      BY <2>1, <2>2
  <1>3. Inv => ~lost
    OBVIOUS
  <1> QED
    BY <1>1, <1>2, <1>3, PTL DEF HSpec

(* Without crashes nothing has to be assumed of what they take: peers      *)
(* agree on what they apply, and every leader to come has it.              *)
THEOREM AgreeWithoutCrashes ==
  ASSUME MaxCrashes = 0
  PROVE  HSpec => [](StateMachineSafety /\ ElectableHasCommitted)
  <1>1. HSpec => []~lost
    BY NothingLost
  <1> QED
    BY <1>1, CommittedAgree, ElectableComplete, PTL
=============================================================================
