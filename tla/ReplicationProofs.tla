-------------------------- MODULE ReplicationProofs --------------------------
(***************************************************************************)
(* How a leader brings a follower up to date (module Replication), for any *)
(* heartbeats and bounds: types, agreement on what is committed, the       *)
(* majority behind it, and what it takes to make lab 2B's leader panic.    *)
(***************************************************************************)
EXTENDS Replication, RaftLogProofs, WellFoundedInduction

-----------------------------------------------------------------------------
(* What everything is compared with: the terms of the leader's log by      *)
(* index, those its service has trimmed included.  They are a function G   *)
(* that some state has, not one more variable.                             *)
Types ==
  /\ build \in Builds
  /\ \A p \in Peers : IsLog(logs[p])
  /\ DOMAIN logs = Peers
  /\ commitIndex \in [Peers -> Nat]
  /\ nextIndex \in Nat /\ matchIndex \in Nat /\ otherMatch \in Nat
  /\ DOMAIN calls = Callers
  /\ replicator \in Places
  /\ heartbeats \in BOOLEAN /\ killed \in BOOLEAN /\ panicked \in BOOLEAN

LeaderIs(G, log, commit) ==
  /\ Last(log) <= MaxLogIndex
  /\ commit \in First(log) .. Last(log)
  /\ \A k \in 0 .. Last(log) : G[k] \in 0 .. MaxTerm /\ (G[k] = 0 <=> k = 0)
  /\ \A k \in First(log) .. Last(log) : TermAt(log, k) = G[k]

(* The follower's log: an entry that is the leader's comes with all before *)
(* it, and one of the leader's term is the leader's.                       *)
FollowerIs(G, log, last) ==
  \A j \in First(log) .. Last(log) :
    /\ TermAt(log, j) = 0 <=> j = 0
    /\ TermAt(log, j) = MaxTerm => j <= last /\ G[j] = MaxTerm
    /\ j <= last /\ TermAt(log, j) = G[j] =>
         \A k \in First(log) .. j : TermAt(log, k) = G[k]

Commits(G, log, commit, leaders) ==
  /\ commit \in First(log) .. Last(log) /\ commit <= leaders
  /\ \A k \in First(log) .. commit : TermAt(log, k) = G[k]

(* The follower has the leader's entry, or has trimmed its log beyond.     *)
Held(G, log, index) ==
  First(log) < index => index <= Last(log) /\ TermAt(log, index) = G[index]

(* What may be counted in matchIndex.                                      *)
Acked(G, log, index, last, commit) ==
  /\ index \in 0 .. last
  /\ index <= commit \/ Held(G, log, index)

(* What is under way between the two, log being the follower's.            *)
RequestOK(G, c, last, commit) ==
  /\ c.PrevLogIndex \in 0 .. last
  /\ c.PrevLogTerm = G[c.PrevLogIndex]
  /\ Follow(c.Entries, c.PrevLogIndex)
  /\ c.PrevLogIndex + Len(c.Entries) <= last
  /\ \A k \in 1 .. Len(c.Entries) : c.Entries[k].Term = G[c.PrevLogIndex + k]
  /\ c.LeaderCommit \in 0 .. commit
  /\ c.LeaderCommit <= c.PrevLogIndex + Len(c.Entries)

PointOK(G, entry, commit) ==
  entry \in Entry /\ entry.Index <= commit /\ entry.Term = G[entry.Index]

CallOK(G, c, log, last, commit) ==
  \/ c = NoCall
  \/ c.kind = "AppendEntries" /\ RequestOK(G, c, last, commit)
  \/ c.kind = "InstallSnapshot" /\ PointOK(G, c.LastIncluded, commit)
  \/ c.kind = "Success" /\ Acked(G, log, c.Match, last, commit)
  \/ /\ c.kind = "Conflict"
     /\ c.PrevLogIndex \in 0 .. last /\ c.ConflictIndex \in 0 .. c.PrevLogIndex
  \/ c.kind = "Received" /\ c.LastIncludedIndex \in 0 .. commit

(* An entry of its term is committed by the leader with one of the others. *)
Backed(G, log, commit, other) ==
  G[commit] = MaxTerm => other >= commit \/ Held(G, log, commit)

Agrees(G) ==
  LET leaders   == logs["leader"]
      followers == logs["follower"]
      commit    == commitIndex["leader"]
  IN  /\ LeaderIs(G, leaders, commit)
      /\ FollowerIs(G, followers, Last(leaders))
      /\ Commits(G, followers, commitIndex["follower"], commit)
      /\ nextIndex <= Last(leaders) + 1
      /\ Acked(G, followers, matchIndex, Last(leaders), commit)
      /\ otherMatch <= Last(leaders)
      /\ Backed(G, followers, commit, otherMatch)
      /\ \A w \in Callers : CallOK(G, calls[w], followers, Last(leaders), commit)
      /\ \A entry \in snapCh : PointOK(G, entry, commit)

RInv == Types /\ \E G \in [Nat -> Nat] : Agrees(G)

-----------------------------------------------------------------------------
(* What stays true as the leader's log and commitIndex grow and the        *)
(* follower keeps what it has of them.                                     *)

LEMMA AckedStays ==
  ASSUME NEW G, NEW H, NEW log, NEW log2, NEW last \in Nat, NEW last2 \in Nat,
         NEW commit \in Nat, NEW commit2 \in Nat, last <= last2, commit <= commit2,
         \A m \in 0 .. last : Held(G, log, m) => Held(H, log2, m),
         NEW index, Acked(G, log, index, last, commit)
  PROVE  Acked(H, log2, index, last2, commit2)
  BY DEF Acked

LEMMA PointStays ==
  ASSUME NEW G, NEW H, NEW last \in Nat, NEW commit \in 0 .. last, NEW commit2 \in Nat,
         commit <= commit2, \A k \in 0 .. last : H[k] = G[k],
         NEW entry, PointOK(G, entry, commit)
  PROVE  PointOK(H, entry, commit2)
  BY DEF PointOK, Entry

LEMMA RequestStays ==
  ASSUME NEW G, NEW H, NEW last \in Nat, NEW last2 \in Nat,
         NEW commit \in 0 .. last, NEW commit2 \in Nat, last <= last2, commit <= commit2,
         \A k \in 0 .. last : H[k] = G[k],
         NEW c, RequestOK(G, c, last, commit)
  PROVE  RequestOK(H, c, last2, commit2)
  <1>1. c.Entries \in Seq(Entry) /\ Len(c.Entries) \in Nat /\ c.PrevLogIndex \in Nat
    BY LenProperties DEF RequestOK, Follow
  <1>2. \A k \in 1 .. Len(c.Entries) : c.Entries[k].Term = H[c.PrevLogIndex + k]
    <2> TAKE k \in 1 .. Len(c.Entries)
    <2>1. c.PrevLogIndex + k \in 0 .. last
      BY <1>1 DEF RequestOK
    <2> QED
      BY <2>1 DEF RequestOK
  <1> QED
    BY <1>1, <1>2 DEF RequestOK

LEMMA CallStays ==
  ASSUME NEW G, NEW H, NEW log, NEW log2, NEW last \in Nat, NEW last2 \in Nat,
         NEW commit \in 0 .. last, NEW commit2 \in Nat, last <= last2, commit <= commit2,
         \A k \in 0 .. last : H[k] = G[k],
         \A m \in 0 .. last : Held(G, log, m) => Held(H, log2, m),
         NEW c, CallOK(G, c, log, last, commit)
  PROVE  CallOK(H, c, log2, last2, commit2)
  <1>1. CASE c = NoCall
    BY <1>1 DEF CallOK
  <1>2. CASE c.kind = "AppendEntries" /\ RequestOK(G, c, last, commit)
    BY <1>2, RequestStays DEF CallOK
  <1>3. CASE c.kind = "InstallSnapshot" /\ PointOK(G, c.LastIncluded, commit)
    BY <1>3, PointStays DEF CallOK
  <1>4. CASE c.kind = "Success" /\ Acked(G, log, c.Match, last, commit)
    BY <1>4, AckedStays DEF CallOK
  <1>5. CASE /\ c.kind = "Conflict"
             /\ c.PrevLogIndex \in 0 .. last /\ c.ConflictIndex \in 0 .. c.PrevLogIndex
    BY <1>5 DEF CallOK
  <1>6. CASE c.kind = "Received" /\ c.LastIncludedIndex \in 0 .. commit
    BY <1>6 DEF CallOK
  <1> QED
    BY <1>1, <1>2, <1>3, <1>4, <1>5, <1>6 DEF CallOK

(* A step as the invariant sees it.                                        *)
LEMMA StepAgrees ==
  ASSUME Types, Types', NEW G, NEW H, Agrees(G),
         Last(logs["leader"]) <= Last(logs'["leader"]),
         commitIndex["leader"] <= commitIndex'["leader"],
         \A k \in 0 .. Last(logs["leader"]) : H[k] = G[k],
         \A m \in 0 .. Last(logs["leader"]) :
           Held(G, logs["follower"], m) => Held(H, logs'["follower"], m),
         LeaderIs(H, logs'["leader"], commitIndex'["leader"]),
         FollowerIs(H, logs'["follower"], Last(logs'["leader"])),
         Commits(H, logs'["follower"], commitIndex'["follower"], commitIndex'["leader"]),
         nextIndex' <= Last(logs'["leader"]) + 1,
         \/ matchIndex' = matchIndex
         \/ Acked(H, logs'["follower"], matchIndex', Last(logs'["leader"]), commitIndex'["leader"]),
         otherMatch' \in otherMatch .. Last(logs'["leader"]),
         \/ commitIndex'["leader"] = commitIndex["leader"]
         \/ Backed(H, logs'["follower"], commitIndex'["leader"], otherMatch'),
         \A w \in Callers :
           \/ calls'[w] \in {calls[w], NoCall}
           \/ CallOK(H, calls'[w], logs'["follower"], Last(logs'["leader"]), commitIndex'["leader"]),
         \A entry \in snapCh' : entry \in snapCh \/ PointOK(H, entry, commitIndex'["leader"])
  PROVE  Agrees(H)'
  <1> DEFINE last    == Last(logs["leader"])
             last2   == Last(logs'["leader"])
             commit  == commitIndex["leader"]
             commit2 == commitIndex'["leader"]
             log     == logs["follower"]
             log2    == logs'["follower"]
  <1>1. /\ last \in Nat /\ last2 \in Nat /\ commit2 \in Nat /\ otherMatch \in Nat
        /\ otherMatch' \in Nat
    BY LogEnds DEF Types, Peers
  <1>2. commit \in 0 .. last
    BY LogEnds DEF Types, Peers, Agrees, LeaderIs
  <1>3. /\ Acked(G, log, matchIndex, last, commit) /\ Backed(G, log, commit, otherMatch)
        /\ \A w \in Callers : CallOK(G, calls[w], log, last, commit)
        /\ \A entry \in snapCh : PointOK(G, entry, commit)
    BY DEF Agrees
  <1> HIDE DEF last, last2, commit, commit2, log, log2
  <1>4. /\ last <= last2 /\ commit <= commit2
        /\ \A k \in 0 .. last : H[k] = G[k]
        /\ \A m \in 0 .. last : Held(G, log, m) => Held(H, log2, m)
    BY DEF last, last2, commit, commit2, log, log2
  <1>5. Acked(H, log2, matchIndex', last2, commit2)
    <2>1. CASE matchIndex' = matchIndex
      <3>1. Acked(H, log2, matchIndex, last2, commit2)
        BY <1>1, <1>2, <1>3, <1>4, AckedStays
      <3> QED
        BY <2>1, <3>1
    <2> QED
      BY <2>1 DEF last2, commit2, log2
  <1>6. Backed(H, log2, commit2, otherMatch')
    <2>1. CASE commit2 = commit
      BY <1>1, <1>2, <1>3, <1>4, <2>1 DEF Backed
    <2> QED
      BY <2>1 DEF commit, commit2, log2
  <1>7. \A w \in Callers : CallOK(H, calls'[w], log2, last2, commit2)
    <2> TAKE w \in Callers
    <2>1. CASE calls'[w] = calls[w]
      <3>1. CallOK(H, calls[w], log2, last2, commit2)
        BY <1>1, <1>2, <1>3, <1>4, CallStays
      <3> QED
        BY <2>1, <3>1
    <2>2. CASE calls'[w] = NoCall
      BY <2>2 DEF CallOK
    <2> QED
      BY <2>1, <2>2 DEF log2, last2, commit2
  <1>8. \A entry \in snapCh' : PointOK(H, entry, commit2)
    <2> TAKE entry \in snapCh'
    <2>1. CASE entry \in snapCh
      BY <1>1, <1>2, <1>3, <1>4, <2>1, PointStays
    <2> QED
      BY <2>1 DEF commit2
  <1> QED
    BY <1>1, <1>5, <1>6, <1>7, <1>8 DEF Agrees, last2, commit2, log2

-----------------------------------------------------------------------------
LEMMA OldLogFacts ==
  ASSUME NEW log \in OldLogs
  PROVE  /\ IsLog(log) /\ First(log) = 0 /\ Last(log) \in 0 .. MaxOldLog
         /\ TermAt(log, 0) = 0
         /\ \A k \in 1 .. Last(log) : TermAt(log, k) \in 1 .. MaxTerm - 1
  <1> USE BoundsAssumption
  <1>0. PICK n \in 0 .. MaxOldLog : \E ts \in OldTerms(n) :
          log = EmptyLog \o [k \in 1 .. Len(ts) |-> [Index |-> k, Term |-> ts[k]]]
    BY DEF OldLogs
  <1>1. PICK ts \in [1 .. n -> 1 .. MaxTerm - 1] :
          log = EmptyLog \o [k \in 1 .. Len(ts) |-> [Index |-> k, Term |-> ts[k]]]
    BY <1>0 DEF OldTerms
  <1>2. Len(ts) = n /\ n \in Nat
    BY SMT
  <1> DEFINE entries == [k \in 1 .. n |-> [Index |-> k, Term |-> ts[k]]]
  <1>3. log = EmptyLog \o entries
    BY <1>1, <1>2
  <1>4. entries \in Seq(Entry) /\ Len(entries) = n
    <2>1. \A k \in 1 .. n : [Index |-> k, Term |-> ts[k]] \in Entry
      BY <1>1 DEF Entry
    <2>2. entries \in [1 .. n -> Entry]
      BY <2>1
    <2> HIDE DEF entries
    <2> QED
      BY <1>2, <2>2
  <1>5. Follow(entries, 0)
    BY <1>2, <1>4 DEF Follow
  <1>6. /\ EmptyLog \in Seq(Entry) /\ Len(EmptyLog) = 1
        /\ EmptyLog[1] = [Index |-> 0, Term |-> 0] /\ EmptyLog # << >>
    BY DEF EmptyLog, Entry
  <1>7. IsLog(EmptyLog) /\ First(EmptyLog) = 0 /\ Last(EmptyLog) = 0
    BY <1>6 DEF IsLog, Follow, First, Last, getFirstLog, getLastLog
  <1>8. Before(EmptyLog, 1) = EmptyLog
    <2>1. SubSeq(EmptyLog, 1, Len(EmptyLog)) = EmptyLog
      BY <1>6, SubSeqFull
    <2> QED
      BY <1>6, <1>7, <2>1 DEF Before
  <1>9. 1 \in First(EmptyLog) + 1 .. Last(EmptyLog) + 1
    BY <1>7
  <1> HIDE DEF entries
  <1>10. Follow(entries, 1 - 1)
    BY <1>5
  <1>11. /\ IsLog(log) /\ First(log) = 0 /\ Last(log) = n
         /\ \A k \in 0 .. 0 : TermAt(log, k) = TermAt(EmptyLog, k)
         /\ \A j \in 1 .. n : TermAt(log, j) = entries[j].Term
    <2> DEFINE both == Before(EmptyLog, 1) \o entries
    <2>1. /\ IsLog(both) /\ First(both) = First(EmptyLog)
          /\ Last(both) = 1 - 1 + Len(entries)
          /\ \A k \in First(EmptyLog) .. 1 - 1 : TermAt(both, k) = TermAt(EmptyLog, k)
          /\ \A j \in 1 .. Len(entries) : TermAt(both, 1 - 1 + j) = entries[j].Term
      BY <1>7, <1>9, <1>10, AppendedIsLog
    <2>2. both = log
      BY <1>3, <1>8
    <2> HIDE DEF both
    <2> QED
      BY <1>2, <1>4, <1>7, <2>1, <2>2
  <1>12. TermAt(EmptyLog, 0) = 0
    BY <1>6, <1>7 DEF TermAt, EntryAt
  <1>13. \A j \in 1 .. n : entries[j].Term = ts[j]
    BY DEF entries
  <1>14. \A j \in 1 .. n : TermAt(log, j) \in 1 .. MaxTerm - 1
    BY <1>1, <1>11, <1>13
  <1>15. TermAt(log, 0) = 0
    BY <1>11, <1>12
  <1> QED
    BY <1>0, <1>2, <1>11, <1>14, <1>15

LEMMA InitRInv == Init => RInv
  <1> SUFFICES ASSUME Init PROVE RInv
    OBVIOUS
  <1> USE BoundsAssumption
  <1> DEFINE leaders   == logs["leader"]
             followers == logs["follower"]
             G == [k \in Nat |-> IF k <= Last(leaders) THEN TermAt(leaders, k) ELSE 0]
  <1>1. leaders \in OldLogs /\ followers \in OldLogs /\ logs \in [Peers -> OldLogs]
    BY DEF Init, Peers
  <1>2. /\ Last(leaders) \in 0 .. MaxOldLog /\ First(leaders) = 0 /\ TermAt(leaders, 0) = 0
        /\ \A k \in 1 .. Last(leaders) : TermAt(leaders, k) \in 1 .. MaxTerm - 1
    BY <1>1, OldLogFacts
  <1>3. /\ Last(followers) \in 0 .. MaxOldLog /\ First(followers) = 0 /\ TermAt(followers, 0) = 0
        /\ \A k \in 1 .. Last(followers) : TermAt(followers, k) \in 1 .. MaxTerm - 1
    BY <1>1, OldLogFacts
  <1>4. Types
    <2>1. IsLog(leaders) /\ IsLog(followers)
      BY <1>1, OldLogFacts
    <2>2. /\ \A p \in Peers : IsLog(logs[p])
          /\ DOMAIN logs = Peers /\ DOMAIN calls = Callers
      BY <1>1, <2>1 DEF Init, Peers
    <2>3. commitIndex \in [Peers -> Nat] /\ nextIndex \in Nat
      BY <1>2 DEF Init
    <2> QED
      BY <2>2, <2>3 DEF Init, Types, Places
  <1>5. G \in [Nat -> Nat] /\ \A k \in 0 .. Last(leaders) : G[k] = TermAt(leaders, k)
    BY <1>2
  <1>6. LogsMatch(leaders, followers)
    BY DEF Init
  <1>7. commitIndex["leader"] = 0 /\ commitIndex["follower"] = 0
    BY DEF Init, Peers
  <1> HIDE DEF G, leaders, followers
  <1>8. LeaderIs(G, leaders, 0)
    BY <1>2, <1>5 DEF LeaderIs
  <1>9. FollowerIs(G, followers, Last(leaders))
    <2> SUFFICES ASSUME NEW j \in 0 .. Last(followers), j <= Last(leaders),
                        TermAt(followers, j) = G[j], NEW k \in 0 .. j
                 PROVE  TermAt(followers, k) = G[k]
      BY <1>3 DEF FollowerIs
    <2>1. CASE k = 0
      BY <1>2, <1>3, <1>5, <2>1
    <2>2. CASE k # 0
      <3>1. /\ j \in 1 .. Last(leaders) /\ j \in 1 .. Last(followers)
            /\ TermAt(leaders, j) = TermAt(followers, j)
            /\ k \in 1 .. Smaller(j, j)
        BY <1>2, <1>3, <1>5, <2>2 DEF Smaller
      <3> QED
        BY <1>2, <1>5, <1>6, <3>1 DEF LogsMatch
    <2> QED
      BY <2>1, <2>2
  <1>10. Commits(G, followers, 0, 0)
    BY <1>2, <1>3, <1>5 DEF Commits
  <1>11. Acked(G, followers, 0, Last(leaders), 0) /\ Backed(G, followers, 0, 0)
    BY <1>2 DEF Acked, Backed
  <1>12. Agrees(G)
    BY <1>2, <1>7, <1>8, <1>9, <1>10, <1>11 DEF Agrees, leaders, followers, Init, CallOK
  <1> QED
    BY <1>4, <1>5, <1>12 DEF RInv

-----------------------------------------------------------------------------
(* Steps that leave both logs and what is committed as they are.           *)
LEMMA QuietAgrees ==
  ASSUME Types, Types', NEW G, Agrees(G), UNCHANGED <<logs, commitIndex, otherMatch>>,
         nextIndex' <= Last(logs["leader"]) + 1,
         \/ matchIndex' = matchIndex
         \/ Acked(G, logs["follower"], matchIndex', Last(logs["leader"]), commitIndex["leader"]),
         \A w \in Callers :
           \/ calls'[w] \in {calls[w], NoCall}
           \/ CallOK(G, calls'[w], logs["follower"], Last(logs["leader"]), commitIndex["leader"]),
         \A entry \in snapCh' : entry \in snapCh \/ PointOK(G, entry, commitIndex["leader"])
  PROVE  Agrees(G)'
  <1>1. /\ Last(logs["leader"]) \in Nat /\ commitIndex["leader"] \in Nat /\ otherMatch \in Nat
        /\ otherMatch <= Last(logs["leader"])
    BY LogEnds DEF Types, Peers, Agrees
  <1>2. /\ LeaderIs(G, logs["leader"], commitIndex["leader"])
        /\ FollowerIs(G, logs["follower"], Last(logs["leader"]))
        /\ Commits(G, logs["follower"], commitIndex["follower"], commitIndex["leader"])
    BY DEF Agrees
  <1>3. logs' = logs /\ commitIndex' = commitIndex /\ otherMatch' = otherMatch
    OBVIOUS
  <1>4. otherMatch' \in otherMatch .. Last(logs["leader"])
    BY <1>1, <1>3
  <1> QED
    BY <1>1, <1>2, <1>3, <1>4, StepAgrees

(* What a caller sends is what the leader's log has.                       *)
LEMMA RoundAgrees ==
  ASSUME Types, Types', NEW G, Agrees(G), NEW w \in Callers, replicateOneRound(w),
         UNCHANGED <<logs, commitIndex, nextIndex, matchIndex, otherMatch, snapCh>>
  PROVE  Agrees(G)'
  <1> DEFINE log    == logs["leader"]
             prev   == nextIndex - 1
             commit == commitIndex["leader"]
  <1>1. /\ IsLog(log) /\ First(log) \in Nat /\ Last(log) \in Nat /\ First(log) <= Last(log)
        /\ nextIndex \in Nat /\ nextIndex <= Last(log) + 1
        /\ commit \in First(log) .. Last(log)
        /\ \A k \in First(log) .. Last(log) : TermAt(log, k) = G[k]
    BY LogEnds DEF Types, Peers, Agrees, LeaderIs
  <1>2. CASE prev < First(log)
    <2>1. PointOK(G, getFirstLog(log), commit)
      <3>1. getFirstLog(log) \in Entry /\ getFirstLog(log).Index = First(log)
        BY <1>1, LogShape DEF getFirstLog, First
      <3>2. getFirstLog(log) = EntryAt(log, First(log))
        BY <1>1 DEF EntryAt, getFirstLog
      <3>3. getFirstLog(log).Term = G[First(log)]
        BY <1>1, <3>2 DEF TermAt
      <3> QED
        BY <1>1, <3>1, <3>3 DEF PointOK
    <2>2. CallOK(G, InstallSnapshotRequest, logs["follower"], Last(log), commit)
      BY <2>1 DEF CallOK, InstallSnapshotRequest
    <2>3. \A v \in Callers : calls'[v] \in {calls[v], InstallSnapshotRequest}
      BY <1>2 DEF replicateOneRound, Types
    <2> QED
      BY <1>1, <2>2, <2>3, QuietAgrees
  <1>3. CASE ~(prev < First(log))
    <2>1. prev \in First(log) .. Last(log) /\ prev + 1 \in First(log) .. Last(log) + 1
          /\ (prev + 1) - 1 = prev
      BY <1>1, <1>3
    <2> DEFINE entries == From(log, prev + 1)
    <2>2. /\ Follow(entries, (prev + 1) - 1)
          /\ Len(entries) = Last(log) + 1 - (prev + 1)
          /\ \A k \in 1 .. Len(entries) : entries[k] = EntryAt(log, prev + 1 + k - 1)
      BY <1>1, <2>1, FromFollows
    <2> HIDE DEF entries
    <2>3. \A k \in 1 .. Len(entries) : entries[k].Term = G[prev + k]
      <3> TAKE k \in 1 .. Len(entries)
      <3>1. prev + k \in First(log) .. Last(log) /\ prev + 1 + k - 1 = prev + k
        BY <1>1, <2>1, <2>2
      <3>2. entries[k] = EntryAt(log, prev + k)
        BY <2>2, <3>1
      <3> QED
        BY <1>1, <3>1, <3>2 DEF TermAt
    <2> DEFINE rq == AppendEntriesRequest(prev)
    <2>4. /\ rq.kind = "AppendEntries" /\ rq.PrevLogIndex = prev
          /\ rq.PrevLogTerm = TermAt(log, prev)
          /\ rq.Entries = entries /\ rq.LeaderCommit = commit
      BY DEF AppendEntriesRequest, entries
    <2> HIDE DEF rq
    <2>5. RequestOK(G, rq, Last(log), commit)
      BY <1>1, <2>1, <2>2, <2>3, <2>4 DEF RequestOK
    <2>6. CallOK(G, rq, logs["follower"], Last(log), commit)
      BY <2>4, <2>5 DEF CallOK
    <2>7. \A v \in Callers : calls'[v] \in {calls[v], rq}
      BY <1>3 DEF replicateOneRound, Types, rq
    <2> QED
      BY <1>1, <2>6, <2>7, QuietAgrees
  <1> QED
    BY <1>2, <1>3

-----------------------------------------------------------------------------
(* The steps of the callers that touch no log.                             *)

LEMMA HeartbeatOK ==
  ASSUME Types, NEW G, Agrees(G), NEW h \in Heartbeats, Heartbeat(h)
  PROVE  Types' /\ Agrees(G)'
  <1>1. h \in Callers
    BY DEF Callers
  <1>2. Types'
    BY DEF Heartbeat, replicateOneRound, Types
  <1> QED
    BY <1>1, <1>2, RoundAgrees DEF Heartbeat

LEMMA ReplicatorOK ==
  ASSUME Types, NEW G, Agrees(G), replicatorSteps
  PROVE  Types' /\ Agrees(G)'
  <1>1. CASE replicatorLoop \/ replicatorAsks \/ replicatorWaits
    <2>1. /\ UNCHANGED <<build, logs, commitIndex, nextIndex, matchIndex, otherMatch, snapCh>>
          /\ UNCHANGED <<calls, heartbeats, killed, panicked>>
          /\ replicator' \in Places
      BY <1>1 DEF replicatorLoop, replicatorAsks, replicatorWaits, replicatorGoes, Places
    <2>2. Types'
      BY <2>1 DEF Types
    <2> QED
      BY <2>1, <2>2, QuietAgrees DEF Agrees
  <1>2. CASE replicatorSends
    <2>1. replicateOneRound("replicator") /\ replicator' = "sends" /\ "replicator" \in Callers
          /\ UNCHANGED <<build, logs, commitIndex, nextIndex, matchIndex, otherMatch, snapCh>>
          /\ UNCHANGED <<heartbeats, killed>>
      BY <1>2 DEF replicatorSends, replicatorGoes, Callers
    <2>2. Types'
      BY <2>1 DEF replicateOneRound, Types, Places
    <2> QED
      BY <2>1, <2>2, RoundAgrees
  <1> QED
    BY <1>1, <1>2 DEF replicatorSteps

(* A call that was lost, Kill, and the end of the ticker.                  *)
LEMMA LostOK ==
  ASSUME Types, NEW G, Agrees(G), NEW w \in Callers, Lose(w) \/ Kill \/ tickerEnds
  PROVE  Types' /\ Agrees(G)'
  <1>1. /\ UNCHANGED <<build, logs, commitIndex, nextIndex, matchIndex, otherMatch, snapCh>>
        /\ \A v \in Callers : calls'[v] \in {calls[v], NoCall}
    BY DEF Lose, Kill, tickerEnds, Types
  <1>2. Types'
    BY <1>1 DEF Lose, Kill, tickerEnds, Types, Places, returns
  <1> QED
    BY <1>1, <1>2, QuietAgrees DEF Agrees

LEMMA InstallSnapshotOK ==
  ASSUME Types, NEW G, Agrees(G), NEW w \in Callers, InstallSnapshot(w)
  PROVE  Types' /\ Agrees(G)'
  <1> DEFINE point == calls[w].LastIncluded
             rp == [kind |-> "Received", LastIncludedIndex |-> point.Index]
             commit == commitIndex["leader"]
  <1>1. PointOK(G, point, commit)
    BY DEF Agrees, CallOK, InstallSnapshot, NoCall
  <1>2. CallOK(G, rp, logs["follower"], Last(logs["leader"]), commit)
    BY <1>1 DEF CallOK, PointOK, Entry
  <1>3. /\ UNCHANGED <<build, logs, commitIndex, nextIndex, matchIndex, otherMatch>>
        /\ UNCHANGED <<replicator, heartbeats, killed, panicked>>
        /\ calls' = [calls EXCEPT ![w] = rp]
        /\ snapCh' \subseteq snapCh \cup {point}
    BY DEF InstallSnapshot, reply
  <1> HIDE DEF rp, point
  <1>4. Types'
    BY <1>3 DEF Types
  <1>5. \A v \in Callers : calls'[v] \in {calls[v], rp}
    BY <1>3 DEF Types
  <1> QED
    BY <1>1, <1>2, <1>3, <1>4, <1>5, QuietAgrees DEF Agrees

LEMMA HandleInstallSnapshotResponseOK ==
  ASSUME Types, NEW G, Agrees(G), NEW w \in Callers, HandleInstallSnapshotResponse(w)
  PROVE  Types' /\ Agrees(G)'
  <1> DEFINE index == calls[w].LastIncludedIndex
             commit == commitIndex["leader"]
             last == Last(logs["leader"])
  <1>1. index \in 0 .. commit
    BY DEF Agrees, CallOK, HandleInstallSnapshotResponse, NoCall
  <1>2. commit \in 0 .. last /\ last \in Nat
    BY LogEnds DEF Types, Peers, Agrees, LeaderIs
  <1>3. /\ UNCHANGED <<build, logs, commitIndex, otherMatch, snapCh>>
        /\ UNCHANGED <<heartbeats, killed, panicked>>
        /\ matchIndex' = index /\ nextIndex' = index + 1
        /\ calls' = [calls EXCEPT ![w] = NoCall] /\ returns(w)
    BY DEF HandleInstallSnapshotResponse
  <1> HIDE DEF index
  <1>4. Types'
    BY <1>1, <1>2, <1>3 DEF Types, Places, returns
  <1>5. Acked(G, logs["follower"], matchIndex', last, commit)
    BY <1>1, <1>2, <1>3 DEF Acked
  <1>6. \A v \in Callers : calls'[v] \in {calls[v], NoCall}
    BY <1>3 DEF Types
  <1> QED
    BY <1>1, <1>2, <1>3, <1>4, <1>5, <1>6, QuietAgrees

LEMMA HandleConflictOK ==
  ASSUME Types, NEW G, Agrees(G), NEW w \in Callers, HandleAppendEntriesResponse(w),
         HandleConflict(calls[w])
  PROVE  Types' /\ Agrees(G)'
  <1> DEFINE rp == calls[w]
             log == logs["leader"]
  <1>1. /\ rp.PrevLogIndex \in 0 .. Last(log) /\ rp.ConflictIndex \in 0 .. rp.PrevLogIndex
    BY DEF Agrees, CallOK, HandleConflict, NoCall
  <1>2. First(log) \in Nat /\ Last(log) \in Nat
    BY LogEnds DEF Types, Peers
  <1>3. nextIndex' \in Nat /\ nextIndex' <= Last(log) + 1
    BY <1>1, <1>2 DEF HandleConflict, BackOffs
  <1>4. /\ UNCHANGED <<build, logs, commitIndex, matchIndex, otherMatch, snapCh>>
        /\ UNCHANGED <<heartbeats, killed, panicked>>
        /\ calls' = [calls EXCEPT ![w] = NoCall] /\ returns(w)
    BY DEF HandleAppendEntriesResponse, HandleConflict
  <1>5. Types'
    BY <1>3, <1>4 DEF Types, Places, returns
  <1>6. \A v \in Callers : calls'[v] \in {calls[v], NoCall}
    BY <1>4 DEF Types
  <1> QED
    BY <1>3, <1>4, <1>5, <1>6, QuietAgrees

-----------------------------------------------------------------------------
(* The leader commits, appends and trims.                                  *)

LEMMA Advance ==
  ASSUME Types, NEW G, Agrees(G), NEW match, NEW other \in otherMatch .. Last(logs["leader"]),
         Acked(G, logs["follower"], match, Last(logs["leader"]), commitIndex["leader"]),
         advanceCommitIndexForLeader(match, other)
  PROVE  /\ commitIndex' \in [Peers -> Nat]
         /\ commitIndex'["follower"] = commitIndex["follower"]
         /\ commitIndex'["leader"] \in commitIndex["leader"] .. Last(logs["leader"])
         /\ \/ commitIndex'["leader"] = commitIndex["leader"]
            \/ Backed(G, logs["follower"], commitIndex'["leader"], other)
  <1> DEFINE log    == logs["leader"]
             last   == Last(logs["leader"])
             commit == commitIndex["leader"]
             new    == Middle(ownMatch(log), match, other)
  <1>1. /\ last \in Nat /\ commit \in 0 .. last /\ First(log) \in Nat
        /\ match \in 0 .. last /\ other \in 0 .. last
    BY LogEnds DEF Types, Peers, Agrees, LeaderIs, Acked
  <1>2. commitIndex' = [commitIndex EXCEPT !["leader"] =
                          IF new > commit /\ matchLog(log, MaxTerm, new) THEN new ELSE commit]
    BY DEF advanceCommitIndexForLeader
  <1>3. new \in Nat /\ (new <= other \/ new = match)
    <2>1. ownMatch(log) \in {0, last}
      BY DEF ownMatch
    <2> QED
      BY <1>1, <2>1 DEF Middle, Larger, Smaller
  <1> HIDE DEF new
  <1>4. CASE new > commit /\ matchLog(log, MaxTerm, new)
    <2>1. commitIndex'["leader"] = new /\ commitIndex'["follower"] = commitIndex["follower"]
          /\ commitIndex' \in [Peers -> Nat]
      BY <1>2, <1>3, <1>4 DEF Types, Peers
    <2>2. new \in commit .. last
      BY <1>1, <1>3, <1>4 DEF matchLog
    <2>3. other >= new \/ Held(G, logs["follower"], new)
      BY <1>1, <1>3, <1>4 DEF Acked
    <2> QED
      BY <2>1, <2>2, <2>3 DEF Backed
  <1>5. CASE ~(new > commit /\ matchLog(log, MaxTerm, new))
    <2>1. commitIndex' = commitIndex
      BY <1>2, <1>5 DEF Types, Peers
    <2> QED
      BY <1>1, <2>1 DEF Types
  <1> QED
    BY <1>4, <1>5

LEMMA AdvanceAgrees ==
  ASSUME Types, Types', NEW G, Agrees(G), UNCHANGED <<logs, snapCh>>,
         otherMatch' \in otherMatch .. Last(logs["leader"]),
         nextIndex' <= Last(logs["leader"]) + 1,
         Acked(G, logs["follower"], matchIndex', Last(logs["leader"]), commitIndex["leader"]),
         \A v \in Callers : calls'[v] \in {calls[v], NoCall},
         advanceCommitIndexForLeader(matchIndex', otherMatch')
  PROVE  Agrees(G)'
  <1> DEFINE leaders   == logs["leader"]
             followers == logs["follower"]
             last      == Last(leaders)
             commit    == commitIndex["leader"]
             commit2   == commitIndex'["leader"]
  <1>1. /\ commitIndex'["follower"] = commitIndex["follower"]
        /\ commit2 \in commit .. last
        /\ commit2 = commit \/ Backed(G, followers, commit2, otherMatch')
    BY Advance
  <1>2. /\ last \in Nat /\ First(leaders) \in Nat
        /\ commit \in First(leaders) .. last /\ commit2 \in First(leaders) .. last
        /\ LeaderIs(G, leaders, commit) /\ Commits(G, followers, commitIndex["follower"], commit)
        /\ FollowerIs(G, followers, last)
    BY <1>1, LogEnds DEF Types, Peers, Agrees, LeaderIs
  <1>3. commitIndex["follower"] \in Nat
    BY DEF Types, Peers
  <1> HIDE DEF commit, commit2, leaders, followers, last
  <1>4. LeaderIs(G, leaders, commit2)
    BY <1>2 DEF LeaderIs, last
  <1>5. Commits(G, followers, commitIndex["follower"], commit2)
    BY <1>1, <1>2, <1>3 DEF Commits
  <1>6. Acked(G, followers, matchIndex', last, commit2)
    BY <1>1, <1>2 DEF Acked, commit, commit2, leaders, followers, last
  <1>7. logs' = logs /\ snapCh' = snapCh /\ last <= last /\ commit <= commit2
    BY <1>1, <1>2
  <1> USE DEF commit, commit2, leaders, followers, last
  <1> QED
    BY <1>1, <1>2, <1>4, <1>5, <1>6, <1>7, StepAgrees

LEMMA HandleSuccessOK ==
  ASSUME Types, NEW G, Agrees(G), NEW w \in Callers, HandleAppendEntriesResponse(w),
         HandleSuccess(calls[w])
  PROVE  Types' /\ Agrees(G)'
  <1> DEFINE index == calls[w].Match
             last  == Last(logs["leader"])
  <1>1. Acked(G, logs["follower"], index, last, commitIndex["leader"])
    BY DEF Agrees, CallOK, HandleSuccess, NoCall
  <1>2. last \in Nat /\ index \in 0 .. last /\ otherMatch \in 0 .. last
    BY <1>1, LogEnds DEF Types, Peers, Acked, Agrees
  <1>3. /\ UNCHANGED <<build, logs, otherMatch, snapCh>>
        /\ UNCHANGED <<heartbeats, killed, panicked>>
        /\ matchIndex' = index /\ nextIndex' = index + 1
        /\ calls' = [calls EXCEPT ![w] = NoCall] /\ returns(w)
        /\ advanceCommitIndexForLeader(index, otherMatch)
    BY DEF HandleAppendEntriesResponse, HandleSuccess
  <1> HIDE DEF index
  <1>4. otherMatch \in otherMatch .. last
    BY <1>2
  <1>5. commitIndex' \in [Peers -> Nat]
    BY <1>1, <1>3, <1>4, Advance
  <1>6. Types'
    BY <1>2, <1>3, <1>5 DEF Types, Places, returns
  <1>7. \A v \in Callers : calls'[v] \in {calls[v], NoCall}
    BY <1>3 DEF Types
  <1> QED
    BY <1>1, <1>2, <1>3, <1>4, <1>6, <1>7, AdvanceAgrees

LEMMA OtherAnswersOK ==
  ASSUME Types, NEW G, Agrees(G), OtherAnswers
  PROVE  Types' /\ Agrees(G)'
  <1> DEFINE last == Last(logs["leader"])
  <1>1. Acked(G, logs["follower"], matchIndex, last, commitIndex["leader"])
        /\ nextIndex <= last + 1
    BY DEF Agrees
  <1>2. last \in Nat /\ otherMatch \in Nat
    BY LogEnds DEF Types, Peers
  <1>3. /\ UNCHANGED <<build, logs, nextIndex, matchIndex, snapCh>>
        /\ UNCHANGED <<replicator, calls, heartbeats, killed, panicked>>
        /\ otherMatch' \in otherMatch + 1 .. last
        /\ advanceCommitIndexForLeader(matchIndex, otherMatch')
    BY DEF OtherAnswers
  <1>4. otherMatch' \in otherMatch .. last
    BY <1>2, <1>3
  <1>5. commitIndex' \in [Peers -> Nat]
    BY <1>1, <1>3, <1>4, Advance
  <1>6. Types'
    BY <1>2, <1>3, <1>5 DEF Types
  <1> QED
    BY <1>1, <1>3, <1>4, <1>6, AdvanceAgrees

LEMMA StartOK ==
  ASSUME Types, NEW G \in [Nat -> Nat], Agrees(G), Start
  PROVE  Types' /\ \E H \in [Nat -> Nat] : Agrees(H)'
  <1> USE BoundsAssumption
  <1> DEFINE leaders   == logs["leader"]
             followers == logs["follower"]
             last      == Last(leaders)
             commit    == commitIndex["leader"]
             new == Append(leaders, [Index |-> last + 1, Term |-> MaxTerm])
  <1>1. /\ IsLog(leaders) /\ IsLog(followers)
        /\ First(leaders) \in Nat /\ last \in Nat /\ First(leaders) <= last
        /\ First(followers) \in Nat /\ Last(followers) \in Nat
    BY LogEnds DEF Types, Peers
  <1>2. /\ commit \in First(leaders) .. last
        /\ LeaderIs(G, leaders, commit) /\ FollowerIs(G, followers, last)
        /\ Commits(G, followers, commitIndex["follower"], commit)
        /\ otherMatch \in 0 .. last /\ nextIndex <= last + 1
    BY DEF Agrees, LeaderIs, Types
  <1>3. /\ last < MaxLogIndex
        /\ logs' = [logs EXCEPT !["leader"] = new]
        /\ UNCHANGED <<build, commitIndex, nextIndex, matchIndex, otherMatch, snapCh>>
        /\ UNCHANGED <<calls, heartbeats, killed, panicked>>
        /\ replicator' = Signal(replicator)
    BY DEF Start
  <1>4. logs'["leader"] = new /\ logs'["follower"] = followers /\ DOMAIN logs' = Peers
    BY <1>3 DEF Types, Peers
  <1>5. /\ IsLog(new) /\ First(new) = First(leaders) /\ Last(new) = last + 1
        /\ \A k \in First(leaders) .. last : TermAt(new, k) = TermAt(leaders, k)
        /\ TermAt(new, last + 1) = MaxTerm
    BY <1>1, AppendIsLog
  <1>6. PICK H \in [Nat -> Nat] :
          H[last + 1] = MaxTerm /\ \A k \in 0 .. last : H[k] = G[k]
    <2> HIDE DEF last
    <2> DEFINE J == [G EXCEPT ![last + 1] = MaxTerm]
    <2>1. J \in [Nat -> Nat] /\ J[last + 1] = MaxTerm /\ \A k \in 0 .. last : J[k] = G[k]
      BY <1>1
    <2> HIDE DEF J
    <2> QED
      BY <2>1
  <1> HIDE DEF new, last, commit, leaders, followers
  <1>7. Types'
    BY <1>1, <1>3, <1>4, <1>5 DEF Types, Places, Signal, Peers, followers
  <1>8. LeaderIs(H, new, commit)
    <2>1. last + 1 <= MaxLogIndex /\ last \in Nat /\ MaxLogIndex \in Nat
      BY <1>1, <1>3
    <2>2. ASSUME NEW k \in 0 .. last + 1
          PROVE  /\ H[k] \in 0 .. MaxTerm /\ (H[k] = 0 <=> k = 0)
                 /\ k >= First(leaders) => TermAt(new, k) = H[k]
      <3>1. CASE k = last + 1
        BY <1>1, <1>5, <1>6, <3>1
      <3>2. CASE k \in 0 .. last
        BY <1>1, <1>2, <1>5, <1>6, <3>2 DEF LeaderIs, last
      <3> QED
        BY <1>1, <3>1, <3>2
    <2> QED
      BY <1>1, <1>2, <1>5, <2>1, <2>2 DEF LeaderIs
  <1>9. FollowerIs(H, followers, last + 1)
    <2> SUFFICES ASSUME NEW j \in First(followers) .. Last(followers)
                 PROVE  /\ TermAt(followers, j) = 0 <=> j = 0
                        /\ TermAt(followers, j) = MaxTerm => j <= last + 1 /\ H[j] = MaxTerm
                        /\ j <= last + 1 /\ TermAt(followers, j) = H[j] =>
                             \A k \in First(followers) .. j : TermAt(followers, k) = H[k]
      BY DEF FollowerIs
    <2>1. /\ TermAt(followers, j) = 0 <=> j = 0
          /\ TermAt(followers, j) = MaxTerm => j <= last /\ G[j] = MaxTerm
          /\ j <= last /\ TermAt(followers, j) = G[j] =>
               \A k \in First(followers) .. j : TermAt(followers, k) = G[k]
      BY <1>2 DEF FollowerIs
    <2>2. j \in Nat /\ (j <= last + 1 => j <= last \/ j = last + 1)
      BY <1>1
    <2>3. CASE j = last + 1
      BY <1>1, <1>6, <2>1, <2>3
    <2>4. CASE j <= last
      <3>1. H[j] = G[j] /\ \A k \in First(followers) .. j : H[k] = G[k]
        BY <1>1, <1>6, <2>2, <2>4
      <3> QED
        BY <1>1, <2>1, <2>2, <2>4, <3>1
    <2> QED
      BY <1>1, <2>1, <2>2, <2>3, <2>4
  <1>10. Commits(H, followers, commitIndex["follower"], commit)
    BY <1>1, <1>2, <1>6 DEF Commits
  <1>11. \A m \in 0 .. last : Held(G, followers, m) => Held(H, followers, m)
    BY <1>6 DEF Held
  <1>12. last <= last + 1 /\ nextIndex <= (last + 1) + 1 /\ otherMatch \in otherMatch .. last + 1
    BY <1>1, <1>2 DEF Types
  <1>13. commit <= commit
    BY <1>1, <1>2
  <1>14. Agrees(H)'
    BY <1>3, <1>4, <1>5, <1>6, <1>7, <1>8, <1>9, <1>10, <1>11, <1>12, <1>13, StepAgrees
       DEF last, commit, leaders, followers
  <1> QED
    BY <1>7, <1>14

LEMMA LeaderTrimsOK ==
  ASSUME Types, NEW G, Agrees(G), NEW index \in 1 .. commitIndex["leader"],
         Snapshot("leader", index)
  PROVE  Types' /\ Agrees(G)'
  <1> DEFINE log    == logs["leader"]
             commit == commitIndex["leader"]
             new    == Trimmed(log, index, TermAt(log, index))
  <1>1. /\ IsLog(log) /\ First(log) \in Nat /\ Last(log) \in Nat
        /\ commit \in First(log) .. Last(log) /\ LeaderIs(G, log, commit)
        /\ FollowerIs(G, logs["follower"], Last(log))
        /\ Commits(G, logs["follower"], commitIndex["follower"], commit)
        /\ otherMatch \in 0 .. Last(log) /\ nextIndex <= Last(log) + 1
    BY LogEnds DEF Types, Peers, Agrees, LeaderIs
  <1>2. index \in First(log) .. Last(log) /\ index <= commit
    BY <1>1 DEF Snapshot
  <1>3. TermAt(log, index) = G[index] /\ TermAt(log, index) \in Nat
    BY <1>1, <1>2, TermInLog DEF LeaderIs
  <1>4. /\ IsLog(new) /\ First(new) = index /\ Last(new) = Last(log)
        /\ TermAt(new, index) = TermAt(log, index)
        /\ \A k \in index + 1 .. Last(log) : TermAt(new, k) = TermAt(log, k)
    BY <1>1, <1>2, <1>3, TrimmedIsLog
  <1>5. /\ logs' = [logs EXCEPT !["leader"] = new]
        /\ UNCHANGED <<build, commitIndex, nextIndex, matchIndex, otherMatch, snapCh>>
        /\ UNCHANGED <<replicator, calls, heartbeats, killed, panicked>>
    BY DEF Snapshot
  <1>6. logs'["leader"] = new /\ logs'["follower"] = logs["follower"] /\ DOMAIN logs' = Peers
    BY <1>5 DEF Types, Peers
  <1> HIDE DEF new
  <1>7. Types'
    BY <1>4, <1>5, <1>6 DEF Types, Peers
  <1>8. LeaderIs(G, new, commit)
    <2>1. \A k \in index .. Last(log) : TermAt(new, k) = G[k]
      <3> TAKE k \in index .. Last(log)
      <3>1. k = index \/ k \in index + 1 .. Last(log)
        BY <1>1, <1>2
      <3> QED
        BY <1>1, <1>2, <1>3, <1>4, <3>1 DEF LeaderIs
    <2> QED
      BY <1>1, <1>2, <1>4, <2>1 DEF LeaderIs
  <1>9. /\ Last(log) <= Last(log) /\ commit <= commit
        /\ otherMatch \in otherMatch .. Last(log)
    BY <1>1 DEF Types
  <1> QED
    BY <1>1, <1>4, <1>5, <1>6, <1>7, <1>8, <1>9, StepAgrees

-----------------------------------------------------------------------------
(* The follower answers.                                                   *)

(* ConflictIndex stays a number, although the loop may run down to one     *)
(* below the first entry: a run of one term does not include index 0.      *)
LEMMA RefusedOK ==
  ASSUME Types, NEW G, Agrees(G), NEW w \in Callers, AppendEntries(w),
         BelowFirst(w, calls[w]) \/ Mismatch(w, calls[w])
  PROVE  Types' /\ Agrees(G)'
  <1> DEFINE rq     == calls[w]
             log    == logs["follower"]
             last   == Last(logs["leader"])
             commit == commitIndex["leader"]
  <1>1. RequestOK(G, rq, last, commit)
    BY DEF Agrees, CallOK, AppendEntries, NoCall
  <1>2. /\ IsLog(log) /\ First(log) \in Nat /\ Last(log) \in Nat /\ First(log) <= Last(log)
        /\ last \in Nat /\ FollowerIs(G, log, last) /\ LeaderIs(G, logs["leader"], commit)
    BY LogEnds DEF Types, Peers, Agrees
  <1>3. UNCHANGED <<build, logs, commitIndex, nextIndex, matchIndex, otherMatch, snapCh>>
        /\ UNCHANGED <<replicator, heartbeats, killed, panicked>>
    BY DEF AppendEntries, BelowFirst, Mismatch
  <1>4. \E index \in 0 .. rq.PrevLogIndex : \E term : reply(w, Conflict(rq, index, term))
    <2>1. CASE BelowFirst(w, rq)
      BY <1>1, <2>1 DEF BelowFirst, RequestOK
    <2>2. CASE Mismatch(w, rq) /\ Last(log) < rq.PrevLogIndex
      BY <1>1, <1>2, <2>2 DEF Mismatch, RequestOK
    <2>3. CASE Mismatch(w, rq) /\ Last(log) >= rq.PrevLogIndex
      <3> DEFINE prev == rq.PrevLogIndex
      <3>1. /\ prev \in First(log) .. Last(log) /\ prev \in 0 .. last
            /\ rq.PrevLogTerm = G[prev]
            /\ ~matchLog(log, rq.PrevLogTerm, prev)
        BY <1>1, <1>2, <2>3 DEF Mismatch, RequestOK
      <3>2. PICK index \in ConflictIndexes(log, prev) :
              reply(w, Conflict(rq, index, TermAt(log, prev)))
        BY <1>1, <1>2, <2>3 DEF Mismatch, RequestOK
      <3>3. index \in First(log) - 1 .. prev - 1
            /\ \A k \in index + 1 .. prev - 1 : TermAt(log, k) = TermAt(log, prev)
        BY DEF ConflictIndexes
      <3>4. prev # 0
        <4>1. prev = 0 => TermAt(log, prev) = 0 /\ G[prev] = 0
          BY <1>2, <3>1 DEF FollowerIs, LeaderIs
        <4> QED
          BY <3>1, <4>1 DEF matchLog
      <3>5. index >= 0
        <4> SUFFICES ASSUME index < 0 PROVE FALSE
          BY <1>2, <3>3
        <4>1. First(log) = 0 /\ 0 \in index + 1 .. prev - 1 /\ 0 \in First(log) .. Last(log)
          BY <1>2, <3>1, <3>3, <3>4
        <4>2. TermAt(log, 0) = TermAt(log, prev)
          BY <3>3, <4>1
        <4>3. TermAt(log, 0) = 0 /\ TermAt(log, prev) # 0
          BY <1>2, <3>1, <3>4, <4>1 DEF FollowerIs
        <4> QED
          BY <4>2, <4>3
      <3> QED
        BY <1>2, <3>1, <3>2, <3>3, <3>5
    <2> QED
      BY <1>1, <1>2, <2>1, <2>2, <2>3 DEF RequestOK
  <1>5. PICK index \in 0 .. rq.PrevLogIndex : \E term : reply(w, Conflict(rq, index, term))
    BY <1>4
  <1>6. PICK term : reply(w, Conflict(rq, index, term))
    BY <1>5
  <1> DEFINE rp == Conflict(rq, index, term)
  <1>7. CallOK(G, rp, log, last, commit)
    BY <1>1 DEF Conflict, CallOK, RequestOK
  <1>8. calls' = [calls EXCEPT ![w] = rp]
    BY <1>6 DEF reply
  <1> HIDE DEF rp
  <1>9. Types'
    BY <1>3, <1>8 DEF Types
  <1>10. \A v \in Callers : calls'[v] \in {calls[v], rp}
    BY <1>8 DEF Types
  <1> QED
    BY <1>3, <1>7, <1>9, <1>10, QuietAgrees DEF Agrees

(* A request that matches, and what the follower's log is made of it.      *)
Merging(G, log, last, commit, rq, k, new, end) ==
  /\ IsLog(log) /\ last \in Nat /\ commit \in Nat
  /\ FollowerIs(G, log, last)
  /\ \A j \in 0 .. last : G[j] \in 0 .. MaxTerm /\ (G[j] = 0 <=> j = 0)
  /\ RequestOK(G, rq, last, commit)
  /\ rq.PrevLogIndex >= First(log) /\ matchLog(log, rq.PrevLogTerm, rq.PrevLogIndex)
  /\ k \in FirstLacking(log, rq.Entries)
  /\ new = Merge(log, rq.Entries, k)
  /\ end = rq.PrevLogIndex + Len(rq.Entries)

LEMMA Merged ==
  ASSUME NEW G, NEW log, NEW last, NEW commit, NEW rq, NEW k, NEW new, NEW end,
         Merging(G, log, last, commit, rq, k, new, end)
  PROVE  /\ IsLog(new) /\ First(new) = First(log)
         /\ end \in First(log) .. Last(new) /\ end <= last
         /\ \A j \in First(log) .. end : TermAt(new, j) = G[j]
         /\ FollowerIs(G, new, last)
         /\ \A m \in First(log) .. Last(log) :
              m <= last /\ TermAt(log, m) = G[m] => m <= Last(new) /\ TermAt(new, m) = G[m]
  <1> USE DEF Merging
  <1> DEFINE prev    == rq.PrevLogIndex
             entries == rq.Entries
  <1>0. end = prev + Len(entries) /\ new = Merge(log, entries, k)
    OBVIOUS
  <1>1. /\ First(log) \in Nat /\ Last(log) \in Nat
        /\ prev \in First(log) .. Last(log) /\ prev \in 0 .. last
        /\ TermAt(log, prev) = G[prev]
    BY LogEnds DEF RequestOK, matchLog
  <1>2. /\ Follow(entries, prev) /\ Len(entries) \in Nat /\ end <= last
        /\ \A j \in 1 .. Len(entries) : entries[j].Term = G[prev + j]
    BY <1>0, LenProperties DEF RequestOK, Follow
  <1>3. \A j \in First(log) .. prev : TermAt(log, j) = G[j]
    BY <1>1 DEF FollowerIs
  <1> HIDE DEF prev, entries
  <1>4. IsLog(new) /\ First(new) = First(log)
    BY <1>0, <1>1, <1>2, MergeIsLog DEF entries
  <1>5. /\ prev + Len(entries) <= Last(new)
        /\ new = log \/ Last(new) = prev + Len(entries)
        /\ \A l \in First(log) .. prev : TermAt(new, l) = TermAt(log, l)
        /\ \A j \in 1 .. Len(entries) : TermAt(new, prev + j) = entries[j].Term
        /\ \A l \in First(log) .. Last(log) :
             (\A j \in 1 .. Len(entries) :
                prev + j <= l => TermAt(log, prev + j) = entries[j].Term)
             => l <= Last(new) /\ TermAt(new, l) = TermAt(log, l)
    <2>1. k \in FirstLacking(log, entries)
      BY DEF entries
    <2> QED
      BY <1>0, <1>1, <1>2, <2>1, MergeTerms
  <1>6. Last(new) \in Nat
    BY <1>4, LogEnds
  <1>7. end \in First(log) .. Last(new)
    BY <1>0, <1>1, <1>2, <1>5, <1>6
  <1>8. ASSUME NEW j \in First(log) .. end
        PROVE  TermAt(new, j) = G[j]
    <2>1. CASE j <= prev
      BY <1>1, <1>3, <1>5, <2>1
    <2>2. CASE j > prev
      <3>1. j - prev \in 1 .. Len(entries) /\ prev + (j - prev) = j
        BY <1>0, <1>1, <1>2, <2>2
      <3> QED
        BY <1>2, <1>5, <3>1
    <2> QED
      BY <1>1, <2>1, <2>2
  <1>9. FollowerIs(G, new, last)
    <2> SUFFICES ASSUME NEW j \in First(log) .. Last(new)
                 PROVE  /\ TermAt(new, j) = 0 <=> j = 0
                        /\ TermAt(new, j) = MaxTerm => j <= last /\ G[j] = MaxTerm
                        /\ j <= last /\ TermAt(new, j) = G[j] =>
                             \A i \in First(log) .. j : TermAt(new, i) = G[i]
      BY <1>4 DEF FollowerIs
    <2>1. CASE j <= end
      <3>1. TermAt(new, j) = G[j] /\ j \in 0 .. last
            /\ \A i \in First(log) .. j : i \in First(log) .. end
        BY <1>1, <1>2, <1>6, <1>7, <1>8, <2>1
      <3> QED
        BY <1>8, <3>1
    <2>2. CASE j > end
      <3>1. new = log
        BY <1>0, <1>5, <1>6, <1>7, <2>2
      <3> QED
        BY <3>1 DEF FollowerIs
    <2> QED
      BY <1>1, <1>6, <1>7, <2>1, <2>2
  <1>10. ASSUME NEW m \in First(log) .. Last(log), m <= last, TermAt(log, m) = G[m]
         PROVE  m <= Last(new) /\ TermAt(new, m) = G[m]
    <2>1. \A i \in First(log) .. m : TermAt(log, i) = G[i]
      BY <1>10 DEF FollowerIs
    <2>2. \A j \in 1 .. Len(entries) :
            prev + j <= m => TermAt(log, prev + j) = entries[j].Term
      <3> SUFFICES ASSUME NEW j \in 1 .. Len(entries), prev + j <= m
                   PROVE  TermAt(log, prev + j) = entries[j].Term
        OBVIOUS
      <3>1. prev + j \in First(log) .. m
        BY <1>1, <1>2
      <3> QED
        BY <1>2, <2>1, <3>1
    <2> QED
      BY <1>5, <1>10, <2>2
  <1> QED
    BY <1>2, <1>4, <1>7, <1>8, <1>9, <1>10

(* A step that changes the follower's log only.                            *)
LEMMA FollowerAgrees ==
  ASSUME Types, Types', NEW G, Agrees(G), NEW new,
         logs' = [logs EXCEPT !["follower"] = new],
         UNCHANGED <<nextIndex, matchIndex, otherMatch>>,
         commitIndex'["leader"] = commitIndex["leader"],
         \A m \in 0 .. Last(logs["leader"]) : Held(G, logs["follower"], m) => Held(G, new, m),
         FollowerIs(G, new, Last(logs["leader"])),
         Commits(G, new, commitIndex'["follower"], commitIndex["leader"]),
         \A w \in Callers :
           \/ calls'[w] \in {calls[w], NoCall}
           \/ CallOK(G, calls'[w], new, Last(logs["leader"]), commitIndex["leader"]),
         snapCh' \subseteq snapCh
  PROVE  Agrees(G)'
  <1>1. logs'["leader"] = logs["leader"] /\ logs'["follower"] = new
    BY DEF Types, Peers
  <1>2. /\ Last(logs["leader"]) \in Nat /\ commitIndex["leader"] \in Nat
        /\ otherMatch \in otherMatch .. Last(logs["leader"])
        /\ nextIndex <= Last(logs["leader"]) + 1
        /\ LeaderIs(G, logs["leader"], commitIndex["leader"])
    BY LogEnds DEF Types, Peers, Agrees
  <1>3. Last(logs["leader"]) <= Last(logs["leader"]) /\ commitIndex["leader"] <= commitIndex["leader"]
    BY <1>2
  <1> QED
    BY <1>1, <1>2, <1>3, StepAgrees

LEMMA MatchOK ==
  ASSUME Types, NEW G, Agrees(G), NEW w \in Callers, AppendEntries(w), Match(w, calls[w])
  PROVE  Types' /\ Agrees(G)'
  <1> DEFINE rq     == calls[w]
             log    == logs["follower"]
             last   == Last(logs["leader"])
             commit == commitIndex["leader"]
             end    == rq.PrevLogIndex + Len(rq.Entries)
  <1>1. RequestOK(G, rq, last, commit)
    BY DEF Agrees, CallOK, AppendEntries, NoCall
  <1>2. /\ IsLog(log) /\ First(log) \in Nat /\ Last(log) \in Nat /\ First(log) <= Last(log)
        /\ last \in Nat /\ FollowerIs(G, log, last) /\ commit \in 0 .. last
        /\ \A j \in 0 .. last : G[j] \in 0 .. MaxTerm /\ (G[j] = 0 <=> j = 0)
        /\ Commits(G, log, commitIndex["follower"], commit)
    BY LogEnds DEF Types, Peers, Agrees, LeaderIs
  <1>3. PICK k \in FirstLacking(log, rq.Entries) :
          /\ logs' = [logs EXCEPT !["follower"] = Merge(log, rq.Entries, k)]
          /\ advanceCommitIndexForFollower(logs'["follower"], rq.LeaderCommit)
    BY DEF Match
  <1>4. PICK new : new = Merge(log, rq.Entries, k)
    OBVIOUS
  <1>5. /\ rq.PrevLogIndex >= First(log) /\ matchLog(log, rq.PrevLogTerm, rq.PrevLogIndex)
        /\ calls' = [calls EXCEPT ![w] = Success(rq)]
        /\ UNCHANGED <<build, nextIndex, matchIndex, otherMatch, snapCh>>
        /\ UNCHANGED <<replicator, heartbeats, killed, panicked>>
    BY DEF AppendEntries, Match, reply
  <1>6. /\ IsLog(new) /\ First(new) = First(log)
        /\ end \in First(log) .. Last(new) /\ end <= last
        /\ \A j \in First(log) .. end : TermAt(new, j) = G[j]
        /\ FollowerIs(G, new, last)
        /\ \A m \in First(log) .. Last(log) :
             m <= last /\ TermAt(log, m) = G[m] => m <= Last(new) /\ TermAt(new, m) = G[m]
    <2>1. Merging(G, log, last, commit, rq, k, new, end)
      BY <1>1, <1>2, <1>4, <1>5 DEF Merging
    <2> HIDE DEF rq, log, last, commit, end
    <2> QED
      BY <2>1, Merged
  <1>7. logs' = [logs EXCEPT !["follower"] = new] /\ logs'["follower"] = new
        /\ logs'["leader"] = logs["leader"] /\ DOMAIN logs' = Peers
    BY <1>3, <1>4 DEF Types, Peers
  <1>8. PICK low : low = Smaller(rq.LeaderCommit, Last(new))
    OBVIOUS
  <1>9. /\ commitIndex' \in [Peers -> Nat] /\ commitIndex'["leader"] = commit
        /\ commitIndex'["follower"] = Larger(commitIndex["follower"], low)
        /\ low \in Nat /\ low <= Last(new) /\ low <= end /\ low <= commit
    <2>1. rq.LeaderCommit \in Nat /\ rq.LeaderCommit <= end /\ rq.LeaderCommit <= commit
          /\ Last(new) \in Nat /\ end \in Nat
      BY <1>1, <1>2, <1>6, LogEnds DEF RequestOK
    <2>2. low \in Nat /\ low <= Last(new) /\ low <= end /\ low <= commit
      BY <1>2, <1>8, <2>1 DEF Smaller
    <2>3. commitIndex' = [commitIndex EXCEPT !["follower"] = Larger(commitIndex["follower"], low)]
      BY <1>3, <1>7, <1>8 DEF advanceCommitIndexForFollower
    <2>4. Larger(commitIndex["follower"], low) \in Nat
      BY <2>2 DEF Larger, Types, Peers
    <2> QED
      BY <2>2, <2>3, <2>4 DEF Types, Peers
  <1>10. Types'
    <2>1. Success(rq) # NoCall
      BY DEF Success, NoCall
    <2> QED
      BY <1>5, <1>6, <1>7, <1>9 DEF Types, Peers
  <1>11. \A m \in 0 .. last : Held(G, log, m) => Held(G, new, m)
    BY <1>2, <1>6 DEF Held
  <1>12. Commits(G, new, commitIndex'["follower"], commit)
    <2> DEFINE old == commitIndex["follower"]
    <2>1. /\ old \in First(log) .. Last(log) /\ old <= commit
          /\ \A j \in First(log) .. old : TermAt(log, j) = G[j]
      BY <1>2 DEF Commits
    <2>2. old <= Last(new) /\ \A j \in First(log) .. old : TermAt(new, j) = G[j]
      <3>1. \A j \in First(log) .. old : /\ j \in First(log) .. Last(log)
                                         /\ j <= last /\ TermAt(log, j) = G[j]
        BY <1>2, <2>1
      <3>2. old \in First(log) .. old
        BY <1>2, <2>1
      <3> QED
        BY <1>6, <3>1, <3>2
    <2>3. Last(new) \in Nat
      BY <1>6, LogEnds
    <2>4. commitIndex'["follower"] \in {old, low} /\ old <= commitIndex'["follower"]
      BY <1>2, <1>9, <2>1 DEF Larger
    <2>5. \A j \in First(log) .. low : TermAt(new, j) = G[j]
      BY <1>2, <1>6, <1>9
    <2> QED
      BY <1>2, <1>6, <1>9, <2>1, <2>2, <2>3, <2>4, <2>5 DEF Commits
  <1>13. CallOK(G, Success(rq), new, last, commit)
    <2>1. Acked(G, new, end, last, commit)
      BY <1>2, <1>6 DEF Acked, Held
    <2> QED
      BY <2>1 DEF CallOK, Success
  <1>14. \A v \in Callers : calls'[v] \in {calls[v], Success(rq)}
    BY <1>5 DEF Types
  <1> QED
    BY <1>5, <1>6, <1>7, <1>9, <1>10, <1>11, <1>12, <1>13, <1>14, FollowerAgrees

(* What a snapshot leaves in the follower's log, its own or the leader's.  *)
LEMMA TrimmedAgrees ==
  ASSUME NEW G, NEW log, IsLog(log), NEW last \in Nat, NEW commit \in 0 .. last,
         FollowerIs(G, log, last),
         \A j \in 0 .. last : G[j] \in 0 .. MaxTerm /\ (G[j] = 0 <=> j = 0),
         NEW index \in First(log) .. commit
  PROVE  LET new == Trimmed(log, index, G[index])
         IN  /\ IsLog(new) /\ First(new) = index /\ index <= Last(new)
             /\ Last(log) <= Last(new)
             /\ TermAt(new, index) = G[index]
             /\ \A k \in index + 1 .. Last(log) : TermAt(new, k) = TermAt(log, k)
             /\ FollowerIs(G, new, last)
             /\ \A m \in 0 .. last : Held(G, log, m) => Held(G, new, m)
  <1> DEFINE new == Trimmed(log, index, G[index])
  <1>1. First(log) \in Nat /\ Last(log) \in Nat /\ index \in Nat /\ index \in 0 .. last
    BY LogEnds
  <1>2. G[index] \in Nat
    BY <1>1, BoundsAssumption
  <1>3. /\ IsLog(new) /\ First(new) = index
        /\ Last(new) = IF index > Last(log) THEN index ELSE Last(log)
        /\ TermAt(new, index) = G[index]
        /\ \A k \in index + 1 .. Last(log) : TermAt(new, k) = TermAt(log, k)
    BY <1>1, <1>2, TrimmedIsLog
  <1> HIDE DEF new
  <1>4. FollowerIs(G, new, last)
    <2> SUFFICES ASSUME NEW j \in index .. Last(new)
                 PROVE  /\ TermAt(new, j) = 0 <=> j = 0
                        /\ TermAt(new, j) = MaxTerm => j <= last /\ G[j] = MaxTerm
                        /\ j <= last /\ TermAt(new, j) = G[j] =>
                             \A k \in index .. j : TermAt(new, k) = G[k]
      BY <1>3 DEF FollowerIs
    <2>1. CASE j = index
      BY <1>1, <1>3, <2>1
    <2>2. CASE j # index
      <3>1. /\ j \in index + 1 .. Last(log) /\ j \in First(log) .. Last(log)
            /\ \A k \in index .. j : k = index \/ (k \in index + 1 .. Last(log) /\ k \in First(log) .. j)
        BY <1>1, <1>3, <2>2
      <3> QED
        BY <1>3, <3>1 DEF FollowerIs
    <2> QED
      BY <2>1, <2>2
  <1>5. ASSUME NEW m \in 0 .. last, Held(G, log, m)
        PROVE  Held(G, new, m)
    BY <1>1, <1>3, <1>5 DEF Held
  <1> QED
    BY <1>1, <1>3, <1>4, <1>5 DEF new

LEMMA CondInstallSnapshotOK ==
  ASSUME Types, NEW G, Agrees(G), NEW entry \in snapCh, CondInstallSnapshot(entry)
  PROVE  Types' /\ Agrees(G)'
  <1> DEFINE log    == logs["follower"]
             last   == Last(logs["leader"])
             commit == commitIndex["leader"]
  <1>1. /\ IsLog(log) /\ First(log) \in Nat /\ Last(log) \in Nat
        /\ last \in Nat /\ FollowerIs(G, log, last) /\ commit \in 0 .. last
        /\ \A j \in 0 .. last : G[j] \in 0 .. MaxTerm /\ (G[j] = 0 <=> j = 0)
        /\ Commits(G, log, commitIndex["follower"], commit)
        /\ nextIndex <= last + 1
    BY LogEnds DEF Types, Peers, Agrees, LeaderIs
  <1>2. entry.Index \in Nat /\ entry.Index <= commit /\ entry.Term = G[entry.Index]
    BY DEF Agrees, PointOK, Entry
  <1>3. /\ UNCHANGED <<build, nextIndex, matchIndex, otherMatch>>
        /\ UNCHANGED <<replicator, calls, heartbeats, killed, panicked>>
        /\ snapCh' \subseteq snapCh
    BY DEF CondInstallSnapshot
  <1>4. CASE entry.Index <= commitIndex["follower"]
    <2>1. UNCHANGED <<logs, commitIndex>>
      BY <1>4 DEF CondInstallSnapshot
    <2>2. Types'
      BY <1>3, <2>1 DEF Types
    <2> QED
      BY <1>1, <1>3, <2>1, <2>2, QuietAgrees
  <1>5. CASE ~(entry.Index <= commitIndex["follower"])
    <2>1. PICK new : new = Trimmed(log, entry.Index, G[entry.Index])
      OBVIOUS
    <2>2. /\ logs' = [logs EXCEPT !["follower"] = new]
          /\ commitIndex' = [commitIndex EXCEPT !["follower"] = entry.Index]
      BY <1>2, <1>5, <2>1 DEF CondInstallSnapshot
    <2>3. entry.Index \in First(log) .. commit
      BY <1>1, <1>2, <1>5 DEF Commits
    <2>4. /\ IsLog(new) /\ First(new) = entry.Index /\ entry.Index <= Last(new)
          /\ TermAt(new, entry.Index) = G[entry.Index]
          /\ FollowerIs(G, new, last)
          /\ \A m \in 0 .. last : Held(G, log, m) => Held(G, new, m)
      <3>1. PICK index : index = entry.Index
        OBVIOUS
      <3>2. /\ IsLog(log) /\ last \in Nat /\ commit \in 0 .. last /\ FollowerIs(G, log, last)
            /\ \A j \in 0 .. last : G[j] \in 0 .. MaxTerm /\ (G[j] = 0 <=> j = 0)
        BY <1>1
      <3>3. index \in First(log) .. commit /\ new = Trimmed(log, index, G[index])
        BY <2>1, <2>3, <3>1
      <3> HIDE DEF log, last, commit
      <3>4. /\ IsLog(new) /\ First(new) = index /\ index <= Last(new)
            /\ TermAt(new, index) = G[index]
            /\ FollowerIs(G, new, last)
            /\ \A m \in 0 .. last : Held(G, log, m) => Held(G, new, m)
        BY <3>2, <3>3, TrimmedAgrees
      <3> QED
        BY <3>1, <3>4
    <2>5. /\ commitIndex' \in [Peers -> Nat] /\ commitIndex'["leader"] = commit
          /\ commitIndex'["follower"] = entry.Index
          /\ logs'["follower"] = new /\ logs'["leader"] = logs["leader"] /\ DOMAIN logs' = Peers
      BY <1>2, <2>2 DEF Types, Peers
    <2>6. Types'
      BY <1>3, <2>4, <2>5 DEF Types, Peers
    <2>7. Commits(G, new, entry.Index, commit)
      <3>1. Last(new) \in Nat
        BY <2>4, LogEnds
      <3> QED
        BY <1>2, <2>4, <3>1 DEF Commits
    <2> QED
      BY <1>3, <2>2, <2>4, <2>5, <2>6, <2>7, FollowerAgrees
  <1> QED
    BY <1>4, <1>5

LEMMA FollowerTrimsOK ==
  ASSUME Types, NEW G, Agrees(G), NEW index \in 1 .. commitIndex["follower"],
         Snapshot("follower", index)
  PROVE  Types' /\ Agrees(G)'
  <1> DEFINE log    == logs["follower"]
             last   == Last(logs["leader"])
             commit == commitIndex["leader"]
             own    == commitIndex["follower"]
  <1>1. /\ IsLog(log) /\ First(log) \in Nat /\ Last(log) \in Nat
        /\ last \in Nat /\ FollowerIs(G, log, last) /\ commit \in 0 .. last
        /\ \A j \in 0 .. last : G[j] \in 0 .. MaxTerm /\ (G[j] = 0 <=> j = 0)
        /\ Commits(G, log, own, commit)
        /\ own \in First(log) .. Last(log) /\ own <= commit
    BY LogEnds DEF Types, Peers, Agrees, LeaderIs, Commits
  <1>2. /\ UNCHANGED <<build, commitIndex, nextIndex, matchIndex, otherMatch, snapCh>>
        /\ UNCHANGED <<replicator, calls, heartbeats, killed, panicked>>
        /\ logs' = [logs EXCEPT !["follower"] = Trimmed(log, index, TermAt(log, index))]
        /\ index > First(log)
    BY DEF Snapshot
  <1>3. index \in First(log) .. commit /\ index \in First(log) .. own
    BY <1>1, <1>2
  <1>4. TermAt(log, index) = G[index]
    BY <1>1, <1>3 DEF Commits
  <1>5. PICK new : new = Trimmed(log, index, G[index])
    OBVIOUS
  <1>6. /\ IsLog(new) /\ First(new) = index /\ index <= Last(new) /\ Last(log) <= Last(new)
        /\ TermAt(new, index) = G[index]
        /\ \A k \in index + 1 .. Last(log) : TermAt(new, k) = TermAt(log, k)
        /\ FollowerIs(G, new, last)
        /\ \A m \in 0 .. last : Held(G, log, m) => Held(G, new, m)
    <2>1. IsLog(log) /\ last \in Nat /\ commit \in 0 .. last /\ FollowerIs(G, log, last)
          /\ \A j \in 0 .. last : G[j] \in 0 .. MaxTerm /\ (G[j] = 0 <=> j = 0)
      BY <1>1
    <2> HIDE DEF log, last, commit, own
    <2> QED
      BY <2>1, <1>3, <1>5, TrimmedAgrees
  <1>7. logs' = [logs EXCEPT !["follower"] = new]
        /\ logs'["follower"] = new /\ logs'["leader"] = logs["leader"] /\ DOMAIN logs' = Peers
    BY <1>2, <1>4, <1>5 DEF Types, Peers
  <1>8. Types'
    BY <1>2, <1>6, <1>7 DEF Types, Peers
  <1>9. Commits(G, new, own, commit)
    <2>1. Last(new) \in Nat
      BY <1>6, LogEnds
    <2>2. \A k \in index .. own : k = index \/ (k \in index + 1 .. Last(log) /\ k \in First(log) .. own)
      BY <1>1, <1>3
    <2>3. \A k \in index .. own : TermAt(new, k) = G[k]
      BY <1>1, <1>6, <2>2 DEF Commits
    <2> QED
      BY <1>1, <1>3, <1>6, <2>1, <2>3 DEF Commits
  <1> QED
    BY <1>2, <1>6, <1>7, <1>8, <1>9, FollowerAgrees

LEMMA NextRInv == RInv /\ [Next]_vars => RInv'
  <1> SUFFICES ASSUME RInv, [Next]_vars PROVE RInv'
    OBVIOUS
  <1>1. PICK G \in [Nat -> Nat] : Agrees(G)
    BY DEF RInv
  <1>2. Types
    BY DEF RInv
  <1>3. SUFFICES Types' /\ \E H \in [Nat -> Nat] : Agrees(H)'
    BY DEF RInv
  <1>4. CASE Start
    BY <1>1, <1>2, <1>4, StartOK
  <1>5. ASSUME ~Start PROVE Types' /\ Agrees(G)'
    <2>1. CASE UNCHANGED vars
      <3>1. Types'
        BY <1>2, <2>1 DEF vars, Types
      <3>2. nextIndex <= Last(logs["leader"]) + 1
        BY <1>1 DEF Agrees
      <3> QED
        BY <1>1, <1>2, <2>1, <3>1, <3>2, QuietAgrees DEF vars
    <2>2. CASE \E h \in Heartbeats : Heartbeat(h)
      BY <1>1, <1>2, <2>2, HeartbeatOK
    <2>3. CASE replicatorSteps
      BY <1>1, <1>2, <2>3, ReplicatorOK
    <2>4. CASE tickerEnds \/ Kill \/ \E w \in Callers : Lose(w)
      <3>1. "replicator" \in Callers
        BY DEF Callers
      <3> QED
        BY <1>1, <1>2, <2>4, <3>1, LostOK
    <2>5. CASE \E w \in Callers : AppendEntries(w)
      <3>1. PICK w \in Callers : AppendEntries(w)
        BY <2>5
      <3>2. BelowFirst(w, calls[w]) \/ Mismatch(w, calls[w]) \/ Match(w, calls[w])
        BY <3>1 DEF AppendEntries
      <3> QED
        BY <1>1, <1>2, <3>1, <3>2, RefusedOK, MatchOK
    <2>6. CASE \E w \in Callers : HandleAppendEntriesResponse(w)
      <3>1. PICK w \in Callers : HandleAppendEntriesResponse(w)
        BY <2>6
      <3>2. HandleSuccess(calls[w]) \/ HandleConflict(calls[w])
        BY <3>1 DEF HandleAppendEntriesResponse
      <3> QED
        BY <1>1, <1>2, <3>1, <3>2, HandleSuccessOK, HandleConflictOK
    <2>7. CASE \E w \in Callers : InstallSnapshot(w) \/ HandleInstallSnapshotResponse(w)
      BY <1>1, <1>2, <2>7, InstallSnapshotOK, HandleInstallSnapshotResponseOK
    <2>8. CASE OtherAnswers
      BY <1>1, <1>2, <2>8, OtherAnswersOK
    <2>9. CASE \E last \in snapCh : CondInstallSnapshot(last)
      BY <1>1, <1>2, <2>9, CondInstallSnapshotOK
    <2>10. CASE \E p \in Peers :
                 \E index \in 1 .. Smaller(commitIndex[p], MaxSnapshotIndex) : Snapshot(p, index)
      <3>1. PICK p \in Peers :
                 \E index \in 1 .. Smaller(commitIndex[p], MaxSnapshotIndex) : Snapshot(p, index)
        BY <2>10
      <3>2. PICK index \in 1 .. Smaller(commitIndex[p], MaxSnapshotIndex) : Snapshot(p, index)
        BY <3>1
      <3>3. index \in 1 .. commitIndex[p]
        BY <1>2, BoundsAssumption DEF Types, Smaller
      <3>4. p = "leader" \/ p = "follower"
        BY DEF Peers
      <3> QED
        BY <1>1, <1>2, <3>2, <3>3, <3>4, LeaderTrimsOK, FollowerTrimsOK
    <2> QED
      BY <1>5, <2>1, <2>2, <2>3, <2>4, <2>5, <2>6, <2>7, <2>8, <2>9, <2>10 DEF Next
  <1> QED
    BY <1>1, <1>4, <1>5

-----------------------------------------------------------------------------
(* What the code does keeps the invariant, whatever is lost or late.       *)
THEOREM ReplicationInvariant == Spec => []RInv
  <1> QED
    BY InitRInv, NextRInv, PTL DEF Spec

(* The fields of the leader's and the follower's rf, and the snapshots     *)
(* that wait for the service, have the types the code gives them, and      *)
(* commitIndex, nextIndex and matchIndex stay within the logs.             *)
THEOREM TypeCorrect == Spec => []TypeOK
  <1>1. RInv => TypeOK
    <2> SUFFICES ASSUME RInv PROVE TypeOK
      OBVIOUS
    <2>1. PICK G \in [Nat -> Nat] : Agrees(G)
      BY DEF RInv
    <2>2. Types
      BY DEF RInv
    <2> DEFINE last == Last(logs["leader"])
    <2>3. last \in Nat /\ LeaderIs(G, logs["leader"], commitIndex["leader"])
      BY <2>1, <2>2, LogEnds DEF Agrees, Types, Peers
    <2>4. /\ nextIndex \in 0 .. last + 1 /\ matchIndex \in 0 .. last /\ otherMatch \in 0 .. last
      BY <2>1, <2>2, <2>3 DEF Agrees, Types, Acked
    <2>5. \A p \in Peers : commitIndex[p] \in First(logs[p]) .. Last(logs[p])
      BY <2>1, <2>2 DEF Agrees, LeaderIs, Commits, Peers
    <2>6. snapCh \subseteq SnapshotPoint
      <3> SUFFICES ASSUME NEW entry \in snapCh PROVE entry \in SnapshotPoint
        OBVIOUS
      <3>1. /\ entry \in Entry /\ entry.Index <= commitIndex["leader"]
            /\ entry.Term = G[entry.Index]
        BY <2>1 DEF Agrees, PointOK
      <3>2. entry.Index \in 0 .. last /\ last <= MaxLogIndex /\ entry = [Index |-> entry.Index, Term |-> entry.Term]
        BY <2>2, <2>3, <3>1, LogEnds DEF LeaderIs, Types, Peers, Entry
      <3>3. entry.Term \in 0 .. MaxTerm /\ entry.Index \in 0 .. MaxLogIndex
        BY <2>3, <3>1, <3>2, BoundsAssumption DEF LeaderIs
      <3> QED
        BY <3>2, <3>3 DEF SnapshotPoint
    <2> QED
      BY <2>2, <2>4, <2>5, <2>6 DEF TypeOK, Types
  <1> QED
    BY <1>1, ReplicationInvariant, PTL

(* advanceCommitIndexForFollower may take the end of the follower's whole  *)
(* log for what the leader has: what both count as committed is the same.  *)
THEOREM CommitsAgreeHolds == Spec => []CommitsAgree
  <1>1. RInv => CommitsAgree
    <2> SUFFICES ASSUME RInv,
                        NEW k \in Larger(First(logs["leader"]), First(logs["follower"]))
                                  .. Smaller(commitIndex["leader"], commitIndex["follower"])
                 PROVE  TermAt(logs["leader"], k) = TermAt(logs["follower"], k)
      BY DEF CommitsAgree
    <2>1. PICK G \in [Nat -> Nat] : Agrees(G)
      BY DEF RInv
    <2>2. /\ First(logs["leader"]) \in Nat /\ Last(logs["leader"]) \in Nat
          /\ First(logs["follower"]) \in Nat
          /\ commitIndex["leader"] \in Nat /\ commitIndex["follower"] \in Nat
      BY LogEnds DEF RInv, Types, Peers
    <2>3. /\ LeaderIs(G, logs["leader"], commitIndex["leader"])
          /\ Commits(G, logs["follower"], commitIndex["follower"], commitIndex["leader"])
      BY <2>1 DEF Agrees
    <2>4. /\ k \in First(logs["leader"]) .. commitIndex["leader"]
          /\ k \in First(logs["follower"]) .. commitIndex["follower"]
      BY <2>2 DEF Larger, Smaller
    <2>5. k \in First(logs["leader"]) .. Last(logs["leader"])
      BY <2>2, <2>3, <2>4 DEF LeaderIs
    <2> QED
      BY <2>3, <2>4, <2>5 DEF LeaderIs, Commits
  <1> QED
    BY <1>1, ReplicationInvariant, PTL

(* advanceCommitIndexForLeader commits an entry of the term only when one  *)
(* of the other two has it, though late replies take matchIndex back.      *)
THEOREM CommitHasMajorityHolds == Spec => []CommitHasMajority
  <1>1. RInv => CommitHasMajority
    <2> SUFFICES ASSUME RInv PROVE CommitHasMajority
      OBVIOUS
    <2> DEFINE k   == commitIndex["leader"]
               log == logs["follower"]
    <2>1. PICK G \in [Nat -> Nat] : Agrees(G)
      BY DEF RInv
    <2>2. First(log) \in Nat /\ Last(log) \in Nat /\ k \in Nat
      BY LogEnds DEF RInv, Types, Peers
    <2>3. k \in First(logs["leader"]) .. Last(logs["leader"]) /\ TermAt(logs["leader"], k) = G[k]
      BY <2>1 DEF Agrees, LeaderIs
    <2>4. Backed(G, log, k, otherMatch)
      BY <2>1 DEF Agrees
    <2> QED
      BY <2>2, <2>3, <2>4 DEF CommitHasMajority, Backed, Held, matchLog
  <1> QED
    BY <1>1, ReplicationInvariant, PTL

-----------------------------------------------------------------------------
(***************************************************************************)
(* What it takes to make the leader of lab 2B panic.  Until a request      *)
(* matches for the first time the follower's log stays as it was, and each *)
(* mismatch leads from one prevLogIndex to one further down.               *)
(***************************************************************************)
Same(leaders, followers, k) ==
  /\ k \in 0 .. Last(leaders) /\ k <= Last(followers)
  /\ TermAt(followers, k) = TermAt(leaders, k)

(* What nextIndex becomes when the request with prev does not match.       *)
Nexts(leaders, followers, prev) ==
  IF Last(followers) < prev
  THEN BackOffs(leaders, prev, NoConflict, Last(followers) + 1)
  ELSE UNION { BackOffs(leaders, prev, TermAt(followers, prev), index) :
                 index \in ConflictIndexes(followers, prev) }

FirstUnknown(leaders, followers) ==
  /\ Last(followers) >= 1
  /\ \A k \in 1 .. Last(leaders) : TermAt(followers, 1) # TermAt(leaders, k)

(* The prevLogIndexes of one back-off, from end downwards: they lead to a  *)
(* match or to -1, never to both.                                          *)
Chain(S, end, leaders, followers) ==
  /\ S \subseteq -1 .. end
  /\ \A p \in S : \/ p = -1 \/ Same(leaders, followers, p)
                  \/ \A x \in Nexts(leaders, followers, p) : x - 1 \in S
  /\ -1 \in S => /\ \A p \in S : ~Same(leaders, followers, p)
                 /\ FirstUnknown(leaders, followers)

(* The call is, or will make the next one, of a prevLogIndex in S.         *)
Within(c, S, leaders) ==
  \/ c = NoCall
  \/ c.kind = "AppendEntries" /\ c.PrevLogIndex \in S
  \/ c.kind = "Success" /\ c.Match \in S
  \/ /\ c.kind = "Conflict"
     /\ \A x \in BackOffs(leaders, c.PrevLogIndex, c.ConflictTerm, c.ConflictIndex) : x - 1 \in S

(* Nothing has matched yet, and every request reaches to end.              *)
Undecided(S, end) ==
  /\ end \in 0 .. Last(logs["leader"])
  /\ Chain(S, end, logs["leader"], logs["follower"])
  /\ \A k \in 1 .. Last(logs["follower"]) : TermAt(logs["follower"], k) # MaxTerm
  /\ \A w \in Callers :
       /\ calls[w].kind # "Success"
       /\ calls[w].kind = "AppendEntries" =>
            end <= calls[w].PrevLogIndex + Len(calls[w].Entries)

(* From the first match on, all begin where the two logs are the same.     *)
Decided(S) == \A k \in S : Same(logs["leader"], logs["follower"], k)

BackingOff(S) ==
  /\ nextIndex - 1 \in S
  /\ \A w \in Callers : Within(calls[w], S, logs["leader"])
  /\ Decided(S) \/ \E end \in Nat : Undecided(S, end)

Lab2BInv ==
  /\ First(logs["leader"]) = 0 /\ First(logs["follower"]) = 0 /\ snapCh = {}
  /\ \E S : BackingOff(S)
  /\ panicked => FirstUnknown(logs["leader"], logs["follower"])

PInv == IF build = "lab2B" THEN Lab2BInv ELSE ~panicked

LEMMA LeastNat ==
  ASSUME NEW S, S \subseteq Nat, NEW s \in S
  PROVE  \E x \in S : \A y \in S : x <= y
  <1> DEFINE R == { p \in Nat \X Nat : p[1] < p[2] }
  <1>1. IsWellFoundedOn(R, Nat)
    <2>1. R = OpToRel(<, Nat)
      BY DEF OpToRel
    <2> QED
      BY <2>1, NatLessThanWellFounded
  <1>2. \A a, b \in Nat : a < b => <<a, b>> \in R
    OBVIOUS
  <1> HIDE DEF R
  <1>3. PICK x \in S : \A y \in S : ~(<<y, x>> \in R)
    BY <1>1, WFMin
  <1>4. \A y \in S : x \in Nat /\ y \in Nat /\ ~(y < x)
    BY <1>2, <1>3
  <1> QED
    BY <1>4

-----------------------------------------------------------------------------
(* The logs of lab 2B, and where a mismatch leads.                         *)

Whole(log) ==
  /\ IsLog(log) /\ First(log) = 0
  /\ \A k \in 0 .. Last(log) : TermAt(log, k) = 0 <=> k = 0

LEMMA ConflictIndexIs ==
  ASSUME NEW log, Whole(log), NEW p \in 1 .. Last(log), NEW i \in ConflictIndexes(log, p)
  PROVE  /\ i \in 0 .. p - 1
         /\ \A k \in i + 1 .. p : TermAt(log, k) = TermAt(log, p)
         /\ \A j \in ConflictIndexes(log, p) : i = j
  <1>1. Last(log) \in Nat /\ First(log) = 0
    BY LogEnds DEF Whole
  <1>2. ASSUME NEW j \in ConflictIndexes(log, p)
        PROVE  /\ j \in 0 .. p - 1 /\ TermAt(log, j) # TermAt(log, p)
               /\ \A k \in j + 1 .. p - 1 : TermAt(log, k) = TermAt(log, p)
    <2>1. /\ j \in 0 - 1 .. p - 1 /\ \A k \in j + 1 .. p - 1 : TermAt(log, k) = TermAt(log, p)
          /\ j >= 0 => TermAt(log, j) # TermAt(log, p)
      BY <1>1 DEF ConflictIndexes
    <2>2. j # -1
      <3> SUFFICES ASSUME j = -1 PROVE FALSE
        OBVIOUS
      <3>1. TermAt(log, 0) = TermAt(log, p)
        BY <1>1, <2>1
      <3> QED
        BY <1>1, <3>1 DEF Whole
    <2> QED
      BY <2>1, <2>2
  <1>3. ASSUME NEW j \in ConflictIndexes(log, p), j # i PROVE FALSE
    <2>1. /\ i \in 0 .. p - 1 /\ j \in 0 .. p - 1
          /\ TermAt(log, i) # TermAt(log, p) /\ TermAt(log, j) # TermAt(log, p)
          /\ \A k \in i + 1 .. p - 1 : TermAt(log, k) = TermAt(log, p)
          /\ \A k \in j + 1 .. p - 1 : TermAt(log, k) = TermAt(log, p)
      BY <1>2
    <2>2. i \in j + 1 .. p - 1 \/ j \in i + 1 .. p - 1
      BY <1>3, <2>1
    <2> QED
      BY <2>1, <2>2
  <1> QED
    BY <1>1, <1>2, <1>3

LEMMA NextsBelow ==
  ASSUME NEW leaders, Whole(leaders), NEW followers, Whole(followers),
         LogsMatch(leaders, followers),
         NEW p \in 1 .. Last(leaders), ~Same(leaders, followers, p),
         NEW x \in Nexts(leaders, followers, p)
  PROVE  /\ x \in 0 .. p
         /\ \A y \in Nexts(leaders, followers, p) : x = y
         /\ x = 0 => FirstUnknown(leaders, followers)
  <1>1. /\ Last(leaders) \in Nat /\ Last(followers) \in Nat
        /\ First(leaders) = 0 /\ First(followers) = 0
    BY LogEnds DEF Whole
  <1>2. CASE Last(followers) < p
    BY <1>1, <1>2 DEF Nexts, BackOffs
  <1>3. CASE ~(Last(followers) < p)
    <2> DEFINE term == TermAt(followers, p)
               same == { k \in 0 .. p : TermAt(leaders, k) = term }
    <2>1. p \in 1 .. Last(followers) /\ term # TermAt(leaders, p)
      BY <1>1, <1>3 DEF Same
    <2>2. term \in Nat /\ term # NoConflict
      BY <1>1, <2>1, TermInLog DEF Whole, NoConflict
    <2>3. PICK i \in ConflictIndexes(followers, p) : x \in BackOffs(leaders, p, term, i)
      BY <1>3 DEF Nexts
    <2>4. /\ i \in 0 .. p - 1 /\ \A k \in i + 1 .. p : TermAt(followers, k) = term
          /\ \A y \in Nexts(leaders, followers, p) : y \in BackOffs(leaders, p, term, i)
      <3>1. \A j \in ConflictIndexes(followers, p) : i = j
        BY <2>1, ConflictIndexIs
      <3>2. \A y \in Nexts(leaders, followers, p) : y \in BackOffs(leaders, p, term, i)
        BY <1>3, <3>1 DEF Nexts
      <3> QED
        BY <2>1, <3>2, ConflictIndexIs
    <2>5. BackOffs(leaders, p, term, i) =
            IF same = {} THEN {i} ELSE { k + 1 : k \in { k \in same : \A j \in same : j <= k } }
      BY <1>1, <2>2 DEF BackOffs
    <2>6. CASE same = {}
      <3>1. x = i /\ \A y \in Nexts(leaders, followers, p) : y = i
        BY <2>3, <2>4, <2>5, <2>6
      <3>2. ASSUME i = 0 PROVE FirstUnknown(leaders, followers)
        <4>1. TermAt(followers, 1) = term /\ Last(followers) >= 1 /\ 1 \in 1 .. Last(followers)
          BY <1>1, <2>1, <2>4, <3>2
        <4>2. ASSUME NEW k \in 1 .. Last(leaders), TermAt(leaders, k) = TermAt(followers, 1)
              PROVE  FALSE
          <5>1. \A m \in 1 .. Smaller(k, 1) : TermAt(leaders, m) = TermAt(followers, m)
            BY <4>1, <4>2 DEF LogsMatch
          <5>2. TermAt(leaders, 1) = term /\ 1 \in 0 .. p
            BY <4>1, <5>1 DEF Smaller
          <5> QED
            BY <2>6, <5>2
        <4> QED
          BY <4>1, <4>2 DEF FirstUnknown
      <3> QED
        BY <2>4, <3>1, <3>2
    <2>7. CASE same # {}
      <3>1. PICK k \in same : x = k + 1 /\ \A j \in same : j <= k
        BY <2>3, <2>5, <2>7
      <3>2. k \in 0 .. p /\ k # p
        BY <2>1, <3>1
      <3>3. ASSUME NEW y \in Nexts(leaders, followers, p) PROVE x = y
        <4>1. PICK l \in same : y = l + 1 /\ \A j \in same : j <= l
          BY <2>4, <2>5, <2>7
        <4> QED
          BY <3>1, <3>2, <4>1
      <3> QED
        BY <3>1, <3>2, <3>3
    <2> QED
      BY <2>6, <2>7
  <1> QED
    BY <1>2, <1>3

LEMMA ChainExists ==
  ASSUME NEW leaders, Whole(leaders), NEW followers, Whole(followers),
         LogsMatch(leaders, followers), NEW end, end = Last(leaders)
  PROVE  \E S : end \in S /\ Chain(S, end, leaders, followers)
  <1>0. end \in Nat /\ Last(followers) \in Nat
    BY LogEnds DEF Whole
  <1> DEFINE Bad == { p \in 0 .. end : ~\E S : p \in S /\ Chain(S, end, leaders, followers) }
  <1>1. SUFFICES ASSUME Bad # {} PROVE FALSE
    BY <1>0
  <1>2. PICK p \in Bad : \A q \in Bad : p <= q
    <2>1. Bad \subseteq Nat /\ \E s \in Bad : TRUE
      BY <1>1
    <2> HIDE DEF Bad
    <2> QED
      BY <2>1, LeastNat
  <1>3. /\ p \in 0 .. end /\ \A S : p \in S => ~Chain(S, end, leaders, followers)
        /\ \A q \in 0 .. end : q < p => \E S : q \in S /\ Chain(S, end, leaders, followers)
    BY <1>2
  <1> HIDE DEF Bad
  <1>4. CASE Same(leaders, followers, p)
    <2>1. Chain({p}, end, leaders, followers)
      BY <1>3, <1>4 DEF Chain
    <2> QED
      BY <1>3, <2>1
  <1>5. CASE ~Same(leaders, followers, p)
    <2>1. p \in 1 .. Last(leaders)
      BY <1>0, <1>3, <1>5 DEF Same, Whole
    <2>2. CASE Nexts(leaders, followers, p) = {}
      <3>1. Chain({p}, end, leaders, followers)
        BY <1>3, <2>2 DEF Chain
      <3> QED
        BY <1>3, <3>1
    <2>3. CASE Nexts(leaders, followers, p) # {}
      <3>1. PICK x \in Nexts(leaders, followers, p) :
              /\ x \in 0 .. p
              /\ x = 0 => FirstUnknown(leaders, followers)
              /\ \A y \in Nexts(leaders, followers, p) : y = x
        BY <1>5, <2>1, <2>3, NextsBelow
      <3>2. CASE x = 0
        <4>1. ~Same(leaders, followers, -1)
          BY DEF Same
        <4>2. Chain({p, -1}, end, leaders, followers)
          BY <1>0, <1>3, <1>5, <3>1, <3>2, <4>1 DEF Chain
        <4> QED
          BY <1>3, <4>2
      <3>3. CASE x # 0
        <4>1. x - 1 \in 0 .. end /\ x - 1 < p
          BY <1>0, <1>3, <3>1, <3>3
        <4>2. PICK S : x - 1 \in S /\ Chain(S, end, leaders, followers)
          BY <1>3, <4>1
        <4>3. Chain(S \cup {p}, end, leaders, followers)
          BY <1>3, <1>5, <3>1, <4>2 DEF Chain
        <4> QED
          BY <1>3, <4>3
      <3> QED
        BY <3>2, <3>3
    <2> QED
      BY <2>2, <2>3
  <1> QED
    BY <1>4, <1>5

LEMMA LogsAreWhole ==
  ASSUME Types, NEW G, Agrees(G), First(logs["leader"]) = 0, First(logs["follower"]) = 0
  PROVE  /\ Whole(logs["leader"]) /\ Whole(logs["follower"])
         /\ Last(logs["leader"]) \in Nat /\ Last(logs["follower"]) \in Nat
         /\ \A k \in 0 .. Last(logs["leader"]) : TermAt(logs["leader"], k) = G[k]
  BY LogEnds DEF Types, Peers, Agrees, LeaderIs, FollowerIs, Whole

LEMMA InitPInv == Init => PInv
  <1> SUFFICES ASSUME Init PROVE PInv
    OBVIOUS
  <1> DEFINE leaders == logs["leader"]
             followers == logs["follower"]
             end == Last(leaders)
  <1>1. leaders \in OldLogs /\ followers \in OldLogs /\ LogsMatch(leaders, followers)
    BY DEF Init, Peers
  <1>2. /\ Whole(leaders) /\ Whole(followers) /\ First(leaders) = 0 /\ First(followers) = 0
        /\ end \in Nat
        /\ \A k \in 1 .. Last(followers) : TermAt(followers, k) # MaxTerm
    <2>1. /\ IsLog(leaders) /\ First(leaders) = 0 /\ Last(leaders) \in 0 .. MaxOldLog
          /\ TermAt(leaders, 0) = 0
          /\ \A k \in 1 .. Last(leaders) : TermAt(leaders, k) \in 1 .. MaxTerm - 1
      BY <1>1, OldLogFacts
    <2>2. /\ IsLog(followers) /\ First(followers) = 0 /\ Last(followers) \in 0 .. MaxOldLog
          /\ TermAt(followers, 0) = 0
          /\ \A k \in 1 .. Last(followers) : TermAt(followers, k) \in 1 .. MaxTerm - 1
      BY <1>1, OldLogFacts
    <2> QED
      BY <2>1, <2>2, BoundsAssumption DEF Whole
  <1>3. PICK S : end \in S /\ Chain(S, end, leaders, followers)
    BY <1>1, <1>2, ChainExists
  <1>4. nextIndex - 1 = end /\ \A w \in Callers : calls[w] = NoCall
    BY <1>2 DEF Init
  <1>5. Undecided(S, end)
    BY <1>2, <1>3, <1>4 DEF Undecided, NoCall
  <1>6. BackingOff(S)
    BY <1>2, <1>3, <1>4, <1>5 DEF BackingOff, Within
  <1> QED
    BY <1>2, <1>6 DEF PInv, Lab2BInv, Init

-----------------------------------------------------------------------------
(* Each step keeps it.                                                     *)

LEMMA GoesOn ==
  ASSUME NEW S, BackingOff(S), logs' = logs, nextIndex' - 1 \in S,
         \A w \in Callers :
           \/ calls'[w] \in {calls[w], NoCall}
           \/ /\ Within(calls'[w], S, logs["leader"])
              /\ \A end \in Nat : Undecided(S, end) =>
                   /\ calls'[w].kind # "Success"
                   /\ calls'[w].kind = "AppendEntries" =>
                        end <= calls'[w].PrevLogIndex + Len(calls'[w].Entries)
  PROVE  BackingOff(S)'
  <1>1. \A w \in Callers : Within(calls'[w], S, logs["leader"])
    BY DEF BackingOff, Within
  <1>2. Decided(S) => Decided(S)'
    BY DEF Decided
  <1>3. ASSUME NEW end \in Nat, Undecided(S, end) PROVE Undecided(S, end)'
    <2>1. \A w \in Callers :
            /\ calls'[w].kind # "Success"
            /\ calls'[w].kind = "AppendEntries" =>
                 end <= calls'[w].PrevLogIndex + Len(calls'[w].Entries)
      BY <1>3 DEF Undecided, NoCall
    <2> QED
      BY <1>3, <2>1 DEF Undecided
  <1> QED
    BY <1>1, <1>2, <1>3 DEF BackingOff

LEMMA QuietKeeps ==
  ASSUME Lab2BInv, UNCHANGED <<logs, nextIndex, snapCh, panicked>>,
         \A w \in Callers : calls'[w] \in {calls[w], NoCall}
  PROVE  Lab2BInv'
  <1>1. PICK S : BackingOff(S)
    BY DEF Lab2BInv
  <1>2. nextIndex' - 1 \in S
    BY <1>1 DEF BackingOff
  <1>3. BackingOff(S)'
    BY <1>1, <1>2, GoesOn
  <1> QED
    BY <1>3 DEF Lab2BInv

LEMMA RoundKeeps ==
  ASSUME Types, NEW G, Agrees(G), Lab2BInv, build = "lab2B", ~panicked,
         NEW w \in Callers, replicateOneRound(w), UNCHANGED <<logs, nextIndex, snapCh>>
  PROVE  Lab2BInv'
  <1> DEFINE leaders == logs["leader"]
             prev    == nextIndex - 1
  <1>1. PICK S : BackingOff(S)
    BY DEF Lab2BInv
  <1>2. /\ IsLog(leaders) /\ First(leaders) = 0 /\ Last(leaders) \in Nat
        /\ prev \in S /\ prev \in -1 .. Last(leaders) /\ nextIndex' - 1 = prev
        /\ nextIndex \in Nat
    BY <1>1, LogEnds DEF Lab2BInv, BackingOff, Types, Peers, Agrees
  <1>3. CASE prev < First(leaders)
    <2>1. prev = -1
      BY <1>2, <1>3
    <2>2. PICK end \in Nat : Undecided(S, end)
      BY <1>1, <1>2, <2>1 DEF BackingOff, Decided, Same
    <2>3. FirstUnknown(leaders, logs["follower"])
      BY <1>2, <2>1, <2>2 DEF Undecided, Chain
    <2>4. calls' = calls
      BY <1>3 DEF replicateOneRound
    <2>5. BackingOff(S)'
      BY <1>1, <1>2, <2>4, GoesOn
    <2> QED
      BY <2>3, <2>5 DEF Lab2BInv
  <1>4. CASE ~(prev < First(leaders))
    <2> DEFINE rq == AppendEntriesRequest(prev)
    <2>1. /\ prev + 1 \in First(leaders) .. Last(leaders) + 1
          /\ Len(From(leaders, prev + 1)) = Last(leaders) + 1 - (prev + 1)
      BY <1>2, <1>4, FromFollows
    <2>2. /\ rq.kind = "AppendEntries" /\ rq.PrevLogIndex = prev
          /\ prev + Len(rq.Entries) = Last(leaders)
      BY <1>2, <2>1 DEF AppendEntriesRequest
    <2>3. \A v \in Callers : calls'[v] \in {calls[v], rq}
      BY <1>4 DEF replicateOneRound, Types
    <2>4. panicked' = panicked
      BY <1>4 DEF replicateOneRound
    <2> HIDE DEF rq
    <2>5. Within(rq, S, leaders) /\ rq.kind # "Success"
      BY <1>2, <2>2 DEF Within
    <2>6. \A end \in Nat : Undecided(S, end) => end <= rq.PrevLogIndex + Len(rq.Entries)
      BY <1>2, <2>2 DEF Undecided
    <2>7. BackingOff(S)'
      BY <1>1, <1>2, <2>3, <2>5, <2>6, GoesOn
    <2> QED
      BY <2>4, <2>7 DEF Lab2BInv
  <1> QED
    BY <1>3, <1>4

LEMMA RefusedKeeps ==
  ASSUME Types, NEW G, Agrees(G), Lab2BInv, ~panicked,
         NEW w \in Callers, AppendEntries(w),
         BelowFirst(w, calls[w]) \/ Mismatch(w, calls[w])
  PROVE  Lab2BInv'
  <1> DEFINE rq        == calls[w]
             prev      == rq.PrevLogIndex
             leaders   == logs["leader"]
             followers == logs["follower"]
  <1>1. PICK S : BackingOff(S)
    BY DEF Lab2BInv
  <1>2. /\ prev \in 0 .. Last(leaders) /\ rq.PrevLogTerm = G[prev] /\ prev \in S
    BY <1>1 DEF Agrees, CallOK, AppendEntries, NoCall, RequestOK, BackingOff, Within
  <1>3. /\ First(leaders) = 0 /\ First(followers) = 0
        /\ Last(leaders) \in Nat /\ Last(followers) \in Nat
        /\ \A k \in 0 .. Last(leaders) : TermAt(leaders, k) = G[k]
    BY LogsAreWhole DEF Lab2BInv
  <1>4. /\ Mismatch(w, rq)
        /\ UNCHANGED <<logs, nextIndex, snapCh, panicked>>
    BY <1>2, <1>3 DEF AppendEntries, BelowFirst, Mismatch
  <1>5. ~Same(leaders, followers, prev)
    BY <1>2, <1>3, <1>4 DEF Mismatch, Same, matchLog
  <1>6. PICK end \in Nat : Undecided(S, end)
    BY <1>1, <1>2, <1>5 DEF BackingOff, Decided
  <1>7. \A x \in Nexts(leaders, followers, prev) : x - 1 \in S
    BY <1>2, <1>5, <1>6 DEF Undecided, Chain
  <1>8. PICK rp : /\ calls' = [calls EXCEPT ![w] = rp] /\ rp.kind = "Conflict"
                  /\ BackOffs(leaders, rp.PrevLogIndex, rp.ConflictTerm, rp.ConflictIndex)
                       \subseteq Nexts(leaders, followers, prev)
    <2>1. CASE Last(followers) < prev
      <3>1. calls' = [calls EXCEPT ![w] = Conflict(rq, Last(followers) + 1, NoConflict)]
        BY <1>2, <1>3, <1>4, <2>1 DEF Mismatch, reply
      <3>2. PICK rp : rp = Conflict(rq, Last(followers) + 1, NoConflict)
        OBVIOUS
      <3>3. /\ rp.kind = "Conflict" /\ rp.PrevLogIndex = prev
            /\ rp.ConflictTerm = NoConflict /\ rp.ConflictIndex = Last(followers) + 1
        BY <3>2 DEF Conflict
      <3>4. Nexts(leaders, followers, prev) = BackOffs(leaders, prev, NoConflict, Last(followers) + 1)
        BY <2>1 DEF Nexts
      <3> QED
        BY <3>1, <3>2, <3>3, <3>4
    <2>2. CASE ~(Last(followers) < prev)
      <3>1. PICK i \in ConflictIndexes(followers, prev) :
              calls' = [calls EXCEPT ![w] = Conflict(rq, i, TermAt(followers, prev))]
        BY <1>2, <1>3, <1>4, <2>2 DEF Mismatch, reply
      <3>2. PICK rp : rp = Conflict(rq, i, TermAt(followers, prev))
        OBVIOUS
      <3>3. /\ rp.kind = "Conflict" /\ rp.PrevLogIndex = prev
            /\ rp.ConflictTerm = TermAt(followers, prev) /\ rp.ConflictIndex = i
        BY <3>2 DEF Conflict
      <3>4. BackOffs(leaders, prev, TermAt(followers, prev), i) \subseteq Nexts(leaders, followers, prev)
        BY <2>2 DEF Nexts
      <3> QED
        BY <3>1, <3>2, <3>3, <3>4
    <2> QED
      BY <2>1, <2>2
  <1>9. Within(rp, S, leaders)
    BY <1>7, <1>8 DEF Within
  <1>10. \A v \in Callers : calls'[v] \in {calls[v], rp}
    BY <1>8 DEF Types
  <1>11. nextIndex' - 1 \in S
    BY <1>1, <1>4 DEF BackingOff
  <1>12. BackingOff(S)'
    BY <1>1, <1>4, <1>8, <1>9, <1>10, <1>11, GoesOn
  <1> QED
    BY <1>4, <1>12 DEF Lab2BInv

LEMMA AnswerKeeps ==
  ASSUME Types, NEW G, Agrees(G), Lab2BInv, ~panicked,
         NEW w \in Callers, HandleAppendEntriesResponse(w)
  PROVE  Lab2BInv'
  <1> DEFINE rp == calls[w]
  <1>1. PICK S : BackingOff(S)
    BY DEF Lab2BInv
  <1>2. /\ UNCHANGED <<logs, snapCh, panicked>> /\ calls' = [calls EXCEPT ![w] = NoCall]
        /\ HandleSuccess(rp) \/ HandleConflict(rp)
    BY DEF HandleAppendEntriesResponse
  <1>3. nextIndex' - 1 \in S
    <2>1. CASE HandleSuccess(rp)
      <3>1. rp.Match \in Int /\ rp.Match \in S
        BY <1>1, <2>1 DEF HandleSuccess, Agrees, CallOK, Acked, NoCall, BackingOff, Within
      <3>2. nextIndex' = rp.Match + 1
        BY <2>1 DEF HandleSuccess
      <3> QED
        BY <3>1, <3>2
    <2>2. CASE HandleConflict(rp)
      BY <1>1, <2>2 DEF HandleConflict, NoCall, BackingOff, Within
    <2> QED
      BY <1>2, <2>1, <2>2
  <1>4. \A v \in Callers : calls'[v] \in {calls[v], NoCall}
    BY <1>2 DEF Types
  <1>5. BackingOff(S)'
    BY <1>1, <1>2, <1>3, <1>4, GoesOn
  <1> QED
    BY <1>2, <1>5 DEF Lab2BInv

LEMMA MatchKeeps ==
  ASSUME Types, NEW G, Agrees(G), Lab2BInv, ~panicked,
         NEW w \in Callers, AppendEntries(w), Match(w, calls[w])
  PROVE  Lab2BInv'
  <1> DEFINE rq      == calls[w]
             log     == logs["follower"]
             leaders == logs["leader"]
             last    == Last(leaders)
             commit  == commitIndex["leader"]
             end     == rq.PrevLogIndex + Len(rq.Entries)
  <1>1. PICK S : BackingOff(S)
    BY DEF Lab2BInv
  <1>2. /\ First(leaders) = 0 /\ First(log) = 0 /\ last \in Nat /\ Last(log) \in Nat
        /\ \A k \in 0 .. last : TermAt(leaders, k) = G[k]
    BY LogsAreWhole DEF Lab2BInv
  <1>3. /\ IsLog(log) /\ FollowerIs(G, log, last) /\ commit \in Nat
        /\ \A j \in 0 .. last : G[j] \in 0 .. MaxTerm /\ (G[j] = 0 <=> j = 0)
    BY DEF Types, Peers, Agrees, LeaderIs
  <1>4. RequestOK(G, rq, last, commit) /\ rq.PrevLogIndex \in S
    BY <1>1 DEF Agrees, CallOK, AppendEntries, NoCall, BackingOff, Within
  <1>5. /\ rq.PrevLogIndex >= First(log) /\ matchLog(log, rq.PrevLogTerm, rq.PrevLogIndex)
        /\ calls' = [calls EXCEPT ![w] = Success(rq)]
        /\ UNCHANGED <<nextIndex, snapCh, panicked>>
    BY DEF AppendEntries, Match, reply
  <1>6. PICK k \in FirstLacking(log, rq.Entries) :
          logs' = [logs EXCEPT !["follower"] = Merge(log, rq.Entries, k)]
    BY DEF Match
  <1>7. PICK new : new = Merge(log, rq.Entries, k)
    OBVIOUS
  <1>8. /\ First(new) = First(log) /\ IsLog(new)
        /\ end \in First(log) .. Last(new) /\ end <= last
        /\ \A j \in First(log) .. end : TermAt(new, j) = G[j]
        /\ \A m \in First(log) .. Last(log) :
             m <= last /\ TermAt(log, m) = G[m] => m <= Last(new) /\ TermAt(new, m) = G[m]
    <2>1. Merging(G, log, last, commit, rq, k, new, end)
      BY <1>2, <1>3, <1>4, <1>5, <1>7 DEF Merging
    <2> HIDE DEF rq, log, last, commit, end
    <2> QED
      BY <2>1, Merged
  <1>9. logs'["leader"] = leaders /\ logs'["follower"] = new
    BY <1>6, <1>7 DEF Types, Peers
  <1>10. Last(new) \in Nat
    BY <1>8, LogEnds
  <1>11. \A j \in 0 .. end : Same(leaders, new, j)
    BY <1>2, <1>8, <1>10 DEF Same
  <1>12. ASSUME NEW j \in S PROVE Same(leaders, new, j)
    <2>1. CASE Decided(S)
      <3>1. Same(leaders, log, j)
        BY <2>1 DEF Decided
      <3> QED
        BY <1>2, <1>8, <3>1 DEF Same
    <2>2. CASE ~Decided(S)
      <3>1. PICK upto \in Nat : Undecided(S, upto)
        BY <1>1, <2>2 DEF BackingOff
      <3>2. Same(leaders, log, rq.PrevLogIndex)
        BY <1>2, <1>4, <1>5 DEF Same, RequestOK, matchLog
      <3>3. j # -1 /\ j \in -1 .. upto
        BY <1>4, <3>1, <3>2 DEF Undecided, Chain
      <3>4. upto <= end
        BY <3>1 DEF Undecided, AppendEntries
      <3> QED
        BY <1>8, <1>10, <1>11, <3>3, <3>4
    <2> QED
      BY <2>1, <2>2
  <1>13. PICK T : T = S \cup {end}
    OBVIOUS
  <1>14. Decided(T)'
    <2>1. end \in 0 .. end
      BY <1>2, <1>8
    <2> QED
      BY <1>9, <1>11, <1>12, <1>13, <2>1 DEF Decided
  <1>15. ASSUME NEW v \in Callers PROVE Within(calls'[v], T, leaders)
    <2>1. Within(calls[v], T, leaders)
      BY <1>1, <1>13 DEF BackingOff, Within
    <2>2. Within(Success(rq), T, leaders)
      BY <1>13 DEF Within, Success
    <2>3. calls'[v] \in {calls[v], Success(rq)}
      BY <1>5 DEF Types
    <2> QED
      BY <2>1, <2>2, <2>3
  <1>16. BackingOff(T)'
    <2>1. nextIndex' - 1 \in T
      BY <1>1, <1>5, <1>13 DEF BackingOff
    <2> QED
      BY <1>9, <1>14, <1>15, <2>1 DEF BackingOff
  <1> QED
    BY <1>2, <1>5, <1>8, <1>9, <1>16 DEF Lab2BInv

(* The leader's log grows above what has been asked about.                 *)
LEMMA BackOffsStay ==
  ASSUME NEW old, NEW new, First(old) = 0, First(new) = 0, Last(old) \in Nat,
         \A k \in 0 .. Last(old) : TermAt(new, k) = TermAt(old, k),
         NEW prev \in 0 .. Last(old), NEW term, NEW index
  PROVE  BackOffs(new, prev, term, index) = BackOffs(old, prev, term, index)
  <1> DEFINE in(log) == { k \in First(log) .. prev : TermAt(log, k) = term }
  <1>1. in(new) = in(old)
    OBVIOUS
  <1>2. /\ BackOffs(new, prev, term, index) =
             (IF term = NoConflict \/ in(new) = {} THEN {index}
              ELSE { k + 1 : k \in { k \in in(new) : \A j \in in(new) : j <= k } })
        /\ BackOffs(old, prev, term, index) =
             (IF term = NoConflict \/ in(old) = {} THEN {index}
              ELSE { k + 1 : k \in { k \in in(old) : \A j \in in(old) : j <= k } })
    BY DEF BackOffs
  <1> QED
    BY <1>1, <1>2

LEMMA ChainStays ==
  ASSUME NEW old, NEW new, First(old) = 0, First(new) = 0,
         Last(old) \in Nat, Last(new) = Last(old) + 1,
         \A k \in 0 .. Last(old) : TermAt(new, k) = TermAt(old, k),
         TermAt(new, Last(old) + 1) = MaxTerm,
         NEW followers, Last(followers) \in Nat,
         \A k \in 1 .. Last(followers) : TermAt(followers, k) # MaxTerm,
         NEW end \in 0 .. Last(old), NEW S, Chain(S, end, old, followers)
  PROVE  Chain(S, end, new, followers)
  <1>1. \A p \in -1 .. end : Same(new, followers, p) <=> Same(old, followers, p)
    BY DEF Same
  <1>2. ASSUME NEW p \in 0 .. end
        PROVE  Nexts(new, followers, p) = Nexts(old, followers, p)
    <2>1. \A term, index : BackOffs(new, p, term, index) = BackOffs(old, p, term, index)
      BY <1>2, BackOffsStay
    <2> QED
      BY <2>1 DEF Nexts
  <1>3. FirstUnknown(old, followers) => FirstUnknown(new, followers)
    BY DEF FirstUnknown
  <1>4. S \subseteq -1 .. end
    BY DEF Chain
  <1>5. ASSUME NEW p \in S
        PROVE  \/ p = -1 \/ Same(new, followers, p)
               \/ \A x \in Nexts(new, followers, p) : x - 1 \in S
    <2>1. p = -1 \/ p \in 0 .. end
      BY <1>4
    <2> QED
      BY <1>1, <1>2, <2>1 DEF Chain
  <1> QED
    BY <1>1, <1>3, <1>4, <1>5 DEF Chain

LEMMA StartKeeps ==
  ASSUME Types, NEW G, Agrees(G), Lab2BInv, ~panicked, Start
  PROVE  Lab2BInv'
  <1> DEFINE leaders == logs["leader"]
             log     == logs["follower"]
             last    == Last(leaders)
  <1>1. PICK S : BackingOff(S)
    BY DEF Lab2BInv
  <1>2. /\ First(leaders) = 0 /\ First(log) = 0 /\ last \in Nat /\ Last(log) \in Nat
        /\ IsLog(leaders)
    BY LogsAreWhole DEF Lab2BInv, Types, Peers
  <1>3. PICK new : new = Append(leaders, [Index |-> last + 1, Term |-> MaxTerm])
    OBVIOUS
  <1>4. /\ logs'["leader"] = new /\ logs'["follower"] = log
        /\ UNCHANGED <<nextIndex, calls, snapCh, panicked>>
    BY <1>3 DEF Start, Types, Peers
  <1>5. /\ First(new) = 0 /\ Last(new) = last + 1
        /\ \A k \in 0 .. last : TermAt(new, k) = TermAt(leaders, k)
        /\ TermAt(new, last + 1) = MaxTerm
    BY <1>2, <1>3, AppendIsLog, BoundsAssumption
  <1>6. ASSUME NEW w \in Callers PROVE Within(calls[w], S, new)
    <2>1. Within(calls[w], S, leaders)
      BY <1>1 DEF BackingOff
    <2>2. CASE calls[w].kind = "Conflict"
      <3> DEFINE c == calls[w]
      <3>1. c.PrevLogIndex \in 0 .. last
        BY <2>2 DEF Agrees, CallOK, NoCall
      <3>2. BackOffs(new, c.PrevLogIndex, c.ConflictTerm, c.ConflictIndex)
              = BackOffs(leaders, c.PrevLogIndex, c.ConflictTerm, c.ConflictIndex)
        <4> HIDE DEF leaders, c
        <4> QED
          BY <1>2, <1>5, <3>1, BackOffsStay DEF last
      <3> QED
        BY <2>1, <2>2, <3>2 DEF Within, NoCall
    <2>3. CASE calls[w].kind # "Conflict"
      BY <2>1, <2>3 DEF Within
    <2> QED
      BY <2>2, <2>3
  <1>7. Decided(S) => Decided(S)'
    BY <1>2, <1>4, <1>5 DEF Decided, Same
  <1>8. ASSUME NEW end \in Nat, Undecided(S, end) PROVE Undecided(S, end)'
    <2>1. /\ end \in 0 .. last /\ Chain(S, end, leaders, log)
          /\ \A k \in 1 .. Last(log) : TermAt(log, k) # MaxTerm
      BY <1>8 DEF Undecided
    <2>2. Chain(S, end, new, log)
      <3> HIDE DEF leaders, log
      <3> QED
        BY <1>2, <1>5, <2>1, ChainStays DEF last
    <2>3. end \in 0 .. Last(new)
      BY <1>2, <1>5, <2>1
    <2> QED
      BY <1>4, <1>8, <2>1, <2>2, <2>3 DEF Undecided
  <1>9. BackingOff(S)'
    BY <1>1, <1>4, <1>6, <1>7, <1>8 DEF BackingOff
  <1> QED
    BY <1>2, <1>4, <1>5, <1>9 DEF Lab2BInv

(* Lab 2B takes no snapshots.                                              *)
LEMMA NoSnapshotSteps ==
  ASSUME Lab2BInv, build = "lab2B"
  PROVE  /\ \A w \in Callers : ~InstallSnapshot(w) /\ ~HandleInstallSnapshotResponse(w)
         /\ \A entry \in snapCh : ~CondInstallSnapshot(entry)
         /\ \A p \in Peers : \A index \in Nat : ~Snapshot(p, index)
  <1>1. PICK S : \A w \in Callers : Within(calls[w], S, logs["leader"])
    BY DEF Lab2BInv, BackingOff
  <1> QED
    BY <1>1 DEF Lab2BInv, Within, NoCall, InstallSnapshot, HandleInstallSnapshotResponse, Snapshot

LEMMA Lab2BKeeps ==
  ASSUME RInv, Lab2BInv, build = "lab2B", [Next]_vars
  PROVE  Lab2BInv'
  <1>1. PICK G \in [Nat -> Nat] : Agrees(G)
    BY DEF RInv
  <1>2. Types
    BY DEF RInv
  <1>3. CASE UNCHANGED vars
    BY <1>3, QuietKeeps DEF vars
  <1>4. CASE Next
    <2>0. ~panicked
      BY <1>4 DEF Next
    <2>1. CASE Start
      BY <1>1, <1>2, <2>0, <2>1, StartKeeps
    <2>2. CASE \E h \in Heartbeats : Heartbeat(h)
      <3>1. PICK h \in Heartbeats : Heartbeat(h)
        BY <2>2
      <3>2. h \in Callers /\ replicateOneRound(h) /\ UNCHANGED <<logs, nextIndex, snapCh>>
        BY <3>1 DEF Heartbeat, Callers
      <3> QED
        BY <1>1, <1>2, <2>0, <3>2, RoundKeeps
    <2>3. CASE replicatorSteps
      <3>1. CASE replicatorSends
        <4>1. /\ "replicator" \in Callers /\ replicateOneRound("replicator")
              /\ UNCHANGED <<logs, nextIndex, snapCh>>
          BY <3>1 DEF replicatorSends, replicatorGoes, Callers
        <4> QED
          BY <1>1, <1>2, <2>0, <4>1, RoundKeeps
      <3>2. CASE replicatorLoop \/ replicatorAsks \/ replicatorWaits
        <4>1. UNCHANGED <<logs, nextIndex, snapCh, panicked, calls>>
          BY <3>2 DEF replicatorLoop, replicatorAsks, replicatorWaits, replicatorGoes
        <4> QED
          BY <4>1, QuietKeeps
      <3> QED
        BY <2>3, <3>1, <3>2 DEF replicatorSteps
    <2>4. CASE tickerEnds \/ Kill \/ OtherAnswers
      <3>1. UNCHANGED <<logs, nextIndex, snapCh, panicked, calls>>
        BY <2>4 DEF tickerEnds, Kill, OtherAnswers
      <3> QED
        BY <3>1, QuietKeeps
    <2>5. CASE \E w \in Callers : Lose(w)
      <3>1. PICK w \in Callers : Lose(w)
        BY <2>5
      <3>2. /\ UNCHANGED <<logs, nextIndex, snapCh, panicked>>
            /\ \A v \in Callers : calls'[v] \in {calls[v], NoCall}
        BY <1>2, <3>1 DEF Lose, Types
      <3> QED
        BY <3>2, QuietKeeps
    <2>6. CASE \E w \in Callers : AppendEntries(w)
      <3>1. PICK w \in Callers : AppendEntries(w)
        BY <2>6
      <3>2. BelowFirst(w, calls[w]) \/ Mismatch(w, calls[w]) \/ Match(w, calls[w])
        BY <3>1 DEF AppendEntries
      <3> QED
        BY <1>1, <1>2, <2>0, <3>1, <3>2, RefusedKeeps, MatchKeeps
    <2>7. CASE \E w \in Callers : HandleAppendEntriesResponse(w)
      BY <1>1, <1>2, <2>0, <2>7, AnswerKeeps
    <2>8. \A p \in Peers : \A index \in 1 .. Smaller(commitIndex[p], MaxSnapshotIndex) :
            ~Snapshot(p, index)
      BY NoSnapshotSteps
    <2> QED
      BY <1>4, <2>1, <2>2, <2>3, <2>4, <2>5, <2>6, <2>7, <2>8, NoSnapshotSteps DEF Next
  <1> QED
    BY <1>3, <1>4

(* The leader of lab 2C+D has an answer to every nextIndex.                *)
LEMMA OtherBuildStays ==
  ASSUME [Next]_vars
  PROVE  build' = build /\ (build = "lab2B" \/ panicked' = panicked)
  <1>1. \A w \in Callers : replicateOneRound(w) => build = "lab2B" \/ panicked' = panicked
    BY DEF replicateOneRound
  <1>2. CASE UNCHANGED vars
    BY <1>2 DEF vars
  <1>3. CASE Start \/ tickerEnds \/ OtherAnswers \/ Kill
    BY <1>3 DEF Start, tickerEnds, OtherAnswers, Kill
  <1>4. CASE replicatorSteps \/ \E h \in Heartbeats : Heartbeat(h)
    BY <1>1, <1>4 DEF replicatorSteps, replicatorLoop, replicatorAsks, replicatorWaits,
                      replicatorSends, replicatorGoes, Heartbeat, Callers
  <1>5. CASE \E w \in Callers : AppendEntries(w) \/ InstallSnapshot(w) \/ Lose(w)
    BY <1>5 DEF AppendEntries, InstallSnapshot, Lose
  <1>6. CASE \E w \in Callers : HandleAppendEntriesResponse(w) \/ HandleInstallSnapshotResponse(w)
    BY <1>6 DEF HandleAppendEntriesResponse, HandleInstallSnapshotResponse
  <1>7. CASE \E last \in snapCh : CondInstallSnapshot(last)
    BY <1>7 DEF CondInstallSnapshot
  <1>8. CASE \E p \in Peers : \E index \in 1 .. Smaller(commitIndex[p], MaxSnapshotIndex) :
               Snapshot(p, index)
    BY <1>8 DEF Snapshot
  <1> QED
    BY <1>2, <1>3, <1>4, <1>5, <1>6, <1>7, <1>8 DEF Next

(* genAppendEntriesRequest of lab 2B indexes rf.logs at -1 only when the   *)
(* follower's first entry conflicts and has a term the leader does not     *)
(* know: ConflictIndex is then 0.  Replies that come late, from heartbeats *)
(* beside the replicator, add no other way, and lab 2C+D, which sends a    *)
(* snapshot, has none.                                                     *)
THEOREM FirstConflictOnly == Spec => []PanicsOnlyOnFirstConflict
  <1>1. RInv /\ PInv /\ [Next]_vars => PInv'
    BY Lab2BKeeps, OtherBuildStays DEF PInv
  <1>2. PInv => PanicsOnlyOnFirstConflict
    BY DEF PInv, Lab2BInv, FirstUnknown, PanicsOnlyOnFirstConflict
  <1> QED
    BY <1>1, <1>2, InitPInv, ReplicationInvariant, PTL DEF Spec

=============================================================================
