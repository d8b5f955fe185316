----------------------------- MODULE Replication -----------------------------
(***************************************************************************)
(* How a leader brings one follower up to date within its term: the        *)
(* replicator goroutine with its condition variable, the heartbeats beside *)
(* it, and the back-off after a mismatch.  Of the third peer of the        *)
(* cluster only its answers are here: with it the leader may commit, and   *)
(* trim its log, while the follower lags.                                  *)
(*                                                                         *)
(* Two builds of the repository do this: lab 2B (lab2B/raft.go,            *)
(* raftwork.go, rpc.go), which knows no snapshots, and lab 2C+D, which     *)
(* copies its code and adds them.  Terms do not change here: a request is  *)
(* never stale, and every reply is of the leader's term.                   *)
(***************************************************************************)
EXTENDS RaftLog

CONSTANTS Builds,        \* those of "lab2B", "lab2CD" that may run
          Heartbeats,    \* bound: heartbeat goroutines at a time
          MaxTerm,       \* the term of the leader
          MaxLogIndex,   \* bound: the last index Start appends
          MaxOldLog,     \* bound: the last index of a log at the election
          MaxSnapshotIndex

ASSUME BuildsAssumption == Builds \subseteq {"lab2B", "lab2CD"}
ASSUME BoundsAssumption ==
  /\ MaxTerm \in Nat \ {0}
  /\ MaxLogIndex \in Nat /\ MaxOldLog \in 0 .. MaxLogIndex
  /\ MaxSnapshotIndex \in Nat
  /\ "replicator" \notin Heartbeats

Peers   == {"leader", "follower"}
Callers == {"replicator"} \cup Heartbeats

VARIABLES build,
          logs,
          commitIndex,
          nextIndex,     \* of the leader, for the follower
          matchIndex,
          otherMatch,    \* matchIndex for the third peer
          snapCh,        \* snapshots that wait for the follower's service
          replicator,    \* where the replicator is
          calls,         \* of a caller: none, its request, or what the reply tells it
          heartbeats,    \* does the ticker go on?
          killed,        \* Kill has been called on the leader
          panicked       \* the leader's process has died of an index

Larger(a, b) == IF a > b THEN a ELSE b
Smaller(a, b) == IF a < b THEN a ELSE b

vars == <<build, logs, commitIndex, nextIndex, matchIndex, otherMatch, snapCh,
          replicator, calls, heartbeats, killed, panicked>>

Places == { "loop", "asks", "refused", "waits", "sends", "ended" }

NoCall == [kind |-> "none"]

-----------------------------------------------------------------------------
(* Init: an elected leader and a follower that have restarted before they  *)
(* took a snapshot, with logs of earlier terms that may conflict.          *)

OldTerms(n) ==
  { ts \in [1 .. n -> 1 .. MaxTerm - 1] : \A k \in 1 .. n - 1 : ts[k] <= ts[k + 1] }

OldLogs ==
  { EmptyLog \o [k \in 1 .. Len(ts) |-> [Index |-> k, Term |-> ts[k]]] :
      ts \in UNION { OldTerms(n) : n \in 0 .. MaxOldLog } }

(* Log matching: an entry of one term makes one of what is before it.      *)
LogsMatch(a, b) ==
  \A j \in 1 .. Last(a), k \in 1 .. Last(b) :
     TermAt(a, j) = TermAt(b, k) =>
       \A i \in 1 .. Smaller(j, k) : TermAt(a, i) = TermAt(b, i)

Init ==
  /\ build \in Builds
  /\ logs \in [Peers -> OldLogs]
  /\ LogsMatch(logs["leader"], logs["follower"])
  /\ commitIndex = [p \in Peers |-> 0]
  /\ nextIndex = Last(logs["leader"]) + 1
  /\ matchIndex = 0
  /\ otherMatch = 0
  /\ snapCh = {}
  /\ replicator = "waits"      \* an election signals nobody
  /\ calls = [w \in Callers |-> NoCall]
  /\ heartbeats = TRUE
  /\ killed = FALSE
  /\ panicked = FALSE

-----------------------------------------------------------------------------
(* The leader: appending, and what a caller sends.                         *)

(* Signal wakes a goroutine that waits, and is lost on any other.          *)
Signal(place) == IF place = "waits" THEN "asks" ELSE place

Start ==
  /\ Last(logs["leader"]) < MaxLogIndex
  /\ logs' = [logs EXCEPT !["leader"] =
                Append(@, [Index |-> Last(@) + 1, Term |-> MaxTerm])]
  /\ replicator' = Signal(replicator)
  /\ UNCHANGED <<build, commitIndex, nextIndex, matchIndex, otherMatch, snapCh, calls,
                 heartbeats, killed, panicked>>

AppendEntriesRequest(prev) ==
  [kind |-> "AppendEntries", PrevLogIndex |-> prev,
   PrevLogTerm |-> TermAt(logs["leader"], prev),
   Entries |-> From(logs["leader"], prev + 1),
   LeaderCommit |-> commitIndex["leader"]]

InstallSnapshotRequest ==
  [kind |-> "InstallSnapshot", LastIncluded |-> getFirstLog(logs["leader"])]

(* replicateOneRound: lab 2B has no answer to a follower below the log.    *)
replicateOneRound_EmptyHeartbeats(w) ==  \* mutant: a heartbeat carries no entries
  LET prev == nextIndex - 1
      rq == IF prev < First(logs["leader"]) THEN InstallSnapshotRequest
            ELSE IF w = "replicator" THEN AppendEntriesRequest(prev)
            ELSE [AppendEntriesRequest(prev) EXCEPT !.Entries = << >>]
  IN  calls' = [calls EXCEPT ![w] = rq] /\ UNCHANGED panicked
replicateOneRound_Unchecked(w) ==  \* mutant: an index before the log, in any build
  IF nextIndex - 1 < First(logs["leader"])
  THEN panicked' = TRUE /\ UNCHANGED calls
  ELSE calls' = [calls EXCEPT ![w] = AppendEntriesRequest(nextIndex - 1)] /\ UNCHANGED panicked
replicateOneRound(w) ==
  LET prev == nextIndex - 1
  IN  IF prev < First(logs["leader"])
      THEN IF build = "lab2B" THEN panicked' = TRUE /\ UNCHANGED calls
           ELSE calls' = [calls EXCEPT ![w] = InstallSnapshotRequest] /\ UNCHANGED panicked
      ELSE calls' = [calls EXCEPT ![w] = AppendEntriesRequest(prev)] /\ UNCHANGED panicked

(* The ticker starts a goroutine per heartbeat, the first one when the     *)
(* leader is elected.                                                      *)
Heartbeat(h) ==
  /\ heartbeats
  /\ calls[h] = NoCall
  /\ replicateOneRound(h)
  /\ UNCHANGED <<build, logs, commitIndex, nextIndex, matchIndex, otherMatch, snapCh, replicator,
                 heartbeats, killed>>

(* After Kill the ticker may serve its timers once more before it looks.   *)
tickerEnds ==
  /\ killed /\ heartbeats
  /\ heartbeats' = FALSE
  /\ UNCHANGED <<build, logs, commitIndex, nextIndex, matchIndex, otherMatch, snapCh, replicator,
                 calls, killed, panicked>>

(***************************************************************************)
(* The replicator.  needReplicating takes rf.mu and gives it back before   *)
(* Wait: between the two a Signal finds nobody, and as Start does not take *)
(* replicatorCond.L it may well come there.                                *)
(***************************************************************************)
needReplicating == matchIndex < Last(logs["leader"])

replicatorGoes(to) ==
  /\ replicator' = to
  /\ UNCHANGED <<build, logs, commitIndex, nextIndex, matchIndex, otherMatch, snapCh,
                 heartbeats, killed>>

replicatorLoop_Forever ==  \* mutant: killed() is not looked at
  replicator = "loop" /\ replicatorGoes("asks") /\ UNCHANGED <<calls, panicked>>
replicatorLoop ==
  /\ replicator = "loop"
  /\ replicatorGoes(IF killed THEN "ended" ELSE "asks")
  /\ UNCHANGED <<calls, panicked>>

replicatorAsks ==
  /\ replicator = "asks"
  /\ replicatorGoes(IF needReplicating THEN "sends" ELSE "refused")
  /\ UNCHANGED <<calls, panicked>>

replicatorWaits ==
  /\ replicator = "refused"
  /\ replicatorGoes("waits")
  /\ UNCHANGED <<calls, panicked>>

replicatorSends ==
  /\ replicator = "sends" /\ calls["replicator"] = NoCall
  /\ replicateOneRound("replicator")
  /\ replicatorGoes("sends")

(* Where the caller goes on after its call.                                *)
returns(w) == replicator' = IF w = "replicator" THEN "loop" ELSE replicator

-----------------------------------------------------------------------------
(* The follower.                                                           *)

reply(w, rp) == calls' = [calls EXCEPT ![w] = rp]

(* A reply, with what handleAppendEntriesResponse still reads of the       *)
(* request: PrevLogIndex and, of the entries, how far they go.             *)
Success(rq) == [kind |-> "Success", Match |-> rq.PrevLogIndex + Len(rq.Entries)]
Conflict(rq, index, term) ==
  [kind |-> "Conflict", PrevLogIndex |-> rq.PrevLogIndex,
   ConflictIndex |-> index, ConflictTerm |-> term]

(* The fields of a response that are not set stay 0.                       *)
BelowFirst(w, rq) ==
  /\ rq.PrevLogIndex < First(logs["follower"])
  /\ reply(w, Conflict(rq, 0, 0))
  /\ UNCHANGED <<logs, commitIndex>>

Mismatch(w, rq) ==
  LET log == logs["follower"]
  IN  /\ rq.PrevLogIndex >= First(log)
      /\ ~matchLog(log, rq.PrevLogTerm, rq.PrevLogIndex)
      /\ \/ /\ Last(log) < rq.PrevLogIndex
            /\ reply(w, Conflict(rq, Last(log) + 1, NoConflict))
         \/ /\ Last(log) >= rq.PrevLogIndex
            /\ \E index \in ConflictIndexes(log, rq.PrevLogIndex) :
                 reply(w, Conflict(rq, index, TermAt(log, rq.PrevLogIndex)))
      /\ UNCHANGED <<logs, commitIndex>>

advanceCommitIndexForFollower(log, leaderCommit) ==
  commitIndex' = [commitIndex EXCEPT !["follower"] = Larger(@, Smaller(leaderCommit, Last(log)))]

Match(w, rq) ==
  LET log == logs["follower"]
  IN  /\ rq.PrevLogIndex >= First(log)
      /\ matchLog(log, rq.PrevLogTerm, rq.PrevLogIndex)
      /\ \E k \in FirstLacking(log, rq.Entries) :
           /\ logs' = [logs EXCEPT !["follower"] = Merge(log, rq.Entries, k)]
           /\ advanceCommitIndexForFollower(logs'["follower"], rq.LeaderCommit)
      /\ reply(w, Success(rq))

AppendEntries(w) ==
  /\ calls[w].kind = "AppendEntries"
  /\ BelowFirst(w, calls[w]) \/ Mismatch(w, calls[w]) \/ Match(w, calls[w])
  /\ UNCHANGED <<build, nextIndex, matchIndex, otherMatch, snapCh, replicator, heartbeats,
                 killed, panicked>>

(* A snapshot that is news is left with a goroutine for the service.       *)
InstallSnapshot(w) ==
  /\ calls[w].kind = "InstallSnapshot"
  /\ LET last == calls[w].LastIncluded
     IN  /\ snapCh' = IF last.Index <= commitIndex["follower"] THEN snapCh
                      ELSE snapCh \cup {last}
         /\ reply(w, [kind |-> "Received", LastIncludedIndex |-> last.Index])
  /\ UNCHANGED <<build, logs, commitIndex, nextIndex, matchIndex, otherMatch, replicator,
                 heartbeats, killed, panicked>>

-----------------------------------------------------------------------------
(* The leader takes a reply.                                               *)

(* The middle one of what three peers have; the leader has what it has     *)
(* appended itself, as ChangeState sets its own matchIndex to 0 as well.   *)
ownMatch(log) == IF getLastLog(log).Term = MaxTerm THEN Last(log) ELSE 0

Middle(a, b, c) == Larger(Smaller(a, b), Smaller(Larger(a, b), c))

advanceCommitIndexForLeader(match, other) ==
  LET log == logs["leader"]
      new == Middle(ownMatch(log), match, other)
  IN  commitIndex' = [commitIndex EXCEPT !["leader"] =
                        IF new > @ /\ matchLog(log, MaxTerm, new) THEN new ELSE @]

HandleSuccess_WholeLog(rp) ==  \* mutant: what the log holds now, not what was sent
  /\ rp.kind = "Success"
  /\ matchIndex' = Last(logs["leader"])
  /\ nextIndex' = matchIndex' + 1
  /\ advanceCommitIndexForLeader(matchIndex', otherMatch)
HandleSuccess(rp) ==
  /\ rp.kind = "Success"
  /\ matchIndex' = rp.Match
  /\ nextIndex' = matchIndex' + 1
  /\ advanceCommitIndexForLeader(matchIndex', otherMatch)

HandleConflict(rp) ==
  /\ rp.kind = "Conflict"
  /\ \E index \in BackOffs(logs["leader"], rp.PrevLogIndex, rp.ConflictTerm, rp.ConflictIndex) :
       nextIndex' = index
  /\ UNCHANGED <<matchIndex, commitIndex>>

HandleAppendEntriesResponse(w) ==
  /\ HandleSuccess(calls[w]) \/ HandleConflict(calls[w])
  /\ calls' = [calls EXCEPT ![w] = NoCall]
  /\ returns(w)
  /\ UNCHANGED <<build, logs, otherMatch, snapCh, heartbeats, killed, panicked>>

HandleInstallSnapshotResponse_MatchOnly(w) ==  \* mutant: nextIndex stays
  /\ calls[w].kind = "Received"
  /\ matchIndex' = calls[w].LastIncludedIndex
  /\ calls' = [calls EXCEPT ![w] = NoCall]
  /\ returns(w)
  /\ UNCHANGED <<build, logs, commitIndex, nextIndex, otherMatch, snapCh, heartbeats, killed,
                 panicked>>
HandleInstallSnapshotResponse(w) ==
  /\ calls[w].kind = "Received"
  /\ matchIndex' = calls[w].LastIncludedIndex
  /\ nextIndex' = matchIndex' + 1
  /\ calls' = [calls EXCEPT ![w] = NoCall]
  /\ returns(w)
  /\ UNCHANGED <<build, logs, commitIndex, otherMatch, snapCh, heartbeats, killed, panicked>>

(* labrpc drops the request or the reply: Call returns false.              *)
Lose(w) ==
  /\ calls[w] # NoCall
  /\ calls' = [calls EXCEPT ![w] = NoCall]
  /\ returns(w)
  /\ UNCHANGED <<build, logs, commitIndex, nextIndex, matchIndex, otherMatch, snapCh,
                 heartbeats, killed, panicked>>

(* An answer of the third peer, which has what it was sent.                *)
OtherAnswers ==
  /\ otherMatch' \in otherMatch + 1 .. Last(logs["leader"])
  /\ advanceCommitIndexForLeader(matchIndex, otherMatch')
  /\ UNCHANGED <<build, logs, nextIndex, matchIndex, snapCh, replicator, calls,
                 heartbeats, killed, panicked>>

-----------------------------------------------------------------------------
(* The services, in the build with snapshots.                              *)

(* The service asks whether to take the snapshot, and does if so.          *)
CondInstallSnapshot(last) ==
  /\ last \in snapCh
  /\ snapCh' = snapCh \ {last}
  /\ IF last.Index <= commitIndex["follower"]
     THEN UNCHANGED <<logs, commitIndex>>
     ELSE /\ logs' = [logs EXCEPT !["follower"] = Trimmed(@, last.Index, last.Term)]
          /\ commitIndex' = [commitIndex EXCEPT !["follower"] = last.Index]
  /\ UNCHANGED <<build, nextIndex, matchIndex, otherMatch, replicator, calls, heartbeats,
                 killed, panicked>>

(* A service trims the log at an entry it has applied.                     *)
Snapshot(p, index) ==
  /\ build = "lab2CD"
  /\ index > First(logs[p])
  /\ logs' = [logs EXCEPT ![p] = Trimmed(@, index, TermAt(@, index))]
  /\ UNCHANGED <<build, commitIndex, nextIndex, matchIndex, otherMatch, snapCh, replicator,
                 calls, heartbeats, killed, panicked>>

Kill ==
  /\ ~killed
  /\ killed' = TRUE
  /\ UNCHANGED <<build, logs, commitIndex, nextIndex, matchIndex, otherMatch, snapCh,
                 replicator, calls, heartbeats, panicked>>

replicatorSteps == replicatorLoop \/ replicatorAsks \/ replicatorWaits \/ replicatorSends

Next ==
  /\ ~panicked
  /\ \/ Start
     \/ \E h \in Heartbeats : Heartbeat(h)
     \/ tickerEnds
     \/ replicatorSteps
     \/ \E w \in Callers :
          \/ AppendEntries(w) \/ InstallSnapshot(w)
          \/ HandleAppendEntriesResponse(w) \/ HandleInstallSnapshotResponse(w)
          \/ Lose(w)
     \/ OtherAnswers
     \/ \E last \in snapCh : CondInstallSnapshot(last)
     \/ \E p \in Peers : \E index \in 1 .. Smaller(commitIndex[p], MaxSnapshotIndex) :
          Snapshot(p, index)
     \/ Kill

Spec == Init /\ [][Next]_vars

(***************************************************************************)
(* Goroutines are scheduled, the heartbeat timer fires, services take what *)
(* waits for them; and of the calls a caller makes again and again, some   *)
(* come through, both ways.  Nothing is said of Start, of Snapshot, of the *)
(* third peer, and of what is lost.                                        *)
(***************************************************************************)
Delivers(w) == AppendEntries(w) \/ InstallSnapshot(w)
Handles(w)  == HandleAppendEntriesResponse(w) \/ HandleInstallSnapshotResponse(w)
Alive(A) == ~panicked /\ A

FairSpec ==
  /\ Spec
  /\ WF_vars(Alive(replicatorSteps))
  /\ WF_vars(Alive(tickerEnds))
  /\ \A h \in Heartbeats : WF_vars(Alive(Heartbeat(h)))
  /\ \A w \in Callers : SF_vars(Alive(Delivers(w))) /\ SF_vars(Alive(Handles(w)))
  /\ WF_vars(Alive(\E last \in snapCh : CondInstallSnapshot(last)))

-----------------------------------------------------------------------------
SnapshotPoint == [Index : 0 .. MaxLogIndex, Term : 0 .. MaxTerm]

(* The types of the variables: the fields of rf, and the goroutines of     *)
(* replicator, replicateOneRound and InstallSnapshot.                      *)
TypeOK ==
  /\ build \in Builds
  /\ \A p \in Peers : /\ IsLog(logs[p])
                       /\ commitIndex[p] \in First(logs[p]) .. Last(logs[p])
  /\ nextIndex \in 0 .. Last(logs["leader"]) + 1
  /\ matchIndex \in 0 .. Last(logs["leader"])
  /\ otherMatch \in 0 .. Last(logs["leader"])
  /\ snapCh \subseteq SnapshotPoint
  /\ replicator \in Places
  /\ {heartbeats, killed, panicked} \subseteq BOOLEAN

(***************************************************************************)
(* What both peers count as committed is the same, whatever is in flight:  *)
(* advanceCommitIndexForFollower takes the end of the follower's whole log *)
(* for what the leader has, which is right only because every request      *)
(* carries all the leader has above PrevLogIndex.                          *)
(***************************************************************************)
CommitsAgree ==
  \A k \in Larger(First(logs["leader"]), First(logs["follower"]))
           .. Smaller(commitIndex["leader"], commitIndex["follower"]) :
     TermAt(logs["leader"], k) = TermAt(logs["follower"], k)

(***************************************************************************)
(* An entry of this term is committed by advanceCommitIndexForLeader only  *)
(* when one of the other two has it, even as replies come late and set     *)
(* matchIndex to less than it was.                                         *)
(***************************************************************************)
CommitHasMajority ==
  LET k == commitIndex["leader"]
      log == logs["follower"]
  IN  TermAt(logs["leader"], k) = MaxTerm =>
        otherMatch >= k \/ k <= First(log) \/ matchLog(log, MaxTerm, k)

(***************************************************************************)
(* The leader of lab 2B dies in genAppendEntriesRequest (rf.logs[-1]) if   *)
(* the follower's first entry conflicts with its own and has a term it     *)
(* does not know: ConflictIndex is then 0.  It dies of nothing else, and   *)
(* the leader of lab 2C+D, which sends a snapshot instead, never.          *)
(***************************************************************************)
PanicsOnlyOnFirstConflict ==
  panicked => /\ build = "lab2B"
              /\ Last(logs["follower"]) >= 1
              /\ \A k \in 1 .. Last(logs["leader"]) :
                    TermAt(logs["follower"], 1) # TermAt(logs["leader"], k)

Appended ==
  LET last == getLastLog(logs["leader"])
  IN  last.Index <= First(logs["follower"]) \/ matchLog(logs["follower"], last.Term, last.Index)

(* The follower has the leader's last entry, the leader knows, and the     *)
(* follower knows that it is committed if the leader can commit it.        *)
Caught ==
  LET last == getLastLog(logs["leader"])
  IN  /\ Appended
      /\ matchIndex = last.Index
      /\ last.Term = MaxTerm => commitIndex["follower"] = last.Index

(***************************************************************************)
(* Replication succeeds although wake-ups are lost between needReplicating *)
(* and Wait, requests and replies are lost and overtake each other, and    *)
(* logs conflict: as long as the follower's log does not begin above the   *)
(* leader's for good.                                                      *)
(***************************************************************************)
CatchesUpBehindLeader ==
  <>[](First(logs["follower"]) <= First(logs["leader"]))
    => <>[](Caught \/ killed \/ panicked)

(* The README of lab 2B has it without the condition: the replicator tries *)
(* without end until the entries are appended (lab2B/README.md:47).        *)
CatchesUp == <>[](Appended \/ killed \/ panicked)

(* Kill stops the ticker and the replicator at their next look at          *)
(* killed(), or leaves the replicator waiting: nothing is sent any more.   *)
KilledGoesQuiet == killed ~> [](panicked \/ \A w \in Callers : calls[w] = NoCall)

=============================================================================
