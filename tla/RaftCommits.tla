----------------------------- MODULE RaftCommits -----------------------------
(***************************************************************************)
(* Raft with the history of what its peers counted as committed: the       *)
(* <<index, term>> of every entry that was ever in a peer's log at or      *)
(* below its commitIndex, and of every placeholder a peer's log began      *)
(* with.  No step of the program reads it.                                 *)
(***************************************************************************)
EXTENDS Raft

VARIABLE committed

CountedBy(i) ==
  { <<k, TermAt(logs[i], k)>> :
      k \in { k \in First(logs[i]) .. Last(logs[i]) : k <= commitIndex[i] } }

Counted == UNION { CountedBy(i) : i \in Server }

CInit == Init /\ committed = Counted
CNext == Next /\ committed' = committed \cup Counted'
CSpec == CInit /\ [][CNext]_<<vars, committed>>

-----------------------------------------------------------------------------
(* No two peers, and no peer at two times, count different entries as      *)
(* committed at one index: what the test harness asserts of the commands   *)
(* the peers apply (config.go, checkLogs).                                 *)
StateMachineSafety ==
  \A e, f \in committed : e[1] = f[1] => e = f

(* Whoever could win an election with the logs as they are, were every     *)
(* peer to vote by its log alone, holds every committed entry, or a        *)
(* snapshot of it.  The rule that a leader commits by counting only what   *)
(* it appended in its own term is needed for this.                         *)
Electable(c) ==
  Majority({ p \in Server :
    isLogUpToDate(logs[p], getLastLog(logs[c]).Term, Last(logs[c])) })

ElectableHasCommitted ==
  \A c \in Server : Electable(c) =>
    \A e \in committed :
      e[1] < First(logs[c]) \/ matchLog(logs[c], e[2], e[1])

(* Every snapshot ends with a committed entry, wherever it is: in front of *)
(* a log, on its way to a follower, or waiting for the follower's service. *)
SnapshotsAreCommitted ==
  /\ \A i \in Server : \A msg \in snapCh[i] :
       <<msg.SnapshotIndex, msg.SnapshotTerm>> \in committed
  /\ \A m \in rpcs : m.type = "InstallSnapshot" =>
       <<m.LastIncludedIndex, m.LastIncludedTerm>> \in committed

=============================================================================
