---------------------------- MODULE RaftHistory ----------------------------
(***************************************************************************)
(* Raft with the history its safety rests on: the votes, what was counted  *)
(* as committed, and                                                       *)
(*   led     <<u, k, t>>: the log of the leader of term u has or had an    *)
(*           entry of term t at index k, the entries that were in a        *)
(*           snapshot when it was elected included;                        *)
(*   acks    <<p, k, t>>: p's log has or had the entry k of term t while p *)
(*           itself was in term t;                                         *)
(*   chosen  <<k, t>>: the leader of term t has or had commitIndex k at an *)
(*           entry of its own term;                                        *)
(*   lost    a crash took entries that Start had put into a log and no     *)
(*           persist() had saved.                                          *)
(* No step of the program reads them.                                      *)
(***************************************************************************)
EXTENDS RaftVotes, RaftCommits

VARIABLES led, acks, chosen, lost

history == <<votes, committed, led, acks, chosen, lost>>

(* What a step adds to the log of the leader that i is after it: all of    *)
(* its log when it has just been elected, what Start appended otherwise.   *)
NewlyLed(i) ==
  LET log  == logs'[i]
      from == IF state[i] = Leader THEN Last(logs[i]) + 1 ELSE First(log)
  IN  { <<currentTerm'[i], k, TermAt(log, k)>> : k \in from .. Last(log) }
      \cup
      { <<currentTerm'[i], e[2], e[3]>> : e \in { e \in led :
          state[i] # Leader /\ e[1] = TermAt(log, First(log)) /\ e[2] < First(log) } }

(* What a peer has acknowledged to the leader of the term it is in, or has *)
(* as that leader.                                                         *)
AckedBy(p) ==
  { <<p, k, currentTerm[p]>> :
      k \in { k \in First(logs[p]) + 1 .. Last(logs[p]) :
                TermAt(logs[p], k) = currentTerm[p] } }

(* The entry of its own term a leader has committed.                       *)
ChosenBy(i) ==
  IF state[i] = Leader /\ matchLog(logs[i], currentTerm[i], commitIndex[i])
    THEN { <<commitIndex[i], currentTerm[i]>> } ELSE {}

HInit ==
  /\ Init
  /\ votes = {} /\ committed = Counted
  /\ led = { <<0, 0, 0>> }
  /\ acks = { <<p, 0, 0>> : p \in Server }
  /\ chosen = { <<0, 0>> : p \in Server }
  /\ lost = FALSE

Record ==
  /\ votes' = votes \cup Held'
  /\ committed' = committed \cup Counted'
  /\ led' = led \cup UNION { NewlyLed(i) : i \in { i \in Server : state'[i] = Leader } }
  /\ acks' = acks \cup UNION { AckedBy(p) : p \in Server }'
  /\ chosen' = chosen \cup UNION { ChosenBy(i) : i \in Server }'
  /\ lost' = (lost \/ (crashes' # crashes /\ logs' # logs))

HNext == Next /\ Record
HSpec == HInit /\ [][HNext]_<<vars, history>>

-----------------------------------------------------------------------------
(* The history of leaders' logs.                                           *)

Led(u, k, t)   == <<u, k, t>> \in led
Acked(p, k, t) == <<p, k, t>> \in acks
Elected(u)     == Led(u, 0, 0)

(* A majority has acknowledged the entry or still may.                     *)
Choosable(k, t) == Majority({ p \in Server : Acked(p, k, t) \/ currentTerm[p] <= t })

(* A leader of term v or before has committed the entry, with a later one  *)
(* or by itself.                                                           *)
CommittedIn(k, t, v) ==
  \E n, w \in Nat : <<n, w>> \in chosen /\ w <= v /\ k <= n /\ Led(w, k, t)

(* It has committed everything up to this index.                           *)
CommittedTo(k, v) == \E n, w \in Nat : <<n, w>> \in chosen /\ w <= v /\ k <= n

(* One log per leader, in the order of terms, and an entry of term t comes *)
(* with everything that precedes it in the log of the leader of term t.    *)
LedInv ==
  /\ led \subseteq Nat \X Nat \X Nat
  /\ Elected(0)
  /\ \A u, k, t \in Nat : Led(u, k, t) =>
       /\ t <= u /\ Elected(u) /\ Elected(t)
       /\ \A l, x \in Nat : l <= k => (Led(u, l, x) <=> Led(t, l, x))
       /\ \A l, x \in Nat : l <= k /\ Led(u, l, x) => x <= t
       /\ \A x \in Nat : Led(u, k, x) => x = t

(* Who led a term had its majority, and is no candidate of it any more.    *)
(* Nobody stands in term 0.                                                *)
OwnerInv ==
  /\ \A u \in Nat \ {0} : Elected(u) =>
       \E j \in Server :
         /\ Majority({ p \in Server : <<u, p, j>> \in votes })
         /\ u <= currentTerm[j]
         /\ u = currentTerm[j] => state[j] # Candidate
  /\ \A i \in Server : state[i] = Candidate => currentTerm[i] # 0

(* What a leader's log holds is what the history says of its term.         *)
LeaderLed(i) ==
  /\ Elected(currentTerm[i])
  /\ \A k \in First(logs[i]) .. Last(logs[i]) : Led(currentTerm[i], k, TermAt(logs[i], k))
  /\ \A k, t \in Nat : Led(currentTerm[i], k, t) => k <= Last(logs[i])

LeaderInv == \A i \in Server : state[i] = Leader => LeaderLed(i)

(* Every entry of a log comes with what preceded it when it was appended.  *)
Sound(log) ==
  \A k \in First(log) .. Last(log) : \A l \in First(log) .. k :
    Led(TermAt(log, k), l, TermAt(log, l))

(* CondInstallSnapshot keeps what follows the snapshot without comparing   *)
(* the entry the snapshot replaces.  What it should not have kept never    *)
(* followed that entry in a leader's log, and is older than a committed    *)
(* entry that did.                                                         *)
Junk(log, v) ==
  LET first == First(log)
      term  == TermAt(log, first)
      kept  == first + 1 .. Last(log)
  IN  /\ first < Last(log)
      /\ \E n, w \in Nat :
           /\ <<n, w>> \in chosen /\ w <= v /\ first <= n /\ Led(w, first, term)
           /\ \A k \in kept : TermAt(log, k) < w
      /\ \A k \in kept : /\ Led(TermAt(log, k), k, TermAt(log, k))
                         /\ ~Led(TermAt(log, k), first, term)

LogSound(i) ==
  /\ Sound(logs[i]) \/ Junk(logs[i], currentTerm[i])
  /\ \A k \in First(logs[i]) .. Last(logs[i]) : TermAt(logs[i], k) <= currentTerm[i]

LogsInv == \A i \in Server : LogSound(i)

AppendEntriesInv(m) ==
  /\ Led(m.Term, m.PrevLogIndex, m.PrevLogTerm)
  /\ \A j \in 1 .. Len(m.Entries) : Led(m.Term, m.PrevLogIndex + j, m.Entries[j].Term)
  /\ m.LeaderCommit <= m.PrevLogIndex + Len(m.Entries)
  /\ CommittedTo(m.LeaderCommit, m.Term)

AppendEntriesReplyInv(m) ==
  LET n == m.PrevLogIndex + m.NumEntries
  IN  m.Success =>
        /\ \E x \in Nat : Led(m.reqTerm, n, x)
        /\ \A k \in Nat : k <= n /\ Led(m.reqTerm, k, m.reqTerm) =>
             \/ Acked(m.from, k, m.reqTerm)
             \/ \E c \in Nat : <<c, m.reqTerm>> \in chosen /\ k <= c

(* A snapshot is sent up to where its sender's log begins.                 *)
SnapshotOf(i, term, index) ==
  /\ Elected(term)
  /\ state[i] = Leader /\ currentTerm[i] = term => index <= First(logs[i])

InstallSnapshotInv(m) ==
  /\ CommittedIn(m.LastIncludedIndex, m.LastIncludedTerm, m.Term)
  /\ SnapshotOf(m.from, m.Term, m.LastIncludedIndex)

MessageInv(m) ==
  /\ m.type = "AppendEntries" => AppendEntriesInv(m)
  /\ m.type = "AppendEntriesReply" => AppendEntriesReplyInv(m)
  /\ m.type = "InstallSnapshot" => InstallSnapshotInv(m)
  /\ m.type = "InstallSnapshotReply" => SnapshotOf(m.to, m.reqTerm, m.LastIncludedIndex)

MessagesInv == \A m \in rpcs : MessageInv(m)

-----------------------------------------------------------------------------
(* What keeps a committed entry.                                           *)

(* The entry is in the log, and the log does not end with an older one; or *)
(* a snapshot covers it.                                                   *)
Keeps(log, k, t) ==
  \/ k < First(log)
  \/ matchLog(log, t, k) /\ t <= TermAt(log, Last(log))

ChosenInv ==
  /\ chosen \subseteq Nat \X Nat
  /\ \A k, t \in Nat : <<k, t>> \in chosen =>
       /\ Led(t, k, t)
       /\ Majority({ p \in Server : Acked(p, k, t) })
       /\ \A i \in Server : state[i] = Leader /\ currentTerm[i] = t => k <= commitIndex[i]
  /\ \A i \in Server : ChosenBy(i) \subseteq chosen

(* Who leads a later term has every entry that a majority acknowledged.    *)
SafeInv ==
  \A u, k, t \in Nat : Elected(u) /\ t < u /\ Choosable(k, t) => Led(u, k, t)

AcksInv ==
  /\ acks \subseteq Server \X Nat \X Nat
  /\ \A p \in Server : \A k, t \in Nat : Acked(p, k, t) =>
       /\ Led(t, k, t) /\ t <= currentTerm[p]
       /\ Choosable(k, t) => Keeps(logs[p], k, t) /\ t <= TermAt(logs[p], Last(logs[p]))
  /\ \A p \in Server : AckedBy(p) \subseteq acks

(* A vote says that the candidate has what the voter acknowledged.         *)
VotersInv ==
  /\ \A v \in Nat, p, c \in Server : <<v, p, c>> \in votes => v <= currentTerm[c]
  /\ \A c, p \in Server : state[c] = Candidate /\ <<currentTerm[c], p, c>> \in votes =>
       \A k, t \in Nat : Acked(p, k, t) /\ t < currentTerm[c] /\ Choosable(k, t) =>
         Keeps(logs[c], k, t)

AskingInv ==
  \A m \in rpcs : m.type = "RequestVote" /\ state[m.from] = Candidate
                    /\ currentTerm[m.from] = m.Term =>
    /\ Led(m.LastLogTerm, m.LastLogIndex, m.LastLogTerm)
    /\ \A k, t \in Nat :
         /\ Led(t, k, t) /\ t < m.Term /\ Choosable(k, t)
         /\ t < m.LastLogTerm \/ (t = m.LastLogTerm /\ k <= m.LastLogIndex)
         => Keeps(logs[m.from], k, t)

CommitSound(i) ==
  /\ commitIndex[i] <= Last(logs[i])
  /\ \A k \in First(logs[i]) .. commitIndex[i] :
       CommittedIn(k, TermAt(logs[i], k), currentTerm[i])
  /\ \A msg \in snapCh[i] : CommittedIn(msg.SnapshotIndex, msg.SnapshotTerm, currentTerm[i])

CommitInv == \A i \in Server : CommitSound(i)

(* A leader counts nothing that was not acknowledged.                      *)
MatchAcked(i) ==
  \A p \in Server :
    /\ matchIndex[i][p] <= Last(logs[i])
    /\ \A k \in Nat : /\ commitIndex[i] < k /\ k <= matchIndex[i][p]
                      /\ Led(currentTerm[i], k, currentTerm[i])
         => Acked(p, k, currentTerm[i])

MatchInv == \A i \in Server : state[i] = Leader => MatchAcked(i)

HistoryInv == /\ LedInv /\ OwnerInv /\ LeaderInv /\ LogsInv /\ MessagesInv
              /\ ChosenInv /\ SafeInv /\ AcksInv /\ VotersInv /\ AskingInv
              /\ CommitInv /\ MatchInv

-----------------------------------------------------------------------------
(* What a leader may rely on without asking again.                         *)

(* Up to n, p's log is that of the leader of term T.                       *)
Agrees(p, T, n) ==
  \A k \in First(logs[p]) .. n : k <= Last(logs[p]) /\ Led(T, k, TermAt(logs[p], k))

(* For as long as p is in term T, it holds what the leader of T has up to  *)
(* n, in memory and on disk.                                               *)
Holds(p, T, n) ==
  /\ T <= currentTerm[p]
  /\ currentTerm[p] = T =>
       state[p] = Follower /\ stable[p].logs = logs[p] /\ Agrees(p, T, n)

(* An InstallSnapshotReply says nothing of the follower's log: it is at or *)
(* below the leader's first entry.                                         *)
MatchHeld(i) ==
  \A p \in Server \ {i} :
    First(logs[i]) < matchIndex[i][p] => Holds(p, currentTerm[i], matchIndex[i][p])

ReplyHeld(m) ==
  m.type = "AppendEntriesReply" /\ m.Success =>
    Holds(m.from, m.reqTerm, m.PrevLogIndex + m.NumEntries)

DurableInv ==
  /\ \A i \in Server : state[i] = Leader => MatchHeld(i)
  /\ \A m \in rpcs : ReplyHeld(m)

-----------------------------------------------------------------------------
(* What keeps a leader from going back beyond the start of its log: only   *)
(* the placeholder of index 0 has term 0, so the run of entries with the   *)
(* conflicting term ends above it.                                         *)
BackInv ==
  /\ \A i \in Server : state[i] = Leader => currentTerm[i] # 0
  /\ \A k, t \in Nat : Led(0, k, t) => k = 0
  /\ \A i, p \in Server : 0 <= nextIndex[i][p]
  /\ \A m \in rpcs : m.type = "AppendEntriesReply" => 0 <= m.ConflictIndex

=============================================================================
