------------------------------- MODULE Harness -------------------------------
(***************************************************************************)
(* lab2/config.go: the service that the tests put on top of the Raft       *)
(* peers.  Per server a goroutine takes entries and snapshots off applyCh  *)
(* and compares them with what the other servers got; crash1 kills a peer  *)
(* and start1 makes the next instance on the persisted state; one() submits*)
(* a command and counts the servers that have it.  log.Fatalf and t.Fatalf *)
(* end the test: failed says which of them, and nothing happens after it.  *)
(*                                                                         *)
(* Kill only sets a flag.  What the killed instance has copied out of its  *)
(* log it sends to the end, and the harness's goroutine of that instance   *)
(* goes on reading: it shares cfg.logs[i] and cfg.lastApplied[i] with the  *)
(* goroutine of the next instance.  It is called a ghost here.             *)
(***************************************************************************)
EXTENDS ApplyPipeline, FiniteSets

CONSTANTS SnapShotInterval,
          Expected,      \* expectedServers of one()
          MaxRestarts,   \* bound: crashes
          MaxTries       \* bound: rounds of one()

ASSUME HarnessAssumption ==
  /\ IsFiniteSet(Server) /\ Server # {} /\ Server = 0 .. Cardinality(Server) - 1
  /\ SnapShotInterval \in Nat \ {0}
  /\ Expected \in 1 .. Cardinality(Server)
  /\ MaxRestarts \in Nat /\ MaxTries \in Nat \ {0}

VARIABLES snapshots,     \* is applierSnap the service, or applier?
          logs,          \* cfg.logs: per server, commands by index
          lastApplied,   \* cfg.lastApplied, which applierSnap keeps
          due,           \* the index applierSnap is about to call rf.Snapshot with
          up,            \* cfg.rafts[i] # nil
          ghosts,
          restarts,
          client,        \* the call of one()
          failed

harness == <<snapshots, logs, lastApplied, due, up, ghosts, restarts, client, failed>>
vars    == <<logService, pipeline, harness>>

n == Cardinality(Server)

Command == {"one", "direct"}
nil     == "nil"

Fine == [kind |-> "none"]

(* meddled: since start1 a ghost has changed what the live instance goes   *)
(* by.  tore: one has ever taken a map back of which a snapshot was due.   *)
NoGhost == [batch |-> NoBatch, commitIndex |-> 0, snapCh |-> {}, meddled |-> FALSE,
            tore |-> FALSE]

(* cfg.logs[i][0 .. index], as rf.Snapshot gets it: a map gives nil for    *)
(* what it does not hold.                                                  *)
Encoded_Short(log, index) ==  \* mutant: j < m.CommandIndex
  [j \in 0 .. index - 1 |-> IF j \in DOMAIN log THEN log[j] ELSE nil]
Encoded(log, index) ==
  [j \in 0 .. index |-> IF j \in DOMAIN log THEN log[j] ELSE nil]

NoLog == [j \in {} |-> nil]
NoSnapshot == [index |-> 0, xlog |-> NoLog]

Init ==
  /\ LogServiceInit
  /\ PipelineInit(NoSnapshot)
  /\ snapshots \in BOOLEAN
  /\ logs = [s \in Server |-> NoLog]
  /\ lastApplied = [s \in Server |-> 0]
  /\ due = [s \in Server |-> 0]
  /\ up = [s \in Server |-> TRUE]
  /\ ghosts = [s \in Server |-> NoGhost]
  /\ restarts = 0
  /\ client = [stage |-> "tries", tries |-> 0, starts |-> 0, si |-> 0, index |-> 0,
               count |-> 0, cmd |-> nil]
  /\ failed = Fine

-----------------------------------------------------------------------------
(* A message on applyCh, from the live instance of s or from its ghost.    *)

command(index) == chosen[index].command

Disagrees(index) ==
  \E s \in Server : index \in DOMAIN logs[s] /\ logs[s][index] # command(index)

(* applierSnap looks at lastApplied first, and skips checkLogs if it fails. *)
Skipped(s, index) == snapshots /\ index # lastApplied[s] + 1

OutOfOrder(s, index) ==
  Skipped(s, index) \/ (index > 1 /\ index - 1 \notin DOMAIN logs[s])

(* applier and applierSnap up to the snapshot, with checkLogs.             *)
takesEntry(s, index) ==
  /\ logs' = IF Skipped(s, index) THEN logs
             ELSE [logs EXCEPT ![s] = [i \in DOMAIN @ \cup {index} |->
                                        IF i = index THEN command(index) ELSE @[i]]]
  /\ lastApplied' = IF snapshots THEN [lastApplied EXCEPT ![s] = index] ELSE lastApplied
  /\ failed' = IF OutOfOrder(s, index) THEN [kind |-> "order", server |-> s, index |-> index]
               ELSE IF Disagrees(index) THEN [kind |-> "differs", server |-> s, index |-> index]
               ELSE Fine

Ingested_Shifted(snap) ==  \* mutant: the position is taken for the index
  [j \in 1 .. snap.index + 1 |-> snap.xlog[j - 1]]
Ingested(snap) == snap.xlog

(* ingestSnap: the map is replaced.                                        *)
ingestSnap(s, snap) ==
  /\ logs' = [logs EXCEPT ![s] = Ingested(snap)]
  /\ lastApplied' = [lastApplied EXCEPT ![s] = snap.index]

SnapshotDue(index) == snapshots /\ (index + 1) % SnapShotInterval = 0

Receive(s) ==
  /\ up[s] /\ due[s] = 0
  /\ SendNext(s)
  /\ takesEntry(s, batch[s].next)
  /\ due' = [due EXCEPT ![s] = IF SnapshotDue(batch[s].next) THEN batch[s].next ELSE 0]
  /\ UNCHANGED <<logService, snapshot, snapshots, up, ghosts, restarts, client>>

(* applierSnap hands Raft a snapshot, which Raft takes if it is news.      *)
Snapshot(s) ==
  /\ up[s] /\ due[s] # 0
  /\ due' = [due EXCEPT ![s] = 0]
  /\ snapshot' = IF due[s] <= snapshot[s].index THEN snapshot
                 ELSE [snapshot EXCEPT ![s] = [index |-> due[s],
                                               xlog |-> Encoded(logs[s], due[s])]]
  /\ UNCHANGED <<logService, commitIndex, rfApplied, batch, snapCh, snapshots, logs,
                 lastApplied, up, ghosts, restarts, client, failed>>

ReceiveInstalled(s, snap) ==
  /\ up[s] /\ due[s] = 0
  /\ snap \in snapCh[s]
  /\ CondInstallSnapshot(s, snap)
  /\ IF Outdated(s, snap) THEN UNCHANGED <<logs, lastApplied>> ELSE ingestSnap(s, snap)
  /\ UNCHANGED <<logService, snapshots, due, up, ghosts, restarts, client, failed>>

-----------------------------------------------------------------------------
(* Ghosts.  What they tell their own Raft instance reaches nobody.         *)

Rest(b) == IF b.next < b.last THEN [b EXCEPT !.next = @ + 1] ELSE NoBatch

GhostSends(s) ==
  LET g == ghosts[s]
  IN  /\ g.batch # NoBatch
      /\ takesEntry(s, g.batch.next)
      /\ ghosts' = [ghosts EXCEPT ![s].batch = Rest(@), ![s].meddled = @ \/ up[s]]
      /\ UNCHANGED <<logService, pipeline, snapshots, due, up, restarts, client>>

GhostInstalls(s, snap) ==
  LET g == ghosts[s]
  IN  /\ snap \in g.snapCh
      /\ IF snap.index <= g.commitIndex
         THEN /\ ghosts' = [ghosts EXCEPT ![s].snapCh = @ \ {snap}]
              /\ UNCHANGED <<logs, lastApplied>>
         ELSE /\ ingestSnap(s, snap)
              /\ ghosts' = [ghosts EXCEPT ![s].snapCh = @ \ {snap},
                                          ![s].commitIndex = snap.index,
                                          ![s].meddled = TRUE,
                                          ![s].tore = @ \/ snap.index < due[s]]
      /\ UNCHANGED <<logService, pipeline, snapshots, due, up, restarts, client, failed>>

(* crash1 copies the persister and kills; the state that Make will read is *)
(* settled here.  A snapshot that was due goes to the killed instance.     *)
(* One ghost per server at a time: it has finished before the next crash.  *)
crash1(s) ==
  /\ up[s]
  /\ restarts < MaxRestarts
  /\ ghosts[s].batch = NoBatch /\ ghosts[s].snapCh = {}
  /\ up' = [up EXCEPT ![s] = FALSE]
  /\ due' = [due EXCEPT ![s] = 0]
  /\ restarts' = restarts + 1
  /\ ghosts' = [ghosts EXCEPT ![s] = [@ EXCEPT !.batch = batch[s], !.snapCh = snapCh[s],
                                               !.commitIndex = commitIndex[s]]]
  /\ RestartPipeline(s)
  /\ leads' = [leads EXCEPT ![s] = 0]
  /\ lastIndex' = [lastIndex EXCEPT ![s] = 0]
  /\ UNCHANGED <<elections, pending, chosen, snapshots, logs, lastApplied, client,
                 failed>>

startsUnmeddled(s) ==
  /\ ghosts' = [ghosts EXCEPT ![s].meddled = FALSE]
  /\ UNCHANGED <<logService, pipeline, snapshots, due, restarts, client, failed>>

start1_FreshLogs(s) ==  \* mutant: the map of the server begins anew as well
  /\ ~up[s]
  /\ up' = [up EXCEPT ![s] = TRUE]
  /\ lastApplied' = [lastApplied EXCEPT ![s] = snapshot[s].index]
  /\ logs' = [logs EXCEPT ![s] = snapshot[s].xlog]
  /\ startsUnmeddled(s)
start1_KeepsApplied(s) ==  \* mutant: cfg.lastApplied[i] is not reset
  /\ ~up[s]
  /\ up' = [up EXCEPT ![s] = TRUE]
  /\ UNCHANGED <<logs, lastApplied>>
  /\ startsUnmeddled(s)
start1(s) ==
  /\ ~up[s]
  /\ up' = [up EXCEPT ![s] = TRUE]
  /\ IF snapshot[s] = NoSnapshot
     THEN lastApplied' = [lastApplied EXCEPT ![s] = 0] /\ UNCHANGED logs
     ELSE ingestSnap(s, snapshot[s])
  /\ startsUnmeddled(s)

-----------------------------------------------------------------------------
(* one(cmd, expectedServers, true): round robin until a server takes the   *)
(* command, then count who has what at its index, a server at a time.      *)

Asked == (client.starts + 1) % n

clientAlone == UNCHANGED <<pipeline, snapshots, logs, lastApplied, due, up, ghosts, restarts>>

StartTaken ==
  /\ client.stage = "tries" /\ client.tries < MaxTries
  /\ up[Asked] /\ Start(Asked, "one")
  /\ client' = [client EXCEPT !.stage = "counts", !.starts = Asked, !.si = 0, !.count = 0,
                              !.cmd = nil, !.index = lastIndex'[Asked]]
  /\ clientAlone /\ UNCHANGED failed

(* What one() goes on with: the same count after a sleep, the next round   *)
(* when two seconds are over or nobody led.                                *)
countsAgain(c) == [c EXCEPT !.si = 0, !.count = 0, !.cmd = nil]
triesAgain(c)  == [countsAgain(c) EXCEPT !.stage = "tries", !.tries = @ + 1, !.index = 0]

StartRefused ==
  /\ client.stage = "tries" /\ client.tries < MaxTries
  /\ ~up[Asked] \/ leads[Asked] = 0
  /\ LET c == [client EXCEPT !.starts = Asked, !.si = @ + 1]
     IN  client' = IF c.si < n THEN c ELSE triesAgain(c)
  /\ clientAlone /\ UNCHANGED <<logService, failed>>

Agreed_AnyCommand(c) == c.count >= Expected  \* mutant: cmd1 == cmd is left out
Agreed(c) == c.count >= Expected /\ c.cmd = "one"

(* nCommitted at one server; with the last one's the count is complete.    *)
Counted ==
  LET log == logs[client.si]
  IN  IF client.index \in DOMAIN log
      THEN [client EXCEPT !.si = @ + 1, !.count = @ + 1, !.cmd = log[client.index]]
      ELSE [client EXCEPT !.si = @ + 1]

nCommitted ==
  /\ client.stage = "counts"
  /\ LET c == Counted
     IN  /\ \/ c.si < n /\ client' = c
            \/ c.si = n /\ Agreed(c) /\ client' = [c EXCEPT !.stage = "returned"]
            \/ c.si = n /\ ~Agreed(c) /\ client' \in {countsAgain(c), triesAgain(c)}
         /\ failed' = IF client.count > 0 /\ c.cmd # client.cmd
                      THEN [kind |-> "mismatch", index |-> client.index] ELSE Fine
  /\ clientAlone /\ UNCHANGED logService

(* Ten seconds are over.                                                   *)
givesUp ==
  /\ client.stage = "tries" /\ client.si = 0 /\ client.tries = MaxTries
  /\ failed' = [kind |-> "agreement"]
  /\ clientAlone /\ UNCHANGED <<logService, client>>

one == StartTaken \/ StartRefused \/ nCommitted \/ givesUp

-----------------------------------------------------------------------------
(* The Raft peers; a test may also call Start itself, once here.           *)

TestStarts(s) ==
  /\ \A e \in pending : e.command # "direct"
  /\ Start(s, "direct")

RaftStep ==
  /\ \/ \E s \in Server :
          up[s] /\ (Elect(s) \/ ElectAgain(s) \/ StepDown(s) \/ TestStarts(s))
     \/ \E e \in pending : Choose(e)
  /\ UNCHANGED <<pipeline, harness>>

PipelineStep(s) ==
  /\ up[s]
  /\ TakeBatch(s) \/ LearnCommit(s) \/ \E from \in Server \ {s} : ReceiveSnapshot(s, from)
  /\ UNCHANGED <<logService, harness>>

Next ==
  /\ failed = Fine /\ client.stage # "returned"
  /\ \/ RaftStep
     \/ \E s \in Server :
          \/ PipelineStep(s)
          \/ Receive(s) \/ Snapshot(s) \/ \E snap \in snapCh[s] : ReceiveInstalled(s, snap)
          \/ GhostSends(s) \/ \E snap \in ghosts[s].snapCh : GhostInstalls(s, snap)
          \/ crash1(s) \/ start1(s)
     \/ one

Spec == Init /\ [][Next]_vars

-----------------------------------------------------------------------------
(* The types of cfg's fields; a snapshot holds a value per index.          *)
TypeOK ==
  /\ \A s \in Server :
       /\ DOMAIN logs[s] \subseteq 0 .. Len(chosen)
       /\ lastApplied[s] \in 0 .. Len(chosen)
       /\ due[s] \in 0 .. Len(chosen)
       /\ {up[s], ghosts[s].meddled, ghosts[s].tore} \subseteq BOOLEAN
       /\ snapshot[s] # NoSnapshot => DOMAIN snapshot[s].xlog = 0 .. snapshot[s].index
  /\ client.stage \in {"tries", "counts", "returned"}
  /\ failed.kind \in {"none", "order", "differs", "mismatch", "agreement"}

(* A ghost has installed a snapshot where the live instance had gone on,   *)
(* and was about to make a snapshot of what is no longer there.            *)
Torn == \E s \in Server : ghosts[s].tore

(***************************************************************************)
(* What the tests compare is what Raft decided: in every server's map, and *)
(* in the snapshots made of the maps, an index has the chosen command, with*)
(* no gap below a snapshot, although ghosts write into the same maps and   *)
(* an installed snapshot replaces one (ingestSnap, checkLogs).  applierSnap*)
(* encodes the map after it has given cfg.mu back: one that was torn in    *)
(* between leaves gaps, and nothing worse.                                 *)
(***************************************************************************)
HeldAt(log, index) ==
  log[index] = command(index) \/ (Torn /\ log[index] = nil)

HeldIsChosen ==
  \A s \in Server :
    /\ \A index \in DOMAIN logs[s] \ {0} : index \in DOMAIN chosen /\ HeldAt(logs[s], index)
    /\ \A index \in 1 .. snapshot[s].index : HeldAt(snapshot[s].xlog, index)

(***************************************************************************)
(* No false alarm: the comparisons of checkLogs and nCommitted never fail  *)
(* for a Raft that decides one command per index, unless a map was torn;   *)
(* and without snapshots the order of applyCh does not fail either, crashes*)
(* and ghosts included.                                                    *)
(***************************************************************************)
NoFalseAlarm ==
  /\ failed.kind \in {"differs", "mismatch"} => Torn
  /\ failed.kind = "order" => snapshots

(***************************************************************************)
(* "apply out of order" of applierSnap does happen to a correct Raft, and  *)
(* for two reasons only: a snapshot was installed in the middle of the     *)
(* batch that the applier sends without rf.mu, or a killed instance        *)
(* installed one or went on sending after start1.                          *)
(***************************************************************************)
OrderFailures ==
  failed.kind = "order" =>
    failed.index <= snapshot[failed.server].index \/ ghosts[failed.server].meddled

(* The index that one() returns holds the command it was called with, even *)
(* if the leader lost its term and another command was chosen there.       *)
OneTellsTruth ==
  client.stage = "returned" =>
    client.index \in DOMAIN chosen /\ command(client.index) = "one"

=============================================================================
