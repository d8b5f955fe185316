---------------------------- MODULE HarnessProofs ----------------------------
(***************************************************************************)
(* The harness of lab 2, for any number of servers, crashes, snapshots and *)
(* rounds of one(): what it compares is what Raft decided, it raises no    *)
(* alarm but those its own ghosts and snapshots bring about, and one()     *)
(* returns the index of its command.                                       *)
(***************************************************************************)
EXTENDS Harness, FiniteSetTheorems, TLAPS

-----------------------------------------------------------------------------
(* The types, in a form that steps keep.                                   *)
Maps    == UNION { [D -> Command \cup {nil}] : D \in SUBSET Nat }
Snap    == [index : Nat, xlog : Maps]
Batches == [next : Nat, last : Nat]

GhostStates == [batch : Batches, commitIndex : Nat, snapCh : SUBSET Snap,
                meddled : BOOLEAN, tore : BOOLEAN]

Clients == [stage : {"tries", "counts", "returned"}, tries : Nat, starts : Nat, si : Nat,
            index : Nat, count : Nat, cmd : Command \cup {nil}]

LogTypes ==
  /\ leads \in [Server -> Nat] /\ lastIndex \in [Server -> Nat]
  /\ pending \subseteq [index : Nat \ {0}, term : Nat, command : Command]
  /\ chosen \in Seq([term : Nat, command : Command])

PipelineTypes ==
  /\ commitIndex \in [Server -> Nat] /\ rfApplied \in [Server -> Nat]
  /\ batch \in [Server -> Batches]
  /\ snapshot \in [Server -> Snap] /\ snapCh \in [Server -> SUBSET Snap]

HarnessTypes ==
  /\ snapshots \in BOOLEAN
  /\ logs \in [Server -> Maps]
  /\ lastApplied \in [Server -> Nat] /\ due \in [Server -> Nat]
  /\ up \in [Server -> BOOLEAN]
  /\ ghosts \in [Server -> GhostStates]

Types == LogTypes /\ PipelineTypes /\ HarnessTypes /\ client \in Clients

-----------------------------------------------------------------------------
(* What is in the maps.                                                    *)

(* A map holds what was chosen, or gaps if one was torn.                   *)
Valid(log) ==
  \A i \in DOMAIN log \ {0} : i \in 1 .. Len(chosen) /\ HeldAt(log, i)

(* A snapshot has a value for each of its indexes, which may be nil.       *)
SnapOK(snap) ==
  /\ snap \in Snap /\ snap.index <= Len(chosen)
  /\ Valid(snap.xlog)
  /\ snap = NoSnapshot \/ (1 <= snap.index /\ DOMAIN snap.xlog = 0 .. snap.index)

HeldOK(s) ==
  /\ Valid(logs[s]) /\ SnapOK(snapshot[s])
  /\ \A snap \in snapCh[s] \cup ghosts[s].snapCh : SnapOK(snap)

(* How far a server's goroutines are.                                      *)
NumbersOK(s) ==
  /\ commitIndex[s] <= Len(chosen)
  /\ lastApplied[s] <= Len(chosen) /\ due[s] <= Len(chosen)
  /\ batch[s] # NoBatch =>
       1 <= batch[s].next /\ batch[s].next <= batch[s].last /\ batch[s].last <= commitIndex[s]
  /\ ghosts[s].batch # NoBatch =>
       /\ 1 <= ghosts[s].batch.next /\ ghosts[s].batch.next <= ghosts[s].batch.last
       /\ ghosts[s].batch.last <= Len(chosen)
  /\ ~up[s] => due[s] = 0 /\ batch[s] = NoBatch /\ rfApplied[s] = snapshot[s].index
  /\ ~snapshots => /\ snapshot[s] = NoSnapshot /\ snapCh[s] = {} /\ ghosts[s].snapCh = {}
                   /\ due[s] = 0
                   /\ batch[s] # NoBatch => rfApplied[s] < batch[s].next

(* What of it is in the map: without snapshots all that was sent; with     *)
(* snapshots what lastApplied says, and so all that a snapshot that is due *)
(* will ask for, unless a ghost has taken it back.                         *)
Covers(log, index) == \A i \in 1 .. index : i \in DOMAIN log

CoveredOK(s) ==
  failed = Fine =>
    /\ snapshots => Covers(logs[s], lastApplied[s])
    /\ ~snapshots =>
         /\ batch[s] = NoBatch => Covers(logs[s], rfApplied[s])
         /\ batch[s] # NoBatch => Covers(logs[s], batch[s].next - 1)
         /\ ghosts[s].batch # NoBatch => Covers(logs[s], ghosts[s].batch.next - 1)
    /\ ~ghosts[s].tore => due[s] <= lastApplied[s]

(* Without ghosts, lastApplied is where Raft's applier is, or a snapshot   *)
(* has gone beyond it in the middle of a batch.                            *)
InStepOK(s) ==
  failed = Fine /\ snapshots /\ ~ghosts[s].meddled =>
    /\ up[s] /\ batch[s] = NoBatch => lastApplied[s] = rfApplied[s]
    /\ up[s] /\ batch[s] # NoBatch =>
         \/ lastApplied[s] = batch[s].next - 1 /\ rfApplied[s] < batch[s].next
         \/ lastApplied[s] # batch[s].next - 1 /\ batch[s].next <= snapshot[s].index
    /\ ~up[s] /\ ghosts[s].batch # NoBatch =>
         \/ lastApplied[s] = ghosts[s].batch.next - 1
         \/ ghosts[s].batch.next <= snapshot[s].index

ServerOK(s) == HeldOK(s) /\ NumbersOK(s) /\ CoveredOK(s) /\ InStepOK(s)

(* What one() has seen is what its index holds.                            *)
ClientOK ==
  /\ client.stage = "counts" => client.index # 0 /\ client.si < n
  /\ client.cmd # nil =>
       client.index \in 1 .. Len(chosen) /\ client.cmd = command(client.index)
  /\ client.stage = "counts" /\ client.count > 0 /\ ~Torn => client.cmd # nil
  /\ client.stage = "returned" => client.cmd = "one"

AlarmOK ==
  /\ failed.kind \in {"none", "order", "differs", "mismatch", "agreement"}
  /\ NoFalseAlarm /\ OrderFailures

HInv == Types /\ (\A s \in Server : ServerOK(s)) /\ ClientOK /\ AlarmOK

-----------------------------------------------------------------------------
(* Maps and sequences.                                                     *)

LEMMA IsMap ==
  \A f : f \in Maps <=> \E D \in SUBSET Nat : f \in [D -> Command \cup {nil}]
  BY DEF Maps

LEMMA MapFacts ==
  ASSUME NEW f \in Maps
  PROVE  /\ DOMAIN f \subseteq Nat
         /\ \A i \in DOMAIN f : f[i] \in Command \cup {nil}
  <1>1. PICK D \in SUBSET Nat : f \in [D -> Command \cup {nil}]
    BY IsMap
  <1> QED
    BY <1>1

LEMMA NewMap ==
  ASSUME NEW D \in SUBSET Nat, NEW f, f \in [D -> Command \cup {nil}]
  PROVE  f \in Maps
  BY IsMap

LEMMA NoLogIsMap == NoLog \in Maps /\ DOMAIN NoLog = {} /\ NoSnapshot \in Snap
  <1>1. NoLog \in [{} -> Command \cup {nil}] /\ DOMAIN NoLog = {}
    BY DEF NoLog
  <1>2. NoLog \in Maps
    BY <1>1, NewMap
  <1> QED
    BY <1>1, <1>2 DEF NoSnapshot, Snap

LEMMA ElementOf ==
  ASSUME NEW R, NEW q \in Seq(R), NEW k \in 1 .. Len(q)
  PROVE  q[k] \in R
  OBVIOUS

LEMMA Servers == n \in Nat \ {0} /\ Server = 0 .. n - 1
  <1>1. n \in Nat
    BY HarnessAssumption, FS_CardinalityType DEF n
  <1>2. Server = 0 .. n - 1 /\ Server # {}
    BY HarnessAssumption DEF n
  <1> QED
    BY <1>1, <1>2

LEMMA CommandAt ==
  ASSUME LogTypes, NEW i \in 1 .. Len(chosen)
  PROVE  command(i) \in Command /\ command(i) # nil
  <1>1. chosen \in Seq([term : Nat, command : Command])
    BY DEF LogTypes
  <1>2. chosen[i] \in [term : Nat, command : Command]
    BY <1>1, ElementOf
  <1> QED
    BY <1>2 DEF command, Command, nil

-----------------------------------------------------------------------------
(* What is chosen stays, and a torn map is remembered.                     *)
Grows ==
  /\ Len(chosen) \in Nat /\ Len(chosen') \in Nat /\ Len(chosen) <= Len(chosen')
  /\ \A k \in 1 .. Len(chosen) : chosen'[k].command = chosen[k].command
  /\ Torn => Torn'

HeldNext(log, index) == log[index] = chosen'[index].command \/ (Torn' /\ log[index] = nil)
ValidNext(log) == \A i \in DOMAIN log \ {0} : i \in 1 .. Len(chosen') /\ HeldNext(log, i)
SnapNext(snap) ==
  /\ snap \in Snap /\ snap.index <= Len(chosen')
  /\ ValidNext(snap.xlog)
  /\ snap = NoSnapshot \/ (1 <= snap.index /\ DOMAIN snap.xlog = 0 .. snap.index)

LEMMA ValidStays ==
  ASSUME Grows
  PROVE  \A log : Valid(log) => ValidNext(log)
  <1> SUFFICES ASSUME NEW log, Valid(log), NEW i \in DOMAIN log \ {0}
               PROVE  i \in 1 .. Len(chosen') /\ HeldNext(log, i)
    BY DEF ValidNext
  <1>1. i \in 1 .. Len(chosen) /\ HeldAt(log, i)
    BY DEF Valid
  <1>2. i \in 1 .. Len(chosen') /\ chosen'[i].command = chosen[i].command
    BY <1>1 DEF Grows
  <1> QED
    BY <1>1, <1>2 DEF HeldAt, HeldNext, command, Grows

LEMMA SnapStays ==
  ASSUME Grows
  PROVE  \A snap : SnapOK(snap) => SnapNext(snap)
  <1> SUFFICES ASSUME NEW snap, SnapOK(snap) PROVE SnapNext(snap)
    OBVIOUS
  <1>1. ValidNext(snap.xlog)
    BY ValidStays DEF SnapOK
  <1>2. snap.index \in Nat
    BY DEF SnapOK, Snap
  <1>3. snap.index <= Len(chosen')
    BY <1>2 DEF SnapOK, Grows
  <1> QED
    BY <1>1, <1>3 DEF SnapOK, SnapNext

LEMMA NextForms ==
  ASSUME NEW s \in Server
  PROVE  HeldOK(s)' <=> /\ ValidNext(logs'[s]) /\ SnapNext(snapshot'[s])
                        /\ \A snap \in snapCh'[s] \cup ghosts'[s].snapCh : SnapNext(snap)
  BY DEF HeldOK, Valid, HeldAt, command, SnapOK, ValidNext, HeldNext, SnapNext

(* The log as it was.                                                      *)
LEMMA SameLog ==
  ASSUME LogTypes, chosen' = chosen, Torn => Torn'
  PROVE  Grows
  <1>1. Len(chosen) \in Nat
    BY DEF LogTypes
  <1> QED
    BY <1>1 DEF Grows

(* A server to which nothing happens.                                      *)
Untouched(s) ==
  /\ commitIndex'[s] = commitIndex[s] /\ rfApplied'[s] = rfApplied[s] /\ batch'[s] = batch[s]
  /\ snapshot'[s] = snapshot[s] /\ snapCh'[s] = snapCh[s]
  /\ snapshots' = snapshots /\ logs'[s] = logs[s] /\ lastApplied'[s] = lastApplied[s]
  /\ due'[s] = due[s] /\ up'[s] = up[s] /\ ghosts'[s] = ghosts[s]

LEMMA UntouchedOK ==
  ASSUME Types, NEW s \in Server, ServerOK(s), Grows, Untouched(s), failed = Fine
  PROVE  ServerOK(s)'
  <1>1. HeldOK(s)'
    <2>1. ValidNext(logs[s]) /\ SnapNext(snapshot[s])
          /\ \A snap \in snapCh[s] \cup ghosts[s].snapCh : SnapNext(snap)
      BY ValidStays, SnapStays DEF ServerOK, HeldOK
    <2> QED
      BY <2>1, NextForms DEF Untouched
  <1>2. NumbersOK(s)'
    <2>1. /\ commitIndex[s] \in Nat /\ lastApplied[s] \in Nat /\ due[s] \in Nat
          /\ ghosts[s].batch.last \in Nat
      BY DEF Types, PipelineTypes, HarnessTypes, GhostStates, Batches
    <2>2. Len(chosen) \in Nat /\ Len(chosen') \in Nat /\ Len(chosen) <= Len(chosen')
      BY DEF Grows
    <2> QED
      BY <2>1, <2>2 DEF ServerOK, NumbersOK, Untouched
  <1>3. CoveredOK(s)'
    BY DEF ServerOK, CoveredOK, Untouched, Covers
  <1>4. InStepOK(s)'
    BY DEF ServerOK, InStepOK, Untouched
  <1> QED
    BY <1>1, <1>2, <1>3, <1>4 DEF ServerOK

-----------------------------------------------------------------------------
(* The steps of the log.                                                   *)
LEMMA BecomesLeader ==
  ASSUME LogTypes, NEW s \in Server, NEW t \in Nat, NEW base \in Nat, BecomeLeader(s, t, base)
  PROVE  LogTypes' /\ chosen' = chosen
  BY DEF LogTypes, BecomeLeader

LEMMA ElectTypes ==
  ASSUME LogTypes, NEW s \in Server, Elect(s) \/ ElectAgain(s) \/ StepDown(s)
  PROVE  LogTypes' /\ chosen' = chosen
  <1>1. CASE Elect(s)
    <2>1. PICK t \in 1 .. MaxTerm :
            \E base \in {0} \cup { e.index : e \in { e \in pending : e.term < t } } :
              BecomeLeader(s, t, base)
      BY <1>1 DEF Elect
    <2>2. PICK base \in {0} \cup { e.index : e \in { e \in pending : e.term < t } } :
            BecomeLeader(s, t, base)
      BY <2>1
    <2>3. base \in Nat
      BY DEF LogTypes
    <2>4. t \in Nat
      OBVIOUS
    <2> QED
      BY <2>2, <2>3, <2>4, BecomesLeader
  <1>2. CASE ElectAgain(s)
    <2>1. PICK t \in 1 .. MaxTerm : BecomeLeader(s, t, lastIndex[s])
      BY <1>2 DEF ElectAgain
    <2>2. t \in Nat /\ lastIndex[s] \in Nat
      BY DEF LogTypes
    <2>3. PICK base \in Nat : base = lastIndex[s]
      BY <2>2
    <2> QED
      BY <2>1, <2>2, <2>3, BecomesLeader
  <1>3. CASE StepDown(s)
    BY <1>3 DEF StepDown, LogTypes
  <1> QED
    BY <1>1, <1>2, <1>3

LEMMA StartTypes ==
  ASSUME LogTypes, NEW s \in Server, NEW cmd \in Command, Start(s, cmd)
  PROVE  LogTypes' /\ chosen' = chosen /\ lastIndex'[s] \in Nat \ {0}
  <1>1. PICK i \in Nat \ {0} : i = lastIndex[s] + 1
    BY DEF LogTypes
  <1>2. PICK t \in Nat : t = leads[s]
    BY DEF LogTypes
  <1>3. lastIndex' = [lastIndex EXCEPT ![s] = i]
    BY <1>1 DEF Start
  <1>4. lastIndex' \in [Server -> Nat] /\ lastIndex'[s] = i
    BY <1>3 DEF LogTypes
  <1>5. pending' = pending \cup {[index |-> i, term |-> t, command |-> cmd]}
    BY <1>2, <1>4 DEF Start
  <1>6. pending' \subseteq [index : Nat \ {0}, term : Nat, command : Command]
    BY <1>5 DEF LogTypes
  <1> QED
    BY <1>4, <1>6 DEF Start, LogTypes

LEMMA ChooseGrows ==
  ASSUME LogTypes, NEW e \in pending, Choose(e), Torn => Torn'
  PROVE  LogTypes' /\ Grows
  <1>1. PICK x \in [term : Nat, command : Command] : x = [term |-> e.term, command |-> e.command]
    BY DEF LogTypes
  <1>2. chosen' = chosen \o <<x>>
    <2> DEFINE f == [j \in DOMAIN <<e>> |-> [term |-> <<e>>[j].term, command |-> <<e>>[j].command]]
    <2>1. chosen' = chosen \o f
      BY DEF Choose, ChooseAll
    <2>2. f = <<x>>
      <3>1. DOMAIN <<e>> = 1 .. 1 /\ <<e>>[1] = e /\ DOMAIN <<x>> = 1 .. 1 /\ <<x>>[1] = x
        OBVIOUS
      <3>2. \A j \in 1 .. 1 : j = 1
        OBVIOUS
      <3>3. DOMAIN f = 1 .. 1 /\ f[1] = x
        BY <3>1, <1>1
      <3>4. f = [j \in 1 .. 1 |-> f[j]]
        BY <3>1
      <3>5. <<x>> = [j \in 1 .. 1 |-> <<x>>[j]]
        BY <3>1
      <3> HIDE DEF f
      <3> QED
        BY <3>1, <3>2, <3>3, <3>4, <3>5
    <2> HIDE DEF f
    <2> QED
      BY <2>1, <2>2
  <1>3. chosen \in Seq([term : Nat, command : Command])
    BY DEF LogTypes
  <1>4. /\ chosen' \in Seq([term : Nat, command : Command])
        /\ Len(chosen') = Len(chosen) + 1 /\ Len(chosen) \in Nat
        /\ \A k \in 1 .. Len(chosen) : chosen'[k] = chosen[k]
    BY <1>2, <1>3
  <1>5. UNCHANGED <<leads, lastIndex, elections, pending>>
    BY DEF Choose, ChooseAll
  <1>6. LogTypes'
    BY <1>4, <1>5 DEF LogTypes
  <1> QED
    BY <1>4, <1>6 DEF Grows

-----------------------------------------------------------------------------
(* checkLogs, for the live instance or a ghost.                            *)
LEMMA Takes ==
  ASSUME Types, \A t \in Server : HeldOK(t), failed = Fine,
         NEW s \in Server, NEW index \in 1 .. Len(chosen), takesEntry(s, index)
  PROVE  /\ logs' \in [Server -> Maps] /\ lastApplied' \in [Server -> Nat]
         /\ \A t \in Server \ {s} : logs'[t] = logs[t] /\ lastApplied'[t] = lastApplied[t]
         /\ Valid(logs'[s]) /\ DOMAIN logs[s] \subseteq DOMAIN logs'[s]
         /\ lastApplied'[s] = IF snapshots THEN index ELSE lastApplied[s]
         /\ failed' = Fine => index \in DOMAIN logs'[s] /\ (snapshots => index = lastApplied[s] + 1)
         /\ failed'.kind \in {"none", "order", "differs"}
         /\ failed'.kind = "none" <=> failed' = Fine
         /\ failed'.kind = "differs" => Torn
         /\ failed'.kind = "order" =>
              /\ failed'.server = s /\ failed'.index = index
              /\ \/ snapshots /\ index # lastApplied[s] + 1
                 \/ index > 1 /\ index - 1 \notin DOMAIN logs[s]
  <1>1. logs \in [Server -> Maps] /\ lastApplied \in [Server -> Nat] /\ LogTypes
    BY DEF Types, HarnessTypes
  <1>2. command(index) \in Command
    BY <1>1, CommandAt
  <1>3. PICK log \in Maps : log = logs[s]
    BY <1>1
  <1> DEFINE new == [i \in DOMAIN log \cup {index} |-> IF i = index THEN command(index) ELSE log[i]]
  <1>4. DOMAIN log \subseteq Nat /\ \A i \in DOMAIN log : log[i] \in Command \cup {nil}
    BY MapFacts
  <1>5. new \in Maps /\ DOMAIN new = DOMAIN log \cup {index}
    <2>1. new \in [DOMAIN log \cup {index} -> Command \cup {nil}]
      BY <1>2, <1>4
    <2>2. DOMAIN log \cup {index} \in SUBSET Nat
      BY <1>1, <1>4 DEF LogTypes
    <2> HIDE DEF new
    <2> QED
      BY <2>1, <2>2, NewMap
  <1>6. Valid(log)
    BY <1>3 DEF HeldOK
  <1>7. Valid(new)
    <2> SUFFICES ASSUME NEW i \in DOMAIN new \ {0} PROVE i \in 1 .. Len(chosen) /\ HeldAt(new, i)
      BY DEF Valid
    <2>1. CASE i = index
      <3>1. new[i] = command(i)
        BY <2>1, <1>5
      <3> QED
        BY <2>1, <3>1 DEF HeldAt
    <2>2. CASE i # index
      <3>1. i \in DOMAIN log \ {0} /\ new[i] = log[i]
        BY <2>2, <1>5
      <3> QED
        BY <3>1, <1>6 DEF Valid, HeldAt
    <2> QED
      BY <2>1, <2>2
  <1>8. logs' = IF Skipped(s, index) THEN logs ELSE [logs EXCEPT ![s] = new]
    BY <1>3 DEF takesEntry
  <1>9. /\ logs' \in [Server -> Maps]
        /\ \A t \in Server \ {s} : logs'[t] = logs[t]
        /\ logs'[s] = IF Skipped(s, index) THEN log ELSE new
    <2> HIDE DEF new
    <2> QED
      BY <1>1, <1>3, <1>5, <1>8
  <1>10. Valid(logs'[s]) /\ DOMAIN logs[s] \subseteq DOMAIN logs'[s]
         /\ (~Skipped(s, index) => index \in DOMAIN logs'[s])
    <2> HIDE DEF new
    <2> QED
      BY <1>3, <1>5, <1>6, <1>7, <1>9
  <1>11. /\ lastApplied' \in [Server -> Nat]
         /\ \A t \in Server \ {s} : lastApplied'[t] = lastApplied[t]
         /\ lastApplied'[s] = IF snapshots THEN index ELSE lastApplied[s]
    BY <1>1 DEF takesEntry, LogTypes
  <1>12. Disagrees(index) => Torn
    <2> SUFFICES ASSUME NEW t \in Server, index \in DOMAIN logs[t], logs[t][index] # command(index)
                 PROVE  Torn
      BY DEF Disagrees
    <2>1. Valid(logs[t]) /\ index # 0
      BY <1>1 DEF HeldOK, LogTypes
    <2> QED
      BY <2>1 DEF Valid, HeldAt
  <1>13. failed' = IF OutOfOrder(s, index) THEN [kind |-> "order", server |-> s, index |-> index]
                   ELSE IF Disagrees(index) THEN [kind |-> "differs", server |-> s, index |-> index]
                   ELSE Fine
    BY DEF takesEntry
  <1>14. Fine.kind = "none"
    BY DEF Fine
  <1>15. CASE OutOfOrder(s, index)
    <2>1. failed' = [kind |-> "order", server |-> s, index |-> index]
      BY <1>13, <1>15
    <2>2. failed'.kind = "order" /\ failed'.server = s /\ failed'.index = index
      BY <2>1
    <2>3. \/ snapshots /\ index # lastApplied[s] + 1
          \/ index > 1 /\ index - 1 \notin DOMAIN logs[s]
      BY <1>15 DEF OutOfOrder, Skipped
    <2> QED
      BY <1>9, <1>10, <1>11, <1>14, <2>2, <2>3
  <1>16. CASE ~OutOfOrder(s, index) /\ Disagrees(index)
    <2>1. failed' = [kind |-> "differs", server |-> s, index |-> index]
      BY <1>13, <1>16
    <2>2. failed'.kind = "differs"
      BY <2>1
    <2> QED
      BY <1>9, <1>10, <1>11, <1>12, <1>14, <1>16, <2>2
  <1>17. CASE ~OutOfOrder(s, index) /\ ~Disagrees(index)
    <2>1. failed' = Fine /\ ~Skipped(s, index)
      BY <1>13, <1>17 DEF OutOfOrder
    <2>2. snapshots => index = lastApplied[s] + 1
      BY <2>1 DEF Skipped
    <2> QED
      BY <1>9, <1>10, <1>11, <1>14, <2>1, <2>2
  <1> QED
    BY <1>15, <1>16, <1>17

-----------------------------------------------------------------------------
(* What a step of one server leaves to the others, to one() and to the     *)
(* alarms.                                                                 *)
OneMoves(s) ==
  /\ Types' /\ Grows /\ ServerOK(s)'
  /\ \A t \in Server \ {s} : Untouched(t)
  /\ client' = client
  /\ AlarmOK'

LEMMA ClientStays ==
  ASSUME Types, ClientOK, Grows, client' = client
  PROVE  ClientOK'
  <1>1. client.index \in Nat /\ client.count \in Nat
    BY DEF Types, Clients
  <1>2. client.cmd # nil =>
          client.index \in 1 .. Len(chosen') /\ client.cmd = chosen'[client.index].command
    BY <1>1 DEF ClientOK, Grows, command
  <1> QED
    BY <1>2 DEF ClientOK, Grows, command

LEMMA OneMovesOK ==
  ASSUME HInv, failed = Fine, NEW s \in Server, OneMoves(s)
  PROVE  HInv'
  <1>1. ASSUME NEW t \in Server PROVE ServerOK(t)'
    BY UntouchedOK DEF HInv, OneMoves
  <1>2. ClientOK'
    BY ClientStays DEF HInv, OneMoves
  <1> QED
    BY <1>1, <1>2 DEF HInv, OneMoves

LEMMA NoAlarm ==
  ASSUME failed' = Fine
  PROVE  AlarmOK'
  <1>1. Fine.kind = "none"
    BY DEF Fine
  <1> QED
    BY <1>1 DEF AlarmOK, NoFalseAlarm, OrderFailures

(* The alarms of checkLogs.                                                *)
LEMMA TakesAlarm ==
  ASSUME failed'.kind \in {"none", "order", "differs"},
         failed'.kind = "differs" => Torn, Torn => Torn',
         failed'.kind = "order" => /\ snapshots'
                                   /\ \/ failed'.index <= snapshot'[failed'.server].index
                                      \/ ghosts'[failed'.server].meddled
  PROVE  AlarmOK'
  BY DEF AlarmOK, NoFalseAlarm, OrderFailures

LEMMA TornStays ==
  ASSUME \A s \in Server : ghosts[s].tore => ghosts'[s].tore
  PROVE  Torn => Torn'
  BY DEF Torn

(* A batch one entry further on.                                           *)
LEMMA BatchGoesOn ==
  ASSUME NEW b \in Batches
  PROVE  [b EXCEPT !.next = @ + 1] = [next |-> b.next + 1, last |-> b.last]
  <1>1. PICK x \in Nat : x = b.next
    BY DEF Batches
  <1>2. PICK y \in Nat : y = b.last
    BY DEF Batches
  <1>3. b = [next |-> x, last |-> y]
    BY <1>1, <1>2 DEF Batches
  <1>4. [b EXCEPT !.next = @ + 1] = [next |-> x + 1, last |-> y]
    BY <1>3
  <1> QED
    BY <1>1, <1>2, <1>4

(* The batch after an entry of it has been sent.                           *)
After(b) == IF b.next < b.last THEN [next |-> b.next + 1, last |-> b.last] ELSE NoBatch

LEMMA AfterIs ==
  ASSUME NEW b \in Batches
  PROVE  /\ After(b) \in Batches
         /\ b.next < b.last => After(b) # NoBatch /\ After(b).next = b.next + 1 /\ After(b).last = b.last
         /\ ~(b.next < b.last) => After(b) = NoBatch
  <1>1. b.next \in Nat /\ b.last \in Nat
    BY DEF Batches
  <1>2. b.next < b.last => After(b).next = b.next + 1 /\ After(b).last = b.last
    BY DEF After
  <1>3. NoBatch.next = 0 /\ NoBatch \in Batches
    BY DEF NoBatch, Batches
  <1>4. After(b) \in Batches
    BY <1>1, <1>3 DEF After, Batches
  <1> QED
    BY <1>1, <1>2, <1>3, <1>4 DEF After

LEMMA SendsNext ==
  ASSUME PipelineTypes, NEW s \in Server, SendNext(s)
  PROVE  /\ batch[s] # NoBatch /\ batch' = [batch EXCEPT ![s] = After(batch[s])]
         /\ rfApplied' = IF batch[s].next < batch[s].last THEN rfApplied
                         ELSE [rfApplied EXCEPT ![s] = AppliedAfter(s)]
         /\ UNCHANGED <<commitIndex, snapCh>>
  <1>1. PICK b \in Batches : b = batch[s]
    BY DEF PipelineTypes
  <1>2. batch \in [Server -> Batches]
    BY DEF PipelineTypes
  <1>3. [batch EXCEPT ![s].next = @ + 1] = [batch EXCEPT ![s] = [next |-> b.next + 1, last |-> b.last]]
    <2>1. [batch EXCEPT ![s].next = @ + 1] = [batch EXCEPT ![s] = [batch[s] EXCEPT !.next = @ + 1]]
      OBVIOUS
    <2>2. [b EXCEPT !.next = @ + 1] = [next |-> b.next + 1, last |-> b.last]
      BY BatchGoesOn
    <2> QED
      BY <1>1, <2>1, <2>2
  <1>4. CASE b.next < b.last
    <2>1. batch' = [batch EXCEPT ![s].next = @ + 1] /\ UNCHANGED rfApplied
      BY <1>1, <1>4 DEF SendNext
    <2>2. After(b) = [next |-> b.next + 1, last |-> b.last]
      BY <1>4 DEF After
    <2> QED
      BY <1>1, <1>3, <1>4, <2>1, <2>2 DEF SendNext
  <1>5. CASE ~(b.next < b.last)
    <2>1. batch' = [batch EXCEPT ![s] = NoBatch] /\ rfApplied' = [rfApplied EXCEPT ![s] = AppliedAfter(s)]
      BY <1>1, <1>5 DEF SendNext
    <2>2. After(b) = NoBatch
      BY <1>5 DEF After
    <2> QED
      BY <1>1, <1>5, <2>1, <2>2 DEF SendNext
  <1> QED
    BY <1>4, <1>5

-----------------------------------------------------------------------------
(* The live instance of a server.                                          *)

(* Two numbers by which a batch and its server go on.                      *)
LEMMA BatchFacts ==
  ASSUME Types, NEW s \in Server, NumbersOK(s), batch[s] # NoBatch
  PROVE  /\ batch[s].next \in 1 .. Len(chosen) /\ batch[s].last \in Nat
         /\ batch[s].next <= batch[s].last /\ batch[s].last <= commitIndex[s]
         /\ commitIndex[s] \in Nat /\ commitIndex[s] <= Len(chosen) /\ rfApplied[s] \in Nat
         /\ Len(chosen) \in Nat
  <1>1. /\ batch[s] \in Batches /\ commitIndex[s] \in Nat /\ rfApplied[s] \in Nat
        /\ Len(chosen) \in Nat
    BY DEF Types, PipelineTypes, LogTypes
  <1>2. batch[s].next \in Nat /\ batch[s].last \in Nat
    BY <1>1 DEF Batches
  <1> QED
    BY <1>1, <1>2 DEF NumbersOK

LEMMA ReceiveOK ==
  ASSUME HInv, failed = Fine, NEW s \in Server, Receive(s)
  PROVE  OneMoves(s)
  <1> DEFINE index == batch[s].next
  <1>1. /\ Types /\ LogTypes /\ PipelineTypes /\ HarnessTypes
        /\ ServerOK(s) /\ HeldOK(s) /\ NumbersOK(s) /\ CoveredOK(s) /\ InStepOK(s)
    BY DEF HInv, Types, ServerOK
  <1>2. /\ up[s] /\ due[s] = 0 /\ takesEntry(s, index)
        /\ due' = [due EXCEPT ![s] = IF SnapshotDue(index) THEN index ELSE 0]
        /\ UNCHANGED <<leads, lastIndex, elections, pending, chosen>>
        /\ UNCHANGED <<snapshot, snapshots, up, ghosts, restarts, client>>
    BY DEF Receive, logService
  <1>3. /\ batch[s] # NoBatch /\ batch' = [batch EXCEPT ![s] = After(batch[s])]
        /\ rfApplied' = IF batch[s].next < batch[s].last THEN rfApplied
                        ELSE [rfApplied EXCEPT ![s] = AppliedAfter(s)]
        /\ UNCHANGED <<commitIndex, snapCh>>
    BY <1>1, SendsNext DEF Receive
  <1>4. /\ index \in 1 .. Len(chosen) /\ batch[s].last \in Nat
        /\ index <= batch[s].last /\ batch[s].last <= commitIndex[s]
        /\ commitIndex[s] \in Nat /\ commitIndex[s] <= Len(chosen) /\ rfApplied[s] \in Nat
        /\ Len(chosen) \in Nat
    BY <1>1, <1>3, BatchFacts
  <1>5. /\ logs' \in [Server -> Maps] /\ lastApplied' \in [Server -> Nat]
        /\ \A t \in Server \ {s} : logs'[t] = logs[t] /\ lastApplied'[t] = lastApplied[t]
        /\ Valid(logs'[s]) /\ DOMAIN logs[s] \subseteq DOMAIN logs'[s]
        /\ lastApplied'[s] = IF snapshots THEN index ELSE lastApplied[s]
        /\ failed' = Fine => index \in DOMAIN logs'[s] /\ (snapshots => index = lastApplied[s] + 1)
        /\ failed'.kind \in {"none", "order", "differs"}
        /\ failed'.kind = "differs" => Torn
        /\ failed'.kind = "order" =>
             /\ failed'.server = s /\ failed'.index = index
             /\ \/ snapshots /\ index # lastApplied[s] + 1
                \/ index > 1 /\ index - 1 \notin DOMAIN logs[s]
    <2>1. \A t \in Server : HeldOK(t)
      BY DEF HInv, ServerOK
    <2> QED
      BY <1>1, <1>2, <1>4, <2>1, Takes
  <1>6. lastApplied[s] \in Nat /\ due[s] \in Nat /\ lastApplied[s] <= Len(chosen)
        /\ due' \in [Server -> Nat]
    <2>1. (IF SnapshotDue(index) THEN index ELSE 0) \in Nat
      BY <1>4
    <2>2. due \in [Server -> Nat] /\ lastApplied \in [Server -> Nat]
      BY <1>1 DEF HarnessTypes
    <2> QED
      BY <1>1, <1>2, <2>1, <2>2 DEF NumbersOK
  <1>7. /\ batch' \in [Server -> Batches] /\ batch'[s] = After(batch[s])
        /\ After(batch[s]) \in Batches
        /\ index < batch[s].last =>
             After(batch[s]) # NoBatch /\ After(batch[s]).next = index + 1
             /\ After(batch[s]).last = batch[s].last
        /\ ~(index < batch[s].last) => After(batch[s]) = NoBatch
    <2>1. batch \in [Server -> Batches]
      BY <1>1 DEF PipelineTypes
    <2>2. PICK b \in Batches : b = batch[s]
      BY <2>1
    <2> QED
      BY <1>3, <2>1, <2>2, AfterIs
  <1>8. /\ rfApplied' \in [Server -> Nat]
        /\ index < batch[s].last => rfApplied'[s] = rfApplied[s]
        /\ ~(index < batch[s].last) => rfApplied'[s] = AppliedAfter(s)
        /\ AppliedAfter(s) \in Nat
        /\ AppliedAfter(s) = IF rfApplied[s] > batch[s].last THEN rfApplied[s] ELSE batch[s].last
    <2>1. AppliedAfter(s) \in Nat
          /\ AppliedAfter(s) = IF rfApplied[s] > batch[s].last THEN rfApplied[s] ELSE batch[s].last
      BY <1>4 DEF AppliedAfter
    <2>2. rfApplied \in [Server -> Nat]
      BY <1>1 DEF PipelineTypes
    <2> QED
      BY <1>3, <2>1, <2>2
  <1>9. Grows
    <2>1. Torn => Torn'
      BY <1>2, TornStays
    <2> QED
      BY <1>1, <1>2, <2>1, SameLog
  <1>10. Types'
    BY <1>1, <1>2, <1>3, <1>5, <1>6, <1>7, <1>8 DEF Types, LogTypes, PipelineTypes, HarnessTypes
  <1>11. \A t \in Server \ {s} : Untouched(t)
    BY <1>1, <1>2, <1>3, <1>5 DEF Untouched, PipelineTypes, HarnessTypes
  <1>12. HeldOK(s)'
    <2>1. ValidNext(logs'[s])
      BY <1>5, <1>9, ValidStays
    <2>2. SnapNext(snapshot[s]) /\ \A snap \in snapCh[s] \cup ghosts[s].snapCh : SnapNext(snap)
      BY <1>1, <1>9, SnapStays DEF HeldOK
    <2> QED
      BY <1>2, <1>3, <2>1, <2>2, NextForms
  <1>13. NumbersOK(s)'
    <2>1. due'[s] \in {0, index} /\ (~snapshots => due'[s] = 0)
      BY <1>1, <1>2 DEF SnapshotDue, HarnessTypes
    <2>2. lastApplied'[s] <= Len(chosen) /\ due'[s] <= Len(chosen)
      BY <1>4, <1>5, <1>6, <2>1
    <2>3. batch'[s] # NoBatch =>
            1 <= batch'[s].next /\ batch'[s].next <= batch'[s].last /\ batch'[s].last <= commitIndex'[s]
      BY <1>3, <1>4, <1>7
    <2>4. ~snapshots /\ batch'[s] # NoBatch => rfApplied'[s] < batch'[s].next
      BY <1>1, <1>3, <1>4, <1>7, <1>8 DEF NumbersOK
    <2> HIDE DEF index
    <2> QED
      BY <1>1, <1>2, <1>3, <2>1, <2>2, <2>3, <2>4 DEF NumbersOK
  <1>14. failed' = Fine => index \in DOMAIN logs'[s] /\ (snapshots => index = lastApplied[s] + 1)
    BY <1>5
  <1>15. CoveredOK(s)'
    <2> SUFFICES ASSUME failed' = Fine
                 PROVE  /\ snapshots => Covers(logs'[s], lastApplied'[s])
                        /\ ~snapshots =>
                             /\ batch'[s] = NoBatch => Covers(logs'[s], rfApplied'[s])
                             /\ batch'[s] # NoBatch => Covers(logs'[s], batch'[s].next - 1)
                             /\ ghosts[s].batch # NoBatch => Covers(logs'[s], ghosts[s].batch.next - 1)
                        /\ ~ghosts[s].tore => due'[s] <= lastApplied'[s]
      BY <1>2 DEF CoveredOK, Covers
    <2>1. index \in DOMAIN logs'[s] /\ DOMAIN logs[s] \subseteq DOMAIN logs'[s]
      BY <1>5
    <2>2. Covers(logs[s], index - 1) => Covers(logs'[s], index)
      BY <1>4, <2>1 DEF Covers
    <2>3. CASE snapshots
      <3>1. index = lastApplied[s] + 1 /\ lastApplied'[s] = index /\ Covers(logs[s], lastApplied[s])
        BY <1>1, <1>5, <2>3 DEF CoveredOK
      <3>2. lastApplied[s] = index - 1
        BY <1>6, <3>1
      <3>3. Covers(logs'[s], index)
        BY <2>2, <3>1, <3>2
      <3>4. due'[s] <= index
        <4>1. due'[s] \in {0, index}
          BY <1>1, <1>2 DEF HarnessTypes
        <4> QED
          BY <1>4, <4>1
      <3> QED
        BY <2>3, <3>1, <3>3, <3>4
    <2>4. CASE ~snapshots
      <3>1. Covers(logs[s], index - 1)
        BY <1>1, <1>3, <2>4 DEF CoveredOK
      <3>2. Covers(logs'[s], index)
        BY <2>2, <3>1
      <3>3. ghosts[s].batch # NoBatch => Covers(logs'[s], ghosts[s].batch.next - 1)
        BY <1>1, <2>1, <2>4 DEF CoveredOK, Covers
      <3>4. due'[s] = 0
        BY <1>1, <1>2, <2>4 DEF SnapshotDue, HarnessTypes
      <3>5. CASE index < batch[s].last
        <4>1. batch'[s] # NoBatch /\ batch'[s].next - 1 = index
          BY <1>4, <1>7, <3>5
        <4> QED
          BY <1>6, <1>5, <2>4, <3>2, <3>3, <3>4, <4>1
      <3>6. CASE ~(index < batch[s].last)
        <4>1. batch'[s] = NoBatch /\ index = batch[s].last /\ rfApplied'[s] = AppliedAfter(s)
          BY <1>4, <1>7, <1>8, <3>6
        <4>2. rfApplied[s] < index
          BY <1>1, <1>3, <2>4 DEF NumbersOK
        <4>3. rfApplied'[s] = index
          BY <1>4, <1>8, <4>1, <4>2
        <4> QED
          BY <1>5, <1>6, <2>4, <3>2, <3>3, <3>4, <4>1, <4>3
      <3> QED
        BY <3>5, <3>6
    <2> QED
      BY <2>3, <2>4
  <1>16. InStepOK(s)'
    <2> SUFFICES ASSUME failed' = Fine, snapshots, ~ghosts[s].meddled
                 PROVE  /\ batch'[s] = NoBatch => lastApplied'[s] = rfApplied'[s]
                        /\ batch'[s] # NoBatch =>
                             lastApplied'[s] = batch'[s].next - 1 /\ rfApplied'[s] < batch'[s].next
      BY <1>2 DEF InStepOK
    <2>1. index = lastApplied[s] + 1 /\ lastApplied'[s] = index
      BY <1>5
    <2>2. lastApplied[s] = index - 1 /\ rfApplied[s] < index
      <3>1. lastApplied[s] = index - 1
        BY <1>6, <2>1
      <3> QED
        BY <1>1, <1>2, <1>3, <3>1 DEF InStepOK
    <2> HIDE DEF index
    <2>3. CASE index < batch[s].last
      BY <1>4, <1>7, <1>8, <2>1, <2>2, <2>3
    <2>4. CASE ~(index < batch[s].last)
      <3>1. index = batch[s].last /\ ~(rfApplied[s] > batch[s].last)
        BY <1>4, <2>2, <2>4
      <3>2. batch'[s] = NoBatch /\ rfApplied'[s] = batch[s].last
        BY <1>7, <1>8, <2>4, <3>1
      <3> QED
        BY <2>1, <3>1, <3>2
    <2> QED
      BY <2>3, <2>4
  <1>17. AlarmOK'
    <2> SUFFICES ASSUME failed'.kind = "order"
                 PROVE  snapshots /\ (index <= snapshot[s].index \/ ghosts[s].meddled)
      BY <1>2, <1>5, <1>9, TakesAlarm DEF Grows
    <2>1. snapshots
      <3>1. SUFFICES ASSUME ~snapshots PROVE FALSE
        OBVIOUS
      <3>2. Covers(logs[s], index - 1)
        BY <1>1, <1>3, <3>1 DEF CoveredOK
      <3> QED
        BY <1>4, <1>5, <3>1, <3>2 DEF Covers
    <2>2. index # lastApplied[s] + 1
      <3>1. SUFFICES ASSUME index = lastApplied[s] + 1 PROVE FALSE
        OBVIOUS
      <3>2. Covers(logs[s], lastApplied[s])
        BY <1>1, <2>1 DEF CoveredOK
      <3>3. index > 1 => index - 1 \in 1 .. lastApplied[s]
        BY <1>4, <1>6, <3>1
      <3> QED
        BY <1>5, <3>1, <3>2, <3>3 DEF Covers
    <2>3. lastApplied[s] # index - 1
      BY <1>6, <1>4, <2>2
    <2> QED
      BY <1>1, <1>2, <1>3, <2>1, <2>3 DEF InStepOK
  <1> QED
    BY <1>2, <1>9, <1>10, <1>11, <1>12, <1>13, <1>15, <1>16, <1>17 DEF OneMoves, ServerOK

LEMMA SnapshotOK ==
  ASSUME HInv, failed = Fine, NEW s \in Server, Snapshot(s)
  PROVE  OneMoves(s)
  <1>1. /\ Types /\ LogTypes /\ PipelineTypes /\ HarnessTypes
        /\ ServerOK(s) /\ HeldOK(s) /\ NumbersOK(s) /\ CoveredOK(s) /\ InStepOK(s)
    BY DEF HInv, Types, ServerOK
  <1>2. /\ up[s] /\ due[s] # 0 /\ due' = [due EXCEPT ![s] = 0]
        /\ UNCHANGED <<leads, lastIndex, elections, pending, chosen>>
        /\ UNCHANGED <<commitIndex, rfApplied, batch, snapCh, snapshots, logs, lastApplied, up,
                       ghosts, restarts, client, failed>>
    BY DEF Snapshot, logService
  <1> DEFINE new == [index |-> due[s], xlog |-> Encoded(logs[s], due[s])]
  <1>3. snapshot' = IF due[s] <= snapshot[s].index THEN snapshot
                    ELSE [snapshot EXCEPT ![s] = new]
    BY DEF Snapshot
  <1>4. /\ due[s] \in Nat /\ due[s] <= Len(chosen) /\ Len(chosen) \in Nat /\ due \in [Server -> Nat]
        /\ lastApplied[s] \in Nat /\ snapshots /\ snapshot \in [Server -> Snap] /\ logs[s] \in Maps
        /\ snapshot[s].index \in Nat
    BY <1>1, <1>2 DEF LogTypes, PipelineTypes, HarnessTypes, NumbersOK, Snap
  <1>5. PICK log \in Maps : log = logs[s]
    BY <1>4
  <1>6. PICK d \in Nat : d = due[s]
    BY <1>4
  <1>7. Encoded(log, d) \in Maps /\ DOMAIN Encoded(log, d) = 0 .. d
    <2>1. \A i \in DOMAIN log : log[i] \in Command \cup {nil}
      BY MapFacts
    <2>2. Encoded(log, d) \in [0 .. d -> Command \cup {nil}]
      BY <2>1 DEF Encoded
    <2>3. 0 .. d \in SUBSET Nat
      OBVIOUS
    <2> QED
      BY <2>2, <2>3, NewMap
  <1>8. Valid(Encoded(log, d))
    <2> SUFFICES ASSUME NEW i \in DOMAIN Encoded(log, d) \ {0}
                 PROVE  i \in 1 .. Len(chosen) /\ HeldAt(Encoded(log, d), i)
      BY DEF Valid
    <2>1. i \in 1 .. d /\ i \in 0 .. d
      BY <1>7
    <2>2. i \in 1 .. Len(chosen)
      BY <1>4, <1>6, <2>1
    <2>3. Encoded(log, d)[i] = IF i \in DOMAIN log THEN log[i] ELSE nil
      BY <2>1 DEF Encoded
    <2>4. CASE i \in DOMAIN log
      <3>1. HeldAt(log, i)
        BY <1>1, <1>5, <2>1, <2>4 DEF HeldOK, Valid
      <3> QED
        BY <2>2, <2>3, <2>4, <3>1 DEF HeldAt
    <2>5. CASE i \notin DOMAIN log
      <3>1. Covers(log, lastApplied[s]) /\ (~ghosts[s].tore => d <= lastApplied[s])
        BY <1>1, <1>4, <1>5, <1>6 DEF CoveredOK
      <3>2. Torn
        BY <1>4, <2>1, <2>5, <3>1 DEF Covers, Torn
      <3> QED
        BY <2>2, <2>3, <2>5, <3>2 DEF HeldAt
    <2> QED
      BY <2>4, <2>5
  <1>9. new \in Snap /\ new.index = d /\ new.xlog = Encoded(log, d)
    BY <1>5, <1>6, <1>7 DEF Snap
  <1>10. SnapOK(new)
    <2> HIDE DEF new
    <2> QED
      BY <1>2, <1>4, <1>6, <1>7, <1>8, <1>9 DEF SnapOK
  <1>11. /\ snapshot' \in [Server -> Snap] /\ \A t \in Server \ {s} : snapshot'[t] = snapshot[t]
         /\ SnapOK(snapshot'[s])
         /\ snapshot'[s].index \in Nat /\ snapshot[s].index <= snapshot'[s].index
    <2> HIDE DEF new
    <2>1. CASE due[s] <= snapshot[s].index
      BY <1>1, <1>3, <1>4, <2>1 DEF HeldOK
    <2>2. CASE ~(due[s] <= snapshot[s].index)
      BY <1>3, <1>4, <1>6, <1>9, <1>10, <2>2
    <2> QED
      BY <2>1, <2>2
  <1>12. Grows
    <2>1. Torn => Torn'
      BY <1>2, TornStays
    <2> QED
      BY <1>1, <1>2, <2>1, SameLog
  <1>13. due' \in [Server -> Nat] /\ due'[s] = 0
    BY <1>2, <1>4
  <1>14. Types'
    BY <1>1, <1>2, <1>11, <1>13 DEF Types, LogTypes, PipelineTypes, HarnessTypes
  <1>15. \A t \in Server \ {s} : Untouched(t)
    BY <1>2, <1>4, <1>11 DEF Untouched
  <1>16. HeldOK(s)'
    <2>1. ValidNext(logs[s]) /\ SnapNext(snapshot'[s])
          /\ \A snap \in snapCh[s] \cup ghosts[s].snapCh : SnapNext(snap)
      BY <1>1, <1>11, <1>12, ValidStays, SnapStays DEF HeldOK
    <2> QED
      BY <1>2, <2>1, NextForms
  <1>17. NumbersOK(s)'
    BY <1>1, <1>2, <1>4, <1>13 DEF NumbersOK
  <1>18. CoveredOK(s)'
    BY <1>1, <1>2, <1>4, <1>13 DEF CoveredOK, Covers
  <1>19. InStepOK(s)'
    <2>1. batch[s].next \in Nat
      BY <1>1 DEF PipelineTypes, Batches
    <2> QED
      BY <1>1, <1>2, <1>4, <1>11, <2>1 DEF InStepOK
  <1>20. AlarmOK'
    BY <1>2, NoAlarm
  <1> QED
    BY <1>2, <1>12, <1>14, <1>15, <1>16, <1>17, <1>18, <1>19, <1>20 DEF OneMoves, ServerOK

(* A snapshot that is ahead of something holds all that it says.           *)
LEMMA Ahead ==
  ASSUME LogTypes, NEW snap, SnapOK(snap), NEW index \in Nat, snap.index > index
  PROVE  /\ snap \in Snap /\ snap.xlog \in Maps /\ snap.index \in Nat \ {0}
         /\ snap.index <= Len(chosen)
         /\ Covers(snap.xlog, snap.index) /\ Valid(snap.xlog)
  <1>1. snap \in Snap /\ snap.xlog \in Maps /\ snap.index \in Nat
    BY DEF SnapOK, Snap
  <1>2. snap.index > 0
    BY <1>1
  <1>3. snap # NoSnapshot
    BY <1>2 DEF NoSnapshot
  <1>4. DOMAIN snap.xlog = 0 .. snap.index
    BY <1>3 DEF SnapOK
  <1> QED
    BY <1>1, <1>2, <1>4 DEF SnapOK, Covers

LEMMA ReceiveInstalledOK ==
  ASSUME HInv, failed = Fine, NEW s \in Server, NEW snap \in snapCh[s], ReceiveInstalled(s, snap)
  PROVE  OneMoves(s)
  <1>1. /\ Types /\ LogTypes /\ PipelineTypes /\ HarnessTypes
        /\ ServerOK(s) /\ HeldOK(s) /\ NumbersOK(s) /\ CoveredOK(s) /\ InStepOK(s)
    BY DEF HInv, Types, ServerOK
  <1>2. /\ up[s] /\ due[s] = 0 /\ snapCh' = [snapCh EXCEPT ![s] = @ \ {snap}]
        /\ UNCHANGED <<leads, lastIndex, elections, pending, chosen>>
        /\ UNCHANGED <<batch, snapshots, due, up, ghosts, restarts, client, failed>>
    BY DEF ReceiveInstalled, CondInstallSnapshot, logService
  <1>3. SnapOK(snap) /\ snapshots
    BY <1>1 DEF HeldOK, NumbersOK, HarnessTypes
  <1>4. /\ commitIndex \in [Server -> Nat] /\ rfApplied \in [Server -> Nat]
        /\ snapshot \in [Server -> Snap] /\ snapCh \in [Server -> SUBSET Snap]
        /\ logs \in [Server -> Maps] /\ lastApplied \in [Server -> Nat]
        /\ Len(chosen) \in Nat /\ batch[s].next \in Nat /\ batch[s].last \in Nat
    BY <1>1 DEF LogTypes, PipelineTypes, HarnessTypes, Batches
  <1>5. /\ snapCh' \in [Server -> SUBSET Snap] /\ snapCh'[s] \subseteq snapCh[s]
        /\ \A t \in Server \ {s} : snapCh'[t] = snapCh[t]
    BY <1>2, <1>4
  <1>6. Grows
    <2>1. Torn => Torn'
      BY <1>2, TornStays
    <2> QED
      BY <1>1, <1>2, <2>1, SameLog
  <1>7. AlarmOK'
    BY <1>2, NoAlarm
  <1>8. \A x \in snapCh'[s] \cup ghosts'[s].snapCh : SnapNext(x)
    BY <1>1, <1>2, <1>5, <1>6, SnapStays DEF HeldOK
  <1>9. CASE Outdated(s, snap)
    <2>1. UNCHANGED <<commitIndex, rfApplied, snapshot, logs, lastApplied>>
      BY <1>9 DEF ReceiveInstalled, CondInstallSnapshot
    <2>2. Types'
      BY <1>1, <1>2, <1>5, <2>1 DEF Types, LogTypes, PipelineTypes, HarnessTypes
    <2>3. \A t \in Server \ {s} : Untouched(t)
      BY <1>2, <1>5, <2>1 DEF Untouched
    <2>4. HeldOK(s)'
      <3>1. ValidNext(logs[s]) /\ SnapNext(snapshot[s])
        BY <1>1, <1>6, ValidStays, SnapStays DEF HeldOK
      <3> QED
        BY <1>8, <2>1, <3>1, NextForms
    <2>5. NumbersOK(s)' /\ CoveredOK(s)' /\ InStepOK(s)'
      BY <1>1, <1>2, <1>3, <2>1 DEF NumbersOK, CoveredOK, InStepOK, Covers
    <2> QED
      BY <1>2, <1>6, <1>7, <2>2, <2>3, <2>4, <2>5 DEF OneMoves, ServerOK
  <1>10. CASE ~Outdated(s, snap)
    <2>1. /\ commitIndex' = [commitIndex EXCEPT ![s] = snap.index]
          /\ rfApplied' = [rfApplied EXCEPT ![s] = snap.index]
          /\ snapshot' = [snapshot EXCEPT ![s] = snap]
          /\ logs' = [logs EXCEPT ![s] = snap.xlog]
          /\ lastApplied' = [lastApplied EXCEPT ![s] = snap.index]
      BY <1>10 DEF ReceiveInstalled, CondInstallSnapshot, ingestSnap, Ingested
    <2>2. snap.index > commitIndex[s] /\ commitIndex[s] \in Nat
      <3>1. snap.index \in Nat
        BY <1>3 DEF SnapOK, Snap
      <3> QED
        BY <1>4, <1>10, <3>1 DEF Outdated
    <2>3. /\ snap \in Snap /\ snap.xlog \in Maps /\ snap.index \in Nat \ {0}
          /\ snap.index <= Len(chosen) /\ Covers(snap.xlog, snap.index) /\ Valid(snap.xlog)
      BY <1>1, <1>3, <2>2, Ahead
    <2>4. /\ commitIndex' \in [Server -> Nat] /\ commitIndex'[s] = snap.index
          /\ rfApplied' \in [Server -> Nat] /\ rfApplied'[s] = snap.index
          /\ snapshot' \in [Server -> Snap] /\ snapshot'[s] = snap
          /\ logs' \in [Server -> Maps] /\ logs'[s] = snap.xlog
          /\ lastApplied' \in [Server -> Nat] /\ lastApplied'[s] = snap.index
      BY <1>4, <2>1, <2>3
    <2>5. Types'
      BY <1>1, <1>2, <1>5, <2>4 DEF Types, LogTypes, PipelineTypes, HarnessTypes
    <2>6. \A t \in Server \ {s} : Untouched(t)
      BY <1>2, <1>4, <1>5, <2>1 DEF Untouched
    <2>7. HeldOK(s)'
      <3>1. ValidNext(snap.xlog) /\ SnapNext(snap)
        BY <1>3, <1>6, <2>3, ValidStays, SnapStays
      <3> QED
        BY <1>8, <2>4, <3>1, NextForms
    <2>8. batch[s] # NoBatch => batch[s].next <= batch[s].last /\ batch[s].last <= commitIndex[s]
      BY <1>1 DEF NumbersOK
    <2>9. NumbersOK(s)'
      <3>1. batch[s] # NoBatch => 1 <= batch[s].next /\ batch[s].next <= batch[s].last
                                  /\ batch[s].last <= snap.index
        BY <1>1, <1>4, <2>2, <2>3, <2>8 DEF NumbersOK
      <3> QED
        BY <1>1, <1>2, <1>3, <1>4, <2>3, <2>4, <3>1 DEF NumbersOK
    <2>10. CoveredOK(s)'
      BY <1>2, <1>3, <2>3, <2>4 DEF CoveredOK, Covers
    <2>11. InStepOK(s)'
      <3>1. batch[s] # NoBatch => batch[s].next <= snap.index /\ snap.index # batch[s].next - 1
        BY <1>4, <2>2, <2>3, <2>8
      <3> QED
        BY <1>2, <2>4, <3>1 DEF InStepOK
    <2> QED
      BY <1>2, <1>6, <1>7, <2>5, <2>6, <2>7, <2>9, <2>10, <2>11 DEF OneMoves, ServerOK
  <1> QED
    BY <1>9, <1>10

-----------------------------------------------------------------------------
(* The ghost of a server.                                                  *)
LEMMA GhostSent ==
  ASSUME HarnessTypes, NEW s \in Server, GhostSends(s)
  PROVE  /\ ghosts' \in [Server -> GhostStates]
         /\ \A t \in Server \ {s} : ghosts'[t] = ghosts[t]
         /\ ghosts'[s].batch = After(ghosts[s].batch)
         /\ ghosts'[s].commitIndex = ghosts[s].commitIndex
         /\ ghosts'[s].snapCh = ghosts[s].snapCh
         /\ ghosts'[s].meddled = (ghosts[s].meddled \/ up[s])
         /\ ghosts'[s].tore = ghosts[s].tore
  <1>1. PICK g \in GhostStates : g = ghosts[s]
    BY DEF HarnessTypes
  <1>2. PICK b \in Batches : b = g.batch
    BY DEF GhostStates
  <1>3. PICK u \in BOOLEAN : u = up[s]
    BY DEF HarnessTypes
  <1>4. g.meddled \in BOOLEAN
    BY DEF GhostStates
  <1>5. PICK m \in BOOLEAN : m = (g.meddled \/ u)
    BY <1>4
  <1>6. PICK a \in Batches : a = After(b)
    BY AfterIs
  <1>7. Rest(b) = a
    BY <1>6, BatchGoesOn DEF After, Rest
  <1>8. ghosts' = [ghosts EXCEPT ![s] = [[g EXCEPT !.batch = a] EXCEPT !.meddled = m]]
    <2>1. ghosts' = [ghosts EXCEPT ![s].batch = Rest(@), ![s].meddled = @ \/ up[s]]
      BY DEF GhostSends
    <2>2. PICK h \in GhostStates : h = [g EXCEPT !.batch = a]
      BY DEF GhostStates
    <2>3. h = [g EXCEPT !.batch = Rest(@)] /\ h.meddled = g.meddled
      BY <1>2, <1>7, <2>2 DEF GhostStates
    <2>4. [h EXCEPT !.meddled = @ \/ u] = [h EXCEPT !.meddled = m]
      BY <2>3, <1>5
    <2>5. ghosts' = [ghosts EXCEPT ![s] = [h EXCEPT !.meddled = @ \/ u]]
      BY <1>1, <1>3, <2>1, <2>3 DEF HarnessTypes
    <2> QED
      BY <2>2, <2>4, <2>5
  <1>9. PICK h \in GhostStates : h = [[g EXCEPT !.batch = a] EXCEPT !.meddled = m]
    BY DEF GhostStates
  <1>10. /\ h.batch = a /\ h.commitIndex = g.commitIndex /\ h.snapCh = g.snapCh
         /\ h.meddled = m /\ h.tore = g.tore
    BY <1>9 DEF GhostStates
  <1>11. ghosts' = [ghosts EXCEPT ![s] = h]
    BY <1>8, <1>9
  <1>12. /\ ghosts' \in [Server -> GhostStates] /\ ghosts'[s] = h
         /\ \A t \in Server \ {s} : ghosts'[t] = ghosts[t]
    BY <1>11 DEF HarnessTypes
  <1> QED
    BY <1>1, <1>2, <1>3, <1>5, <1>6, <1>10, <1>12

LEMMA GhostSendsOK ==
  ASSUME HInv, failed = Fine, NEW s \in Server, GhostSends(s)
  PROVE  OneMoves(s)
  <1> DEFINE index == ghosts[s].batch.next
  <1>1. /\ Types /\ LogTypes /\ PipelineTypes /\ HarnessTypes
        /\ ServerOK(s) /\ HeldOK(s) /\ NumbersOK(s) /\ CoveredOK(s) /\ InStepOK(s)
    BY DEF HInv, Types, ServerOK
  <1>2. /\ ghosts[s].batch # NoBatch /\ takesEntry(s, index)
        /\ UNCHANGED <<leads, lastIndex, elections, pending, chosen>>
        /\ UNCHANGED <<commitIndex, rfApplied, batch, snapshot, snapCh>>
        /\ UNCHANGED <<snapshots, due, up, restarts, client>>
    BY DEF GhostSends, logService, pipeline
  <1>3. /\ ghosts' \in [Server -> GhostStates]
        /\ \A t \in Server \ {s} : ghosts'[t] = ghosts[t]
        /\ ghosts'[s].batch = After(ghosts[s].batch)
        /\ ghosts'[s].commitIndex = ghosts[s].commitIndex
        /\ ghosts'[s].snapCh = ghosts[s].snapCh
        /\ ghosts'[s].meddled = (ghosts[s].meddled \/ up[s])
        /\ ghosts'[s].tore = ghosts[s].tore
    BY <1>1, GhostSent
  <1>4. /\ ghosts[s].batch \in Batches /\ index \in Nat /\ ghosts[s].batch.last \in Nat
        /\ Len(chosen) \in Nat /\ lastApplied[s] \in Nat /\ due[s] \in Nat
        /\ ghosts[s].meddled \in BOOLEAN /\ up[s] \in BOOLEAN /\ snapshots \in BOOLEAN
    BY <1>1 DEF LogTypes, HarnessTypes, GhostStates, Batches
  <1>5. /\ index \in 1 .. Len(chosen) /\ index <= ghosts[s].batch.last
        /\ ghosts[s].batch.last <= Len(chosen)
    BY <1>1, <1>2, <1>4 DEF NumbersOK
  <1>6. /\ logs' \in [Server -> Maps] /\ lastApplied' \in [Server -> Nat]
        /\ \A t \in Server \ {s} : logs'[t] = logs[t] /\ lastApplied'[t] = lastApplied[t]
        /\ Valid(logs'[s]) /\ DOMAIN logs[s] \subseteq DOMAIN logs'[s]
        /\ lastApplied'[s] = IF snapshots THEN index ELSE lastApplied[s]
        /\ failed' = Fine => index \in DOMAIN logs'[s] /\ (snapshots => index = lastApplied[s] + 1)
        /\ failed'.kind \in {"none", "order", "differs"}
        /\ failed'.kind = "differs" => Torn
        /\ failed'.kind = "order" =>
             /\ failed'.server = s /\ failed'.index = index
             /\ \/ snapshots /\ index # lastApplied[s] + 1
                \/ index > 1 /\ index - 1 \notin DOMAIN logs[s]
    <2>1. \A t \in Server : HeldOK(t)
      BY DEF HInv, ServerOK
    <2> QED
      BY <1>1, <1>2, <1>5, <2>1, Takes
  <1>7. /\ index < ghosts[s].batch.last =>
             /\ ghosts'[s].batch # NoBatch /\ ghosts'[s].batch.next = index + 1
             /\ ghosts'[s].batch.last = ghosts[s].batch.last
        /\ ~(index < ghosts[s].batch.last) => ghosts'[s].batch = NoBatch
    <2>1. PICK b \in Batches : b = ghosts[s].batch
      BY <1>4
    <2> QED
      BY <1>3, <2>1, AfterIs
  <1>8. \A t \in Server : ghosts'[t].tore = ghosts[t].tore
    BY <1>3
  <1>9. Grows
    <2>1. Torn => Torn'
      BY <1>8, TornStays
    <2> QED
      BY <1>1, <1>2, <2>1, SameLog
  <1>10. Types'
    BY <1>1, <1>2, <1>3, <1>6 DEF Types, LogTypes, PipelineTypes, HarnessTypes
  <1>11. \A t \in Server \ {s} : Untouched(t)
    BY <1>2, <1>3, <1>6 DEF Untouched
  <1>12. HeldOK(s)'
    <2>1. ValidNext(logs'[s])
      BY <1>6, <1>9, ValidStays
    <2>2. SnapNext(snapshot[s]) /\ \A snap \in snapCh[s] \cup ghosts[s].snapCh : SnapNext(snap)
      BY <1>1, <1>9, SnapStays DEF HeldOK
    <2> QED
      BY <1>2, <1>3, <2>1, <2>2, NextForms
  <1>13. NumbersOK(s)'
    <2>1. lastApplied'[s] <= Len(chosen)
      BY <1>1, <1>5, <1>6 DEF NumbersOK
    <2>2. ghosts'[s].batch # NoBatch =>
            /\ 1 <= ghosts'[s].batch.next /\ ghosts'[s].batch.next <= ghosts'[s].batch.last
            /\ ghosts'[s].batch.last <= Len(chosen)
      BY <1>4, <1>5, <1>7
    <2> HIDE DEF index
    <2> QED
      BY <1>1, <1>2, <1>3, <2>1, <2>2 DEF NumbersOK
  <1>14. CoveredOK(s)'
    <2> SUFFICES ASSUME failed' = Fine
                 PROVE  /\ snapshots => Covers(logs'[s], lastApplied'[s])
                        /\ ~snapshots =>
                             /\ batch[s] = NoBatch => Covers(logs'[s], rfApplied[s])
                             /\ batch[s] # NoBatch => Covers(logs'[s], batch[s].next - 1)
                             /\ ghosts'[s].batch # NoBatch => Covers(logs'[s], ghosts'[s].batch.next - 1)
                        /\ ~ghosts[s].tore => due[s] <= lastApplied'[s]
      BY <1>2, <1>3 DEF CoveredOK, Covers
    <2>1. index \in DOMAIN logs'[s] /\ DOMAIN logs[s] \subseteq DOMAIN logs'[s]
      BY <1>6
    <2>2. Covers(logs[s], index - 1) => Covers(logs'[s], index)
      BY <1>5, <2>1 DEF Covers
    <2>3. CASE snapshots
      <3>1. index = lastApplied[s] + 1 /\ lastApplied'[s] = index /\ Covers(logs[s], lastApplied[s])
        BY <1>1, <1>6, <2>3 DEF CoveredOK
      <3>2. lastApplied[s] = index - 1
        BY <1>4, <3>1
      <3>3. Covers(logs'[s], index)
        BY <2>2, <3>1, <3>2
      <3>4. ~ghosts[s].tore => due[s] <= index
        BY <1>1, <1>4, <3>1 DEF CoveredOK
      <3> QED
        BY <2>3, <3>1, <3>3, <3>4
    <2>4. CASE ~snapshots
      <3>1. /\ batch[s] = NoBatch => Covers(logs[s], rfApplied[s])
            /\ batch[s] # NoBatch => Covers(logs[s], batch[s].next - 1)
            /\ Covers(logs[s], index - 1)
            /\ ~ghosts[s].tore => due[s] <= lastApplied[s]
        BY <1>1, <1>2, <2>4 DEF CoveredOK
      <3>2. Covers(logs'[s], index)
        BY <2>2, <3>1
      <3>3. ghosts'[s].batch # NoBatch => ghosts'[s].batch.next - 1 = index
        BY <1>4, <1>7
      <3>4. \A k : Covers(logs[s], k) => Covers(logs'[s], k)
        BY <2>1 DEF Covers
      <3> QED
        BY <1>6, <2>4, <3>1, <3>2, <3>3, <3>4
    <2> QED
      BY <2>3, <2>4
  <1>15. InStepOK(s)'
    <2> SUFFICES ASSUME failed' = Fine, snapshots, ~up[s], ghosts'[s].batch # NoBatch
                 PROVE  lastApplied'[s] = ghosts'[s].batch.next - 1
      BY <1>2, <1>3 DEF InStepOK
    <2> QED
      BY <1>4, <1>6, <1>7
  <1>16. AlarmOK'
    <2> SUFFICES ASSUME failed'.kind = "order"
                 PROVE  snapshots /\ (index <= snapshot[s].index \/ ghosts[s].meddled \/ up[s])
      BY <1>2, <1>3, <1>6, <1>9, TakesAlarm DEF Grows
    <2>1. snapshots
      <3>1. SUFFICES ASSUME ~snapshots PROVE FALSE
        OBVIOUS
      <3>2. Covers(logs[s], index - 1)
        BY <1>1, <1>2, <3>1 DEF CoveredOK
      <3> QED
        BY <1>5, <1>6, <3>1, <3>2 DEF Covers
    <2>2. index # lastApplied[s] + 1
      <3>1. SUFFICES ASSUME index = lastApplied[s] + 1 PROVE FALSE
        OBVIOUS
      <3>2. Covers(logs[s], lastApplied[s])
        BY <1>1, <2>1 DEF CoveredOK
      <3>3. index > 1 => index - 1 \in 1 .. lastApplied[s]
        BY <1>4, <3>1
      <3> QED
        BY <1>6, <3>1, <3>2, <3>3 DEF Covers
    <2>3. lastApplied[s] # index - 1
      BY <1>4, <2>2
    <2> QED
      BY <1>1, <1>2, <2>1, <2>3 DEF InStepOK
  <1> QED
    BY <1>2, <1>9, <1>10, <1>11, <1>12, <1>13, <1>14, <1>15, <1>16 DEF OneMoves, ServerOK

LEMMA GhostInstallsOK ==
  ASSUME HInv, failed = Fine, NEW s \in Server, NEW snap \in ghosts[s].snapCh,
         GhostInstalls(s, snap)
  PROVE  OneMoves(s)
  <1>1. /\ Types /\ LogTypes /\ PipelineTypes /\ HarnessTypes
        /\ ServerOK(s) /\ HeldOK(s) /\ NumbersOK(s) /\ CoveredOK(s) /\ InStepOK(s)
    BY DEF HInv, Types, ServerOK
  <1>2. /\ UNCHANGED <<leads, lastIndex, elections, pending, chosen>>
        /\ UNCHANGED <<commitIndex, rfApplied, batch, snapshot, snapCh>>
        /\ UNCHANGED <<snapshots, due, up, restarts, client, failed>>
    BY DEF GhostInstalls, logService, pipeline
  <1>3. PICK g \in GhostStates : g = ghosts[s]
    BY <1>1 DEF HarnessTypes
  <1>4. /\ g.snapCh \in SUBSET Snap /\ g.commitIndex \in Nat /\ g.batch \in Batches
        /\ g.batch.next \in Nat /\ g.batch.last \in Nat
        /\ g.tore \in BOOLEAN /\ g.meddled \in BOOLEAN
        /\ ghosts \in [Server -> GhostStates] /\ logs \in [Server -> Maps]
        /\ lastApplied \in [Server -> Nat] /\ due[s] \in Nat /\ Len(chosen) \in Nat
    BY <1>1 DEF GhostStates, Batches, LogTypes, HarnessTypes
  <1>5. SnapOK(snap) /\ snapshots
    BY <1>1 DEF HeldOK, NumbersOK, HarnessTypes
  <1>6. AlarmOK'
    BY <1>2, NoAlarm
  <1>7. CASE snap.index <= g.commitIndex
    <2>1. /\ ghosts' = [ghosts EXCEPT ![s].snapCh = @ \ {snap}]
          /\ UNCHANGED <<logs, lastApplied>>
      BY <1>3, <1>7 DEF GhostInstalls
    <2>2. PICK h \in GhostStates : h = [g EXCEPT !.snapCh = @ \ {snap}]
      BY <1>4 DEF GhostStates
    <2>3. /\ h.batch = g.batch /\ h.snapCh = g.snapCh \ {snap} /\ h.meddled = g.meddled
          /\ h.tore = g.tore
      BY <2>2 DEF GhostStates
    <2>4. ghosts' = [ghosts EXCEPT ![s] = h]
      BY <1>3, <2>1, <2>2
    <2>5. /\ ghosts' \in [Server -> GhostStates] /\ ghosts'[s] = h
          /\ \A t \in Server \ {s} : ghosts'[t] = ghosts[t]
      BY <1>4, <2>4
    <2>6. Grows
      <3>1. \A t \in Server : ghosts[t].tore => ghosts'[t].tore
        BY <1>3, <2>3, <2>5
      <3>2. Torn => Torn'
        BY <3>1, TornStays
      <3> QED
        BY <1>1, <1>2, <3>2, SameLog
    <2>7. Types'
      BY <1>1, <1>2, <2>1, <2>5 DEF Types, LogTypes, PipelineTypes, HarnessTypes
    <2>8. \A t \in Server \ {s} : Untouched(t)
      BY <1>2, <2>1, <2>5 DEF Untouched
    <2>9. HeldOK(s)'
      <3>1. ValidNext(logs[s]) /\ SnapNext(snapshot[s])
            /\ \A x \in snapCh[s] \cup ghosts[s].snapCh : SnapNext(x)
        BY <1>1, <2>6, ValidStays, SnapStays DEF HeldOK
      <3>2. ghosts'[s].snapCh \subseteq ghosts[s].snapCh
        BY <1>3, <2>3, <2>5
      <3> QED
        BY <1>2, <2>1, <3>1, <3>2, NextForms
    <2>10. /\ ghosts'[s].batch = ghosts[s].batch /\ ghosts'[s].meddled = ghosts[s].meddled
           /\ ghosts'[s].tore = ghosts[s].tore
      BY <1>3, <2>3, <2>5
    <2>11. NumbersOK(s)' /\ CoveredOK(s)' /\ InStepOK(s)'
      BY <1>1, <1>2, <1>5, <2>1, <2>10 DEF NumbersOK, CoveredOK, InStepOK, Covers
    <2> QED
      BY <1>2, <1>6, <2>6, <2>7, <2>8, <2>9, <2>11 DEF OneMoves, ServerOK
  <1>8. CASE ~(snap.index <= g.commitIndex)
    <2>1. /\ ghosts' = [ghosts EXCEPT ![s].snapCh = @ \ {snap},
                                      ![s].commitIndex = snap.index,
                                      ![s].meddled = TRUE,
                                      ![s].tore = @ \/ snap.index < due[s]]
          /\ logs' = [logs EXCEPT ![s] = snap.xlog]
          /\ lastApplied' = [lastApplied EXCEPT ![s] = snap.index]
      BY <1>3, <1>8 DEF GhostInstalls, ingestSnap, Ingested
    <2>2. snap.index > g.commitIndex
      <3>1. snap.index \in Nat
        BY <1>5 DEF SnapOK, Snap
      <3> QED
        BY <1>4, <1>8, <3>1
    <2>3. /\ snap \in Snap /\ snap.xlog \in Maps /\ snap.index \in Nat \ {0}
          /\ snap.index <= Len(chosen) /\ Covers(snap.xlog, snap.index) /\ Valid(snap.xlog)
      BY <1>1, <1>4, <1>5, <2>2, Ahead
    <2>4. PICK k \in Nat : k = snap.index
      BY <2>3
    <2>5. PICK c \in BOOLEAN : c = (g.tore \/ snap.index < due[s])
      BY <1>4
    <2>6. PICK x \in GhostStates : x = [g EXCEPT !.snapCh = @ \ {snap}]
      BY <1>4 DEF GhostStates
    <2>7. PICK y \in GhostStates : y = [x EXCEPT !.commitIndex = k]
      BY DEF GhostStates
    <2>8. PICK z \in GhostStates : z = [y EXCEPT !.meddled = TRUE]
      BY DEF GhostStates
    <2>9. PICK h \in GhostStates : h = [z EXCEPT !.tore = c]
      BY DEF GhostStates
    <2>10. x.snapCh = g.snapCh \ {snap} /\ x.tore = g.tore /\ x.batch = g.batch
      BY <2>6 DEF GhostStates
    <2>11. y.snapCh = x.snapCh /\ y.tore = g.tore /\ y.batch = g.batch
      BY <2>7, <2>10 DEF GhostStates
    <2>12. z.snapCh = x.snapCh /\ z.tore = g.tore /\ z.batch = g.batch /\ z.meddled = TRUE
      BY <2>8, <2>11 DEF GhostStates
    <2>13. h.snapCh = g.snapCh \ {snap} /\ h.batch = g.batch /\ h.meddled = TRUE /\ h.tore = c
      BY <2>9, <2>10, <2>12 DEF GhostStates
    <2>14. ghosts' = [ghosts EXCEPT ![s] = h]
      <3>1. [z EXCEPT !.tore = @ \/ snap.index < due[s]] = h
        BY <2>5, <2>9, <2>12
      <3>2. z = [g EXCEPT !.snapCh = @ \ {snap}, !.commitIndex = snap.index, !.meddled = TRUE]
        BY <2>4, <2>6, <2>7, <2>8
      <3>3. ghosts' = [ghosts EXCEPT ![s] = [z EXCEPT !.tore = @ \/ snap.index < due[s]]]
        BY <1>3, <2>1, <3>2
      <3> QED
        BY <3>1, <3>3
    <2>15. /\ ghosts' \in [Server -> GhostStates] /\ ghosts'[s] = h
           /\ \A t \in Server \ {s} : ghosts'[t] = ghosts[t]
      BY <1>4, <2>14
    <2>16. /\ logs' \in [Server -> Maps] /\ logs'[s] = snap.xlog
           /\ lastApplied' \in [Server -> Nat] /\ lastApplied'[s] = snap.index
      BY <1>4, <2>1, <2>3
    <2>17. Grows
      <3>1. \A t \in Server : ghosts[t].tore => ghosts'[t].tore
        BY <1>3, <2>5, <2>13, <2>15
      <3>2. Torn => Torn'
        BY <3>1, TornStays
      <3> QED
        BY <1>1, <1>2, <3>2, SameLog
    <2>18. Types'
      BY <1>1, <1>2, <2>15, <2>16 DEF Types, LogTypes, PipelineTypes, HarnessTypes
    <2>19. \A t \in Server \ {s} : Untouched(t)
      BY <1>2, <1>4, <2>1, <2>15 DEF Untouched
    <2>20. HeldOK(s)'
      <3>1. ValidNext(logs'[s])
        BY <2>3, <2>16, <2>17, ValidStays
      <3>2. SnapNext(snapshot[s]) /\ \A t \in snapCh[s] \cup ghosts[s].snapCh : SnapNext(t)
        BY <1>1, <2>17, SnapStays DEF HeldOK
      <3>3. ghosts'[s].snapCh \subseteq ghosts[s].snapCh
        BY <1>3, <2>13, <2>15
      <3> QED
        BY <1>2, <3>1, <3>2, <3>3, NextForms
    <2>21. NumbersOK(s)'
      <3>1. ghosts'[s].batch = ghosts[s].batch
        BY <1>3, <2>13, <2>15
      <3> QED
        BY <1>1, <1>2, <1>5, <2>3, <2>16, <3>1 DEF NumbersOK
    <2>22. CoveredOK(s)'
      <3>1. ~ghosts'[s].tore => due[s] <= snap.index
        <4>1. ~c => ~(snap.index < due[s])
          BY <2>5
        <4>2. ~(snap.index < due[s]) => due[s] <= snap.index
          BY <1>4, <2>3
        <4>3. ghosts'[s].tore = c
          BY <2>13, <2>15
        <4> QED
          BY <4>1, <4>2, <4>3
      <3> QED
        BY <1>2, <1>5, <2>3, <2>16, <3>1 DEF CoveredOK, Covers
    <2>23. InStepOK(s)'
      BY <2>13, <2>15 DEF InStepOK
    <2> QED
      BY <1>2, <1>6, <2>17, <2>18, <2>19, <2>20, <2>21, <2>22, <2>23 DEF OneMoves, ServerOK
  <1> QED
    BY <1>7, <1>8

-----------------------------------------------------------------------------
(* Crashes and starts.                                                     *)
LEMMA CrashOK ==
  ASSUME HInv, failed = Fine, NEW s \in Server, crash1(s)
  PROVE  OneMoves(s)
  <1>1. /\ Types /\ LogTypes /\ PipelineTypes /\ HarnessTypes
        /\ ServerOK(s) /\ HeldOK(s) /\ NumbersOK(s) /\ CoveredOK(s) /\ InStepOK(s)
    BY DEF HInv, Types, ServerOK
  <1>2. /\ up[s] /\ ghosts[s].batch = NoBatch /\ ghosts[s].snapCh = {}
        /\ up' = [up EXCEPT ![s] = FALSE] /\ due' = [due EXCEPT ![s] = 0]
        /\ commitIndex' = [commitIndex EXCEPT ![s] = snapshot[s].index]
        /\ rfApplied' = [rfApplied EXCEPT ![s] = snapshot[s].index]
        /\ batch' = [batch EXCEPT ![s] = NoBatch] /\ snapCh' = [snapCh EXCEPT ![s] = {}]
        /\ leads' = [leads EXCEPT ![s] = 0] /\ lastIndex' = [lastIndex EXCEPT ![s] = 0]
        /\ UNCHANGED <<snapshot, elections, pending, chosen, snapshots, logs, lastApplied, client,
                       failed>>
    BY DEF crash1, RestartPipeline
  <1>3. PICK g \in GhostStates : g = ghosts[s]
    BY <1>1 DEF HarnessTypes
  <1>4. PICK b \in Batches : b = batch[s]
    BY <1>1 DEF PipelineTypes
  <1>5. PICK c \in SUBSET Snap : c = snapCh[s]
    BY <1>1 DEF PipelineTypes
  <1>6. PICK k \in Nat : k = commitIndex[s]
    BY <1>1 DEF PipelineTypes
  <1>7. PICK i \in Nat : i = snapshot[s].index
    BY <1>1 DEF PipelineTypes, Snap
  <1>8. PICK h \in GhostStates : h = [g EXCEPT !.batch = b, !.snapCh = c, !.commitIndex = k]
    BY DEF GhostStates
  <1>9. h.batch = b /\ h.snapCh = c /\ h.meddled = g.meddled /\ h.tore = g.tore
    BY <1>8 DEF GhostStates
  <1>10. ghosts' = [ghosts EXCEPT ![s] = h]
    BY <1>3, <1>4, <1>5, <1>6, <1>8 DEF crash1
  <1>11. /\ ghosts' \in [Server -> GhostStates] /\ ghosts'[s] = h
         /\ \A t \in Server \ {s} : ghosts'[t] = ghosts[t]
    BY <1>1, <1>10 DEF HarnessTypes
  <1>12. /\ up' \in [Server -> BOOLEAN] /\ up'[s] = FALSE /\ due' \in [Server -> Nat] /\ due'[s] = 0
         /\ leads' \in [Server -> Nat] /\ lastIndex' \in [Server -> Nat]
    BY <1>1, <1>2 DEF LogTypes, HarnessTypes
  <1>13. /\ commitIndex' \in [Server -> Nat] /\ commitIndex'[s] = i
         /\ rfApplied' \in [Server -> Nat] /\ rfApplied'[s] = i
         /\ batch' \in [Server -> Batches] /\ batch'[s] = NoBatch
         /\ snapCh' \in [Server -> SUBSET Snap] /\ snapCh'[s] = {}
    <2>1. NoBatch \in Batches
      BY DEF NoBatch, Batches
    <2> QED
      BY <1>1, <1>2, <1>7, <2>1 DEF PipelineTypes
  <1>14. Grows
    <2>1. \A t \in Server : ghosts[t].tore => ghosts'[t].tore
      BY <1>3, <1>9, <1>11
    <2>2. Torn => Torn'
      BY <2>1, TornStays
    <2> QED
      BY <1>1, <1>2, <2>2, SameLog
  <1>15. Types'
    BY <1>1, <1>2, <1>11, <1>12, <1>13 DEF Types, LogTypes, PipelineTypes, HarnessTypes
  <1>16. \A t \in Server \ {s} : Untouched(t)
    BY <1>1, <1>2, <1>11 DEF Untouched, PipelineTypes, HarnessTypes
  <1>17. HeldOK(s)'
    <2>1. ValidNext(logs[s]) /\ SnapNext(snapshot[s])
          /\ \A x \in snapCh[s] \cup ghosts[s].snapCh : SnapNext(x)
      BY <1>1, <1>14, ValidStays, SnapStays DEF HeldOK
    <2> QED
      BY <1>2, <1>5, <1>9, <1>11, <1>13, <2>1, NextForms
  <1>18. /\ Len(chosen) \in Nat /\ i <= Len(chosen) /\ b.next \in Nat /\ b.last \in Nat
         /\ lastApplied[s] \in Nat
    BY <1>1, <1>7 DEF LogTypes, HarnessTypes, HeldOK, SnapOK, Batches
  <1>19. b # NoBatch => 1 <= b.next /\ b.next <= b.last /\ b.last <= Len(chosen)
    BY <1>1, <1>4, <1>6, <1>18 DEF NumbersOK
  <1>20. NumbersOK(s)'
    BY <1>1, <1>2, <1>3, <1>5, <1>7, <1>9, <1>11, <1>12, <1>13, <1>18, <1>19 DEF NumbersOK
  <1>21. CoveredOK(s)'
    <2>1. ~snapshots => i = 0
      BY <1>1, <1>7 DEF NumbersOK, NoSnapshot
    <2>2. Covers(logs[s], 0)
      BY DEF Covers
    <2>3. 0 <= lastApplied[s]
      BY <1>18
    <2> QED
      BY <1>1, <1>2, <1>4, <1>9, <1>11, <1>12, <1>13, <2>1, <2>2, <2>3 DEF CoveredOK, Covers
  <1>22. InStepOK(s)'
    BY <1>1, <1>2, <1>3, <1>4, <1>9, <1>11, <1>12 DEF InStepOK
  <1>23. AlarmOK'
    BY <1>2, NoAlarm
  <1> QED
    BY <1>2, <1>14, <1>15, <1>16, <1>17, <1>20, <1>21, <1>22, <1>23 DEF OneMoves, ServerOK

LEMMA StartOK ==
  ASSUME HInv, failed = Fine, NEW s \in Server, start1(s)
  PROVE  OneMoves(s)
  <1>1. /\ Types /\ LogTypes /\ PipelineTypes /\ HarnessTypes
        /\ ServerOK(s) /\ HeldOK(s) /\ NumbersOK(s) /\ CoveredOK(s) /\ InStepOK(s)
    BY DEF HInv, Types, ServerOK
  <1>2. /\ ~up[s] /\ up' = [up EXCEPT ![s] = TRUE]
        /\ ghosts' = [ghosts EXCEPT ![s].meddled = FALSE]
        /\ UNCHANGED <<leads, lastIndex, elections, pending, chosen>>
        /\ UNCHANGED <<commitIndex, rfApplied, batch, snapshot, snapCh>>
        /\ UNCHANGED <<snapshots, due, restarts, client, failed>>
    BY DEF start1, startsUnmeddled, logService, pipeline
  <1>3. PICK g \in GhostStates : g = ghosts[s]
    BY <1>1 DEF HarnessTypes
  <1>4. PICK h \in GhostStates : h = [g EXCEPT !.meddled = FALSE]
    BY DEF GhostStates
  <1>5. /\ h.batch = g.batch /\ h.commitIndex = g.commitIndex /\ h.snapCh = g.snapCh
        /\ h.tore = g.tore
    BY <1>4 DEF GhostStates
  <1>6. ghosts' = [ghosts EXCEPT ![s] = h]
    BY <1>2, <1>3, <1>4
  <1>7. /\ ghosts' \in [Server -> GhostStates] /\ ghosts'[s] = h
        /\ \A t \in Server \ {s} : ghosts'[t] = ghosts[t]
    BY <1>1, <1>6 DEF HarnessTypes
  <1>8. up' \in [Server -> BOOLEAN] /\ up'[s] = TRUE
    BY <1>1, <1>2 DEF HarnessTypes
  <1>9. PICK snap \in Snap : snap = snapshot[s]
    BY <1>1 DEF PipelineTypes
  <1>10. /\ snap.index \in Nat /\ snap.xlog \in Maps /\ snap.index <= Len(chosen)
         /\ Valid(snap.xlog) /\ Len(chosen) \in Nat
         /\ rfApplied[s] = snap.index /\ due[s] = 0 /\ batch[s] = NoBatch
    BY <1>1, <1>2, <1>9 DEF LogTypes, HeldOK, SnapOK, Snap, NumbersOK
  <1>11. /\ logs' \in [Server -> Maps] /\ lastApplied' \in [Server -> Nat]
         /\ \A t \in Server \ {s} : logs'[t] = logs[t] /\ lastApplied'[t] = lastApplied[t]
         /\ lastApplied'[s] = snap.index
         /\ logs'[s] = IF snap = NoSnapshot THEN logs[s] ELSE snap.xlog
    <2>1. CASE snap = NoSnapshot
      <3>1. snap.index = 0 /\ lastApplied' = [lastApplied EXCEPT ![s] = 0] /\ UNCHANGED logs
        BY <1>9, <2>1 DEF start1, NoSnapshot
      <3> QED
        BY <1>1, <2>1, <3>1 DEF HarnessTypes
    <2>2. CASE snap # NoSnapshot
      <3>1. /\ lastApplied' = [lastApplied EXCEPT ![s] = snap.index]
            /\ logs' = [logs EXCEPT ![s] = snap.xlog]
        BY <1>9, <2>2 DEF start1, ingestSnap, Ingested
      <3> QED
        BY <1>1, <1>10, <2>2, <3>1 DEF HarnessTypes
    <2> QED
      BY <2>1, <2>2
  <1>12. Grows
    <2>1. \A t \in Server : ghosts[t].tore => ghosts'[t].tore
      BY <1>3, <1>5, <1>7
    <2>2. Torn => Torn'
      BY <2>1, TornStays
    <2> QED
      BY <1>1, <1>2, <2>2, SameLog
  <1>13. Types'
    BY <1>1, <1>2, <1>7, <1>8, <1>11 DEF Types, LogTypes, PipelineTypes, HarnessTypes
  <1>14. \A t \in Server \ {s} : Untouched(t)
    BY <1>1, <1>2, <1>7, <1>11 DEF Untouched, HarnessTypes
  <1>15. HeldOK(s)'
    <2>1. Valid(logs'[s])
      BY <1>1, <1>10, <1>11 DEF HeldOK
    <2>2. ValidNext(logs'[s])
      BY <1>12, <2>1, ValidStays
    <2>3. SnapNext(snapshot[s]) /\ \A x \in snapCh[s] \cup ghosts[s].snapCh : SnapNext(x)
      BY <1>1, <1>12, SnapStays DEF HeldOK
    <2> QED
      BY <1>2, <1>3, <1>5, <1>7, <2>2, <2>3, NextForms
  <1>16. NumbersOK(s)'
    BY <1>1, <1>2, <1>3, <1>5, <1>7, <1>8, <1>10, <1>11 DEF NumbersOK
  <1>17. CoveredOK(s)'
    <2>1. ~snapshots => logs'[s] = logs[s]
      BY <1>1, <1>9, <1>11 DEF NumbersOK
    <2>2. Covers(logs'[s], lastApplied'[s])
      <3>1. CASE snap = NoSnapshot
        BY <1>11, <3>1 DEF Covers, NoSnapshot
      <3>2. CASE snap # NoSnapshot
        <4>1. DOMAIN snap.xlog = 0 .. snap.index
          BY <1>1, <1>9, <3>2 DEF HeldOK, SnapOK
        <4> QED
          BY <1>10, <1>11, <3>2, <4>1 DEF Covers
      <3> QED
        BY <3>1, <3>2
    <2>3. due'[s] <= lastApplied'[s]
      BY <1>2, <1>10, <1>11
    <2> QED
      BY <1>1, <1>2, <1>3, <1>5, <1>7, <2>1, <2>2, <2>3 DEF CoveredOK, Covers
  <1>18. InStepOK(s)'
    BY <1>2, <1>8, <1>10, <1>11 DEF InStepOK
  <1>19. AlarmOK'
    BY <1>2, NoAlarm
  <1> QED
    BY <1>2, <1>12, <1>13, <1>14, <1>15, <1>16, <1>17, <1>18, <1>19 DEF OneMoves, ServerOK

-----------------------------------------------------------------------------
(* What Raft does for the service.                                         *)
LEMMA PipelineOK ==
  ASSUME HInv, failed = Fine, NEW s \in Server, PipelineStep(s)
  PROVE  OneMoves(s)
  <1>1. /\ Types /\ LogTypes /\ PipelineTypes /\ HarnessTypes
        /\ ServerOK(s) /\ HeldOK(s) /\ NumbersOK(s) /\ CoveredOK(s) /\ InStepOK(s)
    BY DEF HInv, Types, ServerOK
  <1>2. /\ up[s] /\ UNCHANGED <<leads, lastIndex, elections, pending, chosen>>
        /\ UNCHANGED <<snapshots, logs, lastApplied, due, up, ghosts, restarts, client, failed>>
    BY DEF PipelineStep, logService, harness
  <1>3. /\ commitIndex \in [Server -> Nat] /\ rfApplied \in [Server -> Nat]
        /\ batch \in [Server -> Batches] /\ snapCh \in [Server -> SUBSET Snap]
        /\ snapshot \in [Server -> Snap] /\ Len(chosen) \in Nat
        /\ batch[s].next \in Nat /\ batch[s].last \in Nat
    BY <1>1 DEF LogTypes, PipelineTypes, Batches
  <1>4. Grows
    <2>1. Torn => Torn'
      BY <1>2, TornStays
    <2> QED
      BY <1>1, <1>2, <2>1, SameLog
  <1>5. AlarmOK'
    BY <1>2, NoAlarm
  <1>6. ValidNext(logs[s]) /\ SnapNext(snapshot[s])
        /\ \A x \in snapCh[s] \cup ghosts[s].snapCh : SnapNext(x)
    BY <1>1, <1>4, ValidStays, SnapStays DEF HeldOK
  <1>7. CASE TakeBatch(s)
    <2>1. PICK index \in rfApplied[s] + 1 .. Len(chosen) :
            /\ index >= commitIndex[s]
            /\ commitIndex' = [commitIndex EXCEPT ![s] = index]
            /\ batch' = [batch EXCEPT ![s] = [next |-> rfApplied[s] + 1, last |-> index]]
      BY <1>7 DEF TakeBatch
    <2>2. batch[s] = NoBatch /\ UNCHANGED <<rfApplied, snapshot, snapCh>>
      BY <1>7 DEF TakeBatch
    <2>3. PICK k \in Nat : k = rfApplied[s] + 1
      BY <1>3
    <2>4. index \in Nat /\ k <= index /\ index <= Len(chosen) /\ 1 <= k /\ rfApplied[s] = k - 1
          /\ rfApplied[s] < k
      BY <1>3, <2>1, <2>3
    <2>5. PICK b \in Batches : b = [next |-> k, last |-> index]
      BY <2>4 DEF Batches
    <2>6. b.next = k /\ b.last = index /\ b # NoBatch
      <3>1. b.next = k /\ b.last = index
        BY <2>5
      <3> QED
        BY <2>4, <3>1 DEF NoBatch
    <2>7. /\ commitIndex' \in [Server -> Nat] /\ commitIndex'[s] = index
          /\ batch' \in [Server -> Batches] /\ batch'[s] = b
      BY <1>3, <2>1, <2>3, <2>4, <2>5
    <2>8. Types'
      BY <1>1, <1>2, <2>2, <2>7 DEF Types, LogTypes, PipelineTypes, HarnessTypes
    <2>9. \A t \in Server \ {s} : Untouched(t)
      BY <1>2, <1>3, <2>1, <2>2 DEF Untouched
    <2>10. HeldOK(s)'
      BY <1>2, <1>6, <2>2, NextForms
    <2>11. NumbersOK(s)'
      BY <1>1, <1>2, <2>2, <2>4, <2>6, <2>7 DEF NumbersOK
    <2>12. CoveredOK(s)'
      BY <1>1, <1>2, <2>2, <2>4, <2>6, <2>7 DEF CoveredOK, Covers
    <2>13. InStepOK(s)'
      BY <1>1, <1>2, <2>2, <2>4, <2>6, <2>7 DEF InStepOK
    <2> QED
      BY <1>2, <1>4, <1>5, <2>8, <2>9, <2>10, <2>11, <2>12, <2>13 DEF OneMoves, ServerOK
  <1>8. CASE LearnCommit(s)
    <2>1. PICK index \in commitIndex[s] + 1 .. Len(chosen) :
            commitIndex' = [commitIndex EXCEPT ![s] = index]
      BY <1>8 DEF LearnCommit
    <2>2. batch[s] # NoBatch /\ UNCHANGED <<rfApplied, batch, snapshot, snapCh>>
      BY <1>8 DEF LearnCommit
    <2>3. index \in Nat /\ index <= Len(chosen) /\ commitIndex[s] <= index
      BY <1>3, <2>1
    <2>4. commitIndex' \in [Server -> Nat] /\ commitIndex'[s] = index
      BY <1>3, <2>1, <2>3
    <2>5. Types'
      BY <1>1, <1>2, <2>2, <2>4 DEF Types, LogTypes, PipelineTypes, HarnessTypes
    <2>6. \A t \in Server \ {s} : Untouched(t)
      BY <1>2, <1>3, <2>1, <2>2 DEF Untouched
    <2>7. HeldOK(s)'
      BY <1>2, <1>6, <2>2, NextForms
    <2>8. NumbersOK(s)'
      <3>1. batch[s].last <= commitIndex[s] => batch[s].last <= index
        BY <1>3, <2>3
      <3> QED
        BY <1>1, <1>2, <2>2, <2>3, <2>4, <3>1 DEF NumbersOK
    <2>9. CoveredOK(s)' /\ InStepOK(s)'
      BY <1>1, <1>2, <2>2 DEF CoveredOK, InStepOK, Covers
    <2> QED
      BY <1>2, <1>4, <1>5, <2>5, <2>6, <2>7, <2>8, <2>9 DEF OneMoves, ServerOK
  <1>9. CASE \E from \in Server \ {s} : ReceiveSnapshot(s, from)
    <2>1. PICK from \in Server \ {s} : ReceiveSnapshot(s, from)
      BY <1>9
    <2>2. /\ snapshot[from].index > commitIndex[s]
          /\ snapCh' = [snapCh EXCEPT ![s] = @ \cup {snapshot[from]}]
          /\ UNCHANGED <<commitIndex, rfApplied, batch, snapshot>>
      BY <2>1 DEF ReceiveSnapshot
    <2>3. PICK snap \in Snap : snap = snapshot[from]
      BY <1>3
    <2>4. SnapOK(snap)
      BY <2>3 DEF HInv, ServerOK, HeldOK
    <2>5. /\ snapCh' \in [Server -> SUBSET Snap] /\ snapCh'[s] = snapCh[s] \cup {snap}
          /\ \A t \in Server \ {s} : snapCh'[t] = snapCh[t]
      BY <1>3, <2>2, <2>3
    <2>6. snapshots
      <3>1. snap.index > commitIndex[s] /\ commitIndex[s] \in Nat
        BY <1>3, <2>2, <2>3
      <3>2. snap.index # 0
        BY <3>1
      <3>3. snap # NoSnapshot
        BY <3>2 DEF NoSnapshot
      <3> QED
        BY <2>3, <3>3 DEF HInv, ServerOK, NumbersOK
    <2>7. Types'
      BY <1>1, <1>2, <2>2, <2>5 DEF Types, LogTypes, PipelineTypes, HarnessTypes
    <2>8. \A t \in Server \ {s} : Untouched(t)
      BY <1>2, <2>2, <2>5 DEF Untouched
    <2>9. HeldOK(s)'
      <3>1. SnapNext(snap)
        BY <1>4, <2>4, SnapStays
      <3> QED
        BY <1>2, <1>6, <2>2, <2>5, <3>1, NextForms
    <2>10. NumbersOK(s)' /\ CoveredOK(s)' /\ InStepOK(s)'
      BY <1>1, <1>2, <2>2, <2>6 DEF NumbersOK, CoveredOK, InStepOK, Covers
    <2> QED
      BY <1>2, <1>4, <1>5, <2>7, <2>8, <2>9, <2>10 DEF OneMoves, ServerOK
  <1> QED
    BY <1>7, <1>8, <1>9 DEF PipelineStep

(* The log moves, and no server does.                                      *)
LEMMA LogMovesOK ==
  ASSUME HInv, failed = Fine, LogTypes', Grows, UNCHANGED <<pipeline, harness>>
  PROVE  HInv'
  <1>1. /\ Types /\ PipelineTypes /\ HarnessTypes /\ ClientOK
        /\ UNCHANGED <<commitIndex, rfApplied, batch, snapshot, snapCh>>
        /\ UNCHANGED <<snapshots, logs, lastApplied, due, up, ghosts, restarts, client, failed>>
    BY DEF HInv, Types, pipeline, harness
  <1>2. Types'
    BY <1>1 DEF Types, PipelineTypes, HarnessTypes
  <1>3. ASSUME NEW s \in Server PROVE ServerOK(s)'
    <2>1. Untouched(s)
      BY <1>1 DEF Untouched
    <2> QED
      BY <1>1, <2>1, UntouchedOK DEF HInv
  <1>4. ClientOK'
    BY <1>1, ClientStays
  <1>5. AlarmOK'
    BY <1>1, NoAlarm
  <1> QED
    BY <1>2, <1>3, <1>4, <1>5 DEF HInv

LEMMA RaftStepOK ==
  ASSUME HInv, failed = Fine, RaftStep
  PROVE  HInv'
  <1>1. LogTypes /\ UNCHANGED <<pipeline, harness>>
    BY DEF HInv, Types, RaftStep
  <1>2. Torn => Torn'
    BY <1>1, TornStays DEF harness
  <1>3. ASSUME NEW s \in Server, Elect(s) \/ ElectAgain(s) \/ StepDown(s)
        PROVE  LogTypes' /\ Grows
    <2>1. LogTypes' /\ chosen' = chosen
      BY <1>1, <1>3, ElectTypes
    <2> QED
      BY <1>1, <1>2, <2>1, SameLog
  <1>4. ASSUME NEW s \in Server, TestStarts(s)
        PROVE  LogTypes' /\ Grows
    <2>1. Start(s, "direct") /\ "direct" \in Command
      BY <1>4 DEF TestStarts, Command
    <2>2. LogTypes' /\ chosen' = chosen
      BY <1>1, <2>1, StartTypes
    <2> QED
      BY <1>1, <1>2, <2>2, SameLog
  <1>5. ASSUME NEW e \in pending, Choose(e)
        PROVE  LogTypes' /\ Grows
    BY <1>1, <1>2, <1>5, ChooseGrows
  <1>6. LogTypes' /\ Grows
    BY <1>3, <1>4, <1>5 DEF RaftStep
  <1> QED
    BY <1>1, <1>6, LogMovesOK

-----------------------------------------------------------------------------
(* one().                                                                  *)
LEMMA ClientMovesOK ==
  ASSUME HInv, failed = Fine, LogTypes', Grows, clientAlone,
         client' \in Clients, ClientOK', AlarmOK'
  PROVE  HInv'
  <1>1. /\ Types /\ PipelineTypes /\ HarnessTypes
        /\ UNCHANGED <<commitIndex, rfApplied, batch, snapshot, snapCh>>
        /\ UNCHANGED <<snapshots, logs, lastApplied, due, up, ghosts, restarts>>
    BY DEF HInv, Types, pipeline, clientAlone
  <1>2. Types'
    BY <1>1 DEF Types, PipelineTypes, HarnessTypes
  <1>3. ASSUME NEW s \in Server PROVE ServerOK(s)'
    <2>1. Untouched(s)
      BY <1>1 DEF Untouched
    <2> QED
      BY <1>1, <2>1, UntouchedOK DEF HInv
  <1> QED
    BY <1>2, <1>3 DEF HInv

LEMMA ClientFacts ==
  ASSUME NEW c \in Clients
  PROVE  /\ c.stage \in {"tries", "counts", "returned"} /\ c.tries \in Nat /\ c.starts \in Nat
         /\ c.si \in Nat /\ c.index \in Nat /\ c.count \in Nat /\ c.cmd \in Command \cup {nil}
  BY DEF Clients

(* The next count, the next round.                                         *)
LEMMA CountsAgain ==
  ASSUME NEW c \in Clients
  PROVE  /\ countsAgain(c) \in Clients /\ countsAgain(c).stage = c.stage
         /\ countsAgain(c).si = 0 /\ countsAgain(c).count = 0 /\ countsAgain(c).cmd = nil
         /\ countsAgain(c).index = c.index
  BY DEF countsAgain, Clients

LEMMA TriesAgain ==
  ASSUME NEW c \in Clients
  PROVE  /\ triesAgain(c) \in Clients /\ triesAgain(c).stage = "tries"
         /\ triesAgain(c).cmd = nil
  <1>1. PICK d \in Clients : d = countsAgain(c)
    BY CountsAgain
  <1>2. d.cmd = nil
    BY <1>1, CountsAgain
  <1>3. PICK k \in Nat : k = d.tries + 1
    BY <1>1, ClientFacts
  <1>4. triesAgain(c) = [d EXCEPT !.stage = "tries", !.tries = k, !.index = 0]
    BY <1>1, <1>3 DEF triesAgain
  <1>5. ASSUME NEW e \in Clients, NEW j \in Nat, NEW x,
               x = [e EXCEPT !.stage = "tries", !.tries = j, !.index = 0]
        PROVE  x \in Clients /\ x.stage = "tries" /\ x.cmd = e.cmd
    BY <1>5 DEF Clients
  <1> QED
    BY <1>2, <1>4, <1>5

LEMMA StartTakenOK ==
  ASSUME HInv, failed = Fine, StartTaken
  PROVE  HInv'
  <1>1. /\ LogTypes /\ client \in Clients /\ ClientOK
    BY DEF HInv, Types
  <1>2. /\ up[Asked] /\ Start(Asked, "one") /\ clientAlone /\ UNCHANGED failed
        /\ client' = [client EXCEPT !.stage = "counts", !.starts = Asked, !.si = 0, !.count = 0,
                                    !.cmd = nil, !.index = lastIndex'[Asked]]
    BY DEF StartTaken
  <1>3. Asked \in Server /\ Asked \in Nat /\ n \in Nat \ {0}
    <2>1. client.starts \in Nat
      BY <1>1, ClientFacts
    <2>2. (client.starts + 1) % n \in 0 .. n - 1
      BY <2>1, Servers
    <2> QED
      BY <2>2, Servers DEF Asked
  <1>4. LogTypes' /\ chosen' = chosen /\ lastIndex'[Asked] \in Nat \ {0}
    <2>1. "one" \in Command
      BY DEF Command
    <2>2. PICK s \in Server : s = Asked
      BY <1>3
    <2> QED
      BY <1>1, <1>2, <2>1, <2>2, StartTypes
  <1>5. Grows
    <2>1. Torn => Torn'
      BY <1>2, TornStays DEF clientAlone
    <2> QED
      BY <1>1, <1>4, <2>1, SameLog
  <1>6. PICK i \in Nat \ {0} : i = lastIndex'[Asked]
    BY <1>4
  <1>7. PICK a \in Nat : a = Asked
    BY <1>3
  <1>8. client' = [client EXCEPT !.stage = "counts", !.starts = a, !.si = 0, !.count = 0,
                                 !.cmd = nil, !.index = i]
    BY <1>2, <1>6, <1>7
  <1>9. /\ client' \in Clients /\ client'.stage = "counts" /\ client'.si = 0 /\ client'.count = 0
        /\ client'.cmd = nil /\ client'.index = i
    BY <1>1, <1>8 DEF Clients
  <1>10. ClientOK'
    BY <1>3, <1>9 DEF ClientOK
  <1>11. AlarmOK'
    BY <1>2, NoAlarm
  <1> QED
    BY <1>2, <1>4, <1>5, <1>9, <1>10, <1>11, ClientMovesOK

(* The log as it was, for the other steps of one().                        *)
LEMMA LogAsItWas ==
  ASSUME HInv, clientAlone, UNCHANGED logService
  PROVE  /\ LogTypes' /\ Grows /\ chosen' = chosen /\ (Torn' <=> Torn)
  <1>1. LogTypes /\ chosen' = chosen /\ UNCHANGED <<leads, lastIndex, elections, pending>>
    BY DEF HInv, Types, logService
  <1>2. Torn' <=> Torn
    BY DEF clientAlone, Torn
  <1>3. Grows
    BY <1>1, <1>2, SameLog
  <1> QED
    BY <1>1, <1>2, <1>3 DEF LogTypes

LEMMA StartRefusedOK ==
  ASSUME HInv, failed = Fine, StartRefused
  PROVE  HInv'
  <1> DEFINE c == [client EXCEPT !.starts = Asked, !.si = @ + 1]
  <1>1. /\ client \in Clients /\ ClientOK
    BY DEF HInv, Types
  <1>2. /\ client.stage = "tries" /\ client' = (IF c.si < n THEN c ELSE triesAgain(c))
        /\ clientAlone /\ UNCHANGED <<logService, failed>>
    BY DEF StartRefused
  <1>3. Asked \in Nat /\ n \in Nat \ {0}
    <2>1. client.starts \in Nat
      BY <1>1, ClientFacts
    <2>2. (client.starts + 1) % n \in 0 .. n - 1
      BY <2>1, Servers
    <2> QED
      BY <2>2, Servers DEF Asked
  <1>4. LogTypes' /\ Grows /\ chosen' = chosen /\ (Torn' <=> Torn)
    BY <1>2, LogAsItWas
  <1>5. c \in Clients /\ c.stage = "tries" /\ c.cmd = client.cmd /\ c.index = client.index
    <2>1. PICK a \in Nat : a = Asked
      BY <1>3
    <2>2. PICK k \in Nat : k = client.si + 1
      BY <1>1, ClientFacts
    <2>3. c = [client EXCEPT !.starts = a, !.si = k]
      BY <2>1, <2>2
    <2> HIDE DEF c
    <2> QED
      BY <1>1, <1>2, <2>3 DEF Clients
  <1>6. client' \in Clients /\ ClientOK'
    <2> HIDE DEF c
    <2>1. CASE client' = c
      <3>1. client'.stage = "tries" /\ client'.cmd = client.cmd /\ client'.index = client.index
        BY <1>5, <2>1
      <3> QED
        BY <1>1, <1>4, <1>5, <2>1, <3>1 DEF ClientOK, command
    <2>2. CASE client' = triesAgain(c)
      <3>1. client' \in Clients /\ client'.stage = "tries" /\ client'.cmd = nil
        BY <1>5, <2>2, TriesAgain
      <3> QED
        BY <3>1 DEF ClientOK
    <2> QED
      BY <1>2, <2>1, <2>2
  <1>7. AlarmOK'
    BY <1>2, NoAlarm
  <1> QED
    BY <1>2, <1>4, <1>6, <1>7, ClientMovesOK

(* What is counted at a server agrees with what was counted before.        *)
LEMMA CountedFacts ==
  ASSUME HInv, client.stage = "counts"
  PROVE  /\ Counted \in Clients /\ Counted.stage = "counts" /\ Counted.index = client.index
         /\ client.index \in Nat \ {0} /\ Counted.si = client.si + 1 /\ Counted.si <= n
         /\ Counted.cmd # nil =>
              client.index \in 1 .. Len(chosen) /\ Counted.cmd = command(client.index)
         /\ Counted.count > 0 /\ ~Torn => Counted.cmd # nil
         /\ client.count > 0 /\ ~Torn => Counted.cmd = client.cmd
  <1>1. /\ client \in Clients /\ ClientOK /\ LogTypes /\ HarnessTypes
    BY DEF HInv, Types
  <1>2. /\ client.si \in Nat /\ client.index \in Nat \ {0} /\ client.count \in Nat
        /\ client.si < n /\ n \in Nat \ {0} /\ client.cmd \in Command \cup {nil}
    BY <1>1, ClientFacts, Servers DEF ClientOK
  <1>3. client.si \in Server
    BY <1>2, Servers
  <1>4. PICK log \in Maps : log = logs[client.si]
    BY <1>1, <1>3 DEF HarnessTypes
  <1>5. Valid(log)
    BY <1>3, <1>4 DEF HInv, ServerOK, HeldOK
  <1>6. CASE client.index \in DOMAIN log
    <2>1. PICK x \in Command \cup {nil} : x = log[client.index]
      BY <1>6, MapFacts
    <2>2. PICK k \in Nat : k = client.si + 1
      BY <1>2
    <2>3. PICK m \in Nat : m = client.count + 1
      BY <1>2
    <2>4. Counted = [client EXCEPT !.si = k, !.count = m, !.cmd = x]
      BY <1>4, <1>6, <2>1, <2>2, <2>3 DEF Counted
    <2>5. /\ Counted \in Clients /\ Counted.stage = "counts" /\ Counted.index = client.index
          /\ Counted.si = client.si + 1 /\ Counted.count = client.count + 1 /\ Counted.cmd = x
      BY <1>1, <2>2, <2>3, <2>4 DEF Clients
    <2>6. client.index \in 1 .. Len(chosen) /\ (x = command(client.index) \/ (Torn /\ x = nil))
      BY <1>2, <1>5, <1>6, <2>1 DEF Valid, HeldAt
    <2>7. command(client.index) # nil
      BY <1>1, <2>6, CommandAt
    <2>8. client.count > 0 /\ ~Torn => client.cmd = command(client.index)
      BY <1>1 DEF ClientOK
    <2> QED
      BY <1>2, <2>5, <2>6, <2>7, <2>8
  <1>7. CASE client.index \notin DOMAIN log
    <2>1. Counted = [client EXCEPT !.si = @ + 1]
      BY <1>4, <1>7 DEF Counted
    <2>2. /\ Counted \in Clients /\ Counted.stage = "counts" /\ Counted.index = client.index
          /\ Counted.si = client.si + 1 /\ Counted.count = client.count
          /\ Counted.cmd = client.cmd
      BY <1>1, <2>1 DEF Clients
    <2> QED
      BY <1>1, <1>2, <2>2 DEF ClientOK
  <1> QED
    BY <1>6, <1>7

LEMMA NCommittedOK ==
  ASSUME HInv, failed = Fine, nCommitted
  PROVE  HInv'
  <1>1. client.stage = "counts" /\ clientAlone /\ UNCHANGED logService
    BY DEF nCommitted
  <1>2. PICK c \in Clients : c = Counted
    BY <1>1, CountedFacts
  <1>3. /\ c.stage = "counts" /\ c.index = client.index
        /\ client.index \in Nat \ {0} /\ c.si = client.si + 1 /\ c.si <= n
        /\ c.cmd # nil => client.index \in 1 .. Len(chosen) /\ c.cmd = command(client.index)
        /\ c.count > 0 /\ ~Torn => c.cmd # nil
        /\ client.count > 0 /\ ~Torn => c.cmd = client.cmd
    BY <1>1, <1>2, CountedFacts
  <1>4. /\ \/ c.si < n /\ client' = c
           \/ c.si = n /\ Agreed(c) /\ client' = [c EXCEPT !.stage = "returned"]
           \/ c.si = n /\ ~Agreed(c) /\ client' \in {countsAgain(c), triesAgain(c)}
        /\ failed' = IF client.count > 0 /\ c.cmd # client.cmd
                     THEN [kind |-> "mismatch", index |-> client.index] ELSE Fine
    BY <1>2 DEF nCommitted
  <1>5. LogTypes' /\ Grows /\ chosen' = chosen /\ (Torn' <=> Torn)
    BY <1>1, LogAsItWas
  <1>6. client' \in Clients /\ ClientOK'
    <2>1. CASE c.si < n /\ client' = c
      BY <1>3, <1>5, <2>1 DEF ClientOK, command
    <2>2. CASE Agreed(c) /\ client' = [c EXCEPT !.stage = "returned"]
      <3>1. /\ client' \in Clients /\ client'.stage = "returned" /\ client'.cmd = c.cmd
            /\ client'.index = c.index
        BY <2>2 DEF Clients
      <3>2. c.cmd = "one"
        BY <2>2 DEF Agreed
      <3> QED
        BY <1>3, <1>5, <3>1, <3>2 DEF ClientOK, command
    <2>3. CASE client' = countsAgain(c)
      <3>1. /\ client' \in Clients /\ client'.stage = "counts" /\ client'.si = 0
            /\ client'.count = 0 /\ client'.cmd = nil /\ client'.index = c.index
        BY <1>3, <2>3, CountsAgain
      <3> QED
        BY <1>3, <3>1, Servers DEF ClientOK
    <2>4. CASE client' = triesAgain(c)
      <3>1. client' \in Clients /\ client'.stage = "tries" /\ client'.cmd = nil
        BY <2>4, TriesAgain
      <3> QED
        BY <3>1 DEF ClientOK
    <2> QED
      BY <1>4, <2>1, <2>2, <2>3, <2>4
  <1>7. AlarmOK'
    <2>1. CASE client.count > 0 /\ c.cmd # client.cmd
      <3>1. failed'.kind = "mismatch"
        BY <1>4, <2>1
      <3>2. Torn'
        BY <1>3, <1>5, <2>1
      <3> QED
        BY <3>1, <3>2 DEF AlarmOK, NoFalseAlarm, OrderFailures
    <2>2. CASE ~(client.count > 0 /\ c.cmd # client.cmd)
      BY <1>4, <2>2, NoAlarm
    <2> QED
      BY <2>1, <2>2
  <1> QED
    BY <1>1, <1>5, <1>6, <1>7, ClientMovesOK

LEMMA GivesUpOK ==
  ASSUME HInv, failed = Fine, givesUp
  PROVE  HInv'
  <1>1. clientAlone /\ UNCHANGED logService /\ client' = client
        /\ failed' = [kind |-> "agreement"]
    BY DEF givesUp
  <1>2. LogTypes' /\ Grows
    BY <1>1, LogAsItWas
  <1>3. ClientOK' /\ client' \in Clients
    BY <1>1, <1>2, ClientStays DEF HInv, Types
  <1>4. failed'.kind = "agreement"
    BY <1>1
  <1>5. AlarmOK'
    BY <1>4 DEF AlarmOK, NoFalseAlarm, OrderFailures
  <1> QED
    BY <1>1, <1>2, <1>3, <1>5, ClientMovesOK

-----------------------------------------------------------------------------
(* The invariant and what it gives.                                        *)
LEMMA InitHInv == Init => HInv
  <1> SUFFICES ASSUME Init PROVE HInv
    OBVIOUS
  <1>1. LogTypes
    BY DEF Init, LogServiceInit, LogTypes
  <1>2. NoBatch \in Batches /\ NoSnapshot \in Snap /\ NoLog \in Maps /\ DOMAIN NoLog = {}
        /\ NoSnapshot.index = 0 /\ NoSnapshot.xlog = NoLog
    BY NoLogIsMap DEF NoBatch, Batches, NoSnapshot
  <1>3. NoGhost \in GhostStates
    BY <1>2 DEF NoGhost, GhostStates
  <1>4. PipelineTypes
    BY <1>2 DEF Init, PipelineInit, PipelineTypes
  <1>5. HarnessTypes
    BY <1>2, <1>3 DEF Init, HarnessTypes
  <1>6. client \in Clients /\ ClientOK
    <2>1. client = [stage |-> "tries", tries |-> 0, starts |-> 0, si |-> 0, index |-> 0,
                    count |-> 0, cmd |-> nil]
      BY DEF Init
    <2>2. client.stage = "tries" /\ client.cmd = nil
      BY <2>1
    <2>3. client \in Clients
      BY <2>1 DEF Clients
    <2> QED
      BY <2>2, <2>3 DEF ClientOK
  <1>7. ASSUME NEW s \in Server PROVE ServerOK(s)
    <2>1. /\ commitIndex[s] = 0 /\ rfApplied[s] = 0 /\ batch[s] = NoBatch
          /\ snapshot[s] = NoSnapshot /\ snapCh[s] = {} /\ logs[s] = NoLog /\ lastApplied[s] = 0
          /\ due[s] = 0 /\ up[s] = TRUE /\ ghosts[s] = NoGhost /\ Len(chosen) \in Nat
      BY <1>1 DEF Init, PipelineInit, LogTypes
    <2>2. NoGhost.batch = NoBatch /\ NoGhost.snapCh = {}
      BY DEF NoGhost
    <2>3. Valid(NoLog) /\ SnapOK(NoSnapshot)
      BY <1>2, <2>1 DEF Valid, SnapOK
    <2>4. HeldOK(s)
      BY <2>1, <2>2, <2>3 DEF HeldOK
    <2>5. NumbersOK(s)
      BY <2>1, <2>2 DEF NumbersOK
    <2>6. CoveredOK(s)
      BY <2>1, <2>2 DEF CoveredOK, Covers
    <2>7. InStepOK(s)
      BY <2>1, <2>2 DEF InStepOK
    <2> QED
      BY <2>4, <2>5, <2>6, <2>7 DEF ServerOK
  <1>8. AlarmOK
    <2>1. failed.kind = "none"
      BY DEF Init, Fine
    <2> QED
      BY <2>1 DEF AlarmOK, NoFalseAlarm, OrderFailures
  <1> QED
    BY <1>1, <1>4, <1>5, <1>6, <1>7, <1>8 DEF HInv, Types

LEMMA StutterHInv ==
  ASSUME HInv, UNCHANGED vars
  PROVE  HInv'
  <1>1. /\ UNCHANGED <<leads, lastIndex, elections, pending, chosen>>
        /\ UNCHANGED <<commitIndex, rfApplied, batch, snapshot, snapCh>>
        /\ UNCHANGED <<snapshots, logs, lastApplied, due, up, ghosts, restarts, client, failed>>
    BY DEF vars, logService, pipeline, harness
  <1>2. Types'
    BY <1>1 DEF HInv, Types, LogTypes, PipelineTypes, HarnessTypes
  <1>3. ASSUME NEW s \in Server PROVE ServerOK(s)'
    <2>1. HeldOK(s) => HeldOK(s)'
      BY <1>1 DEF HeldOK, Valid, HeldAt, command, SnapOK, Torn
    <2>2. NumbersOK(s) => NumbersOK(s)'
      BY <1>1 DEF NumbersOK
    <2>3. CoveredOK(s) => CoveredOK(s)'
      BY <1>1 DEF CoveredOK, Covers
    <2>4. InStepOK(s) => InStepOK(s)'
      BY <1>1 DEF InStepOK
    <2> QED
      BY <2>1, <2>2, <2>3, <2>4 DEF HInv, ServerOK
  <1>4. ClientOK'
    BY <1>1 DEF HInv, ClientOK, command, Torn
  <1>5. AlarmOK'
    BY <1>1 DEF HInv, AlarmOK, NoFalseAlarm, OrderFailures, Torn
  <1> QED
    BY <1>2, <1>3, <1>4, <1>5 DEF HInv

LEMMA NextHInv ==
  ASSUME HInv, Next
  PROVE  HInv'
  <1>1. failed = Fine
    BY DEF Next
  <1>2. CASE RaftStep
    BY <1>1, <1>2, RaftStepOK
  <1>3. ASSUME NEW s \in Server, PipelineStep(s) PROVE HInv'
    BY <1>1, <1>3, PipelineOK, OneMovesOK
  <1>4. ASSUME NEW s \in Server, Receive(s) PROVE HInv'
    BY <1>1, <1>4, ReceiveOK, OneMovesOK
  <1>5. ASSUME NEW s \in Server, Snapshot(s) PROVE HInv'
    BY <1>1, <1>5, SnapshotOK, OneMovesOK
  <1>6. ASSUME NEW s \in Server, NEW snap \in snapCh[s], ReceiveInstalled(s, snap) PROVE HInv'
    BY <1>1, <1>6, ReceiveInstalledOK, OneMovesOK
  <1>7. ASSUME NEW s \in Server, GhostSends(s) PROVE HInv'
    BY <1>1, <1>7, GhostSendsOK, OneMovesOK
  <1>8. ASSUME NEW s \in Server, NEW snap \in ghosts[s].snapCh, GhostInstalls(s, snap) PROVE HInv'
    BY <1>1, <1>8, GhostInstallsOK, OneMovesOK
  <1>9. ASSUME NEW s \in Server, crash1(s) PROVE HInv'
    BY <1>1, <1>9, CrashOK, OneMovesOK
  <1>10. ASSUME NEW s \in Server, start1(s) PROVE HInv'
    BY <1>1, <1>10, StartOK, OneMovesOK
  <1>11. CASE one
    BY <1>1, <1>11, StartTakenOK, StartRefusedOK, NCommittedOK, GivesUpOK DEF one
  <1> QED
    BY <1>2, <1>3, <1>4, <1>5, <1>6, <1>7, <1>8, <1>9, <1>10, <1>11 DEF Next

(* The inductive invariant: what is in the maps and the snapshots, how far *)
(* every goroutine of config.go and of raft.go is, which of it the maps    *)
(* cover, and what one() has counted.                                      *)
THEOREM HarnessInvariant == Spec => []HInv
  <1>1. HInv /\ [Next]_vars => HInv'
    BY NextHInv, StutterHInv
  <1> QED
    BY InitHInv, <1>1, PTL DEF Spec

(* The types of cfg's fields (config.go), for any number of servers,       *)
(* crashes and rounds of one().                                            *)
THEOREM HarnessTypesOK == Spec => []TypeOK
  <1>1. HInv => TypeOK
    <2> SUFFICES ASSUME HInv PROVE TypeOK
      OBVIOUS
    <2>1. LogTypes /\ HarnessTypes /\ client \in Clients
      BY DEF HInv, Types
    <2>2. ASSUME NEW s \in Server
          PROVE  /\ DOMAIN logs[s] \subseteq 0 .. Len(chosen)
                 /\ lastApplied[s] \in 0 .. Len(chosen)
                 /\ due[s] \in 0 .. Len(chosen)
                 /\ {up[s], ghosts[s].meddled, ghosts[s].tore} \subseteq BOOLEAN
                 /\ snapshot[s] # NoSnapshot => DOMAIN snapshot[s].xlog = 0 .. snapshot[s].index
      <3>1. Len(chosen) \in Nat /\ lastApplied[s] \in Nat /\ due[s] \in Nat
        BY <2>1 DEF LogTypes, HarnessTypes
      <3>2. HeldOK(s) /\ NumbersOK(s)
        BY DEF HInv, ServerOK
      <3>3. DOMAIN logs[s] \subseteq 0 .. Len(chosen)
        BY <3>1, <3>2 DEF HeldOK, Valid
      <3>4. {up[s], ghosts[s].meddled, ghosts[s].tore} \subseteq BOOLEAN
        BY <2>1 DEF HarnessTypes, GhostStates
      <3>5. snapshot[s] # NoSnapshot => DOMAIN snapshot[s].xlog = 0 .. snapshot[s].index
        BY <3>2 DEF HeldOK, SnapOK
      <3> QED
        BY <3>1, <3>2, <3>3, <3>4, <3>5 DEF NumbersOK
    <2>3. client.stage \in {"tries", "counts", "returned"}
      BY <2>1, ClientFacts
    <2>4. failed.kind \in {"none", "order", "differs", "mismatch", "agreement"}
      BY DEF HInv, AlarmOK
    <2> QED
      BY <2>2, <2>3, <2>4 DEF TypeOK
  <1> QED
    BY HarnessInvariant, <1>1, PTL

(* applier, applierSnap, ingestSnap and the ghosts: whatever they do to the*)
(* maps, an index holds the chosen command, or a gap in a map that was torn*)
(* while a snapshot of it was due.                                         *)
THEOREM MapsHoldChosen == Spec => []HeldIsChosen
  <1>1. HInv => HeldIsChosen
    <2> SUFFICES ASSUME HInv, NEW s \in Server
                 PROVE  /\ \A index \in DOMAIN logs[s] \ {0} :
                             index \in DOMAIN chosen /\ HeldAt(logs[s], index)
                        /\ \A index \in 1 .. snapshot[s].index : HeldAt(snapshot[s].xlog, index)
      BY DEF HeldIsChosen
    <2>1. LogTypes /\ HeldOK(s)
      BY DEF HInv, Types, ServerOK
    <2>2. DOMAIN chosen = 1 .. Len(chosen)
      BY <2>1 DEF LogTypes
    <2>3. \A index \in DOMAIN logs[s] \ {0} : index \in DOMAIN chosen /\ HeldAt(logs[s], index)
      BY <2>1, <2>2 DEF HeldOK, Valid
    <2>4. ASSUME NEW index \in 1 .. snapshot[s].index PROVE HeldAt(snapshot[s].xlog, index)
      <3>1. snapshot[s] # NoSnapshot
        BY DEF NoSnapshot
      <3>2. snapshot[s].index \in Nat /\ DOMAIN snapshot[s].xlog = 0 .. snapshot[s].index
            /\ Valid(snapshot[s].xlog)
        BY <2>1, <3>1 DEF HeldOK, SnapOK, Snap
      <3>3. index \in DOMAIN snapshot[s].xlog \ {0}
        BY <3>2
      <3> QED
        BY <3>2, <3>3 DEF Valid
    <2> QED
      BY <2>3, <2>4
  <1> QED
    BY HarnessInvariant, <1>1, PTL

(* checkLogs and nCommitted do not fail a correct Raft, unless a map was   *)
(* torn; without snapshots the order of applyCh never fails.               *)
THEOREM AlarmsAreReal == Spec => []NoFalseAlarm
  <1>1. HInv => NoFalseAlarm
    BY DEF HInv, AlarmOK
  <1> QED
    BY HarnessInvariant, <1>1, PTL

(* "apply out of order" of applierSnap: a snapshot came in between, or a   *)
(* killed instance.                                                        *)
THEOREM OrderFailsForTwoReasons == Spec => []OrderFailures
  <1>1. HInv => OrderFailures
    BY DEF HInv, AlarmOK
  <1> QED
    BY HarnessInvariant, <1>1, PTL

(* one() returns an index that holds its command, whoever leads by then.   *)
THEOREM OneReturnsTheTruth == Spec => []OneTellsTruth
  <1>1. HInv => OneTellsTruth
    <2> SUFFICES ASSUME HInv, client.stage = "returned"
                 PROVE  client.index \in DOMAIN chosen /\ command(client.index) = "one"
      BY DEF OneTellsTruth
    <2>1. LogTypes /\ ClientOK
      BY DEF HInv, Types
    <2>2. client.cmd = "one" /\ "one" # nil
      BY <2>1 DEF ClientOK, nil
    <2>3. client.index \in 1 .. Len(chosen) /\ client.cmd = command(client.index)
      BY <2>1, <2>2 DEF ClientOK
    <2> QED
      BY <2>1, <2>2, <2>3 DEF LogTypes
  <1> QED
    BY HarnessInvariant, <1>1, PTL

=============================================================================
