----------------------------- MODULE LogService ------------------------------
(***************************************************************************)
(* Raft as its service sees it: one leader per term, Start at a leader,    *)
(* and one sequence of chosen entries that every server applies a prefix   *)
(* of.  It stands for the peers of module Raft without crashes between     *)
(* Start and persist(); votes, messages and majorities are left out, and   *)
(* what they leave open is nondeterministic here.  A term may be won late, *)
(* by votes that were under way when a later term already had its leader.  *)
(***************************************************************************)
EXTENDS Naturals, Sequences

CONSTANTS Server,
          MaxTerm,       \* bound: elections
          MaxLogIndex    \* bound: entries

VARIABLES leads,         \* the term a server takes itself for the leader of, or 0
          lastIndex,     \* the last index of a leader's log, or 0
          elections,     \* per term that was won, the leader and its last index then
          pending,       \* entries that were started
          chosen         \* the entries below every commitIndex

logService == <<leads, lastIndex, elections, pending, chosen>>

LogServiceInit ==
  /\ leads = [s \in Server |-> 0]
  /\ lastIndex = [s \in Server |-> 0]
  /\ elections = [t \in {} |-> 0]
  /\ pending = {}
  /\ chosen = <<>>

(***************************************************************************)
(* Whoever leads the latest term has the chosen entries of earlier ones:   *)
(* what Raft's votes and its rule of commitment are for.  Any of the later *)
(* elections may be won, and entries be chosen, only so that this holds.   *)
(***************************************************************************)
LatestHas(won, log) ==
  \A t \in DOMAIN won : (\A u \in DOMAIN won : u <= t) =>
    \A k \in DOMAIN log : log[k].term < t => k <= won[t].base

BecomeLeader(s, t, base) ==
  /\ t \notin DOMAIN elections
  /\ leads' = [leads EXCEPT ![s] = t]
  /\ lastIndex' = [lastIndex EXCEPT ![s] = base]
  /\ \A u \in DOMAIN elections : elections[u].leader = s => u < t
  /\ elections' = [u \in DOMAIN elections \cup {t} |->
                     IF u = t THEN [leader |-> s, base |-> base] ELSE elections[u]]
  /\ LatestHas(elections', chosen)
  /\ UNCHANGED <<pending, chosen>>

(* A server that does not lead is elected with a log that is empty or ends *)
(* with an entry of an earlier term.                                       *)
Elect(s) ==
  /\ leads[s] = 0
  /\ \E t \in 1 .. MaxTerm :
       \E base \in {0} \cup { e.index : e \in { e \in pending : e.term < t } } :
         BecomeLeader(s, t, base)

(* A late tick makes a leader stand again, with the log it has.            *)
ElectAgain(s) ==
  /\ leads[s] # 0
  /\ \E t \in 1 .. MaxTerm : BecomeLeader(s, t, lastIndex[s])

StepDown(s) ==
  /\ leads[s] # 0
  /\ leads' = [leads EXCEPT ![s] = 0]
  /\ lastIndex' = [lastIndex EXCEPT ![s] = 0]
  /\ UNCHANGED <<elections, pending, chosen>>

Start(s, command) ==
  /\ leads[s] # 0
  /\ lastIndex[s] < MaxLogIndex
  /\ lastIndex' = [lastIndex EXCEPT ![s] = @ + 1]
  /\ pending' = pending \cup
       {[index |-> lastIndex'[s], term |-> leads[s], command |-> command]}
  /\ UNCHANGED <<leads, elections, chosen>>

(* Entries are chosen at the next indexes; terms do not decrease along the *)
(* log.                                                                    *)
ChooseAll(es) ==
  /\ \A j \in DOMAIN es : es[j].index = Len(chosen) + j
  /\ chosen' = chosen \o [j \in DOMAIN es |-> [term |-> es[j].term, command |-> es[j].command]]
  /\ \A j, k \in DOMAIN chosen' : j < k => chosen'[j].term <= chosen'[k].term
  /\ LatestHas(elections, chosen')
  /\ UNCHANGED <<leads, lastIndex, elections, pending>>

Choose(e) == ChooseAll(<<e>>)

(* The peers alone, with one command for all.  A leader's commitIndex may  *)
(* pass several entries at once.                                           *)
LogServiceNext ==
  \/ \E s \in Server : Elect(s) \/ ElectAgain(s) \/ StepDown(s) \/ Start(s, "command")
  \/ \E m \in 1 .. MaxLogIndex : \E es \in [1 .. m -> pending] : ChooseAll(es)

LogServiceSpec == LogServiceInit /\ [][LogServiceNext]_logService

=============================================================================
