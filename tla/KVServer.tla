------------------------------ MODULE KVServer -------------------------------
(***************************************************************************)
(* The key/value service of lab 3: clerks (lab3/client.go), servers        *)
(* (lab3/server.go, serverwork.go) and their state machines, on top of the *)
(* Raft of LogService and ApplyPipeline.                                   *)
(*                                                                         *)
(* The handler Command locks kv.mu twice and waits in between, so that it  *)
(* is several steps; an applied message is one step under kv.mu.  There is *)
(* one key: keys do not touch each other.  A value is the sequence of the  *)
(* writes it is made of, and a command is <<clerk, number>>.               *)
(***************************************************************************)
EXTENDS ApplyPipeline, FiniteSets

CONSTANTS Clerk,
          Script,           \* per clerk, the works it asks for one after the other
          MaxTries,         \* bound: calls per command of each clerk
          MaxSnapshots,     \* bound: the index up to which snapshots are taken
          MaxRestarts       \* bound: servers killed and started again

(* Clerks go from server to server by number.                              *)
ASSUME Numbered ==
  IsFiniteSet(Server) /\ Server # {} /\ Server = 0 .. Cardinality(Server) - 1
ASSUME Scripts == Script \in [Clerk -> Seq({"Get", "Put", "Append"})]
ASSUME Bounds == MaxTerm \in Nat /\ MaxLogIndex \in Nat /\ MaxTries \in [Clerk -> Nat]

VARIABLES machine,          \* the state machine of each server
          lastOperations,   \* per server and clerk, the last write applied, or 0
          kvApplied,        \* lastApplied of the server
          removed,          \* per server and index, how often the channel was removed
          buffers,          \* per server, the responses in channels
          calls,            \* handlers of Command that run or may still run
          clerks,           \* the command, try and leaderId of each clerk
          answer,           \* the last answer each clerk got
          restarts

servers == <<machine, lastOperations, kvApplied, removed, buffers>>
clients == <<clerks, answer>>
vars == <<logService, pipeline, servers, calls, clients, restarts>>

Work(command) == Script[command[1]][command[2]]

OK == [Err |-> "OK", Value |-> <<>>]
ErrWrongLeader == [Err |-> "ErrWrongLeader", Value |-> <<>>]
ErrTimeout == [Err |-> "ErrTimeout", Value |-> <<>>]

Responses == [Err : {"OK", "ErrNoKey", "ErrWrongLeader", "ErrTimeout"},
              Value : Seq(Clerk \X Nat)]

-----------------------------------------------------------------------------
(* lab3/kvstatemachine.go                                                  *)

Get(v) == [Err |-> IF v = <<>> THEN "ErrNoKey" ELSE "OK", Value |-> v]

Write(v, command) ==
  IF Work(command) = "Put" THEN <<command>> ELSE Append(v, command)

-----------------------------------------------------------------------------
(* lab3/client.go                                                          *)

Request(c, clerk) ==
  [command |-> <<c, clerk.id>>, try |-> clerk.try, server |-> clerk.leaderId,
   stage |-> "requested", index |-> 0, channel |-> 0]

Requests(c, clerk) ==
  IF clerk.id <= Len(Script[c]) /\ clerk.try <= MaxTries[c] THEN {Request(c, clerk)} ELSE {}

Retry(clerk) ==
  [clerk EXCEPT !.try = @ + 1, !.leaderId = (@ + 1) % Cardinality(Server)]

(* The loop of Clerk.Command with a response, or with FALSE from Call:     *)
(* rest are the handlers that go on.                                       *)
Hears(c, response, rest) ==
  LET again == response.Err \in {"ErrWrongLeader", "ErrTimeout"}
      clerk == IF again THEN Retry(clerks[c])
                        ELSE [clerks[c] EXCEPT !.id = @ + 1, !.try = 1] IN
  /\ clerks' = [clerks EXCEPT ![c] = clerk]
  /\ calls' = rest \cup Requests(c, clerk)
  /\ answer' = IF again THEN answer ELSE [answer EXCEPT ![c] = response]

(* A handler returns; the clerk hears it if that is the call it waits for. *)
Reply(call, response, rest) ==
  LET c == call.command[1] IN
  IF clerks[c].id = call.command[2] /\ clerks[c].try = call.try
  THEN Hears(c, response, rest)
  ELSE calls' = rest /\ UNCHANGED clients

CallFails(c) ==
  /\ clerks[c].id <= Len(Script[c])
  /\ clerks[c].try <= MaxTries[c]
  /\ Hears(c, ErrTimeout, calls)
  /\ UNCHANGED <<logService, pipeline, servers, restarts>>

-----------------------------------------------------------------------------
(* KVServer.Command, step by step                                          *)

Others(call) == calls \ {call}
Onward(call, stage) == Others(call) \cup {[call EXCEPT !.stage = stage]}

isDuplicateRequest_Last(s, command) == command[2] < lastOperations[s][command[1]]

isDuplicateRequest(s, command) == command[2] <= lastOperations[s][command[1]]

(* The answer to a write that was applied is OK without a value, that of   *)
(* LastResponse.                                                           *)
CheckDuplicate(call) ==
  /\ call.stage = "requested"
  /\ IF Work(call.command) # "Get" /\ isDuplicateRequest(call.server, call.command)
     THEN Reply(call, OK, Others(call))
     ELSE calls' = Onward(call, "checked") /\ UNCHANGED clients
  /\ UNCHANGED <<logService, pipeline, servers, restarts>>

Submit(call) ==
  /\ call.stage = "checked"
  /\ IF leads[call.server] = 0
     THEN /\ Reply(call, ErrWrongLeader, Others(call))
          /\ UNCHANGED logService
     ELSE /\ Start(call.server, call.command)
          /\ calls' = Others(call) \cup
               {[call EXCEPT !.stage = "started", !.index = lastIndex'[call.server]]}
          /\ UNCHANGED clients
  /\ UNCHANGED <<pipeline, servers, restarts>>

(* The channel of an index is the one made since it was last removed.      *)
getNotifyChan(call) ==
  /\ call.stage = "started"
  /\ calls' = Others(call) \cup
       {[call EXCEPT !.stage = "waits", !.channel = removed[call.server][call.index]]}
  /\ UNCHANGED <<logService, pipeline, servers, clients, restarts>>

Receive(call) ==
  /\ call.stage = "waits"
  /\ \E message \in buffers[call.server] :
       /\ message.index = call.index /\ message.channel = call.channel
       /\ buffers' = [buffers EXCEPT ![call.server] = @ \ {message}]
       /\ Reply(call, message.response, Onward(call, "removes"))
  /\ UNCHANGED <<logService, pipeline, machine, lastOperations, kvApplied, removed, restarts>>

TimeOut(call) ==
  /\ call.stage = "waits"
  /\ Reply(call, ErrTimeout, Onward(call, "removes"))
  /\ UNCHANGED <<logService, pipeline, servers, restarts>>

(* The goroutine it leaves behind removes whatever channel the index has.  *)
removeOutdatedNotifyChan(call) ==
  /\ call.stage = "removes"
  /\ calls' = Others(call)
  /\ removed' = [removed EXCEPT ![call.server][call.index] = @ + 1]
  /\ UNCHANGED <<logService, pipeline, machine, lastOperations, kvApplied, buffers,
                 clients, restarts>>

-----------------------------------------------------------------------------
(* KVServer.applier                                                        *)

Discarded(s) == batch[s].next <= kvApplied[s]

(* The leader of the entry's own term tells the handler.                   *)
Notifies(s) == leads[s] = chosen[batch[s].next].term

Full_Unbuffered(s, index) ==
  ~\E call \in calls : call.server = s /\ call.index = index /\ call.stage = "waits"

(* A channel holds one response; a send into a full one blocks.            *)
Full(s, index) ==
  \E message \in buffers[s] : message.index = index /\ message.channel = removed[s][index]

(* What takeSnapshot encodes.                                              *)
Snapshot(s, index) ==
  [index |-> index, machine |-> machine'[s], lastOperations |-> lastOperations'[s]]

EmptySnapshot == [index |-> 0, machine |-> <<>>, lastOperations |-> [c \in Clerk |-> 0]]

(* needSnapshot compares sizes: it may say yes at any time.                *)
mayTakeSnapshot(s, index) ==
  \/ UNCHANGED snapshot
  \/ /\ index <= MaxSnapshots
     /\ snapshot' = [snapshot EXCEPT ![s] = Snapshot(s, index)]

ApplyCommand(s) ==
  LET index   == batch[s].next
      command == chosen[index].command
      c       == command[1]
      skips   == Work(command) # "Get" /\ isDuplicateRequest(s, command) IN
  /\ kvApplied' = [kvApplied EXCEPT ![s] = index]
  /\ IF Work(command) = "Get" \/ skips
     THEN UNCHANGED <<machine, lastOperations>>
     ELSE /\ machine' = [machine EXCEPT ![s] = Write(@, command)]
          /\ lastOperations' = [lastOperations EXCEPT ![s][c] = command[2]]
  /\ IF Notifies(s)
     THEN /\ ~Full(s, index)
          /\ buffers' = [buffers EXCEPT ![s] = @ \cup
               {[index |-> index, channel |-> removed[s][index],
                 response |-> IF Work(command) = "Get" THEN Get(machine[s]) ELSE OK]}]
     ELSE UNCHANGED buffers
  /\ mayTakeSnapshot(s, index)
  /\ UNCHANGED removed

(* A message whose index a snapshot has overtaken is dropped.              *)
Apply(s) ==
  /\ SendNext(s)
  /\ IF Discarded(s) THEN UNCHANGED <<servers, snapshot>> ELSE ApplyCommand(s)
  /\ UNCHANGED <<logService, calls, clients, restarts>>

ApplySnapshot(s, snap) ==
  /\ IF Outdated(s, snap)
     THEN UNCHANGED <<machine, lastOperations, kvApplied>>
     ELSE /\ machine' = [machine EXCEPT ![s] = snap.machine]
          /\ lastOperations' = [lastOperations EXCEPT ![s] = snap.lastOperations]
          /\ kvApplied' = [kvApplied EXCEPT ![s] = snap.index]
  /\ CondInstallSnapshot(s, snap)
  /\ UNCHANGED <<logService, removed, buffers, calls, clients, restarts>>

(* Kill, then StartKVServer with the persister's copy: lastApplied is 0    *)
(* again, and restoreSnapshot fills the machine.                           *)
Restart(s) ==
  /\ restarts < MaxRestarts
  /\ restarts' = restarts + 1
  /\ leads' = [leads EXCEPT ![s] = 0]
  /\ lastIndex' = [lastIndex EXCEPT ![s] = 0]
  /\ RestartPipeline(s)
  /\ machine' = [machine EXCEPT ![s] = snapshot[s].machine]
  /\ lastOperations' = [lastOperations EXCEPT ![s] = snapshot[s].lastOperations]
  /\ kvApplied' = [kvApplied EXCEPT ![s] = 0]
  /\ removed' = [removed EXCEPT ![s] = [index \in 1 .. MaxLogIndex |-> 0]]
  /\ buffers' = [buffers EXCEPT ![s] = {}]
  /\ calls' = { call \in calls : call.server # s \/ call.stage = "requested" }
  /\ UNCHANGED <<elections, pending, chosen, clients>>

-----------------------------------------------------------------------------
NoneWaits_Anyway(s) == TRUE

(* ExecuteTimeout (500 ms) is shorter than an election timeout: a server   *)
(* that lost its leadership is not elected again, with another log, while  *)
(* a handler of its earlier term still waits.                              *)
(* time.After begins with the select.  Between Start and the select (stage *)
(* "started") the handler only waits for kv.mu, under no timeout: for      *)
(* that stretch the guard is an assumption, that it and the 500 ms are     *)
(* over before the 1000 ms of the shortest election timeout.               *)
NoneWaits(s) ==
  ~\E call \in calls : call.server = s /\ call.stage \in {"started", "waits"}

(* LogService only asks that a leader of a late election has what was      *)
(* chosen before its term.  A peer's log never ends below its own          *)
(* commitIndex (SlicesInRange of Raft).                                    *)
HoldsCommitted(s) == commitIndex[s] <= lastIndex'[s]

RaftStep ==
  /\ \/ \E s \in Server : \/ NoneWaits(s) /\ Elect(s) /\ HoldsCommitted(s)
                          \/ ElectAgain(s)
                          \/ StepDown(s)
     \/ \E e \in pending : Choose(e)
  /\ UNCHANGED <<pipeline, servers, calls, clients, restarts>>

PipelineStep ==
  /\ \E s \in Server : \/ LearnCommit(s)
                       \/ TakeBatch(s)
                       \/ \E from \in Server \ {s} : ReceiveSnapshot(s, from)
  /\ UNCHANGED <<logService, servers, calls, clients, restarts>>

Command(call) ==
  \/ CheckDuplicate(call)
  \/ Submit(call)
  \/ getNotifyChan(call)
  \/ Receive(call)
  \/ TimeOut(call)
  \/ removeOutdatedNotifyChan(call)

Init ==
  LET clerk == [id |-> 1, try |-> 1, leaderId |-> 0] IN
  /\ LogServiceInit
  /\ PipelineInit(EmptySnapshot)
  /\ machine = [s \in Server |-> <<>>]
  /\ lastOperations = [s \in Server |-> [c \in Clerk |-> 0]]
  /\ kvApplied = [s \in Server |-> 0]
  /\ removed = [s \in Server |-> [index \in 1 .. MaxLogIndex |-> 0]]
  /\ buffers = [s \in Server |-> {}]
  /\ clerks = [c \in Clerk |-> clerk]
  /\ calls = UNION { Requests(c, clerk) : c \in Clerk }
  /\ answer = [c \in Clerk |-> OK]
  /\ restarts = 0

Next ==
  \/ RaftStep
  \/ PipelineStep
  \/ \E call \in calls : Command(call)
  \/ \E s \in Server : \/ Apply(s)
                       \/ \E snap \in snapCh[s] : ApplySnapshot(s, snap)
                       \/ Restart(s)
  \/ \E c \in Clerk : CallFails(c)

Spec == Init /\ [][Next]_vars

-----------------------------------------------------------------------------
Snapshots == [index : 0 .. MaxLogIndex, machine : Seq(Clerk \X Nat), lastOperations : [Clerk -> Nat]]

TypeOK ==
  /\ leads \in [Server -> {0} \cup DOMAIN elections]
  /\ lastIndex \in [Server -> 0 .. MaxLogIndex]
  /\ elections \in UNION { [T -> [leader : Server, base : 0 .. MaxLogIndex]] : T \in SUBSET (1 .. MaxTerm) }
  /\ \A s \in Server :
       /\ commitIndex[s] \in 0 .. Len(chosen)
       /\ rfApplied[s] \in 0 .. commitIndex[s]
       /\ batch[s] # NoBatch => batch[s].next \in 1 .. batch[s].last
       /\ kvApplied[s] \in 0 .. commitIndex[s]
       /\ snapshot[s] \in Snapshots
       /\ snapCh[s] \subseteq Snapshots
  /\ machine \in [Server -> Seq(Clerk \X Nat)]
  /\ lastOperations \in [Server -> [Clerk -> Nat]]
  /\ \A call \in calls :
       /\ call.stage \in {"requested", "checked", "started", "waits", "removes"}
       /\ call.stage \in {"started", "waits", "removes"} <=> call.index # 0
  /\ answer \in [Clerk -> Responses]

(* The value after the first i chosen entries, when every write counts the *)
(* first time it is chosen and never again.                                *)
Counts(i) ==
  /\ Work(chosen[i].command) # "Get"
  /\ \A j \in 1 .. i - 1 : chosen[j].command # chosen[i].command

ValueAfter[i \in Nat] ==
  IF i = 0 THEN <<>>
  ELSE IF Counts(i) THEN Write(ValueAfter[i - 1], chosen[i].command) ELSE ValueAfter[i - 1]

AppliedTo(s) == IF kvApplied[s] > snapshot[s].index THEN kvApplied[s] ELSE snapshot[s].index

(* Whatever way a server got to an index, by entries, by a snapshot in the *)
(* middle of a batch or by a restart, its machine holds the value that     *)
(* belongs there: retried writes are applied once on every server.         *)
ReplicasAgree == \A s \in Server : machine[s] = ValueAfter[AppliedTo(s)]

(* applier never blocks on a notify channel, which would stop the server   *)
(* with kv.mu held: handlers come late, time out and remove channels that  *)
(* are not theirs, and yet the channel of the next index has room.         *)
NotifyNeverBlocks ==
  \A s \in Server :
    batch[s] # NoBatch /\ ~Discarded(s) /\ Notifies(s) => ~Full(s, batch[s].next)

(* The service is linearizable: it does what an atomic value does whose    *)
(* commands take effect when their entry is chosen, although it is servers *)
(* that answer, from their own machines, tables and channels.              *)
ResultOf(i) ==
  IF Work(chosen[i].command) = "Get" THEN Get(ValueAfter[i - 1]) ELSE OK

TheService == INSTANCE AtomicKV WITH
  value   <- ValueAfter[Len(chosen)],
  current <- [c \in Clerk |-> clerks[c].id],
  results <- [c \in Clerk |->
                { ResultOf(i) : i \in { i \in DOMAIN chosen :
                                         chosen[i].command = <<c, clerks[c].id>> } }],
  answer  <- answer
ImplementsAtomicKV == TheService!Spec

=============================================================================
