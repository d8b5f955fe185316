----------------------------- MODULE RaftService -----------------------------
(***************************************************************************)
(* That the peers of Raft, as long as none of them crashes, are what       *)
(* LogService says they are to the service above them: the ground on which *)
(* KVServer and Harness stand.  The history adds to what the peers counted *)
(* as committed which elections were won and which entries were started.   *)
(* Raft names an entry by index and term; all have one command here.       *)
(***************************************************************************)
EXTENDS RaftCommits

VARIABLES elections, pending, chosen

Elected(i) == state[i] # Leader /\ state'[i] = Leader

Won(i) == LET t == currentTerm[i]
          IN  [u \in DOMAIN elections \cup {t} |->
                IF u = t THEN [leader |-> i, base |-> Last(logs[i])] ELSE elections[u]]

(* Every entry is in its leader's log when it is started.                  *)
LastEntry(i) ==
  LET last == getLastLog(logs[i])
  IN  [index |-> last.Index, term |-> last.Term, command |-> "command"]

Chosen ==
  LET indexes == { e[1] : e \in committed }
      last == CHOOSE k \in indexes : \A l \in indexes : l <= k
  IN  [k \in 1 .. last |->
        [term |-> (CHOOSE e \in committed : e[1] = k)[2], command |-> "command"]]

SInit ==
  /\ CInit
  /\ elections = [t \in {} |-> 0]
  /\ pending = {}
  /\ chosen = Chosen
SNext ==
  /\ CNext
  /\ IF \E i \in Server : Elected(i)
     THEN elections' = Won(CHOOSE i \in Server : Elected(i))
     ELSE UNCHANGED elections
  /\ pending' = pending \cup
       { LastEntry(i)' : i \in { i \in Server : state'[i] = Leader /\ Last(logs'[i]) > Last(logs[i]) } }
  /\ chosen' = IF committed' = committed THEN chosen ELSE Chosen'
SSpec == SInit /\ [][SNext]_<<vars, committed, elections, pending, chosen>>

-----------------------------------------------------------------------------
Service == INSTANCE LogService WITH
  leads     <- [i \in Server |-> IF state[i] = Leader THEN currentTerm[i] ELSE 0],
  lastIndex <- [i \in Server |-> IF state[i] = Leader THEN Last(logs[i]) ELSE 0]

(* Every step of the peers is one that the service may see, or none: a     *)
(* term has one leader, who holds the chosen entries of earlier terms,     *)
(* even if it was elected late; entries are chosen for good and in order,  *)
(* and are ones that were started.                                         *)
ImplementsLogService == Service!LogServiceSpec

=============================================================================
