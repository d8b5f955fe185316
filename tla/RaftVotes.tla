------------------------------ MODULE RaftVotes ------------------------------
(***************************************************************************)
(* Raft with the history of its elections: every vote that a peer's        *)
(* votedFor ever held, as <<term, voter, candidate>>.  No step of the      *)
(* program reads it.                                                       *)
(***************************************************************************)
EXTENDS Raft

VARIABLE votes

Held == { <<currentTerm[i], i, votedFor[i]>> :
            i \in { i \in Server : votedFor[i] # None } }

(* The peers that voted for i in the term it is in.                        *)
VotersOf(i) == { p \in Server : <<currentTerm[i], p, i>> \in votes }

VInit == Init /\ votes = {}
VNext == Next /\ votes' = votes \cup Held'
VSpec == VInit /\ [][VNext]_<<vars, votes>>

-----------------------------------------------------------------------------
(* No two peers lead in the same term, whatever crashes and however late   *)
(* the replies come (lab2A/README.md: one leader per term).                *)
ElectionSafety ==
  \A i, j \in Server :
    state[i] = Leader /\ state[j] = Leader /\ currentTerm[i] = currentTerm[j] => i = j

(* In a term a peer votes for one candidate only, also when it crashes     *)
(* between two requests: RequestVote persists before it answers.           *)
OneVotePerTerm ==
  \A v, w \in votes : v[1] = w[1] /\ v[2] = w[2] => v = w

(* A leader has the votes of a majority of its term behind it: the         *)
(* closures that count do not take a late answer of an earlier election    *)
(* for one of this, and count no peer twice.                               *)
LeaderHasMajority ==
  \A i \in Server : state[i] = Leader => Majority(VotersOf(i))

=============================================================================
