------------------------------ MODULE RaftLog ------------------------------
(***************************************************************************)
(* The log of a Raft peer and the questions the handlers ask of it:        *)
(* src/lab2/lab2B/Entry.go, and the loops over logs that raft.go and       *)
(* raftwork.go contain.                                                    *)
(*                                                                         *)
(* A log is a non-empty sequence of entries.  Its first entry is a         *)
(* placeholder for everything the last snapshot covers: index and term of  *)
(* the last entry in the snapshot, 0 and 0 before the first one.  The      *)
(* command of an entry is left out: one leader per term appends at most    *)
(* one entry per index, so index and term identify it.                     *)
(*                                                                         *)
(* Go slices count from 0 and this sequence from 1, so rf.logs[k-first]    *)
(* is EntryAt(log, k).  A loop is given by what holds where it stops: an   *)
(* operator below is then a set with one member, or a predicate one value  *)
(* satisfies.                                                              *)
(***************************************************************************)
EXTENDS Integers, Sequences

Entry == [Index : Nat, Term : Nat]

(* Entries in the order of their indexes, without a gap, from index + 1 on. *)
Follow(entries, index) ==
  entries \in Seq(Entry) /\ \A k \in 1 .. Len(entries) : entries[k].Index = index + k

(* Index 0, term 0: the zero Entry that make([]Entry, 1) leaves in the log *)
EmptyLog == << [Index |-> 0, Term |-> 0] >>

getFirstLog(log) == log[1]
getLastLog(log)  == log[Len(log)]
First(log)       == getFirstLog(log).Index
Last(log)        == getLastLog(log).Index

(* What makes rf.logs[k-first] the entry of index k.                       *)
IsLog(log) == log # << >> /\ Follow(log, First(log) - 1)

EntryAt(log, index) == log[index - First(log) + 1]
TermAt(log, index)  == EntryAt(log, index).Term

(* The slices log[index-first:] and log[:index-first].                     *)
From(log, index)   == SubSeq(log, index - First(log) + 1, Len(log))
Before(log, index) == SubSeq(log, 1, index - First(log))

(* The log below a snapshot goes; the placeholder takes the snapshot's     *)
(* index and term, whatever term the entry there had.                      *)
Trimmed_OwnTerm(log, index, term) ==  \* mutant: the entry keeps its term
  IF index > Last(log) THEN << [Index |-> index, Term |-> term] >> ELSE From(log, index)
Trimmed(log, index, term) ==
  LET placeholder == [Index |-> index, Term |-> term]
  IN  IF index > Last(log) THEN <<placeholder>>
                           ELSE <<placeholder>> \o From(log, index + 1)

(* Does the log hold an entry of this term at this index?                  *)
matchLog_IndexOnly(log, term, index) ==  \* mutant: any term will do
  index <= Last(log) /\ index >= First(log)
matchLog(log, term, index) ==
  /\ index <= Last(log)
  /\ index >= First(log)
  /\ TermAt(log, index) = term

(* Is a log that ends with (term, index) at least as new as this one?      *)
isLogUpToDate_Never(log, term, index) == TRUE  \* mutant: as in lab 2A, not compared
isLogUpToDate(log, term, index) ==
  LET last == getLastLog(log)
  IN  term > last.Term \/ (term = last.Term /\ index >= last.Index)

(***************************************************************************)
(* AppendEntries' loop over the entries of a request that matched: k is    *)
(* the position of the first one the log lacks, Len(entries) + 1 if it     *)
(* lacks none.                                                             *)
(***************************************************************************)
Lacks(log, entry) ==
  entry.Index > Last(log) \/ TermAt(log, entry.Index) # entry.Term

FirstLacking_Overwrite(log, entries) ==  \* mutant: always all of them
  { 1 }
FirstLacking(log, entries) ==
  { k \in 1 .. Len(entries) + 1 :
      /\ \A j \in 1 .. k - 1 : ~Lacks(log, entries[j])
      /\ k <= Len(entries) => Lacks(log, entries[k]) }

Merge(log, entries, k) ==
  IF k > Len(entries) THEN log
  ELSE Before(log, entries[k].Index) \o SubSeq(entries, k, Len(entries))

(***************************************************************************)
(* AppendEntries' other loop: the index below prevLogIndex where the run   *)
(* of entries with the conflicting term stops, first - 1 if it does not.   *)
(***************************************************************************)
ConflictIndexes(log, prevLogIndex) ==
  LET term == TermAt(log, prevLogIndex)
  IN  { index \in First(log) - 1 .. prevLogIndex - 1 :
          /\ \A k \in index + 1 .. prevLogIndex - 1 : TermAt(log, k) = term
          /\ index >= First(log) => TermAt(log, index) # term }

(***************************************************************************)
(* handleAppendEntriesResponse's loop: where the leader goes on from after *)
(* a mismatch, just above its own last entry of the conflicting term at or *)
(* below prevLogIndex, or at the follower's index if it has none.  The     *)
(* code's -1 for "the follower's log ends below" is NoConflict.            *)
(***************************************************************************)
NoConflict == -1

BackOffs(log, prevLogIndex, conflictTerm, conflictIndex) ==
  LET same == { k \in First(log) .. prevLogIndex :
                  TermAt(log, k) = conflictTerm }
  IN  IF conflictTerm = NoConflict \/ same = {}
        THEN { conflictIndex }
        ELSE { k + 1 : k \in { k \in same : \A j \in same : j <= k } }

=============================================================================
