------------------------------ MODULE AtomicKV -------------------------------
(***************************************************************************)
(* What the key/value service promises its clerks: each command takes its  *)
(* effect on one value at one moment between its call and its answer, a    *)
(* write exactly once, and the answer is the one of that moment.  A Get    *)
(* that is retried may look several times and answer what it saw any time. *)
(***************************************************************************)
EXTENDS Naturals, Sequences

CONSTANTS Clerk,
          Script         \* what each clerk asks for, one command after the other

VARIABLES value,         \* the writes the value is made of
          current,       \* which command of its script each clerk is at
          results,       \* what that command may answer
          answer         \* the last answer each clerk got

vars == <<value, current, results, answer>>

Work(c, id) == Script[c][id]

Written(v, c, id) == IF Work(c, id) = "Put" THEN << <<c, id>> >> ELSE Append(v, <<c, id>>)

Read(v) == [Err |-> IF v = <<>> THEN "ErrNoKey" ELSE "OK", Value |-> v]

OK == [Err |-> "OK", Value |-> <<>>]

Init ==
  /\ value = <<>>
  /\ current = [c \in Clerk |-> 1]
  /\ results = [c \in Clerk |-> {}]
  /\ answer = [c \in Clerk |-> OK]

TakesEffect(c) ==
  /\ current[c] <= Len(Script[c])
  /\ \/ /\ Work(c, current[c]) = "Get"
        /\ results' = [results EXCEPT ![c] = @ \cup {Read(value)}]
        /\ UNCHANGED value
     \/ /\ Work(c, current[c]) # "Get"
        /\ results[c] = {}
        /\ results' = [results EXCEPT ![c] = {OK}]
        /\ value' = Written(value, c, current[c])
  /\ UNCHANGED <<current, answer>>

Returns(c) ==
  /\ \E r \in results[c] : answer' = [answer EXCEPT ![c] = r]
  /\ current' = [current EXCEPT ![c] = @ + 1]
  /\ results' = [results EXCEPT ![c] = {}]
  /\ UNCHANGED value

Next == \E c \in Clerk : TakesEffect(c) \/ Returns(c)

Spec == Init /\ [][Next]_vars

=============================================================================
