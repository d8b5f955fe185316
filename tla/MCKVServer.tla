----------------------------- MODULE MCKVServer ------------------------------
EXTENDS KVServer

CONSTANTS c1, c2

(* A writer whose calls may fail, and a reader.                            *)
WriterAndReader == [c \in Clerk |-> IF c = c1 THEN <<"Append">> ELSE <<"Get">>]
WriterRetries == [c \in Clerk |-> IF c = c1 THEN 2 ELSE 1]

JustWrite == [c \in Clerk |-> <<"Append">>]

=============================================================================
