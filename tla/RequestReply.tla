----------------------------- MODULE RequestReply -----------------------------
(***************************************************************************)
(* What a request/reply client promises its callers: a query in progress   *)
(* ends once, with the answer to that very query or with an exception, and *)
(* an answer is only to be had for a query that was made.                  *)
(***************************************************************************)
EXTENDS Integers

CONSTANTS Callers, Queries
VARIABLES asking,   \* the query each caller is waiting on, 0 if none
          outcome   \* "open", "answered" or "raised", for each query made

rvars == <<asking, outcome>>

RInit == /\ asking = [c \in Callers |-> 0]
         /\ outcome = [n \in Queries |-> "unasked"]

Ask(c, n) == /\ asking[c] = 0 /\ outcome[n] = "unasked"
             /\ asking' = [asking EXCEPT ![c] = n]
             /\ outcome' = [outcome EXCEPT ![n] = "open"]

End(c) == /\ asking[c] # 0 /\ outcome[asking[c]] = "open"
          /\ \E how \in {"answered", "raised"} : outcome' = [outcome EXCEPT ![asking[c]] = how]
          /\ UNCHANGED asking

Leave(c) == /\ asking[c] # 0 /\ outcome[asking[c]] # "open"
            /\ asking' = [asking EXCEPT ![c] = 0]
            /\ UNCHANGED outcome

RNext == \E c \in Callers : (\E n \in Queries : Ask(c, n)) \/ End(c) \/ Leave(c)

RSpec == RInit /\ [][RNext]_rvars
=============================================================================
