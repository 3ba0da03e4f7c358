---------------------------- MODULE MCTransactions ----------------------------
(* Small sets of concurrent transactions for TLC. *)
EXTENDS Transactions

CONSTANTS p1, p2

AllKinds ==
    [s1 |-> "submit", s2 |-> "submit", c |-> "claim", a |-> "accepted",
     f |-> "unavailable", x |-> "refused", v |-> "recovery",
     r |-> "completed", w |-> "completed", q |-> "rejected"]

AllTxs == DOMAIN AllKinds

\* w reports another payment than the rest.
Payments == [t \in AllTxs |-> IF t = "w" THEN p2 ELSE p1]

\* Two submits race, and a claim and a receipt follow the winner; a submit, the
\* failure of its delivery and a receipt; an answer, a failure and two
\* contradicting reports; a recovery beside the answer of another process, its
\* refusal and a report of another payment; a recovery, and a claim of what it
\* has released beside the failure of the delivery before.
FiveMixes ==
    {{"s1", "s2", "c", "r"}, {"s1", "c", "f", "r"}, {"a", "f", "r", "q"}, {"v", "a", "x", "w"},
     {"v", "c", "f"}}
===============================================================================
