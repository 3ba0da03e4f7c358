---------------------------- MODULE MCStrayReceipts ----------------------------
(* Instances in which receipts arrive that no payment stands behind. *)
EXTENDS DocumentedClaims

CONSTANTS o1, p1, p2

\* Reports sent under the id of another operation: o1 may be submitted or not,
\* linked or not, and p1 and p2 may belong to nobody yet, or to the other one.
Misdirected ==
    {[op |-> o1, payment |-> p1, result |-> "COMPLETED"],
     [op |-> o1, payment |-> p2, result |-> "REJECTED"]}

\* The report of the payment o1 is going to have, posted before the submit.
Premature == {[op |-> o1, payment |-> p1, result |-> "COMPLETED"]}

===============================================================================
