------------------------------ MODULE MCRequests ------------------------------
(* Spellings, amounts and reporters for TLC. *)
EXTENDS Requests

CONSTANTS o1, o2, p1, p2, padded, blank

StripMap == [id \in Spellings |->
    CASE id = padded -> o1 [] id = blank -> Blank [] OTHER -> id]

Text(whole, fraction) == [float |-> FALSE, whole |-> whole, fraction |-> fraction]

\* 1.5, 2.005 and 1.5 as a number
SomeAmounts ==
    {Text(1, <<5>>), Text(2, <<0, 0, 5>>), [Text(1, <<5>>) EXCEPT !.float = TRUE]}

Payers == [p \in PaymentIds |-> IF p = p1 THEN o1 ELSE o2]

\* The provider reports its payments as COMPLETED; others post p2 as REJECTED
\* for o1, and p1 under an id with a blank before it.
SomeReports ==
    {[id |-> o1, payment |-> p1, result |-> "COMPLETED"],
     [id |-> o2, payment |-> p2, result |-> "COMPLETED"],
     [id |-> o1, payment |-> p2, result |-> "REJECTED"],
     [id |-> padded, payment |-> p1, result |-> "COMPLETED"]}
===============================================================================
