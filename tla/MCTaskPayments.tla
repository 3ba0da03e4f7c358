---------------------------- MODULE MCTaskPayments ----------------------------
(* Small instances of TaskPayments for TLC. *)
EXTENDS TaskPayments, TLC

\* Operations, payments and processes are interchangeable model values.
Symmetry ==
    Permutations(OperationIds) \cup Permutations(PaymentIds) \cup Permutations(Instances)

===============================================================================
