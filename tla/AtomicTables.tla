------------------------------ MODULE AtomicTables ------------------------------
(***************************************************************************)
(* The tables when every transaction is one step: what TaskPayments takes  *)
(* for granted, and what Transactions shows the statements, locks and      *)
(* retries of the code to implement.                                       *)
(***************************************************************************)
EXTENDS Service

\* The dispatcher's claim of one row.
ClaimIntent(o) ==
    /\ o \in Due(outbox)
    /\ outbox' = ClaimDue(outbox, {o})
    /\ UNCHANGED <<operations, events, receipts>>

Deliver(o) ==
    \/ \E p \in PaymentIds : RecordAcceptance(o, p)
    \/ \E class \in ErrorClass, attemptsLeft \in BOOLEAN : RecordFailure(o, class, attemptsLeft)

Next ==
    \/ \E o \in OperationIds :
        \/ CreateOperationRequest(o) \/ SubmitOperation(o)
        \/ \E p \in PaymentIds, result \in ReceiptResult : ProcessReceipt(o, p, result)
        \/ ClaimIntent(o) \/ Deliver(o)
    \/ ResumeUnfinished

\* A failure that finds the intent not in flight, any more or yet again, takes no
\* lock of it and leaves its event only.
NoteFailure(o) ==
    /\ events' = AppendEvent(events, o, "PROVIDER_ATTEMPT_FAILED", "PROCESSING", "PROCESSING")
    /\ UNCHANGED <<operations, outbox, receipts>>

\* A recovery that has locked no intent leaves only the event of one that waited
\* when it was listed, and may have been claimed or closed since.
NoteResumption(o) ==
    /\ events' = AppendEvent(events, o, "RECOVERY_RESUMED", "PROCESSING", "PROCESSING")
    /\ UNCHANGED <<operations, outbox, receipts>>

\* A transaction after another, from any state of the tables.
Steps == [][Next]_tables
===============================================================================
