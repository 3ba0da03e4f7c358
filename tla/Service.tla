------------------------------- MODULE Service -------------------------------
(***************************************************************************)
(* The transactions of app/services that run on behalf of a caller:        *)
(* creating and submitting an operation, processing a receipt, and the     *)
(* recovery a starting process runs.  A request is one transaction         *)
(* (app/deps.py): it commits as a whole or leaves no trace, so each is one *)
(* action over the four tables.  A request that changes nothing (404, 409, *)
(* a repeated submit, a duplicate receipt) is no step of this module.      *)
(***************************************************************************)
EXTENDS Repositories

VARIABLES
    operations,     \* table "operations"
    outbox,         \* table "event_outbox"
    events,         \* table "events": the history of each operation
    receipts        \* table "receipts"

tables == <<operations, outbox, events, receipts>>

TablesInit ==
    /\ operations = [o \in OperationIds |-> NoOperation]
    /\ outbox = [o \in OperationIds |-> NoIntent]
    /\ events = [o \in OperationIds |-> <<>>]
    /\ receipts = {}

TablesTypeOK ==
    /\ operations \in [OperationIds -> Operation]
    /\ outbox \in [OperationIds -> SubmitIntent]
    /\ events \in [OperationIds -> Seq(Event)]
    /\ receipts \subseteq Receipt

-----------------------------------------------------------------------------
(* operation_service *)

\* POST /operations: 201 for a new id.
CreateOperationRequest(o) ==
    /\ operations[o].status = Absent
    /\ operations' = CreateOperation(operations, o)
    /\ events' = AppendEvent(events, o, "CREATED", Null, "CREATED")
    /\ UNCHANGED <<outbox, receipts>>

SubmitAlways(o) ==
    /\ operations[o].status \in OperationStatus
    /\ operations' = [operations EXCEPT ![o].status = "PROCESSING"]
    /\ outbox' = CreateIntent(outbox, o, o)
    /\ events' = AppendEvent(events, o, "SUBMIT_REQUESTED", "CREATED", "PROCESSING")
    /\ UNCHANGED receipts

\* POST /operations/{id}/submit, for the one request that wins the
\* compare-and-set: the transition, the intent and the event are one commit.
\* The idempotency key is the operation id.
SubmitOperation(o) ==
    /\ CanBeginProcessing(operations, o)
    /\ operations' = TryBeginProcessing(operations, o)
    /\ outbox' = CreateIntent(outbox, o, o)
    /\ events' = AppendEvent(events, o, "SUBMIT_REQUESTED", "CREATED", "PROCESSING")
    /\ UNCHANGED receipts

-----------------------------------------------------------------------------
(* receipt_service *)

AppliesOnceLinked(row) == row.status = "PROCESSING" /\ row.payment # Null

AppliesUntilRejected(row) == row.status \in {"PROCESSING", "COMPLETED"}

CanApply(row) == row.status = "PROCESSING"

\* 404, 409 and DUPLICATE are the three ways a receipt leaves no trace.
Admissible(o, p, result) ==
    /\ operations[o].status # Absent
    /\ operations[o].payment \in {Null, p}
    /\ ~ AlreadyRecorded(receipts, o, p, result)

\* APPLIED: the receipt settles the operation, links it if the provider's
\* answer has not, and closes the intent.
ApplyReceipt(o, p, result) ==
    LET target == ResultToStatus(result) IN
    /\ Admissible(o, p, result)
    /\ CanApply(operations[o])
    /\ operations[o].payment = Null => ~ PaymentTaken(operations, o, p)
    /\ receipts' = RecordReceipt(receipts, o, p, result, TRUE, "none")
    /\ operations' = TryFinalize(LinkProviderPayment(operations, o, p), o, target)
    /\ events' = AppendEvent(events, o, StatusToEventType(target), "PROCESSING", target)
    /\ outbox' = MarkDone(outbox, o)

\* IGNORED: the operation is final, or was never submitted.  The receipt is
\* recorded, and nothing else but the history changes.
IgnoreReceipt(o, p, result) ==
    LET status == operations[o].status
        reason == IF status \in TerminalStatuses THEN "already_final" ELSE "not_submitted"
    IN
    /\ Admissible(o, p, result)
    /\ ~ CanApply(operations[o])
    /\ receipts' = RecordReceipt(receipts, o, p, result, FALSE, reason)
    /\ events' = AppendEvent(events, o, "RECEIPT_CONFLICT_IGNORED", status, status)
    /\ UNCHANGED <<operations, outbox>>

ProcessReceipt(o, p, result) ==
    \/ ApplyReceipt(o, p, result)
    \/ IgnoreReceipt(o, p, result)

-----------------------------------------------------------------------------
(* what the dispatcher writes (dispatcher._on_accepted, _on_failure) *)

\* The status is read by a statement of its own.  It is the one the operation
\* has at the commit if this transaction has linked it and so holds its row, or
\* finds it linked by a receipt and so final; if an earlier answer has linked
\* it, a receipt may have come in between.
StatusRead(o) ==
    {operations[o].status} \cup
        IF \E k \in 1 .. Len(events[o]) : events[o][k].type = "PROVIDER_ACCEPTED"
        THEN {"PROCESSING"}
        ELSE {}

\* The link, the event and the closing of the intent.
RecordAcceptance(o, p) ==
    /\ operations[o].payment = Null => ~ PaymentTaken(operations, o, p)
    /\ operations' = LinkProviderPayment(operations, o, p)
    /\ \E status \in StatusRead(o) :
        events' = AppendEvent(events, o, "PROVIDER_ACCEPTED", status, status)
    /\ outbox' = MarkDone(outbox, o)
    /\ UNCHANGED receipts

\* The status written into the event is a constant of the code: the handler
\* does not read the operation.
RecordFailure(o, class, attemptsLeft) ==
    /\ outbox' = IF attemptsLeft
                 THEN Reschedule(outbox, o, class)
                 ELSE MarkFailed(outbox, o, class)
    /\ events' = AppendEvent(events, o, "PROVIDER_ATTEMPT_FAILED", "PROCESSING", "PROCESSING")
    /\ UNCHANGED <<operations, receipts>>

-----------------------------------------------------------------------------
(* recovery *)

\* One transaction of three statements, each seeing the one before it.
ResumeUnfinished ==
    LET released == ReleaseAllInFlight(outbox)
        revived  == ReviveFailed(released, operations)
        resumed  == ListResumable(revived, operations)
    IN
    /\ outbox' = revived
    /\ events' =
        [o \in OperationIds |->
            IF o \in resumed
            THEN AppendEvent(events, o, "RECOVERY_RESUMED", "PROCESSING", "PROCESSING")[o]
            ELSE events[o]]
    /\ UNCHANGED <<operations, receipts>>
===============================================================================
