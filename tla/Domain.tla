------------------------------- MODULE Domain -------------------------------
(***************************************************************************)
(* The vocabulary of the payment service: the enumerations of              *)
(* app/domain/enums.py and the rows of the four tables of                  *)
(* app/domain/models.py.  A table with one row per operation is a function *)
(* from operation ids to rows; the status or state Absent stands for a row *)
(* that has not been inserted.                                             *)
(*                                                                         *)
(* Amounts, currencies, descriptions, messages and timestamps never        *)
(* influence a state change and are left out.  The two timestamps that do, *)
(* next_attempt_at and lease_expires_at, are kept as what the code         *)
(* compares them for: whether they have passed.                            *)
(***************************************************************************)
EXTENDS Naturals, Sequences

CONSTANTS
    OperationIds,   \* operation ids clients may use
    PaymentIds,     \* ids the provider may give to payments
    Null            \* SQL NULL

Absent == "ABSENT"

OperationStatus == {"CREATED", "PROCESSING", "COMPLETED", "REJECTED"}

ASSUME NullAssumption ==
    Null \notin PaymentIds /\ Null \notin OperationIds /\ Null \notin OperationStatus

TerminalStatuses == {"COMPLETED", "REJECTED"}

ReceiptResult == {"COMPLETED", "REJECTED"}

IntentState == {"PENDING", "IN_FLIGHT", "DONE", "FAILED"}

EventType ==
    {"CREATED", "SUBMIT_REQUESTED", "PROVIDER_ATTEMPT_FAILED",
     "PROVIDER_ACCEPTED", "RECOVERY_RESUMED", "COMPLETED", "REJECTED",
     "RECEIPT_CONFLICT_IGNORED"}

ResultToUnknown(result) == IF result = "COMPLETED" THEN "DONE" ELSE result

\* RECEIPT_RESULT_TO_STATUS and STATUS_TO_EVENT_TYPE are both the identity on
\* the names: a COMPLETED receipt gives a COMPLETED operation and event.
ResultToStatus(result) == result
StatusToEventType(status) == status

\* One row of "operations": its status and the provider's payment it is
\* linked to, if any.
Operation ==
    [status : OperationStatus \cup {Absent},
     payment : PaymentIds \cup {Null}]

\* One row of "event_outbox".  "due" is next_attempt_at <= now; "lease" is
\* lease_expires_at: NULL, in the future, or in the past.  last_error is kept
\* as the class of the error that was recorded.
LeaseState == {"null", "held", "expired"}
ErrorClass == {"none", "unavailable", "rejected"}

SubmitIntent ==
    [state : IntentState \cup {Absent},
     key : OperationIds \cup {Null},
     attempts : Nat,
     due : BOOLEAN,
     lease : LeaseState,
     error : ErrorClass]

\* One row of "events"; its event_id is its place in the operation's history.
Event ==
    [type : EventType,
     from : OperationStatus \cup {Null},
     to : OperationStatus]

\* One row of "receipts".  ignore_reason is determined by "applied" and by
\* the status the operation had, so it is kept to tell the two reasons apart.
IgnoreReason == {"none", "already_final", "not_submitted"}

Receipt ==
    [op : OperationIds,
     payment : PaymentIds,
     result : ReceiptResult,
     applied : BOOLEAN,
     reason : IgnoreReason]

\* The tables before anything has been inserted.
NoOperation == [status |-> Absent, payment |-> Null]

NoIntent ==
    [state |-> Absent, key |-> Null, attempts |-> 0, due |-> TRUE,
     lease |-> "null", error |-> "none"]
=============================================================================
