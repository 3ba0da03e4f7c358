----------------------------- MODULE Repositories -----------------------------
(***************************************************************************)
(* The functions of app/repositories, one operator for each statement that *)
(* writes.  A repository function never commits: it is given the table as  *)
(* the transaction sees it and returns the table the transaction goes on   *)
(* with, so that a service composes the statements of one transaction.     *)
(*                                                                         *)
(* Every UPDATE carries its precondition in its WHERE clause; here it is   *)
(* the condition under which the row differs in the result.                *)
(***************************************************************************)
EXTENDS Domain

-----------------------------------------------------------------------------
(* operations *)

CreateOperation(ops, o) ==
    [ops EXCEPT ![o] = [status |-> "CREATED", payment |-> Null]]

CanBeginUnlessFinal(ops, o) == ops[o].status \in {"CREATED", "PROCESSING"}

\* The compare-and-set of a submit.
CanBeginProcessing(ops, o) == ops[o].status = "CREATED"

TryBeginProcessing(ops, o) ==
    IF CanBeginProcessing(ops, o)
    THEN [ops EXCEPT ![o].status = "PROCESSING"]
    ELSE ops

\* uq_operations_provider_payment_id: a second operation linked to the same
\* payment is an IntegrityError, and the whole transaction is rolled back.
PaymentTaken(ops, o, p) == \E other \in OperationIds \ {o} : ops[other].payment = p

LinkRelinks(ops, o, p) == [ops EXCEPT ![o].payment = p]

LinkRevertsStatus(ops, o, p) ==
    IF ops[o].payment = Null
    THEN [ops EXCEPT ![o] = [status |-> "PROCESSING", payment |-> p]]
    ELSE [ops EXCEPT ![o].status = "PROCESSING"]

LinkProviderPayment(ops, o, p) ==
    IF ops[o].payment = Null THEN [ops EXCEPT ![o].payment = p] ELSE ops

TryFinalize(ops, o, s) ==
    IF ops[o].status = "PROCESSING" THEN [ops EXCEPT ![o].status = s] ELSE ops

-----------------------------------------------------------------------------
(* event_outbox *)

\* INSERT ... ON CONFLICT DO NOTHING.  next_attempt_at is now(), so the intent
\* is due at once.
CreateIntent(ob, o, idempotencyKey) ==
    IF ob[o].state = Absent
    THEN [ob EXCEPT ![o] = [NoIntent EXCEPT !.state = "PENDING", !.key = idempotencyKey]]
    ELSE ob

DueOnlyPending(ob) ==
    {o \in OperationIds : ob[o].state = "PENDING" /\ ob[o].due}

\* The rows the claiming query selects from: backoff over, or lease expired.
Due(ob) ==
    {o \in OperationIds :
        \/ ob[o].state = "PENDING" /\ ob[o].due
        \/ ob[o].state = "IN_FLIGHT" /\ ob[o].lease = "expired"}

ClaimWithoutLease(ob, rows) ==
    [o \in OperationIds |->
        IF o \in rows
        THEN [ob[o] EXCEPT !.state = "IN_FLIGHT", !.attempts = @ + 1]
        ELSE ob[o]]

\* The UPDATE around that query, for the rows it locked.
ClaimDue(ob, rows) ==
    [o \in OperationIds |->
        IF o \in rows
        THEN [ob[o] EXCEPT !.state = "IN_FLIGHT", !.attempts = @ + 1, !.lease = "held"]
        ELSE ob[o]]

\* No precondition: whatever state the intent is in, it is closed.
MarkDone(ob, o) ==
    [ob EXCEPT ![o] =
        [@ EXCEPT !.state = "DONE", !.lease = "null", !.error = "none"]]

RescheduleAnything(ob, o, class) ==
    [ob EXCEPT ![o] =
        [@ EXCEPT !.state = "PENDING", !.due = FALSE, !.lease = "null", !.error = class]]

Reschedule(ob, o, class) ==
    IF ob[o].state = "IN_FLIGHT"
    THEN [ob EXCEPT ![o] =
            [@ EXCEPT !.state = "PENDING", !.due = FALSE, !.lease = "null",
                      !.error = class]]
    ELSE ob

MarkFailedCloses(ob, o, class) ==
    IF ob[o].state = "IN_FLIGHT"
    THEN [ob EXCEPT ![o] =
            [@ EXCEPT !.state = "DONE", !.lease = "null", !.error = class]]
    ELSE ob

MarkFailed(ob, o, class) ==
    IF ob[o].state = "IN_FLIGHT"
    THEN [ob EXCEPT ![o] =
            [@ EXCEPT !.state = "FAILED", !.lease = "null", !.error = class]]
    ELSE ob

\* A row released from IN_FLIGHT keeps its attempts and is due at once.
Released(row) ==
    IF row.state = "IN_FLIGHT"
    THEN [row EXCEPT !.state = "PENDING", !.lease = "null"]
    ELSE row

ReleaseAnything(ob, rows) ==
    [o \in OperationIds |->
        IF o \in rows THEN [ob[o] EXCEPT !.state = "PENDING", !.lease = "null"] ELSE ob[o]]

ReleaseForRetry(ob, rows) ==
    [o \in OperationIds |-> IF o \in rows THEN Released(ob[o]) ELSE ob[o]]

ReleaseAllInFlight(ob) == [o \in OperationIds |-> Released(ob[o])]

ReviveClosed(ob, ops) ==
    [o \in OperationIds |->
        IF ob[o].state \in {"FAILED", "DONE"} /\ ops[o].status = "PROCESSING"
        THEN [ob[o] EXCEPT !.state = "PENDING", !.attempts = 0, !.lease = "null"]
        ELSE ob[o]]

ReviveFailed(ob, ops) ==
    [o \in OperationIds |->
        IF ob[o].state = "FAILED" /\ ops[o].status = "PROCESSING"
        THEN [ob[o] EXCEPT !.state = "PENDING", !.attempts = 0, !.lease = "null"]
        ELSE ob[o]]

ListResumable(ob, ops) ==
    {o \in OperationIds : ob[o].state = "PENDING" /\ ops[o].status = "PROCESSING"}

-----------------------------------------------------------------------------
(* events *)

\* The event gets the next event_id of its operation.
AppendEvent(ev, o, type, from, to) ==
    [ev EXCEPT ![o] = Append(@, [type |-> type, from |-> from, to |-> to])]

-----------------------------------------------------------------------------
(* receipts *)

\* uq_receipts_operation_payment_result: the row a second identical receipt
\* conflicts with.
AlreadyRecorded(rs, o, p, result) ==
    \E r \in rs : r.op = o /\ r.payment = p /\ r.result = result

RecordReceipt(rs, o, p, result, applied, reason) ==
    rs \cup {[op |-> o, payment |-> p, result |-> result,
              applied |-> applied, reason |-> reason]}
===============================================================================
