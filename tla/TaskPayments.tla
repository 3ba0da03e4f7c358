----------------------------- MODULE TaskPayments -----------------------------
(***************************************************************************)
(* The whole system: the processes of the service over their database, the *)
(* clients that create and submit operations, the provider, and whoever    *)
(* posts receipts.                                                         *)
(*                                                                         *)
(* A transaction of the service is one step.  That transactions of one     *)
(* operation do not interleave is what the row locks of PostgreSQL give;   *)
(* everything that happens between two transactions is a step of its own.  *)
(***************************************************************************)
EXTENDS Dispatcher

CONSTANTS
    StrayReceipts   \* receipts that may arrive without a payment behind them

ASSUME StrayReceiptsAssumption ==
    StrayReceipts \subseteq [op : OperationIds, payment : PaymentIds, result : ReceiptResult]

vars == <<tables, provider, process, disruptions>>

Init ==
    /\ TablesInit
    /\ ProviderInit
    /\ ProcessInit

-----------------------------------------------------------------------------
(* requests: a process serves them between its start and its stop *)

ClientCreates(o) ==
    /\ Serving
    /\ CreateOperationRequest(o)
    /\ UNCHANGED <<provider, process, disruptions>>

ClientSubmits(o) ==
    /\ Serving
    /\ SubmitOperation(o)
    /\ UNCHANGED <<provider, process, disruptions>>

\* The provider reports the outcome of a payment it has made: as often as it
\* likes, early or late, and not necessarily the same outcome every time.
ProviderReports(o) ==
    /\ Serving
    /\ \E p \in PaymentsOf(o), result \in ReceiptResult : ProcessReceipt(o, p.id, result)
    /\ UNCHANGED <<provider, process, disruptions>>

\* A well-formed receipt that no payment of this operation stands behind.
StrayReceipt(o) ==
    /\ Serving
    /\ \E r \in StrayReceipts : r.op = o /\ ProcessReceipt(o, r.payment, r.result)
    /\ UNCHANGED <<provider, process, disruptions>>

\* A request arrives at the provider.
ProviderCreates(id) ==
    /\ \E request \in requests : CreatePayment(request, id)
    /\ UNCHANGED <<tables, process, disruptions>>

-----------------------------------------------------------------------------

Answer(i, o) == CallAccepted(i, o) \/ CallUnavailable(i, o) \/ CallRejected(i, o)

Record(i, o) == OnAccepted(i, o) \/ OnFailure(i, o)

Deliver(i) ==
    \/ \E rows \in SUBSET OperationIds : Claim(i, rows) \/ ClaimLost(i, rows)
    \/ EmptyPoll(i)
    \/ \E o \in OperationIds :
        \/ StartCall(i, o)
        \/ Answer(i, o)
        \/ Record(i, o)
        \/ ResultNotRecorded(i, o)

Live(i) ==
    \/ Boot(i) \/ Recover(i) \/ RecoveryGivesUp(i)
    \/ RequestStop(i) \/ GraceExpires(i) \/ ReleaseClaimed(i) \/ ReleaseFailed(i)
    \/ Crash(i)

Environment ==
    \/ \E o \in OperationIds :
        \/ ClientCreates(o) \/ ClientSubmits(o)
        \/ ProviderReports(o) \/ StrayReceipt(o)
        \/ BackoffElapses(o) \/ LeaseExpires(o) \/ LeaseOverrun(o)
    \/ \E id \in PaymentIds : ProviderCreates(id)

Next ==
    \/ \E i \in Instances : Deliver(i) \/ Live(i)
    \/ Environment

Spec == Init /\ [][Next]_vars

-----------------------------------------------------------------------------
(* Fairness.  The event loop runs every task that can run: a poll, a queued *)
(* item, a recording, a start, a stop.  A call ends, because httpx has a    *)
(* timeout; compose restarts a process that died; clocks advance.  The one  *)
(* assumption about the outside is that a provider that has made a payment  *)
(* goes on reporting it until the report is taken.  Nothing is assumed of   *)
(* clients, of the arrival of requests at the provider, or of faults.       *)

ProcessFairness(i) ==
    /\ WF_vars(\E rows \in SUBSET OperationIds : Claim(i, rows))
    /\ WF_vars(\E o \in OperationIds : StartCall(i, o))
    /\ \A o \in OperationIds : WF_vars(Answer(i, o)) /\ WF_vars(Record(i, o))
    /\ WF_vars(Boot(i)) /\ WF_vars(Recover(i))
    /\ WF_vars(GraceExpires(i)) /\ WF_vars(ReleaseClaimed(i))

Fairness ==
    /\ \A i \in Instances : ProcessFairness(i)
    /\ \A o \in OperationIds :
        WF_vars(BackoffElapses(o)) /\ WF_vars(LeaseExpires(o)) /\ WF_vars(ProviderReports(o))

FairSpec == Spec /\ Fairness

-----------------------------------------------------------------------------
(* Safety *)

\* Every table, the provider's state and the memory of the processes have the
\* types of app/domain/models.py and of ClaimedWork.
TypeOK == TablesTypeOK /\ ProviderTypeOK /\ ProcessTypeOK

\* The main invariant of README.md: however often the intent is retried,
\* released, reclaimed or delivered twice at a time, the provider makes at most
\* one payment for an operation.
OnePaymentPerOperation ==
    \A p, q \in payments : p.op = q.op => p = q

\* The other half of it: an operation is final exactly when one receipt has
\* been applied to it, and it has the result and the payment of that receipt.
AppliedReceiptDecides ==
    \A o \in OperationIds :
        LET applied == {r \in receipts : r.op = o /\ r.applied} IN
        /\ operations[o].status \in TerminalStatuses <=> applied # {}
        /\ \A r \in applied :
            /\ operations[o].status = ResultToStatus(r.result)
            /\ operations[o].payment = r.payment
            /\ applied = {r}

\* A receipt closes the intent, and no failure, release, recovery or expired
\* lease that comes later reopens it (intents.reschedule explains why).
TerminalClosesIntent ==
    \A o \in OperationIds :
        operations[o].status \in TerminalStatuses => outbox[o].state = "DONE"

\* An intent is closed only when its outcome at the provider is known: the
\* operation is linked to a payment the provider has made for it.
DoneMeansCharged ==
    \A o \in OperationIds :
        outbox[o].state = "DONE" =>
            \E p \in PaymentsOf(o) : p.id = operations[o].payment

\* An answer that is about to be recorded names the payment the operation is
\* linked to, if a receipt has linked it already: payment_id_mismatch is never
\* logged when the provider keeps its contract.
NoPaymentMismatch ==
    \A i \in Instances, o \in OperationIds :
        work[i][o].phase = "accepted" =>
            operations[o].payment \in {Null, work[i][o].payment}

\* Every intent in flight has a lease, so that it comes back to the queue
\* whatever happens to the process that claimed it; no other intent has one.
InFlightIffLeased ==
    \A o \in OperationIds : outbox[o].state = "IN_FLIGHT" <=> outbox[o].lease # "null"

\* The places in the history of an operation at which its status changes.
Moves(o) == {k \in 1 .. Len(events[o]) : events[o][k].from # events[o][k].to}

\* The history is the story of the status: the first move is from nothing, each
\* later one starts where the one before it has led, none leads to a status that
\* was entered before, and the last leads to the present one.
HistoryTellsStatus ==
    \A o \in OperationIds :
        /\ Moves(o) = {} <=> operations[o].status = Absent
        /\ \A k \in Moves(o) :
            /\ (\A j \in Moves(o) : k <= j) => events[o][k].from = Null
            /\ (\A j \in Moves(o) : j <= k) => events[o][k].to = operations[o].status
            /\ \A j \in Moves(o) : j < k =>
                /\ events[o][j].to # events[o][k].to
                /\ \/ events[o][k].from = events[o][j].to
                   \/ \E i \in Moves(o) : j < i /\ i < k

\* With one process, an intent is given up for want of an answer only after
\* MaxAttempts attempts since it was last put into the queue by a start.
GivenUpOnlyWhenExhausted ==
    \A o \in OperationIds :
        outbox[o].state = "FAILED" /\ outbox[o].error = "unavailable" =>
            outbox[o].attempts >= MaxAttempts

\* With one process, an operation is accepted by the provider once in its
\* history: no restart, release or lost acknowledgement makes the dispatcher
\* deliver again what it has recorded as delivered.
AcceptedOnce ==
    \A o \in OperationIds :
        \A j, k \in 1 .. Len(events[o]) :
            events[o][j].type = "PROVIDER_ACCEPTED" /\ events[o][k].type = "PROVIDER_ACCEPTED"
                => j = k

\* What OnePaymentPerOperation rests on: the key stored with an intent is the
\* only key ever sent for its operation, and the provider keeps one payment for
\* a key.
OneKeyPerOperation ==
    /\ \A o \in OperationIds : outbox[o].state # Absent => outbox[o].key = o
    /\ \A i \in Instances, o \in OperationIds :
        work[i][o].phase # "none" => work[i][o].key = o
    /\ \A r \in requests : r.key = r.op
    /\ \A p \in payments : p.key = p.op
    /\ \A p, q \in payments : p.key = q.key => p = q

\* An intent exists from the submit on; what a process is delivering is such an
\* intent, and an answer it holds names a payment made for that operation.
WorkIsGenuine ==
    /\ \A o \in OperationIds :
        outbox[o].state = Absent <=> operations[o].status \in {Absent, "CREATED"}
    /\ \A i \in Instances, o \in OperationIds :
        /\ work[i][o].phase # "none" => outbox[o].state # Absent
        /\ work[i][o].phase = "accepted" =>
            \E p \in PaymentsOf(o) : p.id = work[i][o].payment

\* The two together, which is what the proofs carry along.
DeliveryInv == OneKeyPerOperation /\ WorkIsGenuine

-----------------------------------------------------------------------------
(* Action properties *)

\* A final status and a closed intent are for ever, and a link, once made, is
\* never made again: no late 202, failure, receipt or recovery undoes them.
NothingIsUndone ==
    [][\A o \in OperationIds :
        /\ operations[o].status \in TerminalStatuses =>
            operations'[o].status = operations[o].status
        /\ operations[o].payment # Null =>
            operations'[o].payment = operations[o].payment
        /\ outbox[o].state = "DONE" => outbox'[o].state = "DONE"]_vars

\* With one process, an intent that a live batch is delivering leaves the
\* IN_FLIGHT state only by the recording of that delivery or by a receipt: it
\* is not claimed again under the delivery, nor put back into the queue.
DeliveryKeepsItsClaim ==
    [][\A i \in Instances, o \in OperationIds :
        work[i][o].phase # "none" /\ work'[i][o].phase # "none" =>
            /\ outbox'[o].attempts = outbox[o].attempts
            /\ outbox'[o].state \in {outbox[o].state, "DONE"}]_vars

-----------------------------------------------------------------------------
(* What the system implements *)

\* The payment the provider has made for an operation.
ChargeOf(o) ==
    IF PaymentsOf(o) = {} THEN Null ELSE (CHOOSE p \in PaymentsOf(o) : TRUE).id

\* The variables of PaymentPromise in terms of the tables and the provider.
StageMap == [o \in OperationIds |-> operations[o].status]
ChargeMap == [o \in OperationIds |-> ChargeOf(o)]
LinkMap == [o \in OperationIds |-> operations[o].payment]

Promise == INSTANCE PaymentPromise WITH
    stage <- StageMap, charge <- ChargeMap, link <- LinkMap

\* Outbox, dispatcher, retries and faults together do no more than
\* PaymentPromise allows: charge an operation being processed, once, and settle
\* it by a report of that charge.
KeepsPromise == Promise!Spec

-----------------------------------------------------------------------------
(* Liveness, under FairSpec *)

\* Every intent is eventually delivered or given up, whatever faults interrupt
\* its delivery.
DeliveryConcludes ==
    \A o \in OperationIds :
        outbox[o].state \in {"PENDING", "IN_FLIGHT"} ~> outbox[o].state \in {"DONE", "FAILED"}

\* A submitted operation becomes final unless its delivery was given up: no
\* early, repeated or conflicting report is lost in a way that leaves it
\* PROCESSING with its payment made.
OperationSettles ==
    \A o \in OperationIds :
        operations[o].status = "PROCESSING" ~>
            \/ operations[o].status \in TerminalStatuses
            \/ outbox[o].state = "FAILED"

=============================================================================
