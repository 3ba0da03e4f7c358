-------------------------------- MODULE Requests --------------------------------
(***************************************************************************)
(* What the callers of the API are told: app/api/operations.py,            *)
(* app/api/receipts.py, the validation of app/api/schemas.py and the       *)
(* mapping of domain errors to codes in app/api/errors.py, over the        *)
(* transactions of module Service.                                         *)
(*                                                                         *)
(* A caller spells an id as it likes.  The validator of a creation strips  *)
(* the id; the path of a URL and the body of a receipt are taken as they   *)
(* are.  Amounts are written as decimal texts and kept in cents.           *)
(*                                                                         *)
(* The transaction of a request commits after its reply has been sent      *)
(* (app/deps.py), or fails to: until then it is "pending", and holds the   *)
(* row of its operation.                                                   *)
(*                                                                         *)
(* The replies are watched two at a time: any that tells may be kept as    *)
(* "earlier", and once its transaction has committed "later" is the one    *)
(* given last to a request sent after that, until something else happens.  *)
(***************************************************************************)
EXTENDS Service

CONSTANTS
    Spellings,      \* what callers may write for an id
    Stripped,       \* [Spellings -> OperationIds \cup {Blank}]: str.strip
    Blank,          \* the empty id
    Routable,       \* the spellings a path can carry: those without a slash
    AmountTexts,    \* what callers may write for an amount
    MaxWhole,       \* the largest integer part, 10^18 - 1 in the code
    Currencies,     \* what callers may write for a currency
    PaidBy,         \* the operation each payment is made for
    Reports         \* the receipts that are sent

ASSUME RequestsAssumption ==
    /\ OperationIds \subseteq Spellings
    /\ Stripped \in [Spellings -> OperationIds \cup {Blank}]
    /\ \A o \in OperationIds : Stripped[o] = o
    /\ Blank \notin OperationIds
    /\ Routable \subseteq Spellings
    /\ AmountTexts \subseteq [float : BOOLEAN, whole : Nat, fraction : Seq(0 .. 9)]
    /\ PaidBy \in [PaymentIds -> OperationIds]
    /\ \A p, q \in PaymentIds : PaidBy[p] = PaidBy[q] => p = q
    /\ Reports \subseteq [id : Spellings, payment : PaymentIds, result : ReceiptResult]

VARIABLES
    amounts,        \* operations.amount, in cents
    bodies,         \* event_outbox.request_body: the amount it names
    pending,        \* the replied but uncommitted request of each operation
    earlier,        \* some reply that has been given, once one is kept
    later,          \* the reply just given to a request sent after it
    past            \* the statuses of each operation that such a request can have read

rows == <<tables, amounts, bodies>>
api == <<rows, pending, earlier, later, past>>

NoAmount == [float |-> FALSE, whole |-> 0, fraction |-> <<>>]

-----------------------------------------------------------------------------
(* schemas.py *)

\* A JSON number with a fraction is refused whatever its value; a text has at
\* most two decimals and a bounded integer part.
WellFormed(text) ==
    /\ ~ text.float
    /\ text.whole <= MaxWhole
    /\ Len(text.fraction) <= 2

CentsOfDigits(fraction) ==
    IF Len(fraction) = 2 THEN 10 * fraction[1] + fraction[2]
    ELSE IF Len(fraction) = 1 THEN fraction[1] ELSE 0

Hundredths(fraction) ==
    (IF Len(fraction) > 0 THEN 10 * fraction[1] ELSE 0)
        + (IF Len(fraction) > 1 THEN fraction[2] ELSE 0)

\* Decimal(text).quantize(0.01), in cents.
Cents(text) == 100 * text.whole + Hundredths(text.fraction)

ValidAmount(text) == WellFormed(text) /\ Cents(text) > 0

\* format_amount: always two decimals.
FormatAmount(cents) ==
    [float |-> FALSE, whole |-> cents \div 100,
     fraction |-> <<(cents \div 10) % 10, cents % 10>>]

\* value.upper() = "RUB"
ValidCurrency(currency) == currency \in {"RUB", "rub", "Rub"}

Valid(id, text, currency) ==
    /\ Stripped[id] # Blank
    /\ ValidAmount(text)
    /\ ValidCurrency(currency)

-----------------------------------------------------------------------------
(* replies *)

\* A reply keeps the request it answers (of a creation only the amount that was
\* taken), its code, and of the operation in its body the id, the status and the
\* amount.  "commit" says what has become of the transaction: "done" if it has
\* committed or had written nothing, "due", or "lost"; "failed" is a 500 of a
\* request that was broken off.
Reply(route, id, code) ==
    [route |-> route, id |-> id, code |-> code, payment |-> Null, result |-> Null,
     sent |-> NoAmount, shownId |-> Null, status |-> Absent, shown |-> NoAmount,
     commit |-> "done", failed |-> FALSE]

\* OperationResponse
Showing(reply, o, status, cents) ==
    [reply EXCEPT !.shownId = o, !.status = status, !.shown = FormatAmount(cents)]

NoReply == Reply("none", Null, 0)

Now == [o \in OperationIds |-> {operations[o].status}]

\* A reply that shows an operation, or answers a receipt.
Tells(reply) == reply.shownId # Null \/ reply.route = "receipt"

Answered(reply) ==
    \/ /\ earlier = NoReply
       /\ earlier' \in {NoReply} \cup {r \in {reply} : Tells(r) /\ ~ r.failed}
       /\ past' = IF earlier' = reply /\ reply.commit = "done" THEN Now ELSE past
       /\ UNCHANGED later
    \/ /\ earlier # NoReply
       /\ later' = IF earlier.commit = "done" /\ (Tells(reply) \/ reply.code = 404)
                   THEN reply ELSE NoReply
       /\ UNCHANGED <<earlier, past>>

Exists(id) == id \in OperationIds /\ operations[id].status # Absent

Replied(reply) == UNCHANGED <<rows, pending>> /\ Answered(reply)

\* The victim of a deadlock, the last collision of an event id, a lost
\* connection: nothing remains of the request.
BrokenOff(reply) == Replied([reply EXCEPT !.code = 500, !.failed = TRUE])

-----------------------------------------------------------------------------
(* deps.get_session: the transaction that a reply leaves to be committed *)

NoRequest == [kind |-> "none", cents |-> 0, payment |-> Null, result |-> Null]

\* Nobody holds the row of the operation, or the key of the one to be created.
Free(o) == pending[o] = NoRequest

RepliedBeforeCommit(o, request, reply) ==
    /\ Free(o)
    /\ pending' = [pending EXCEPT ![o] = request]
    /\ UNCHANGED rows
    /\ Answered([reply EXCEPT !.commit = "due"])

Awaits(reply, o) == reply.commit = "due" /\ o \in {reply.id, reply.shownId}

Ended(o, fate) ==
    /\ pending' = [pending EXCEPT ![o] = NoRequest]
    /\ earlier' = IF Awaits(earlier, o) THEN [earlier EXCEPT !.commit = fate] ELSE earlier
    /\ later' = NoReply

Commit(o) ==
    /\ \/ /\ pending[o].kind = "create"
          /\ CreateOperationRequest(o)
          /\ amounts' = [amounts EXCEPT ![o] = pending[o].cents]
          /\ UNCHANGED bodies
       \/ /\ pending[o].kind = "submit"
          /\ SubmitOperation(o)
          /\ bodies' = [bodies EXCEPT ![o] = FormatAmount(amounts[o])]
          /\ UNCHANGED amounts
       \/ /\ pending[o].kind = "receipt"
          /\ ProcessReceipt(o, pending[o].payment, pending[o].result)
          /\ UNCHANGED <<amounts, bodies>>
    /\ Ended(o, "done")
    /\ past' = IF Awaits(earlier, o) THEN Now'
               ELSE [past EXCEPT ![o] = @ \cup {operations'[o].status}]

\* The caller has its reply, and nothing is stored.
CommitFails(o) ==
    /\ ~ Free(o)
    /\ Ended(o, "lost")
    /\ UNCHANGED <<rows, past>>

-----------------------------------------------------------------------------
(* POST /operations *)

\* An id that another creation is about to commit is waited for.
Create(id, text, currency) ==
    LET o == Stripped[id]
        reply(code) == Reply("create", id, code)
    IN
    \/ ~ Valid(id, text, currency) /\ Replied(reply(422))
    \/ Valid(id, text, currency) /\ Exists(o) /\ Replied(reply(409))
    \/ /\ Valid(id, text, currency)
       /\ operations[o].status = Absent
       /\ RepliedBeforeCommit(o, [NoRequest EXCEPT !.kind = "create", !.cents = Cents(text)],
            [Showing(reply(201), o, "CREATED", Cents(text)) EXCEPT !.sent = text])
    \/ Valid(id, text, currency) /\ BrokenOff(reply(500))

\* No route matches a path with a slash in the id.
Found(id) == id \in Routable /\ Exists(id)

(* POST /operations/{id}/submit *)

\* The body that the provider will get is written here, once.
SubmitWins(id) ==
    /\ Found(id)
    /\ CanBeginProcessing(operations, id)
    /\ RepliedBeforeCommit(id, [NoRequest EXCEPT !.kind = "submit"],
        Showing(Reply("submit", id, 202), id, "PROCESSING", amounts[id]))

\* The reply is the copy that was read before the UPDATE found the operation
\* changed.  (Where the ORM applies the UPDATE to a copy in CREATED, it shows
\* PROCESSING: a status the operation has had in between as well.)
SubmitLoses(id) ==
    /\ Found(id) /\ Free(id)
    /\ ~ CanBeginProcessing(operations, id)
    /\ \E status \in past[id] \ {Absent} :
        Replied(Showing(Reply("submit", id, 200), id, status, amounts[id]))

Submit(id) ==
    \/ ~ Found(id) /\ Replied(Reply("submit", id, 404))
    \/ SubmitWins(id)
    \/ SubmitLoses(id)
    \/ BrokenOff(Reply("submit", id, 500))

(* GET /operations/{id} *)

Read(id) ==
    \/ ~ Found(id) /\ Replied(Reply("read", id, 404))
    \/ /\ Found(id)
       /\ Replied(Showing(Reply("read", id, 200), id, operations[id].status, amounts[id]))
    \/ BrokenOff(Reply("read", id, 500))

(* POST /receipts *)

\* The provider reports a payment once the operation has been submitted; others
\* post what they like.
Sendable(report) ==
    report.id = PaidBy[report.payment] => outbox[report.id].state # Absent

ReceiptReply(id, p, result, code) ==
    [Reply("receipt", id, code) EXCEPT !.payment = p, !.result = result]

Links(o) == CanApply(operations[o]) /\ operations[o].payment = Null

\* A link that its unique constraint refuses is an error of the database.
LinkRefused(o, p) == Links(o) /\ PaymentTaken(operations, o, p)

\* The constraint makes a link wait for an uncommitted link of the payment.
LinkWaits(o, p) ==
    /\ Links(o)
    /\ \E x \in OperationIds \ {o} :
        pending[x].kind = "receipt" /\ pending[x].payment = p /\ Links(x)

NotLinkedTo(o, p) == operations[o].payment # p

Mismatched(o, p) == operations[o].payment \notin {Null, p}

Receive(id, p, result) ==
    LET reply(code) == ReceiptReply(id, p, result, code) IN
    \/ ~ Exists(id) /\ Replied(reply(404))
    \/ Exists(id) /\ Free(id) /\ Mismatched(id, p) /\ Replied(reply(409))
    \/ /\ Exists(id) /\ Free(id)
       /\ Admissible(id, p, result) /\ LinkRefused(id, p)
       /\ Replied(reply(500))
    \/ /\ Exists(id)
       /\ Admissible(id, p, result) /\ ~ LinkRefused(id, p) /\ ~ LinkWaits(id, p)
       /\ RepliedBeforeCommit(id,
            [NoRequest EXCEPT !.kind = "receipt", !.payment = p, !.result = result], reply(204))
    \/ /\ Exists(id) /\ Free(id)
       /\ ~ Mismatched(id, p) /\ AlreadyRecorded(receipts, id, p, result)
       /\ Replied(reply(204))
    \/ BrokenOff(reply(500))

(* the dispatcher *)

\* The provider's answer is recorded, once here: a repetition shows nothing
\* new to the callers.
Accepted(o, p) ==
    /\ PaidBy[p] = o
    /\ outbox[o].state # Absent
    /\ \A k \in 1 .. Len(events[o]) : events[o][k].type # "PROVIDER_ACCEPTED"
    /\ Free(o) /\ ~ LinkWaits(o, p)
    /\ RecordAcceptance(o, p)
    /\ later' = NoReply
    /\ UNCHANGED <<amounts, bodies, pending, earlier, past>>

-----------------------------------------------------------------------------
Init ==
    /\ TablesInit
    /\ amounts = [o \in OperationIds |-> 0]
    /\ bodies = [o \in OperationIds |-> NoAmount]
    /\ pending = [o \in OperationIds |-> NoRequest]
    /\ earlier = NoReply /\ later = NoReply
    /\ past = Now

Next ==
    \/ \E id \in Spellings :
        \/ \E text \in AmountTexts, currency \in Currencies : Create(id, text, currency)
        \/ Submit(id)
        \/ Read(id)
    \/ \E report \in Reports :
        /\ Sendable(report)
        /\ Receive(report.id, report.payment, report.result)
    \/ \E o \in OperationIds : Commit(o) \/ CommitFails(o)
    \/ \E o \in OperationIds, p \in PaymentIds : Accepted(o, p)

Spec == Init /\ [][Next]_api

-----------------------------------------------------------------------------
DigitAt(fraction, k) == IF k <= Len(fraction) THEN fraction[k] ELSE 0

\* What an amount text denotes, in thousandths: the reference for Cents and
\* FormatAmount.
Denotes(text) ==
    1000 * text.whole + 100 * DigitAt(text.fraction, 1)
        + 10 * DigitAt(text.fraction, 2) + DigitAt(text.fraction, 3)

\* The amount of a creation that was accepted is shown as it was written; once
\* the creation has committed, it is the amount every later reply shows and the
\* amount the provider is asked for, to the cent (schemas.py, "Сумма принимается
\* и отдаётся строкой"; operation_service.build_provider_request_body).
AmountIsKept ==
    earlier.code = 201 =>
        LET o == earlier.shownId IN
        /\ Denotes(earlier.shown) = Denotes(earlier.sent)
        /\ earlier.commit = "done" =>
            /\ later.shownId = o => Denotes(later.shown) = Denotes(earlier.sent)
            /\ bodies[o] # NoAmount => Denotes(bodies[o]) = Denotes(earlier.sent)

Rank(status) ==
    CASE status = Absent -> 0 [] status = "CREATED" -> 1 [] status = "PROCESSING" -> 2 [] OTHER -> 3

\* A caller that has been shown an operation, by a reply whose transaction has
\* committed, never gets a 404 for its id again except from a path that cannot
\* carry it, never sees it step back or change a final status, not even in the
\* stale copy a losing submit returns, and nobody who asks after it is told 201,
\* or 202 a second time, whatever requests, failures, receipts and answers come in
\* between.
ClientsSeeProgress ==
    (/\ earlier.commit = "done"
     /\ earlier.shownId # Null /\ earlier.shownId \in {later.id, later.shownId})
        => /\ later.code # 201
           /\ later.code = 404 => later.route # "receipt" /\ later.id \notin Routable
           /\ later.code = 202 => earlier.status = "CREATED"
           /\ later.shownId # Null =>
                \/ Rank(later.status) > Rank(earlier.status)
                \/ later.status = earlier.status

Genuine(reply) == reply.route = "receipt" /\ PaidBy[reply.payment] = reply.id

\* Whether a receipt for a payment that is not the operation's own has decided it.
MisledBy(o, p) ==
    PaidBy[p] # o /\ \E r \in receipts : r.op = o /\ r.applied /\ r.payment = p

\* A receipt the provider sends for its payment, early, late or again, is never
\* told 404.  It is told 409 only where somebody else's receipt has linked the
\* operation to a payment that is not its own, and is refused its link only where
\* somebody else's has linked the payment to another operation; every other 500
\* is a request that was broken off.  A 204 is a receipt that is recorded, unless
\* its commit is still due or was lost (README, "Квитанция отвечает 204 во всех
\* штатных случаях").
GenuineReceiptIsTaken ==
    \A reply \in {earlier, later} :
        Genuine(reply) =>
            /\ reply.code # 404
            /\ reply.code = 409 => \E p \in PaymentIds : MisledBy(reply.id, p)
            /\ reply.code = 500 /\ ~ reply.failed =>
                \E o \in OperationIds : MisledBy(o, reply.payment)
            /\ reply.code = 204 /\ reply.commit = "done" =>
                AlreadyRecorded(receipts, reply.id, reply.payment, reply.result)

\* A receipt that was refused because of its payment is refused for ever, unless
\* it is broken off: the link that refused it does not change.
MismatchIsFinal ==
    (/\ earlier.route = "receipt" /\ earlier.code = 409
     /\ later.route = "receipt"
     /\ later.id = earlier.id /\ later.payment = earlier.payment)
        => later.code = 409 \/ later.failed
===============================================================================
