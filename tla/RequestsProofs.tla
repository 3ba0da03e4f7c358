---------------------------- MODULE RequestsProofs ----------------------------
(***************************************************************************)
(* What callers of the API are told, for any ids, spellings, amounts and   *)
(* receipts.  A reply whose transaction has committed goes on speaking     *)
(* truly of its row while the tables move on; one that was given before    *)
(* the commit speaks of what is pending.  Each request is shown to answer  *)
(* truly, and each commit to move the tables only forward.                 *)
(***************************************************************************)
EXTENDS Requests, TLAPS

-----------------------------------------------------------------------------
(* Amounts *)

\* Two decimals of the cents denote the cents.
LEMMA FormatDenotes ==
    ASSUME NEW c \in Nat
    PROVE  Denotes(FormatAmount(c)) = 10 * c
<1> DEFINE t == FormatAmount(c)
           d == c \div 10
<1>1. d \in Nat /\ c = 10 * d + (c % 10)
  OBVIOUS
<1>2. d = 10 * (d \div 10) + (d % 10) /\ d \div 10 \in Nat
  BY <1>1
<1>3. c \div 100 = d \div 10
  BY <1>1, <1>2
<1>4. t.whole = c \div 100 /\ t.fraction = <<d % 10, c % 10>>
  BY DEF FormatAmount
<1>5. DigitAt(t.fraction, 1) = d % 10 /\ DigitAt(t.fraction, 2) = c % 10 /\ DigitAt(t.fraction, 3) = 0
  BY <1>4 DEF DigitAt
<1> HIDE DEF d, t
<1>6. d % 10 \in Nat /\ c % 10 \in Nat /\ d \div 10 \in Nat
  BY <1>1
<1>7. 1000 * (d \div 10) + 100 * (d % 10) + 10 * (c % 10) = 10 * c
  <2>1. ASSUME NEW x \in Nat, NEW y \in Nat, NEW z \in Nat, NEW u \in Nat,
               c = 10 * u + z, u = 10 * x + y
        PROVE  1000 * x + 100 * y + 10 * z = 10 * c
    BY <2>1
  <2> QED BY <1>1, <1>2, <1>6, <2>1
<1> QED BY <1>3, <1>4, <1>5, <1>6, <1>7 DEF Denotes, t

\* Two decimals at most are hundredths.
LEMMA DigitsOf ==
    ASSUME NEW f \in Seq(0 .. 9), Len(f) <= 2
    PROVE  /\ DigitAt(f, 1) \in Nat /\ DigitAt(f, 2) \in Nat /\ DigitAt(f, 3) = 0
           /\ Hundredths(f) = 10 * DigitAt(f, 1) + DigitAt(f, 2)
<1>1. Len(f) \in Nat /\ \A k \in 1 .. Len(f) : f[k] \in 0 .. 9
  OBVIOUS
<1>2. Len(f) = 0 \/ Len(f) = 1 \/ Len(f) = 2
  <2>1. \A n \in Nat : n <= 2 => n = 0 \/ n = 1 \/ n = 2
    OBVIOUS
  <2> QED BY <1>1, <2>1
<1>3. CASE Len(f) = 0
  BY <1>3 DEF DigitAt, Hundredths
<1>4. CASE Len(f) = 1
  BY <1>1, <1>4 DEF DigitAt, Hundredths
<1>5. CASE Len(f) = 2
  BY <1>1, <1>5 DEF DigitAt, Hundredths
<1> QED BY <1>2, <1>3, <1>4, <1>5

\* A text that is well-formed denotes the cents that are stored for it.
LEMMA CentsDenote ==
    ASSUME NEW text \in AmountTexts, WellFormed(text)
    PROVE  Cents(text) \in Nat /\ Denotes(text) = 10 * Cents(text)
<1>1. text.whole \in Nat /\ text.fraction \in Seq(0 .. 9) /\ Len(text.fraction) <= 2
  BY RequestsAssumption DEF WellFormed
<1> DEFINE w == text.whole
           a == DigitAt(text.fraction, 1)
           b == DigitAt(text.fraction, 2)
<1>2. /\ a \in Nat /\ b \in Nat /\ DigitAt(text.fraction, 3) = 0
      /\ Hundredths(text.fraction) = 10 * a + b
  BY <1>1, DigitsOf
<1>3. Cents(text) = 100 * w + (10 * a + b)
  BY <1>2 DEF Cents
<1>4. Denotes(text) = 1000 * w + 100 * a + 10 * b + 0
  BY <1>2 DEF Denotes
<1>5. w \in Nat
  BY <1>1
<1> HIDE DEF w, a, b
<1>6. /\ 100 * w + (10 * a + b) \in Nat
      /\ 1000 * w + 100 * a + 10 * b + 0 = 10 * (100 * w + (10 * a + b))
  BY <1>2, <1>5
<1> QED BY <1>3, <1>4, <1>6

-----------------------------------------------------------------------------
(* The tables *)

\* No row is out of its type; a body is the amount of the row; a payment that
\* somebody else's receipt has linked has also decided the operation.
TableInv ==
    /\ operations \in [OperationIds -> Operation]
    /\ outbox \in [OperationIds -> SubmitIntent]
    /\ amounts \in [OperationIds -> Nat]
    /\ bodies = [o \in OperationIds |-> bodies[o]]
    /\ \A o \in OperationIds :
        /\ outbox[o].state = Absent <=> operations[o].status \in {Absent, "CREATED"}
        /\ operations[o].status = Absent => bodies[o] = NoAmount /\ operations[o].payment = Null
        /\ bodies[o] \in {NoAmount, FormatAmount(amounts[o])}
        /\ operations[o].payment # Null /\ PaidBy[operations[o].payment] # o =>
            MisledBy(o, operations[o].payment)

\* A status and one that may be seen after it.
Onwards(from, to) == from = to \/ Rank(from) < Rank(to)

\* What a step does to the rows.
Forward ==
    /\ receipts \subseteq receipts'
    /\ \A o \in OperationIds :
        /\ Onwards(operations[o].status, operations'[o].status)
        /\ operations[o].status # Absent =>
            /\ operations'[o].status # Absent
            /\ amounts'[o] = amounts[o]
        /\ operations[o].payment # Null => operations'[o].payment = operations[o].payment

\* No other operation changes its status.
OnlyRow(o) ==
    \A x \in OperationIds \ {o} : operations'[x].status = operations[x].status

\* A request that changes nothing.
LEMMA TablesUntouched ==
    ASSUME TableInv, UNCHANGED rows
    PROVE  TableInv' /\ Forward
BY DEF TableInv, Forward, Onwards, rows, tables, MisledBy

\* A creation inserts a row that is linked to nothing.
LEMMA TablesCreate ==
    ASSUME TableInv, NEW o \in OperationIds, NEW c \in Nat, CreateOperationRequest(o),
           amounts' = [amounts EXCEPT ![o] = c], UNCHANGED bodies
    PROVE  /\ TableInv' /\ Forward /\ OnlyRow(o)
           /\ operations'[o].status = "CREATED" /\ amounts'[o] = c
<1> DEFINE row == [status |-> "CREATED", payment |-> Null]
<1>1. /\ operations[o].status = Absent /\ UNCHANGED <<outbox, receipts>>
      /\ operations' = [operations EXCEPT ![o] = row]
  BY DEF CreateOperationRequest, CreateOperation
<1>2. row \in Operation /\ row.status = "CREATED" /\ row.payment = Null /\ "CREATED" # Absent
  BY DEF Operation, OperationStatus, Absent
<1> HIDE DEF row
<1>3. /\ operations' \in [OperationIds -> Operation] /\ operations'[o] = row
      /\ \A x \in OperationIds : x # o => operations'[x] = operations[x]
  BY <1>1, <1>2 DEF TableInv
<1>4. /\ amounts' \in [OperationIds -> Nat] /\ amounts'[o] = c
      /\ \A x \in OperationIds : x # o => amounts'[x] = amounts[x]
  BY DEF TableInv
<1>5. \A x, q : MisledBy(x, q) => MisledBy(x, q)'
  BY <1>1 DEF MisledBy
<1>6. TableInv'
  BY <1>1, <1>2, <1>3, <1>4, <1>5 DEF TableInv
<1>7. Rank(Absent) < Rank("CREATED")
  BY DEF Rank, Absent
<1>8. Forward /\ OnlyRow(o)
  BY <1>1, <1>2, <1>3, <1>4, <1>7 DEF TableInv, Forward, Onwards, OnlyRow
<1> QED BY <1>2, <1>3, <1>4, <1>6, <1>8

\* A submit writes the body from the amount of the row.
LEMMA TablesSubmit ==
    ASSUME TableInv, NEW o \in OperationIds, SubmitOperation(o),
           bodies' = [bodies EXCEPT ![o] = FormatAmount(amounts[o])], UNCHANGED amounts
    PROVE  /\ TableInv' /\ Forward /\ OnlyRow(o)
           /\ operations'[o].status = "PROCESSING"
<1>1. /\ operations[o].status = "CREATED" /\ UNCHANGED receipts
      /\ operations' = [operations EXCEPT ![o].status = "PROCESSING"]
      /\ outbox' = CreateIntent(outbox, o, o)
  BY DEF SubmitOperation, CanBeginProcessing, TryBeginProcessing
<1>2. /\ operations' \in [OperationIds -> Operation]
      /\ operations'[o].status = "PROCESSING" /\ operations'[o].payment = operations[o].payment
      /\ \A x \in OperationIds : x # o => operations'[x] = operations[x]
  BY <1>1 DEF TableInv, Operation, OperationStatus
<1>3. /\ outbox' \in [OperationIds -> SubmitIntent]
      /\ outbox'[o].state # Absent
      /\ \A x \in OperationIds : x # o => outbox'[x] = outbox[x]
  BY <1>1 DEF TableInv, CreateIntent, SubmitIntent, NoIntent, IntentState, LeaseState, ErrorClass, Absent
<1>4. /\ bodies' = [x \in OperationIds |-> bodies'[x]]
      /\ bodies'[o] = FormatAmount(amounts[o])
      /\ \A x \in OperationIds : x # o => bodies'[x] = bodies[x]
  BY DEF TableInv
<1>5. \A x, q : MisledBy(x, q) => MisledBy(x, q)'
  BY <1>1 DEF MisledBy
<1>6. "PROCESSING" # Absent /\ "PROCESSING" # "CREATED" /\ "CREATED" # Absent
  BY DEF Absent
<1>7. TableInv'
  BY <1>1, <1>2, <1>3, <1>4, <1>5, <1>6 DEF TableInv
<1>8. Rank("CREATED") < Rank("PROCESSING")
  BY DEF Rank, Absent
<1>9. Forward /\ OnlyRow(o)
  BY <1>1, <1>2, <1>6, <1>8 DEF Forward, Onwards, OnlyRow
<1> QED BY <1>1, <1>2, <1>7, <1>9

\* Closing an intent leaves a row, and touches no other.
LEMMA OutboxClosed ==
    ASSUME NEW ob \in [OperationIds -> SubmitIntent], NEW o \in OperationIds
    PROVE  /\ MarkDone(ob, o) \in [OperationIds -> SubmitIntent]
           /\ MarkDone(ob, o)[o].state # Absent
           /\ \A x \in OperationIds : x # o => MarkDone(ob, o)[x] = ob[x]
<1>1. MarkDone(ob, o) \in [OperationIds -> SubmitIntent]
  BY DEF MarkDone, SubmitIntent, IntentState, LeaseState, ErrorClass
<1>2. MarkDone(ob, o)[o].state = "DONE"
  BY DEF MarkDone, SubmitIntent
<1>3. \A x \in OperationIds : x # o => MarkDone(ob, o)[x] = ob[x]
  BY DEF MarkDone
<1> QED BY <1>1, <1>2, <1>3 DEF Absent

\* A receipt that is applied decides the operation, so that a link it makes is
\* one that the operation's own payment need not agree with.
LEMMA TablesReceive ==
    ASSUME TableInv, NEW o \in OperationIds, NEW p \in PaymentIds, NEW result \in ReceiptResult,
           ProcessReceipt(o, p, result), UNCHANGED <<amounts, bodies>>
    PROVE  /\ TableInv' /\ Forward /\ OnlyRow(o)
           /\ AlreadyRecorded(receipts', o, p, result)
<1>1. CASE ApplyReceipt(o, p, result)
  <2> DEFINE target == ResultToStatus(result)
             r == [op |-> o, payment |-> p, result |-> result, applied |-> TRUE, reason |-> "none"]
  <2>1. /\ operations[o].status = "PROCESSING" /\ operations[o].payment \in {Null, p}
        /\ operations' = TryFinalize(LinkProviderPayment(operations, o, p), o, target)
        /\ outbox' = MarkDone(outbox, o)
        /\ receipts' = receipts \cup {r}
    BY <1>1 DEF ApplyReceipt, CanApply, Admissible, RecordReceipt
  <2>2. target \in TerminalStatuses
    BY DEF ResultToStatus, ReceiptResult, TerminalStatuses
  <2>3. r.op = o /\ r.applied /\ r.payment = p /\ r.result = result
    OBVIOUS
  <2> HIDE DEF target, r
  <2>4. /\ operations' \in [OperationIds -> Operation]
        /\ operations'[o].status = target /\ operations'[o].payment = p
        /\ \A x \in OperationIds : x # o => operations'[x] = operations[x]
    BY <2>1, <2>2, NullAssumption
       DEF TableInv, LinkProviderPayment, TryFinalize, Operation, OperationStatus, TerminalStatuses
  <2>5. /\ outbox' \in [OperationIds -> SubmitIntent]
        /\ outbox'[o].state # Absent
        /\ \A x \in OperationIds : x # o => outbox'[x] = outbox[x]
    BY <2>1, OutboxClosed DEF TableInv
  <2>6. \A x, q : MisledBy(x, q) => MisledBy(x, q)'
    BY <2>1 DEF MisledBy
  <2>7. PaidBy[p] # o => MisledBy(o, p)'
    BY <2>1, <2>3 DEF MisledBy
  <2>8. target \notin {Absent, "CREATED"} /\ "PROCESSING" # Absent
    BY <2>2 DEF TerminalStatuses, Absent
  <2>9. TableInv'
    BY <2>1, <2>4, <2>5, <2>6, <2>7, <2>8 DEF TableInv
  <2>10. Rank("PROCESSING") < Rank(target)
    BY <2>2 DEF Rank, TerminalStatuses, Absent
  <2>11. Forward /\ OnlyRow(o)
    BY <2>1, <2>4, <2>8, <2>10 DEF Forward, Onwards, OnlyRow
  <2>12. AlreadyRecorded(receipts', o, p, result)
    BY <2>1, <2>3 DEF AlreadyRecorded
  <2> QED BY <2>9, <2>11, <2>12
<1>2. CASE IgnoreReceipt(o, p, result)
  <2>1. /\ UNCHANGED <<operations, outbox>> /\ receipts \subseteq receipts'
        /\ AlreadyRecorded(receipts', o, p, result)
    <3> DEFINE reason == IF operations[o].status \in TerminalStatuses
                         THEN "already_final" ELSE "not_submitted"
               r == [op |-> o, payment |-> p, result |-> result, applied |-> FALSE,
                     reason |-> reason]
    <3>1. UNCHANGED <<operations, outbox>> /\ receipts' = receipts \cup {r}
      BY <1>2 DEF IgnoreReceipt, RecordReceipt
    <3>2. r.op = o /\ r.payment = p /\ r.result = result
      OBVIOUS
    <3> HIDE DEF r
    <3>3. AlreadyRecorded(receipts', o, p, result)
      BY <3>1, <3>2 DEF AlreadyRecorded
    <3> QED BY <3>1, <3>3
  <2>2. \A x, q : MisledBy(x, q) => MisledBy(x, q)'
    BY <2>1 DEF MisledBy
  <2> QED BY <2>1, <2>2 DEF TableInv, Forward, Onwards, OnlyRow
<1> QED BY <1>1, <1>2 DEF ProcessReceipt

\* An answer of the provider links a payment that is the operation's own.
LEMMA TablesAccept ==
    ASSUME TableInv, NEW o \in OperationIds, NEW p \in PaymentIds, Accepted(o, p)
    PROVE  /\ TableInv' /\ Forward
           /\ \A x \in OperationIds : operations'[x].status = operations[x].status
<1>1. /\ PaidBy[p] = o /\ outbox[o].state # Absent
      /\ operations' = LinkProviderPayment(operations, o, p)
      /\ outbox' = MarkDone(outbox, o)
      /\ UNCHANGED <<receipts, amounts, bodies>>
  BY DEF Accepted, RecordAcceptance
<1>2. /\ operations' \in [OperationIds -> Operation]
      /\ \A x \in OperationIds : operations'[x].status = operations[x].status
      /\ operations'[o].payment = IF operations[o].payment = Null THEN p ELSE operations[o].payment
      /\ \A x \in OperationIds : x # o => operations'[x] = operations[x]
  BY <1>1 DEF TableInv, LinkProviderPayment, Operation
<1>3. /\ outbox' \in [OperationIds -> SubmitIntent]
      /\ outbox'[o].state # Absent
      /\ \A x \in OperationIds : x # o => outbox'[x] = outbox[x]
  BY <1>1, OutboxClosed DEF TableInv
<1>4. \A x, q : MisledBy(x, q) => MisledBy(x, q)'
  BY <1>1 DEF MisledBy
<1>5. TableInv'
  BY <1>1, <1>2, <1>3, <1>4 DEF TableInv
<1>6. Forward
  BY <1>1, <1>2 DEF Forward, Onwards
<1> QED BY <1>2, <1>5, <1>6

-----------------------------------------------------------------------------
(* The replies *)

Fields == {"route", "id", "code", "payment", "result", "sent", "shownId", "status", "shown",
           "commit", "failed"}

\* What a reply whose transaction has committed goes on saying truly.
Holds(reply) ==
    /\ reply.shownId # Null =>
        /\ reply.shownId \in OperationIds
        /\ reply.status # Absent
        /\ operations[reply.shownId].status # Absent
        /\ Onwards(reply.status, operations[reply.shownId].status)
        /\ reply.shown = FormatAmount(amounts[reply.shownId])
    /\ reply.code = 201 =>
        reply.shownId # Null /\ Denotes(reply.sent) = 10 * amounts[reply.shownId]
    /\ reply.route = "receipt" /\ reply.code = 409 =>
        /\ reply.id \in OperationIds
        /\ operations[reply.id].status # Absent
        /\ operations[reply.id].payment \notin {Null, reply.payment}

\* What a reply that waits for its commit says of the request that is pending
\* for an operation.
DueAt(reply, o) ==
    /\ reply.code \in {201, 202, 204}
    /\ o \in {reply.id, reply.shownId}
    /\ reply.id \in OperationIds => reply.id = o
    /\ reply.shownId \in {Null, o}
    /\ reply.code = 201 =>
        /\ pending[o].kind = "create" /\ reply.shownId = o /\ reply.status = "CREATED"
        /\ reply.shown = FormatAmount(pending[o].cents)
        /\ Denotes(reply.sent) = 10 * pending[o].cents
    /\ reply.code = 202 =>
        /\ pending[o].kind = "submit" /\ reply.shownId = o /\ reply.status = "PROCESSING"
        /\ operations[o].status # Absent
        /\ reply.shown = FormatAmount(amounts[o])
    /\ reply.code = 204 =>
        /\ pending[o].kind = "receipt" /\ reply.shownId = Null /\ reply.id = o
        /\ pending[o].payment = reply.payment /\ pending[o].result = reply.result

WaitsTruly(reply) == \E o \in OperationIds : DueAt(reply, o)

\* GenuineReceiptIsTaken, of one reply.
Taken(reply) ==
    Genuine(reply) =>
        /\ reply.code # 404
        /\ reply.code = 409 => \E p \in PaymentIds : MisledBy(reply.id, p)
        /\ reply.code = 500 /\ ~ reply.failed =>
            \E o \in OperationIds : MisledBy(o, reply.payment)
        /\ reply.code = 204 /\ reply.commit = "done" =>
            AlreadyRecorded(receipts, reply.id, reply.payment, reply.result)

Request ==
    [kind : {"none", "create", "submit", "receipt"}, cents : Nat,
     payment : PaymentIds \cup {Null}, result : ReceiptResult \cup {Null}]

\* A receipt that waits for its commit names a payment and a result.
PendingInv ==
    /\ pending \in [OperationIds -> Request]
    /\ \A o \in OperationIds : pending[o].kind = "receipt" =>
        pending[o].payment \in PaymentIds /\ pending[o].result \in ReceiptResult

\* A status that a copy may show is one the operation has had since the earlier
\* reply, and has moved on from.
PastInv ==
    /\ past = [o \in OperationIds |-> past[o]]
    /\ \A o \in OperationIds :
        /\ operations[o].status \in past[o]
        /\ \A s \in past[o] : Onwards(s, operations[o].status)
        /\ earlier.commit = "done" /\ earlier.shownId = o =>
            \A s \in past[o] : s # Absent /\ Onwards(earlier.status, s)

EarlierInv ==
    /\ DOMAIN earlier = Fields
    /\ earlier.commit \in {"done", "due", "lost"}
    /\ earlier.commit = "done" => Holds(earlier)
    /\ earlier.commit = "due" => WaitsTruly(earlier)
    /\ earlier.code = 201 => Denotes(earlier.shown) = Denotes(earlier.sent)
    /\ Taken(earlier)

\* The later reply agrees with the earlier one.
LaterInv ==
    /\ earlier = NoReply \/ earlier.commit # "done" => later = NoReply
    /\ ClientsSeeProgress
    /\ MismatchIsFinal
    /\ Taken(later)
    /\ earlier.shownId # Null /\ later.shownId = earlier.shownId => later.shown = earlier.shown

RequestsInv == TableInv /\ PendingInv /\ PastInv /\ EarlierInv /\ LaterInv

\* No reply yet says nothing.
LEMMA NoReplyHolds ==
    /\ DOMAIN NoReply = Fields /\ Holds(NoReply) /\ Taken(NoReply)
    /\ NoReply.shownId = Null /\ NoReply.id = Null /\ NoReply.route = "none"
    /\ NoReply.code = 0 /\ NoReply.commit = "done"
BY DEF Holds, Taken, NoReply, Reply, Genuine, Fields

\* Nor does it disagree with anything.
LEMMA NoLaterReply ==
    ASSUME later' = NoReply
    PROVE  LaterInv'
<1>1. ClientsSeeProgress' /\ MismatchIsFinal'
  BY NoReplyHolds DEF ClientsSeeProgress, MismatchIsFinal
<1>2. Taken(later)'
  BY NoReplyHolds DEF Taken, Genuine
<1>3. earlier'.shownId # Null => later'.shownId # earlier'.shownId
  BY NoReplyHolds
<1> QED BY <1>1, <1>2, <1>3 DEF LaterInv

\* Moving on is transitive.
LEMMA OnwardsGoesOn ==
    ASSUME NEW a, NEW b, NEW c, Onwards(a, b), Onwards(b, c)
    PROVE  Onwards(a, c)
<1>1. Rank(a) \in Nat /\ Rank(b) \in Nat /\ Rank(c) \in Nat
  BY DEF Rank
<1> QED BY <1>1 DEF Onwards

\* Somebody who was misled stays misled, and a receipt stays recorded.
LEMMA TakenStays ==
    ASSUME NEW reply, Taken(reply), Forward
    PROVE  Taken(reply)'
BY DEF Taken, Genuine, MisledBy, AlreadyRecorded, Forward

\* A reply that holds goes on to hold.
LEMMA HoldsStays ==
    ASSUME NEW reply, Holds(reply), Forward
    PROVE  Holds(reply)'
<1>1. ASSUME reply.shownId # Null
      PROVE  /\ reply.shownId \in OperationIds
             /\ reply.status # Absent
             /\ operations'[reply.shownId].status # Absent
             /\ Onwards(reply.status, operations'[reply.shownId].status)
             /\ amounts'[reply.shownId] = amounts[reply.shownId]
  BY <1>1, OnwardsGoesOn DEF Holds, Forward
<1>2. reply.shownId # Null => reply.shown = FormatAmount(amounts'[reply.shownId])
  BY <1>1 DEF Holds
<1>3. reply.code = 201 =>
        reply.shownId # Null /\ Denotes(reply.sent) = 10 * amounts'[reply.shownId]
  BY <1>1 DEF Holds
<1>4. reply.route = "receipt" /\ reply.code = 409 =>
        /\ reply.id \in OperationIds
        /\ operations'[reply.id].status # Absent
        /\ operations'[reply.id].payment \notin {Null, reply.payment}
  BY DEF Holds, Forward
<1> QED BY <1>1, <1>2, <1>3, <1>4 DEF Holds

\* What waits for its commit goes on waiting while its request is pending.
LEMMA DueStays ==
    ASSUME NEW reply, NEW o \in OperationIds, DueAt(reply, o), Forward, pending'[o] = pending[o]
    PROVE  WaitsTruly(reply)'
<1>1. operations[o].status # Absent =>
        operations'[o].status # Absent /\ amounts'[o] = amounts[o]
  BY DEF Forward
<1>2. DueAt(reply, o)'
  BY <1>1 DEF DueAt
<1> QED BY <1>2 DEF WaitsTruly

\* An operation goes on having had the statuses it had.
LEMMA PastStays ==
    ASSUME PastInv, Forward, NEW o \in OperationIds, NEW s \in past[o]
    PROVE  Onwards(s, operations'[o].status)
<1>1. Onwards(s, operations[o].status) /\ Onwards(operations[o].status, operations'[o].status)
  BY DEF PastInv, Forward
<1> QED BY <1>1, OnwardsGoesOn

-----------------------------------------------------------------------------
(* The requests *)

\* What a reply must say of the tables its request has found.
Speaks(reply) ==
    /\ DOMAIN reply = Fields
    /\ \/ reply.commit = "done" /\ Holds(reply) /\ reply.code \notin {201, 202}
       \/ reply.commit = "due" /\ WaitsTruly(reply)'
    /\ reply.shownId # Null =>
        /\ reply.id \in OperationIds => reply.shownId = reply.id
        /\ reply.code \notin {201, 202} => reply.status \in past[reply.shownId]
    /\ reply.code = 201 =>
        /\ reply.shownId \in OperationIds /\ operations[reply.shownId].status = Absent
        /\ Denotes(reply.shown) = Denotes(reply.sent)
    /\ reply.code = 202 =>
        /\ reply.shownId \in OperationIds /\ operations[reply.shownId].status = "CREATED"
        /\ reply.status = "PROCESSING" /\ reply.shown = FormatAmount(amounts[reply.shownId])
    /\ reply.code = 404 =>
        /\ reply.shownId = Null
        /\ ~ Exists(reply.id) \/ (reply.route # "receipt" /\ reply.id \notin Routable)
    /\ reply.route = "receipt" /\ Exists(reply.id) /\ Mismatched(reply.id, reply.payment) =>
        reply.code = 409 \/ reply.failed
    /\ Taken(reply)

\* A true reply that comes after an earlier one agrees with it.
LEMMA LaterAgrees ==
    ASSUME PastInv, EarlierInv, earlier # NoReply, earlier.commit = "done",
           NEW reply, Speaks(reply), later' = reply, earlier' = earlier, UNCHANGED rows
    PROVE  LaterInv'
<1> DEFINE o == earlier.shownId
<1>0. UNCHANGED <<operations, receipts, amounts>>
  BY DEF rows, tables
<1>1. Holds(earlier)
  BY DEF EarlierInv
<1>2. ASSUME o # Null, o \in {reply.id, reply.shownId}
      PROVE  /\ reply.code # 201
             /\ reply.code = 404 => reply.route # "receipt" /\ reply.id \notin Routable
             /\ reply.code = 202 => earlier.status = "CREATED"
             /\ reply.shownId # Null => Onwards(earlier.status, reply.status)
             /\ reply.shownId # Null => reply.shown = earlier.shown
  <2>1. /\ o \in OperationIds /\ operations[o].status # Absent /\ Exists(o)
        /\ earlier.status # Absent /\ Onwards(earlier.status, operations[o].status)
        /\ earlier.shown = FormatAmount(amounts[o])
    BY <1>1, <1>2 DEF Holds, Exists
  <2>2. reply.shownId # Null => reply.shownId = o
    BY <1>2, <2>1 DEF Speaks
  <2> HIDE DEF o
  <2>3. reply.code # 201
    BY <2>1, <2>2, NullAssumption DEF Speaks
  <2>4. reply.code = 404 => reply.route # "receipt" /\ reply.id \notin Routable
    BY <1>2, <2>1 DEF Speaks
  <2>5. ASSUME reply.code = 202
        PROVE  /\ earlier.status = "CREATED" /\ reply.status = "PROCESSING"
               /\ reply.shown = FormatAmount(amounts[o])
    <3>1. operations[o].status = "CREATED" /\ reply.shownId = o
      BY <2>2, <2>5, NullAssumption DEF Speaks
    <3>2. ~ (Rank(earlier.status) < Rank("CREATED"))
      BY <2>1 DEF Rank, Absent
    <3> QED BY <2>1, <2>5, <3>1, <3>2 DEF Onwards, Speaks
  <2>6. Rank("CREATED") < Rank("PROCESSING")
    BY DEF Rank, Absent
  <2>7. reply.shownId # Null => Onwards(earlier.status, reply.status)
    <3>1. CASE reply.code = 202
      BY <2>5, <2>6, <3>1 DEF Onwards
    <3>2. CASE reply.code # 202
      BY <2>1, <2>2, <2>3, <3>2 DEF Speaks, PastInv, o
    <3> QED BY <3>1, <3>2
  <2>8. reply.shownId # Null => reply.shown = earlier.shown
    <3>1. CASE reply.code = 202
      BY <2>1, <2>5, <3>1
    <3>2. CASE reply.code # 202 /\ reply.commit = "done"
      BY <2>1, <2>2, <3>2 DEF Speaks, Holds
    <3>3. CASE reply.code # 202 /\ reply.commit # "done"
      <4>1. PICK x \in OperationIds : DueAt(reply, x)'
        BY <3>3 DEF Speaks, WaitsTruly
      <4>2. reply.code = 204 /\ reply.shownId = Null
        BY <2>3, <3>3, <4>1 DEF DueAt
      <4> QED BY <4>2
    <3> QED BY <3>1, <3>2, <3>3
  <2> QED BY <2>3, <2>4, <2>5, <2>7, <2>8
<1>3. ClientsSeeProgress'
  BY <1>2 DEF ClientsSeeProgress, Onwards
<1>4. MismatchIsFinal'
  <2> SUFFICES ASSUME earlier.route = "receipt", earlier.code = 409,
                      reply.route = "receipt", reply.id = earlier.id,
                      reply.payment = earlier.payment
               PROVE  reply.code = 409 \/ reply.failed
    BY DEF MismatchIsFinal
  <2>1. Exists(reply.id) /\ Mismatched(reply.id, reply.payment)
    BY <1>1 DEF Holds, Exists, Mismatched
  <2> QED BY <2>1 DEF Speaks
<1>5. Taken(later)'
  BY <1>0 DEF Speaks, Taken, Genuine, MisledBy
<1>6. o # Null /\ reply.shownId = o => reply.shown = earlier.shown
  BY <1>2
<1> QED BY <1>3, <1>4, <1>5, <1>6 DEF LaterInv

\* True replies over unchanged tables keep what the callers have been told
\* consistent.
LEMMA RepliesAnswered ==
    ASSUME RequestsInv, NEW reply, Speaks(reply), Answered(reply), UNCHANGED rows,
           PendingInv', \A o \in OperationIds : pending'[o] = pending[o] \/ Free(o)
    PROVE  RequestsInv'
<1>1. TableInv' /\ Forward
  BY TablesUntouched DEF RequestsInv
<1>2. UNCHANGED <<operations, receipts, amounts>>
  BY DEF rows, tables
<1>3. WaitsTruly(earlier) => WaitsTruly(earlier)' \/ earlier' # earlier
  <2> SUFFICES ASSUME NEW o \in OperationIds, DueAt(earlier, o), earlier' = earlier
               PROVE  WaitsTruly(earlier)'
    BY DEF WaitsTruly
  <2>1. pending[o].kind # "none"
    BY DEF DueAt
  <2>2. pending'[o] = pending[o]
    BY <2>1 DEF Free, NoRequest
  <2>3. \A r : DueAt(r, o) => WaitsTruly(r)'
    BY <1>1, <2>2, DueStays
  <2>4. DueAt(earlier, o)'
    BY <1>2, <2>2 DEF DueAt
  <2> QED BY <2>4 DEF WaitsTruly
<1>4. CASE /\ earlier = NoReply
           /\ earlier' \in {NoReply} \cup {r \in {reply} : Tells(r) /\ ~ r.failed}
           /\ past' = IF earlier' = reply /\ reply.commit = "done" THEN Now ELSE past
           /\ UNCHANGED later
  <2>1. later' = NoReply
    BY <1>4 DEF RequestsInv, LaterInv
  <2>2. LaterInv'
    BY <2>1, NoLaterReply
  <2>3. EarlierInv'
    <3>1. CASE earlier' = NoReply
      BY <1>2, <3>1, NoReplyHolds DEF EarlierInv, Holds, Taken, Genuine
    <3>2. CASE earlier' = reply
      BY <1>2, <3>2 DEF EarlierInv, Speaks, Holds, Taken, Genuine, MisledBy
    <3> QED BY <1>4, <3>1, <3>2
  <2>4. PastInv'
    <3>1. CASE past' = past /\ (earlier' = NoReply \/ earlier'.commit # "done")
      <4>1. \A o \in OperationIds : ~ (earlier'.commit = "done" /\ earlier'.shownId = o)
        BY <3>1, NoReplyHolds, NullAssumption
      <4> QED BY <1>2, <3>1, <4>1 DEF RequestsInv, PastInv
    <3>2. CASE past' = Now /\ earlier' = reply /\ reply.commit = "done"
      <4>1. /\ past' = [o \in OperationIds |-> past'[o]]
            /\ \A o \in OperationIds : past'[o] = {operations'[o].status}
        BY <1>2, <3>2 DEF Now
      <4>2. Holds(reply)
        BY <3>2 DEF Speaks
      <4>3. \A o \in OperationIds : earlier'.shownId = o =>
              operations'[o].status # Absent /\ Onwards(earlier'.status, operations'[o].status)
        BY <1>2, <3>2, <4>2, NullAssumption DEF Holds
      <4> QED BY <4>1, <4>3 DEF PastInv, Onwards
    <3>3. earlier' = NoReply \/ earlier' = reply
      BY <1>4
    <3> QED BY <1>4, <3>1, <3>2, <3>3, NoReplyHolds
  <2> QED BY <1>1, <2>2, <2>3, <2>4 DEF RequestsInv
<1>5. CASE /\ earlier # NoReply
           /\ later' = IF earlier.commit = "done" /\ (Tells(reply) \/ reply.code = 404)
                       THEN reply ELSE NoReply
           /\ UNCHANGED <<earlier, past>>
  <2>1. EarlierInv'
    BY <1>2, <1>3, <1>5 DEF RequestsInv, EarlierInv, Holds, Taken, Genuine, MisledBy
  <2>2. PastInv'
    BY <1>2, <1>5 DEF RequestsInv, PastInv
  <2>3. LaterInv'
    <3>1. CASE later' = NoReply
      BY <3>1, NoLaterReply
    <3>2. CASE later' = reply /\ earlier.commit = "done"
      BY <1>5, <3>2, LaterAgrees DEF RequestsInv
    <3> QED BY <1>5, <3>1, <3>2
  <2> QED BY <1>1, <2>1, <2>2, <2>3 DEF RequestsInv
<1> QED BY <1>4, <1>5 DEF Answered

\* A reply that shows nothing says nothing.
LEMMA SilentSpeaks ==
    ASSUME NEW reply, DOMAIN reply = Fields, reply.commit = "done",
           reply.route # "receipt", reply.shownId = Null, reply.code \notin {201, 202},
           reply.code = 404 => ~ Exists(reply.id) \/ reply.id \notin Routable
    PROVE  Speaks(reply)
BY DEF Speaks, Holds, Taken, Genuine

\* A reply that shows a row, or a copy of it that it has read.
LEMMA ShownSpeaks ==
    ASSUME PastInv, NEW o \in OperationIds, operations[o].status # Absent,
           NEW reply, DOMAIN reply = Fields,
           reply.commit = "done", reply.route # "receipt", reply.code = 200,
           reply.id = o, reply.shownId = o, reply.status \in past[o], reply.status # Absent,
           reply.shown = FormatAmount(amounts[o])
    PROVE  Speaks(reply)
<1>1. Onwards(reply.status, operations[o].status)
  BY DEF PastInv
<1> QED BY <1>1 DEF Speaks, Holds, Taken, Genuine

\* A reply that leaves everything as it is.
LEMMA RepliedKeeps ==
    ASSUME RequestsInv, NEW reply, Speaks(reply), Replied(reply)
    PROVE  RequestsInv'
<1>1. UNCHANGED rows /\ UNCHANGED pending /\ Answered(reply)
  BY DEF Replied
<1>2. PendingInv'
  BY <1>1 DEF RequestsInv, PendingInv
<1> QED BY <1>1, <1>2, RepliesAnswered

\* A request that is broken off.
LEMMA BrokenOffKeeps ==
    ASSUME RequestsInv, NEW route, NEW id, NEW code,
           BrokenOff(Reply(route, id, code))
    PROVE  RequestsInv'
<1>1. PICK reply : reply = [Reply(route, id, code) EXCEPT !.code = 500, !.failed = TRUE]
  OBVIOUS
<1>2. /\ DOMAIN reply = Fields /\ reply.commit = "done"
      /\ reply.code = 500 /\ reply.failed /\ reply.shownId = Null
  BY <1>1 DEF Reply, Fields
<1>3. Speaks(reply)
  BY <1>2 DEF Speaks, Holds, Taken
<1> QED BY <1>1, <1>3, RepliedKeeps DEF BrokenOff

\* A reply that is given before the commit.
LEMMA DueKeeps ==
    ASSUME RequestsInv, NEW o \in OperationIds, NEW request \in Request,
           request.kind = "receipt" =>
               request.payment \in PaymentIds /\ request.result \in ReceiptResult,
           NEW reply, RepliedBeforeCommit(o, request, reply),
           pending'[o] = request => Speaks([reply EXCEPT !.commit = "due"])
    PROVE  RequestsInv'
<1>1. /\ Free(o) /\ pending' = [pending EXCEPT ![o] = request] /\ UNCHANGED rows
      /\ Answered([reply EXCEPT !.commit = "due"])
  BY DEF RepliedBeforeCommit
<1>2. /\ pending' \in [OperationIds -> Request] /\ pending'[o] = request
      /\ \A x \in OperationIds : x # o => pending'[x] = pending[x]
  BY <1>1 DEF RequestsInv, PendingInv
<1>3. PendingInv'
  BY <1>2 DEF RequestsInv, PendingInv
<1> QED BY <1>1, <1>2, <1>3, RepliesAnswered

\* POST /operations: 422, 409, 201 and a request that is broken off.
LEMMA CreateKeeps ==
    ASSUME RequestsInv,
           NEW id \in Spellings, NEW text \in AmountTexts, NEW currency \in Currencies,
           Create(id, text, currency)
    PROVE  RequestsInv'
<1> DEFINE o == Stripped[id]
<1>1. ASSUME NEW code \in {422, 409}, Replied(Reply("create", id, code))
      PROVE  RequestsInv'
  <2>1. PICK reply : reply = Reply("create", id, code)
    OBVIOUS
  <2>2. Speaks(reply)
    BY <2>1, SilentSpeaks DEF Fields, Reply
  <2> QED BY <1>1, <2>1, <2>2, RepliedKeeps
<1>2. ASSUME Valid(id, text, currency), operations[o].status = Absent,
             RepliedBeforeCommit(o,
                [NoRequest EXCEPT !.kind = "create", !.cents = Cents(text)],
                [Showing(Reply("create", id, 201), o, "CREATED", Cents(text)) EXCEPT !.sent = text])
      PROVE  RequestsInv'
  <2>1. o \in OperationIds /\ (id \in OperationIds => o = id)
    BY <1>2, RequestsAssumption DEF Valid
  <2>2. Cents(text) \in Nat /\ Denotes(text) = 10 * Cents(text)
    BY <1>2, CentsDenote DEF Valid, ValidAmount
  <2> HIDE DEF o
  <2>3. PICK request : request = [NoRequest EXCEPT !.kind = "create", !.cents = Cents(text)]
    OBVIOUS
  <2>4. request \in Request /\ request.kind = "create" /\ request.cents = Cents(text)
    BY <2>2, <2>3 DEF Request, NoRequest
  <2>5. PICK reply : reply =
          [Showing(Reply("create", id, 201), o, "CREATED", Cents(text)) EXCEPT !.sent = text]
    OBVIOUS
  <2>6. PICK given : given = [reply EXCEPT !.commit = "due"]
    OBVIOUS
  <2>7. /\ DOMAIN given = Fields /\ given.route = "create" /\ given.id = id /\ given.code = 201 /\ given.shownId = o
        /\ given.status = "CREATED" /\ given.shown = FormatAmount(Cents(text))
        /\ given.sent = text /\ given.commit = "due"
    BY <2>5, <2>6 DEF Showing, Reply, Fields
  <2>8. Denotes(given.shown) = Denotes(given.sent)
    BY <2>2, <2>7, FormatDenotes
  <2>9. ASSUME pending'[o] = request PROVE WaitsTruly(given)'
    <3>1. DueAt(given, o)'
      BY <2>1, <2>2, <2>4, <2>7, <2>9 DEF DueAt
    <3> QED BY <2>1, <3>1 DEF WaitsTruly
  <2>10. pending'[o] = request => Speaks(given)
    BY <1>2, <2>1, <2>7, <2>8, <2>9 DEF Speaks, Taken, Genuine
  <2> QED BY <1>2, <2>1, <2>3, <2>4, <2>5, <2>6, <2>10, DueKeeps
<1>3. CASE BrokenOff(Reply("create", id, 500))
  BY <1>3, BrokenOffKeeps
<1> QED BY <1>1, <1>2, <1>3 DEF Create

\* POST /operations/{id}/submit: 404, 202, 200 and a request that is broken off.
LEMMA SubmitKeeps ==
    ASSUME RequestsInv, NEW id \in Spellings, Submit(id)
    PROVE  RequestsInv'
<1>1. CASE ~ Found(id) /\ Replied(Reply("submit", id, 404))
  <2>1. PICK reply : reply = Reply("submit", id, 404)
    OBVIOUS
  <2>2. Speaks(reply)
    BY <1>1, <2>1, SilentSpeaks DEF Fields, Reply, Found
  <2> QED BY <1>1, <2>1, <2>2, RepliedKeeps
<1>2. CASE SubmitWins(id)
  <2>1. id \in OperationIds /\ operations[id].status = "CREATED"
    BY <1>2 DEF SubmitWins, Found, Exists, CanBeginProcessing
  <2>2. PICK request : request = [NoRequest EXCEPT !.kind = "submit"]
    OBVIOUS
  <2>3. request \in Request /\ request.kind = "submit"
    BY <2>2 DEF Request, NoRequest
  <2>4. PICK reply : reply = Showing(Reply("submit", id, 202), id, "PROCESSING", amounts[id])
    OBVIOUS
  <2>5. PICK given : given = [reply EXCEPT !.commit = "due"]
    OBVIOUS
  <2>6. /\ DOMAIN given = Fields /\ given.route = "submit" /\ given.id = id /\ given.code = 202 /\ given.shownId = id
        /\ given.status = "PROCESSING" /\ given.shown = FormatAmount(amounts[id])
        /\ given.commit = "due"
    BY <2>4, <2>5 DEF Showing, Reply, Fields
  <2>7. /\ UNCHANGED <<operations, amounts>>
        /\ RepliedBeforeCommit(id, request, reply)
    BY <1>2, <2>2, <2>4 DEF SubmitWins, RepliedBeforeCommit, rows, tables
  <2>8. ASSUME pending'[id] = request PROVE WaitsTruly(given)'
    <3>1. DueAt(given, id)'
      BY <2>1, <2>3, <2>6, <2>7, <2>8 DEF DueAt, Absent
    <3> QED BY <2>1, <3>1 DEF WaitsTruly
  <2>9. pending'[id] = request => Speaks(given)
    BY <2>1, <2>6, <2>8 DEF Speaks, Taken, Genuine
  <2> QED BY <2>1, <2>3, <2>5, <2>7, <2>9, DueKeeps
<1>3. CASE SubmitLoses(id)
  <2>1. PICK status \in past[id] \ {Absent} :
          Replied(Showing(Reply("submit", id, 200), id, status, amounts[id]))
    BY <1>3 DEF SubmitLoses
  <2>2. id \in OperationIds /\ operations[id].status # Absent
    BY <1>3 DEF SubmitLoses, Found, Exists
  <2>3. PICK reply : reply = Showing(Reply("submit", id, 200), id, status, amounts[id])
    OBVIOUS
  <2>4. Speaks(reply)
    BY <2>1, <2>2, <2>3, ShownSpeaks DEF RequestsInv, Showing, Reply, Fields
  <2> QED BY <2>1, <2>3, <2>4, RepliedKeeps
<1>4. CASE BrokenOff(Reply("submit", id, 500))
  BY <1>4, BrokenOffKeeps
<1> QED BY <1>1, <1>2, <1>3, <1>4 DEF Submit

\* GET /operations/{id}: 404, 200 and a request that is broken off.
LEMMA ReadKeeps ==
    ASSUME RequestsInv, NEW id \in Spellings, Read(id)
    PROVE  RequestsInv'
<1>1. CASE ~ Found(id) /\ Replied(Reply("read", id, 404))
  <2>1. PICK reply : reply = Reply("read", id, 404)
    OBVIOUS
  <2>2. Speaks(reply)
    BY <1>1, <2>1, SilentSpeaks DEF Fields, Reply, Found
  <2> QED BY <1>1, <2>1, <2>2, RepliedKeeps
<1>2. CASE /\ Found(id)
           /\ Replied(Showing(Reply("read", id, 200), id, operations[id].status, amounts[id]))
  <2>1. id \in OperationIds /\ operations[id].status # Absent
    BY <1>2 DEF Found, Exists
  <2>2. operations[id].status \in past[id]
    BY <2>1 DEF RequestsInv, PastInv
  <2>3. PICK reply :
          reply = Showing(Reply("read", id, 200), id, operations[id].status, amounts[id])
    OBVIOUS
  <2>4. Speaks(reply)
    BY <2>1, <2>2, <2>3, ShownSpeaks DEF RequestsInv, Showing, Reply, Fields
  <2> QED BY <1>2, <2>3, <2>4, RepliedKeeps
<1>3. CASE BrokenOff(Reply("read", id, 500))
  BY <1>3, BrokenOffKeeps
<1> QED BY <1>1, <1>2, <1>3 DEF Read

\* What a reply to a receipt must say, when nothing is left to be committed.
LEMMA ReceiptSpeaks ==
    ASSUME NEW id, NEW p, NEW result, NEW code \in {204, 404, 409, 500},
           NEW reply, reply = ReceiptReply(id, p, result, code),
           code = 404 => ~ Exists(id),
           code = 409 <=> Exists(id) /\ Mismatched(id, p),
           PaidBy[p] = id =>
               /\ code # 404
               /\ code = 409 => \E q \in PaymentIds : MisledBy(id, q)
               /\ code = 500 => \E o \in OperationIds : MisledBy(o, p)
               /\ code = 204 => AlreadyRecorded(receipts, id, p, result)
    PROVE  Speaks(reply)
<1>1. /\ DOMAIN reply = Fields
      /\ reply.route = "receipt" /\ reply.id = id /\ reply.code = code /\ reply.payment = p
      /\ reply.result = result /\ reply.shownId = Null /\ reply.commit = "done"
  BY DEF ReceiptReply, Reply, Fields
<1>2. Holds(reply)
  BY <1>1 DEF Holds, Exists, Mismatched
<1>3. Taken(reply)
  BY <1>1 DEF Taken, Genuine
<1> QED BY <1>1, <1>2, <1>3 DEF Speaks

\* POST /receipts: 404, 409, the 500 of a link that is refused, 204 for a receipt
\* that is to be recorded or is known, and a request that is broken off.
LEMMA ReceiveKeeps ==
    ASSUME RequestsInv,
           NEW id \in Spellings, NEW p \in PaymentIds, NEW result \in ReceiptResult,
           PaidBy[p] = id => outbox[id].state # Absent,
           Receive(id, p, result)
    PROVE  RequestsInv'
<1>0. PaidBy[p] \in OperationIds
  BY RequestsAssumption
<1>1. ASSUME NEW code \in {204, 404, 409, 500}, Replied(ReceiptReply(id, p, result, code)),
             code = 404 => ~ Exists(id),
             code = 409 <=> Exists(id) /\ Mismatched(id, p),
             PaidBy[p] = id =>
                 /\ code # 404
                 /\ code = 409 => \E q \in PaymentIds : MisledBy(id, q)
                 /\ code = 500 => \E o \in OperationIds : MisledBy(o, p)
                 /\ code = 204 => AlreadyRecorded(receipts, id, p, result)
      PROVE  RequestsInv'
  <2>1. PICK reply : reply = ReceiptReply(id, p, result, code)
    OBVIOUS
  <2>2. Speaks(reply)
    BY <1>1, <2>1, ReceiptSpeaks
  <2> QED BY <1>1, <2>1, <2>2, RepliedKeeps
<1>2. CASE ~ Exists(id) /\ Replied(ReceiptReply(id, p, result, 404))
  <2>1. PaidBy[p] # id
    BY <1>0, <1>2 DEF Exists, RequestsInv, TableInv
  <2> QED BY <1>1, <1>2, <2>1
<1>3. CASE Exists(id) /\ Mismatched(id, p) /\ Replied(ReceiptReply(id, p, result, 409))
  <2>1. ASSUME PaidBy[p] = id PROVE \E q \in PaymentIds : MisledBy(id, q)
    <3>1. /\ operations[id].payment \in PaymentIds \ {p}
          /\ operations[id].payment # Null
      BY <1>0, <1>3, <2>1 DEF Mismatched, RequestsInv, TableInv, Operation
    <3>2. PaidBy[operations[id].payment] # id
      BY <2>1, <3>1, RequestsAssumption
    <3> QED BY <1>0, <2>1, <3>1, <3>2 DEF RequestsInv, TableInv
  <2> QED BY <1>1, <1>3, <2>1
<1>4. CASE /\ Exists(id) /\ Admissible(id, p, result) /\ LinkRefused(id, p)
           /\ Replied(ReceiptReply(id, p, result, 500))
  <2>1. ~ Mismatched(id, p)
    BY <1>4 DEF Admissible, Mismatched
  <2>2. PICK o \in OperationIds \ {id} : operations[o].payment = p
    BY <1>4 DEF LinkRefused, PaymentTaken
  <2>3. PaidBy[p] = id => MisledBy(o, p)
    BY <2>2, NullAssumption DEF RequestsInv, TableInv
  <2> QED BY <1>1, <1>4, <2>1, <2>2, <2>3
<1>5. CASE /\ Exists(id) /\ Admissible(id, p, result)
           /\ RepliedBeforeCommit(id,
                [NoRequest EXCEPT !.kind = "receipt", !.payment = p, !.result = result],
                ReceiptReply(id, p, result, 204))
  <2>1. id \in OperationIds /\ ~ Mismatched(id, p)
    BY <1>5 DEF Exists, Admissible, Mismatched
  <2>2. PICK request :
          request = [NoRequest EXCEPT !.kind = "receipt", !.payment = p, !.result = result]
    OBVIOUS
  <2>3. /\ request \in Request
        /\ request.kind = "receipt" /\ request.payment = p /\ request.result = result
    BY <2>2 DEF Request, NoRequest
  <2>4. PICK reply : reply = ReceiptReply(id, p, result, 204)
    OBVIOUS
  <2>5. PICK given : given = [reply EXCEPT !.commit = "due"]
    OBVIOUS
  <2>6. /\ DOMAIN given = Fields /\ given.route = "receipt" /\ given.id = id /\ given.code = 204 /\ given.shownId = Null
        /\ given.payment = p /\ given.result = result /\ given.commit = "due"
    BY <2>4, <2>5 DEF ReceiptReply, Reply, Fields
  <2>7. ASSUME pending'[id] = request PROVE WaitsTruly(given)'
    <3>1. DueAt(given, id)'
      BY <2>1, <2>3, <2>6, <2>7 DEF DueAt
    <3> QED BY <2>1, <3>1 DEF WaitsTruly
  <2>8. pending'[id] = request => Speaks(given)
    BY <2>1, <2>6, <2>7 DEF Speaks, Taken
  <2> QED BY <1>5, <2>1, <2>2, <2>3, <2>4, <2>5, <2>8, DueKeeps
<1>6. CASE /\ Exists(id) /\ ~ Mismatched(id, p) /\ AlreadyRecorded(receipts, id, p, result)
           /\ Replied(ReceiptReply(id, p, result, 204))
  BY <1>1, <1>6
<1>7. CASE BrokenOff(ReceiptReply(id, p, result, 500))
  <2>1. PICK reply : reply =
          [ReceiptReply(id, p, result, 500) EXCEPT !.code = 500, !.failed = TRUE]
    OBVIOUS
  <2>2. /\ DOMAIN reply = Fields /\ reply.commit = "done"
        /\ reply.code = 500 /\ reply.failed /\ reply.shownId = Null
    BY <2>1 DEF ReceiptReply, Reply, Fields
  <2>3. Speaks(reply)
    BY <2>2 DEF Speaks, Holds, Taken
  <2> QED BY <1>7, <2>1, <2>3, RepliedKeeps DEF BrokenOff
<1> QED BY <1>2, <1>3, <1>4, <1>5, <1>6, <1>7 DEF Receive

-----------------------------------------------------------------------------
(* The commits *)

\* What has waited for the commit of a request holds once it has committed.
LEMMA CommitMoves ==
    ASSUME TableInv, PendingInv, NEW o \in OperationIds, Commit(o)
    PROVE  /\ TableInv' /\ Forward /\ OnlyRow(o)
           /\ \A reply : DueAt(reply, o) /\ reply.commit = "done" =>
                Holds(reply)' /\ Taken(reply)'
<1>1. CASE /\ pending[o].kind = "create"
           /\ CreateOperationRequest(o)
           /\ amounts' = [amounts EXCEPT ![o] = pending[o].cents]
           /\ UNCHANGED bodies
  <2>1. pending[o].cents \in Nat
    BY DEF PendingInv, Request
  <2>2. /\ TableInv' /\ Forward /\ OnlyRow(o)
        /\ operations'[o].status = "CREATED" /\ amounts'[o] = pending[o].cents
    BY <1>1, <2>1, TablesCreate
  <2>3. ASSUME NEW reply, DueAt(reply, o)
        PROVE  Holds(reply)' /\ Taken(reply)'
    <3>1. /\ reply.code = 201 /\ reply.shownId = o /\ reply.status = "CREATED"
          /\ reply.shown = FormatAmount(pending[o].cents)
          /\ Denotes(reply.sent) = 10 * pending[o].cents
      BY <1>1, <2>3 DEF DueAt
    <3> QED BY <2>2, <3>1, NullAssumption DEF Holds, Taken, Onwards, Absent
  <2> QED BY <2>2, <2>3
<1>2. CASE /\ pending[o].kind = "submit"
           /\ SubmitOperation(o)
           /\ bodies' = [bodies EXCEPT ![o] = FormatAmount(amounts[o])]
           /\ UNCHANGED amounts
  <2>1. TableInv' /\ Forward /\ OnlyRow(o) /\ operations'[o].status = "PROCESSING"
    BY <1>2, TablesSubmit
  <2>2. ASSUME NEW reply, DueAt(reply, o)
        PROVE  Holds(reply)' /\ Taken(reply)'
    <3>1. /\ reply.code = 202 /\ reply.shownId = o /\ reply.status = "PROCESSING"
          /\ reply.shown = FormatAmount(amounts'[o])
      BY <1>2, <2>2 DEF DueAt
    <3> QED BY <2>1, <3>1, NullAssumption DEF Holds, Taken, Onwards, Absent
  <2> QED BY <2>1, <2>2
<1>3. CASE /\ pending[o].kind = "receipt"
           /\ ProcessReceipt(o, pending[o].payment, pending[o].result)
           /\ UNCHANGED <<amounts, bodies>>
  <2>1. /\ TableInv' /\ Forward /\ OnlyRow(o)
        /\ AlreadyRecorded(receipts', o, pending[o].payment, pending[o].result)
    BY <1>3, TablesReceive DEF PendingInv
  <2>2. ASSUME NEW reply, DueAt(reply, o)
        PROVE  Holds(reply)' /\ Taken(reply)'
    <3>1. /\ reply.code = 204 /\ reply.shownId = Null /\ reply.id = o
          /\ pending[o].payment = reply.payment /\ pending[o].result = reply.result
      BY <1>3, <2>2 DEF DueAt
    <3> QED BY <2>1, <3>1 DEF Holds, Taken
  <2> QED BY <2>1, <2>2
<1> QED BY <1>1, <1>2, <1>3 DEF Commit

\* A reply that is not waiting for the request that has ended is as true as it was.
LEMMA OthersStay ==
    ASSUME EarlierInv, Forward, NEW o \in OperationIds, ~ Awaits(earlier, o),
           \A x \in OperationIds \ {o} : pending'[x] = pending[x], earlier' = earlier
    PROVE  EarlierInv'
<1>1. earlier.commit = "done" => Holds(earlier)'
  <2>1. \A r : Holds(r) => Holds(r)'
    BY HoldsStays
  <2> QED BY <2>1 DEF EarlierInv, Holds
<1>2. Taken(earlier)'
  <2>1. \A r : Taken(r) => Taken(r)'
    BY TakenStays
  <2> QED BY <2>1 DEF EarlierInv, Taken, Genuine
<1>3. ASSUME earlier.commit = "due" PROVE WaitsTruly(earlier)'
  <2>1. PICK x \in OperationIds : DueAt(earlier, x)
    BY <1>3 DEF EarlierInv, WaitsTruly
  <2>2. x # o
    BY <1>3, <2>1 DEF DueAt, Awaits
  <2>3. \A r : DueAt(r, x) => WaitsTruly(r)'
    BY <2>2, DueStays
  <2> QED BY <2>1, <2>3 DEF WaitsTruly, DueAt
<1> QED BY <1>1, <1>2, <1>3 DEF EarlierInv

\* The request that a waiting reply waits for is the one at its operation.
LEMMA WaitsAt ==
    ASSUME EarlierInv, NEW o \in OperationIds, Awaits(earlier, o)
    PROVE  DueAt(earlier, o)
BY NullAssumption DEF EarlierInv, WaitsTruly, DueAt, Awaits

\* A request that has ended is pending no more.
LEMMA PendingEnded ==
    ASSUME PendingInv, NEW o \in OperationIds, NEW fate, Ended(o, fate)
    PROVE  /\ PendingInv'
           /\ \A x \in OperationIds \ {o} : pending'[x] = pending[x]
<1>1. NoRequest \in Request /\ NoRequest.kind = "none"
  BY DEF NoRequest, Request
<1>2. pending' = [pending EXCEPT ![o] = NoRequest]
  BY DEF Ended
<1>3. /\ pending' \in [OperationIds -> Request] /\ pending'[o] = NoRequest
      /\ \A x \in OperationIds \ {o} : pending'[x] = pending[x]
  BY <1>1, <1>2 DEF PendingInv
<1> QED BY <1>1, <1>3 DEF PendingInv

\* A commit makes true what its reply has said, and gives its operation one more
\* status that a copy may show.
LEMMA CommitKeeps ==
    ASSUME RequestsInv, NEW o \in OperationIds, Commit(o)
    PROVE  RequestsInv'
<1>1. /\ TableInv' /\ Forward /\ OnlyRow(o)
      /\ \A reply : DueAt(reply, o) /\ reply.commit = "done" =>
           Holds(reply)' /\ Taken(reply)'
  BY CommitMoves DEF RequestsInv
<1>2. /\ Ended(o, "done")
      /\ past' = IF Awaits(earlier, o) THEN Now'
                 ELSE [past EXCEPT ![o] = @ \cup {operations'[o].status}]
  BY DEF Commit
<1>3. /\ PendingInv' /\ \A x \in OperationIds \ {o} : pending'[x] = pending[x]
      /\ later' = NoReply
      /\ earlier' = IF Awaits(earlier, o) THEN [earlier EXCEPT !.commit = "done"] ELSE earlier
  BY <1>2, PendingEnded DEF RequestsInv, Ended
<1>4. LaterInv'
  BY <1>3, NoLaterReply
<1>5. CASE Awaits(earlier, o)
  <2>1. DueAt(earlier, o)
    BY <1>5, WaitsAt DEF RequestsInv
  <2>2. PICK r : r = [earlier EXCEPT !.commit = "done"]
    OBVIOUS
  <2>3. DOMAIN earlier = Fields /\ (earlier.code = 201 => Denotes(earlier.shown) = Denotes(earlier.sent))
    BY DEF RequestsInv, EarlierInv
  <2>4. /\ DOMAIN r = Fields /\ r.commit = "done"
        /\ \A field \in Fields \ {"commit"} : r[field] = earlier[field]
    BY <2>2, <2>3 DEF Fields
  <2>5. DueAt(r, o) /\ (r.code = 201 => Denotes(r.shown) = Denotes(r.sent))
    BY <2>1, <2>3, <2>4 DEF DueAt, Fields
  <2>6. Holds(r)' /\ Taken(r)'
    BY <1>1, <2>4, <2>5
  <2>7. earlier' = r
    BY <1>3, <1>5, <2>2
  <2>8. EarlierInv'
    BY <2>4, <2>5, <2>6, <2>7 DEF EarlierInv, Holds, Taken, Genuine
  <2>9. /\ past' = [x \in OperationIds |-> past'[x]]
        /\ \A x \in OperationIds : past'[x] = {operations'[x].status}
    BY <1>2, <1>5 DEF Now
  <2>10. \A x \in OperationIds : earlier'.shownId = x =>
           operations'[x].status # Absent /\ Onwards(earlier'.status, operations'[x].status)
    BY <2>6, <2>7, NullAssumption DEF Holds
  <2>11. PastInv'
    BY <2>9, <2>10 DEF PastInv, Onwards
  <2> QED BY <1>1, <1>3, <1>4, <2>8, <2>11 DEF RequestsInv
<1>6. CASE ~ Awaits(earlier, o)
  <2>1. EarlierInv' /\ earlier' = earlier
    BY <1>1, <1>3, <1>6, OthersStay DEF RequestsInv
  <2>2. /\ past' = [x \in OperationIds |-> past'[x]]
        /\ past'[o] = past[o] \cup {operations'[o].status}
        /\ \A x \in OperationIds \ {o} : past'[x] = past[x] /\ operations'[x].status \in past[x]
    BY <1>1, <1>2, <1>6 DEF RequestsInv, PastInv, OnlyRow
  <2>3. ASSUME NEW x \in OperationIds, NEW s \in past'[x]
        PROVE  Onwards(s, operations'[x].status)
    <3>1. s \in past[x] \/ s = operations'[x].status
      BY <2>2
    <3>2. ASSUME s \in past[x] PROVE Onwards(s, operations'[x].status)
      BY <1>1, <3>2, PastStays DEF RequestsInv
    <3> QED BY <3>1, <3>2 DEF Onwards
  <2>4. ASSUME NEW x \in OperationIds, NEW s \in past'[x],
               earlier'.commit = "done", earlier'.shownId = x
        PROVE  s # Absent /\ Onwards(earlier'.status, s)
    <3>1. CASE s \in past[x]
      BY <2>1, <2>4, <3>1 DEF RequestsInv, PastInv
    <3>2. CASE s = operations'[x].status
      BY <2>1, <2>4, <3>2, NullAssumption DEF EarlierInv, Holds
    <3> QED BY <2>2, <3>1, <3>2
  <2>5. PastInv'
    BY <2>2, <2>3, <2>4 DEF PastInv
  <2> QED BY <1>1, <1>3, <1>4, <2>1, <2>5 DEF RequestsInv
<1> QED BY <1>5, <1>6

\* A commit that fails leaves its reply untrue, and the rest as it was.
LEMMA CommitFailsKeeps ==
    ASSUME RequestsInv, NEW o \in OperationIds, CommitFails(o)
    PROVE  RequestsInv'
<1>1. Ended(o, "lost") /\ UNCHANGED rows /\ UNCHANGED past
  BY DEF CommitFails
<1>2. TableInv' /\ Forward /\ UNCHANGED <<operations, receipts>>
  BY <1>1, TablesUntouched DEF RequestsInv, rows, tables
<1>3. /\ PendingInv' /\ \A x \in OperationIds \ {o} : pending'[x] = pending[x]
      /\ later' = NoReply
      /\ earlier' = IF Awaits(earlier, o) THEN [earlier EXCEPT !.commit = "lost"] ELSE earlier
  BY <1>1, PendingEnded DEF RequestsInv, Ended
<1>4. LaterInv'
  BY <1>3, NoLaterReply
<1>5. CASE Awaits(earlier, o)
  <2>1. PICK r : r = [earlier EXCEPT !.commit = "lost"]
    OBVIOUS
  <2>2. /\ DOMAIN earlier = Fields /\ Taken(earlier)
        /\ earlier.code = 201 => Denotes(earlier.shown) = Denotes(earlier.sent)
    BY DEF RequestsInv, EarlierInv
  <2>3. /\ DOMAIN r = Fields /\ r.commit = "lost"
        /\ \A field \in Fields \ {"commit"} : r[field] = earlier[field]
    BY <2>1, <2>2 DEF Fields
  <2>4. Taken(r) /\ (r.code = 201 => Denotes(r.shown) = Denotes(r.sent))
    BY <2>2, <2>3 DEF Taken, Genuine, Fields
  <2>5. earlier' = r
    BY <1>3, <1>5, <2>1
  <2>6. EarlierInv'
    BY <1>2, <2>3, <2>4, <2>5 DEF EarlierInv, Taken, Genuine, MisledBy
  <2>7. PastInv'
    BY <1>1, <1>2, <2>3, <2>5 DEF RequestsInv, PastInv
  <2> QED BY <1>2, <1>3, <1>4, <2>6, <2>7 DEF RequestsInv
<1>6. CASE ~ Awaits(earlier, o)
  <2>1. EarlierInv' /\ earlier' = earlier
    BY <1>2, <1>3, <1>6, OthersStay DEF RequestsInv
  <2>2. PastInv'
    BY <1>1, <1>2, <2>1 DEF RequestsInv, PastInv
  <2> QED BY <1>2, <1>3, <1>4, <2>1, <2>2 DEF RequestsInv
<1> QED BY <1>5, <1>6

\* An answer recorded by the dispatcher is no reply, but moves the tables on.
LEMMA AcceptedKeeps ==
    ASSUME RequestsInv, NEW o \in OperationIds, NEW p \in PaymentIds, Accepted(o, p)
    PROVE  RequestsInv'
<1>1. /\ TableInv' /\ Forward
      /\ \A x \in OperationIds : operations'[x].status = operations[x].status
  BY TablesAccept DEF RequestsInv
<1>2. UNCHANGED <<pending, earlier, past>> /\ later' = NoReply /\ Free(o)
  BY DEF Accepted
<1>3. PendingInv' /\ PastInv'
  BY <1>1, <1>2 DEF RequestsInv, PendingInv, PastInv
<1>4. ~ Awaits(earlier, o)
  <2>1. ~ DueAt(earlier, o)
    BY <1>2 DEF Free, DueAt, NoRequest
  <2> QED BY <2>1, WaitsAt DEF RequestsInv
<1>5. EarlierInv' /\ LaterInv'
  BY <1>1, <1>2, <1>4, OthersStay, NoLaterReply DEF RequestsInv
<1> QED BY <1>1, <1>3, <1>5 DEF RequestsInv

-----------------------------------------------------------------------------
(* The theorems *)

\* An empty database has told nobody anything.
LEMMA RequestsInitially == Init => RequestsInv
<1> SUFFICES ASSUME Init PROVE RequestsInv
  OBVIOUS
<1>1. NoOperation \in Operation /\ NoIntent \in SubmitIntent /\ NoRequest \in Request
  BY DEF NoOperation, Operation, NoIntent, SubmitIntent, LeaseState, ErrorClass, NoRequest, Request
<1>2. TableInv
  BY <1>1 DEF Init, TablesInit, TableInv, NoOperation, NoIntent
<1>3. PendingInv
  BY <1>1 DEF Init, PendingInv, NoRequest
<1>4. PastInv
  BY NoReplyHolds, NullAssumption DEF Init, PastInv, Now, Onwards
<1>5. EarlierInv
  BY NoReplyHolds DEF Init, EarlierInv
<1>6. LaterInv
  BY NoReplyHolds DEF Init, LaterInv, ClientsSeeProgress, MismatchIsFinal
<1> QED BY <1>2, <1>3, <1>4, <1>5, <1>6 DEF RequestsInv

\* Each request, each commit and each recorded answer keeps the invariant.
LEMMA RequestsInductive == RequestsInv /\ [Next]_api => RequestsInv'
<1> SUFFICES ASSUME RequestsInv, [Next]_api PROVE RequestsInv'
  OBVIOUS
<1>1. ASSUME NEW id \in Spellings, NEW text \in AmountTexts, NEW currency \in Currencies,
             Create(id, text, currency)
      PROVE  RequestsInv'
  BY <1>1, CreateKeeps
<1>2. ASSUME NEW id \in Spellings, Submit(id) \/ Read(id)
      PROVE  RequestsInv'
  BY <1>2, SubmitKeeps, ReadKeeps
<1>3. ASSUME NEW report \in Reports, Sendable(report),
             Receive(report.id, report.payment, report.result)
      PROVE  RequestsInv'
  <2>1. /\ report.id \in Spellings /\ report.payment \in PaymentIds
        /\ report.result \in ReceiptResult
    BY RequestsAssumption
  <2>2. PaidBy[report.payment] = report.id => outbox[report.id].state # Absent
    BY <1>3 DEF Sendable
  <2> QED BY <1>3, <2>1, <2>2, ReceiveKeeps
<1>4. ASSUME NEW o \in OperationIds, Commit(o) \/ CommitFails(o)
      PROVE  RequestsInv'
  BY <1>4, CommitKeeps, CommitFailsKeeps
<1>5. ASSUME NEW o \in OperationIds, NEW p \in PaymentIds, Accepted(o, p)
      PROVE  RequestsInv'
  BY <1>5, AcceptedKeeps
<1>6. CASE UNCHANGED api
  <2>1. UNCHANGED <<operations, outbox, receipts, amounts, bodies, pending, earlier, later, past>>
    BY <1>6 DEF api, rows, tables
  <2>2. TableInv' /\ PendingInv' /\ PastInv'
    BY <2>1 DEF RequestsInv, TableInv, PendingInv, PastInv, MisledBy
  <2>3. EarlierInv'
    BY <2>1 DEF RequestsInv, EarlierInv, Holds, WaitsTruly, DueAt, Taken, Genuine, MisledBy
  <2>4. LaterInv'
    BY <2>1 DEF RequestsInv, LaterInv, ClientsSeeProgress, MismatchIsFinal, Taken, Genuine, MisledBy
  <2> QED BY <2>2, <2>3, <2>4 DEF RequestsInv
<1> QED BY <1>1, <1>2, <1>3, <1>4, <1>5, <1>6 DEF Next

\* The invariant holds for any number of requests.
LEMMA RequestsInvariant == Spec => []RequestsInv
<1>1. Init => RequestsInv
  BY RequestsInitially
<1>2. RequestsInv /\ [Next]_api => RequestsInv'
  BY RequestsInductive
<1> QED BY <1>1, <1>2, PTL DEF Spec

\* Whatever callers write for an amount, and whatever they ask for once a creation
\* has committed, its amount is shown and sent to the provider exactly
\* (schemas.py, operation_service.build_provider_request_body).
THEOREM AmountStays == Spec => []AmountIsKept
<1>1. ASSUME RequestsInv PROVE AmountIsKept
  <2> DEFINE o == earlier.shownId
             text == FormatAmount(amounts[o])
  <2>1. earlier.code = 201 => Denotes(earlier.shown) = Denotes(earlier.sent)
    BY <1>1 DEF RequestsInv, EarlierInv
  <2>2. ASSUME earlier.code = 201, earlier.commit = "done"
        PROVE  /\ later.shownId = o => Denotes(later.shown) = Denotes(earlier.sent)
               /\ bodies[o] # NoAmount => Denotes(bodies[o]) = Denotes(earlier.sent)
    <3>1. o \in OperationIds /\ o # Null /\ earlier.shown = text
      BY <1>1, <2>2 DEF RequestsInv, EarlierInv, Holds
    <3>2. later.shownId = o => later.shown = text
      BY <1>1, <3>1 DEF RequestsInv, LaterInv
    <3>3. bodies[o] \in {NoAmount, text}
      BY <1>1, <3>1 DEF RequestsInv, TableInv
    <3> QED BY <2>1, <2>2, <3>1, <3>2, <3>3
  <2> QED BY <2>1, <2>2 DEF AmountIsKept
<1> QED BY <1>1, RequestsInvariant, PTL

\* However a reply and the commit after it are separated, whatever stale copy a
\* losing submit returns and whichever requests are broken off, every two replies
\* about one operation show it moving on once the first of them has committed
\* (api/operations.py; operation_service; deps.py).
THEOREM RepliesShowProgress == Spec => []ClientsSeeProgress
<1>1. RequestsInv => ClientsSeeProgress
  BY DEF RequestsInv, LaterInv
<1> QED BY <1>1, RequestsInvariant, PTL

\* The provider's own receipt is answered 204 whenever it comes, and is recorded if
\* that is committed, unless its request is broken off or somebody else's receipt
\* has linked this operation or this payment (api/receipts.py; receipt_service).
THEOREM OwnReceiptIsTaken == Spec => []GenuineReceiptIsTaken
<1>1. RequestsInv => GenuineReceiptIsTaken
  BY DEF RequestsInv, EarlierInv, LaterInv, Taken, GenuineReceiptIsTaken
<1> QED BY <1>1, RequestsInvariant, PTL

\* A receipt refused for its payment is refused whenever it is sent again.
THEOREM RefusalIsFinal == Spec => []MismatchIsFinal
<1>1. RequestsInv => MismatchIsFinal
  BY DEF RequestsInv, LaterInv
<1> QED BY <1>1, RequestsInvariant, PTL
===============================================================================
