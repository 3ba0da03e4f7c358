----------------------------- MODULE PromiseProofs -----------------------------
(***************************************************************************)
(* Proof that the system implements PaymentPromise when every receipt      *)
(* reports a payment the provider has made for that operation, for any     *)
(* number of operations, payments and processes and any settings.          *)
(***************************************************************************)
EXTENDS TaskPaymentsProofs

-----------------------------------------------------------------------------
(* What the tables say of the provider is true *)

\* A request is sent, and so a payment is made, only for a submitted operation.
SentIsSubmitted ==
    /\ \A r \in requests : operations[r.op].status \notin {Absent, "CREATED"}
    /\ \A p \in payments : operations[p.op].status \notin {Absent, "CREATED"}

\* A payment id is given to one payment.
IdsDiffer == \A p, q \in payments : p.id = q.id => p = q

\* An operation is linked only to a payment made for it.
LinkIsTrue ==
    \A o \in OperationIds :
        operations[o].payment # Null => \E p \in PaymentsOf(o) : p.id = operations[o].payment

TruthInv == SentIsSubmitted /\ IdsDiffer /\ LinkIsTrue /\ DoneMeansCharged

\* An intent closed in the new table was closed before.
DoneWas(ob, new) ==
    \A o \in OperationIds : new[o].state = "DONE" => ob[o].state = "DONE"

\* The writes to the outbox other than mark_done close no intent.
LEMMA ClosesNothing ==
    ASSUME NEW ob \in [OperationIds -> SubmitIntent], NEW o \in OperationIds,
           NEW class, NEW rows, NEW ops
    PROVE  /\ DoneWas(ob, CreateIntent(ob, o, o))
           /\ DoneWas(ob, Reschedule(ob, o, class))
           /\ DoneWas(ob, MarkFailed(ob, o, class))
           /\ DoneWas(ob, ClaimDue(ob, rows))
           /\ DoneWas(ob, ReleaseForRetry(ob, rows))
           /\ DoneWas(ob, ReleaseAllInFlight(ob))
           /\ DoneWas(ob, ReviveFailed(ob, ops))
<1> USE DEF DoneWas, SubmitIntent
<1>1. DoneWas(ob, CreateIntent(ob, o, o))
  BY DEF CreateIntent, NoIntent
<1>2. DoneWas(ob, Reschedule(ob, o, class)) /\ DoneWas(ob, MarkFailed(ob, o, class))
  BY DEF Reschedule, MarkFailed
<1>3. DoneWas(ob, ClaimDue(ob, rows))
  BY DEF ClaimDue
<1>4. DoneWas(ob, ReleaseForRetry(ob, rows)) /\ DoneWas(ob, ReleaseAllInFlight(ob))
  BY DEF ReleaseForRetry, ReleaseAllInFlight, Released
<1>5. DoneWas(ob, ReviveFailed(ob, ops))
  BY DEF ReviveFailed
<1> QED BY <1>1, <1>2, <1>3, <1>4, <1>5

\* No operation that was submitted is so no longer.
StaySubmitted ==
    \A o \in OperationIds :
        operations[o].status \notin {Absent, "CREATED"} =>
            operations'[o].status \notin {Absent, "CREATED"}

\* A step that changes links and closes intents only of an operation which it
\* leaves linked to a payment of its own, with the provider as it was.
LEMMA TruthFrame ==
    ASSUME TypeOK, TruthInv, UNCHANGED provider, StaySubmitted,
           \A o \in OperationIds :
              \/ /\ operations'[o].payment = operations[o].payment
                 /\ outbox'[o].state = "DONE" => outbox[o].state = "DONE"
              \/ \E p \in PaymentsOf(o) : p.id = operations'[o].payment
    PROVE  TruthInv'
<1> USE DEF TruthInv, provider
<1>1. SentIsSubmitted' /\ IdsDiffer'
  BY DEF SentIsSubmitted, IdsDiffer, StaySubmitted, TypeOK, ProviderTypeOK, Request, Payment
<1>2. LinkIsTrue' /\ DoneMeansCharged'
  BY DEF LinkIsTrue, DoneMeansCharged, PaymentsOf
<1> QED BY <1>1, <1>2

\* The same for a step that leaves the operations alone and closes no intent.
LEMMA TruthStutter ==
    ASSUME TypeOK, TruthInv, UNCHANGED <<operations, provider>>, DoneWas(outbox, outbox')
    PROVE  TruthInv'
BY TruthFrame DEF StaySubmitted, DoneWas

\* Nothing has been said of the provider before anything has happened.
LEMMA TruthInitially == Init => TruthInv
BY DEF Init, TablesInit, ProviderInit, TruthInv, SentIsSubmitted, IdsDiffer, LinkIsTrue,
       DoneMeansCharged, NoOperation, NoIntent, Absent

\* Every step keeps what the tables say of the provider true.
LEMMA TruthPreserved ==
    ASSUME StrayReceipts = {}, TypeOK, DeliveryInv, TruthInv, [Next]_vars
    PROVE  TruthInv'
<1> USE DEF tables, provider, process, vars
<1>0. /\ operations \in [OperationIds -> Operation]
      /\ outbox \in [OperationIds -> SubmitIntent]
  BY DEF TypeOK, TablesTypeOK
<1>a. UNCHANGED outbox => DoneWas(outbox, outbox')
  BY DEF DoneWas
<1>1. ASSUME NEW o \in OperationIds, ClientCreates(o) PROVE TruthInv'
  <2>1. /\ operations[o].status = Absent /\ operations'[o].payment = Null
        /\ \A x \in OperationIds \ {o} : operations'[x] = operations[x]
        /\ UNCHANGED <<outbox, provider>>
    BY <1>0, <1>1 DEF ClientCreates, CreateOperationRequest, CreateOperation
  <2>2. outbox[o].state # "DONE"
    BY <2>1 DEF DeliveryInv, WorkIsGenuine, Absent
  <2>3. TruthInv'
    BY <2>1, <2>2
       DEF TruthInv, SentIsSubmitted, IdsDiffer, LinkIsTrue, DoneMeansCharged, PaymentsOf,
           TypeOK, ProviderTypeOK, Request, Payment
  <2> QED BY <2>3
<1>2. ASSUME NEW o \in OperationIds, ClientSubmits(o) PROVE TruthInv'
  <2>1. /\ operations'[o].status = "PROCESSING"
        /\ operations'[o].payment = operations[o].payment
        /\ \A x \in OperationIds \ {o} : operations'[x] = operations[x]
        /\ UNCHANGED provider
    BY <1>0, <1>2
       DEF ClientSubmits, SubmitOperation, TryBeginProcessing, CanBeginProcessing, Operation
  <2>2. DoneWas(outbox, outbox')
    BY <1>0, <1>2, ClosesNothing DEF ClientSubmits, SubmitOperation
  <2> QED BY <2>1, <2>2, TruthFrame DEF StaySubmitted, DoneWas, Absent
<1>3. ASSUME NEW o \in OperationIds, ProviderReports(o) PROVE TruthInv'
  <2>1. PICK p \in PaymentsOf(o), result \in ReceiptResult : ProcessReceipt(o, p.id, result)
    BY <1>3 DEF ProviderReports
  <2>2. p.id \in PaymentIds /\ UNCHANGED provider
    BY <1>3 DEF ProviderReports, PaymentsOf, Payment, TypeOK, ProviderTypeOK
  <2>3. CASE ApplyReceipt(o, p.id, result)
    <3>1. /\ operations[o].payment \in {Null, p.id}
          /\ operations' = TryFinalize(LinkProviderPayment(operations, o, p.id), o,
                                       ResultToStatus(result))
          /\ outbox' = MarkDone(outbox, o)
      BY <2>3 DEF ApplyReceipt, Admissible
    <3>2. operations'[o].payment = p.id
      BY <1>0, <2>2, <3>1, NullAssumption DEF LinkProviderPayment, TryFinalize, Operation
    <3>3. \A x \in OperationIds \ {o} :
            operations'[x] = operations[x] /\ outbox'[x] = outbox[x]
      BY <1>0, <3>1 DEF LinkProviderPayment, TryFinalize, MarkDone
    <3>4. operations'[o].status \in {operations[o].status} \cup TerminalStatuses
      BY <1>0, <3>1
         DEF LinkProviderPayment, TryFinalize, Operation, ResultToStatus, TerminalStatuses,
             ReceiptResult
    <3>5. StaySubmitted
      BY <3>3, <3>4 DEF StaySubmitted, TerminalStatuses, Absent
    <3> QED BY <2>2, <3>2, <3>3, <3>5, TruthFrame
  <2>4. CASE IgnoreReceipt(o, p.id, result)
    BY <1>a, <2>2, <2>4, TruthStutter DEF IgnoreReceipt
  <2> QED BY <2>1, <2>3, <2>4 DEF ProcessReceipt
<1>4. ASSUME NEW o \in OperationIds, StrayReceipt(o) PROVE TruthInv'
  BY <1>4 DEF StrayReceipt
<1>5. ASSUME NEW id \in PaymentIds, ProviderCreates(id) PROVE TruthInv'
  <2>1. PICK r \in requests :
          /\ \A p \in payments : p.key # r.key /\ p.id # id
          /\ payments' = payments \cup {[key |-> r.key, op |-> r.op, id |-> id]}
          /\ UNCHANGED <<requests, operations, outbox>>
    BY <1>5 DEF ProviderCreates, CreatePayment
  <2>2. SentIsSubmitted'
    BY <2>1 DEF TruthInv, SentIsSubmitted
  <2>3. IdsDiffer'
    BY <2>1 DEF TruthInv, IdsDiffer
  <2>4. LinkIsTrue' /\ DoneMeansCharged'
    BY <2>1 DEF TruthInv, LinkIsTrue, DoneMeansCharged, PaymentsOf
  <2> QED BY <2>2, <2>3, <2>4 DEF TruthInv
<1>6. ASSUME NEW o \in OperationIds,
             BackoffElapses(o) \/ LeaseExpires(o) \/ LeaseOverrun(o)
      PROVE  TruthInv'
  <2>1. DoneWas(outbox, outbox')
    BY <1>0, <1>6 DEF BackoffElapses, LeaseExpires, LeaseOverrun, DoneWas, SubmitIntent
  <2> QED BY <1>6, <2>1, TruthStutter DEF BackoffElapses, LeaseExpires, LeaseOverrun
<1>7. ASSUME NEW i \in Instances, NEW rows \in SUBSET OperationIds,
             Claim(i, rows) \/ ClaimLost(i, rows)
      PROVE  TruthInv'
  <2>1. PICK o \in OperationIds : TRUE
    BY <1>7 DEF Claim, ClaimLost, Claimable
  <2>2. DoneWas(outbox, outbox')
    BY <1>0, <1>7, <2>1, ClosesNothing DEF Claim, ClaimLost
  <2> QED BY <1>7, <2>2, TruthStutter DEF Claim, ClaimLost
<1>8. ASSUME NEW i \in Instances, NEW o \in OperationIds, StartCall(i, o) PROVE TruthInv'
  <2>1. /\ requests' = requests \cup {[key |-> work[i][o].key, op |-> o]}
        /\ UNCHANGED <<operations, outbox, payments>>
    BY <1>8 DEF StartCall, RequestOf
  <2>2. operations[o].status \notin {Absent, "CREATED"}
    BY <1>8 DEF StartCall, DeliveryInv, WorkIsGenuine
  <2>3. SentIsSubmitted'
    BY <2>1, <2>2 DEF TruthInv, SentIsSubmitted
  <2>4. IdsDiffer' /\ LinkIsTrue' /\ DoneMeansCharged'
    BY <2>1 DEF TruthInv, IdsDiffer, LinkIsTrue, DoneMeansCharged, PaymentsOf
  <2> QED BY <2>3, <2>4 DEF TruthInv
<1>9. ASSUME NEW i \in Instances, NEW o \in OperationIds,
             Answer(i, o) \/ ResultNotRecorded(i, o)
      PROVE  TruthInv'
  BY <1>9, <1>a, TruthStutter
     DEF Answer, CallAccepted, CallUnavailable, CallRejected, ResultNotRecorded
<1>10. ASSUME NEW i \in Instances, NEW o \in OperationIds, OnAccepted(i, o) PROVE TruthInv'
  <2> DEFINE p == work[i][o].payment
  <2>1. /\ operations' = LinkProviderPayment(operations, o, p)
        /\ outbox' = MarkDone(outbox, o)
        /\ UNCHANGED provider
    BY <1>10 DEF OnAccepted, RecordAcceptance
  <2>2. \E q \in PaymentsOf(o) : q.id = p
    BY <1>10 DEF OnAccepted, RecordAcceptance, DeliveryInv, WorkIsGenuine
  <2>3. \E q \in PaymentsOf(o) : q.id = operations'[o].payment
    BY <1>0, <2>1, <2>2 DEF TruthInv, LinkIsTrue, LinkProviderPayment, Operation
  <2>4. \A x \in OperationIds \ {o} :
          operations'[x] = operations[x] /\ outbox'[x] = outbox[x]
    BY <1>0, <2>1 DEF LinkProviderPayment, MarkDone
  <2>5. operations'[o].status = operations[o].status
    BY <1>0, <2>1 DEF LinkProviderPayment, Operation
  <2>6. StaySubmitted
    BY <2>4, <2>5 DEF StaySubmitted
  <2> QED BY <2>1, <2>3, <2>4, <2>6, TruthFrame
<1>11. ASSUME NEW i \in Instances, NEW o \in OperationIds, OnFailure(i, o) PROVE TruthInv'
  <2>1. DoneWas(outbox, outbox')
    BY <1>0, <1>11, ClosesNothing DEF OnFailure, RecordFailure
  <2> QED BY <1>11, <2>1, TruthStutter DEF OnFailure, RecordFailure
<1>12. ASSUME NEW i \in Instances, EmptyPoll(i) PROVE TruthInv'
  BY <1>12, <1>a, TruthStutter DEF EmptyPoll
<1>13. ASSUME NEW i \in Instances, Live(i) PROVE TruthInv'
  <2>1. CASE \/ Boot(i) \/ RequestStop(i) \/ RecoveryGivesUp(i)
             \/ ReleaseFailed(i) \/ GraceExpires(i) \/ Crash(i)
    BY <2>1, <1>a, TruthStutter
       DEF Boot, RequestStop, RecoveryGivesUp, ReleaseFailed, GraceExpires, Crash
  <2>2. CASE Recover(i)
    <3> DEFINE released == ReleaseAllInFlight(outbox)
    <3>1. \A o \in OperationIds : DoneWas(outbox, released)
      BY <1>0, ClosesNothing
    <3>2. \A o \in OperationIds : DoneWas(released, ReviveFailed(released, operations))
      BY <1>0, OutboxRowsTyped, ClosesNothing
    <3>3. outbox' = ReviveFailed(released, operations) /\ UNCHANGED <<operations, provider>>
      BY <2>2 DEF Recover, ResumeUnfinished
    <3>4. DoneWas(outbox, outbox')
      BY <3>1, <3>2, <3>3 DEF DoneWas
    <3> QED BY <3>3, <3>4, TruthStutter
  <2>3. CASE ReleaseClaimed(i)
    <3>1. \A o \in OperationIds : DoneWas(outbox, ReleaseForRetry(outbox, claimed[i]))
      BY <1>0, ClosesNothing
    <3>2. /\ outbox' = ReleaseForRetry(outbox, claimed[i])
          /\ UNCHANGED <<operations, provider>>
      BY <2>3 DEF ReleaseClaimed
    <3>3. DoneWas(outbox, outbox')
      BY <3>1, <3>2 DEF DoneWas
    <3> QED BY <3>2, <3>3, TruthStutter
  <2> QED BY <1>13, <2>1, <2>2, <2>3 DEF Live
<1>14. CASE UNCHANGED vars
  BY <1>14, <1>a, TruthStutter
<1> QED BY <1>1, <1>2, <1>3, <1>4, <1>5, <1>6, <1>7, <1>8, <1>9, <1>10, <1>11, <1>12,
           <1>13, <1>14
        DEF Next, Environment, Deliver, Record

-----------------------------------------------------------------------------
(* The refinement of PaymentPromise *)

\* A payment made for an operation is its charge, and there is no other.
LEMMA ChargeIsThePayment ==
    ASSUME TypeOK, OnePaymentPerOperation, NEW o \in OperationIds
    PROVE  /\ \A p \in PaymentsOf(o) : ChargeOf(o) = p.id
           /\ ChargeOf(o) = Null <=> PaymentsOf(o) = {}
<1>1. ASSUME NEW p \in PaymentsOf(o) PROVE ChargeOf(o) = p.id /\ ChargeOf(o) # Null
  <2>1. PaymentsOf(o) = {p}
    BY <1>1 DEF PaymentsOf, OnePaymentPerOperation
  <2>2. (CHOOSE q \in PaymentsOf(o) : TRUE) = p
    BY <2>1
  <2>3. ChargeOf(o) = p.id
    BY <2>1, <2>2 DEF ChargeOf
  <2>4. p.id \in PaymentIds
    BY <1>1 DEF PaymentsOf, TypeOK, ProviderTypeOK, Payment
  <2> QED BY <2>3, <2>4, NullAssumption
<1>2. PaymentsOf(o) = {} => ChargeOf(o) = Null
  BY DEF ChargeOf
<1> QED BY <1>1, <1>2

\* A step that leaves the provider alone leaves every charge alone.
LEMMA ChargesKept == UNCHANGED payments => ChargeMap' = ChargeMap
BY DEF ChargeMap, ChargeOf, PaymentsOf

\* A step that changes neither a status, nor a link, nor the provider's
\* payments is no step of PaymentPromise.
LEMMA PromiseStutter ==
    ASSUME UNCHANGED payments,
           \A o \in OperationIds : /\ operations'[o].status = operations[o].status
                                   /\ operations'[o].payment = operations[o].payment
    PROVE  UNCHANGED <<StageMap, ChargeMap, LinkMap>>
BY ChargesKept DEF StageMap, LinkMap

\* The empty system is the initial state of PaymentPromise.
LEMMA PromiseInitially == Init => Promise!Init
BY DEF Init, TablesInit, ProviderInit, Promise!Init, StageMap, ChargeMap, LinkMap, ChargeOf,
       PaymentsOf, NoOperation, Absent

\* Every step of the system is a step of PaymentPromise or none at all.
LEMMA PromiseStep ==
    ASSUME StrayReceipts = {}, TypeOK, DeliveryInv, SettledInv, TruthInv, [Next]_vars
    PROVE  [Promise!Next]_<<StageMap, ChargeMap, LinkMap>>
<1> USE DEF tables, provider, process, vars
<1> DEFINE Maps == <<StageMap, ChargeMap, LinkMap>>
           Goal == [Promise!Next]_Maps
<1>0. /\ operations \in [OperationIds -> Operation]
      /\ OnePaymentPerOperation
  BY DEF TypeOK, TablesTypeOK, DeliveryInv, OneKeyPerOperation, OnePaymentPerOperation
<1>a. ASSUME UNCHANGED payments,
             \A o \in OperationIds : /\ operations'[o].status = operations[o].status
                                     /\ operations'[o].payment = operations[o].payment
      PROVE  Goal
  BY <1>a, PromiseStutter
<1>1. ASSUME NEW o \in OperationIds, ClientCreates(o) PROVE Goal
  <2>1. /\ operations[o].status = Absent /\ operations[o].payment = Null
        /\ operations' = [operations EXCEPT ![o] = [status |-> "CREATED", payment |-> Null]]
        /\ UNCHANGED payments
    BY <1>1 DEF ClientCreates, CreateOperationRequest, CreateOperation, SettledInv, NoEarlyLink
  <2>2. Promise!Accept(o)
    <3>1. StageMap[o] = "ABSENT"
      BY <2>1 DEF StageMap, Absent
    <3>2. StageMap' = [StageMap EXCEPT ![o] = "CREATED"]
      BY <1>0, <2>1 DEF StageMap
    <3>3. LinkMap' = LinkMap
      BY <1>0, <2>1 DEF LinkMap
    <3> QED BY <2>1, <3>1, <3>2, <3>3, ChargesKept DEF Promise!Accept
  <2> QED BY <2>2 DEF Promise!Next
<1>2. ASSUME NEW o \in OperationIds, ClientSubmits(o) PROVE Goal
  <2>1. /\ operations[o].status = "CREATED"
        /\ operations' = [operations EXCEPT ![o].status = "PROCESSING"]
        /\ UNCHANGED payments
    BY <1>2 DEF ClientSubmits, SubmitOperation, TryBeginProcessing, CanBeginProcessing
  <2>2. Promise!Start(o)
    <3>1. StageMap[o] = "CREATED" /\ StageMap' = [StageMap EXCEPT ![o] = "PROCESSING"]
      BY <1>0, <2>1 DEF StageMap, Operation
    <3>2. LinkMap' = LinkMap
      BY <1>0, <2>1 DEF LinkMap, Operation
    <3> QED BY <2>1, <3>1, <3>2, ChargesKept DEF Promise!Start
  <2> QED BY <2>2 DEF Promise!Next
<1>3. ASSUME NEW o \in OperationIds, ProviderReports(o) PROVE Goal
  <2>1. PICK p \in PaymentsOf(o), result \in ReceiptResult : ProcessReceipt(o, p.id, result)
    BY <1>3 DEF ProviderReports
  <2>2. ChargeOf(o) = p.id /\ ChargeOf(o) # Null /\ UNCHANGED payments
    BY <1>0, <1>3, ChargeIsThePayment DEF ProviderReports
  <2>3. CASE ApplyReceipt(o, p.id, result)
    <3>1. /\ operations[o].status = "PROCESSING"
          /\ operations[o].payment \in {Null, p.id}
          /\ operations' = TryFinalize(LinkProviderPayment(operations, o, p.id), o, result)
      BY <2>3 DEF ApplyReceipt, CanApply, Admissible, ResultToStatus
    <3>2. /\ operations'[o].status = result /\ operations'[o].payment = p.id
          /\ \A x \in OperationIds \ {o} : operations'[x] = operations[x]
      BY <1>0, <2>2, <3>1, NullAssumption DEF LinkProviderPayment, TryFinalize, Operation
    <3>3. /\ StageMap[o] = "PROCESSING"
          /\ StageMap' = [StageMap EXCEPT ![o] = result]
      BY <3>1, <3>2 DEF StageMap
    <3>4. /\ ChargeMap[o] # Null
          /\ LinkMap' = [LinkMap EXCEPT ![o] = ChargeMap[o]]
      BY <2>2, <3>2 DEF ChargeMap, LinkMap
    <3>5. Promise!Settle(o, result)
      BY <2>2, <3>3, <3>4, ChargesKept DEF Promise!Settle
    <3> QED BY <2>1, <3>5 DEF Promise!Next, ReceiptResult
  <2>4. CASE IgnoreReceipt(o, p.id, result)
    BY <1>a, <2>2, <2>4 DEF IgnoreReceipt
  <2> QED BY <2>1, <2>3, <2>4 DEF ProcessReceipt
<1>4. ASSUME NEW o \in OperationIds, StrayReceipt(o) PROVE Goal
  BY <1>4 DEF StrayReceipt
<1>5. ASSUME NEW id \in PaymentIds, ProviderCreates(id) PROVE Goal
  <2>1. PICK r \in requests :
          /\ \A p \in payments : p.key # r.key /\ p.id # id
          /\ payments' = payments \cup {[key |-> r.key, op |-> r.op, id |-> id]}
          /\ UNCHANGED operations
    BY <1>5 DEF ProviderCreates, CreatePayment
  <2> DEFINE o == r.op
             new == [key |-> r.key, op |-> o, id |-> id]
  <2>2. o \in OperationIds /\ r.key = o
    BY DEF TypeOK, ProviderTypeOK, Request, DeliveryInv, OneKeyPerOperation
  <2>3. PaymentsOf(o) = {}
    BY <2>1, <2>2 DEF PaymentsOf, DeliveryInv, OneKeyPerOperation
  <2>4. operations[o].status = "PROCESSING"
    <3>1. operations[o].status \notin {Absent, "CREATED"}
      BY DEF TruthInv, SentIsSubmitted
    <3>2. operations[o].payment = Null
      BY <2>2, <2>3 DEF TruthInv, LinkIsTrue
    <3>3. operations[o].status \notin TerminalStatuses
      BY <2>2, <3>2, NullAssumption
         DEF SettledInv, AppliedReceiptDecides, TypeOK, TablesTypeOK, Receipt
    <3> QED BY <1>0, <2>2, <3>1, <3>3 DEF Operation, OperationStatus, TerminalStatuses
  <2>5. ChargeOf(o)' = id
    <3>1. PaymentsOf(o)' = {new}
      BY <2>1, <2>3 DEF PaymentsOf
    <3>2. (CHOOSE q \in {new} : TRUE) = new
      OBVIOUS
    <3> QED BY <3>1, <3>2 DEF ChargeOf
  <2>6. \A x \in OperationIds \ {o} : ChargeOf(x)' = ChargeOf(x)
    <3>1. TAKE x \in OperationIds \ {o}
    <3>2. PaymentsOf(x)' = PaymentsOf(x)
      BY <2>1 DEF PaymentsOf
    <3> QED BY <3>2 DEF ChargeOf
  <2>7. \A x \in OperationIds : ChargeOf(x) # id
    <3>1. \A x \in OperationIds : ChargeOf(x) = Null \/ \E p \in payments : ChargeOf(x) = p.id
      BY DEF ChargeOf, PaymentsOf
    <3> QED BY <2>1, <3>1, NullAssumption
  <2>8. Promise!Charge(o, id)
    <3>1. StageMap[o] = "PROCESSING" /\ ChargeMap[o] = Null
      BY <2>2, <2>3, <2>4 DEF StageMap, ChargeMap, ChargeOf
    <3>2. \A x \in OperationIds : ChargeMap[x] # id
      BY <2>7 DEF ChargeMap
    <3>3. ChargeMap' = [ChargeMap EXCEPT ![o] = id]
      BY <2>2, <2>5, <2>6 DEF ChargeMap
    <3>4. UNCHANGED <<StageMap, LinkMap>>
      BY <2>1 DEF StageMap, LinkMap
    <3> QED BY <3>1, <3>2, <3>3, <3>4 DEF Promise!Charge
  <2> QED BY <2>2, <2>8 DEF Promise!Next
<1>6. ASSUME NEW i \in Instances, NEW o \in OperationIds, OnAccepted(i, o) PROVE Goal
  <2> DEFINE p == work[i][o].payment
  <2>1. /\ operations' = LinkProviderPayment(operations, o, p)
        /\ UNCHANGED payments
    BY <1>6 DEF OnAccepted, RecordAcceptance
  <2>2. CASE operations[o].payment # Null
    BY <1>0, <1>a, <2>1, <2>2 DEF LinkProviderPayment
  <2>3. CASE operations[o].payment = Null
    <3>1. operations' = [operations EXCEPT ![o].payment = p]
      BY <2>1, <2>3 DEF LinkProviderPayment
    <3>2. PICK q \in PaymentsOf(o) : q.id = p
      BY <1>6 DEF OnAccepted, RecordAcceptance, DeliveryInv, WorkIsGenuine
    <3>3. ChargeMap[o] = p /\ ChargeMap[o] # Null
      BY <1>0, <3>2, ChargeIsThePayment DEF ChargeMap
    <3>4. operations[o].status = "PROCESSING"
      <4>1. operations[o].status \notin {Absent, "CREATED"}
        BY <1>6 DEF OnAccepted, RecordAcceptance, DeliveryInv, WorkIsGenuine
      <4>2. operations[o].status \notin TerminalStatuses
        BY <2>3, NullAssumption
           DEF SettledInv, AppliedReceiptDecides, TypeOK, TablesTypeOK, Receipt
      <4> QED BY <1>0, <4>1, <4>2 DEF Operation, OperationStatus, TerminalStatuses
    <3>5. StageMap[o] = "PROCESSING" /\ StageMap' = StageMap
      BY <1>0, <3>1, <3>4 DEF StageMap, Operation
    <3>6. LinkMap[o] = Null /\ LinkMap' = [LinkMap EXCEPT ![o] = ChargeMap[o]]
      BY <1>0, <2>3, <3>1, <3>3 DEF LinkMap, Operation
    <3>7. Promise!Link(o)
      BY <2>1, <3>3, <3>5, <3>6, ChargesKept DEF Promise!Link
    <3> QED BY <3>7 DEF Promise!Next
  <2> QED BY <2>2, <2>3
<1>7. ASSUME NEW o \in OperationIds,
             BackoffElapses(o) \/ LeaseExpires(o) \/ LeaseOverrun(o)
      PROVE  Goal
  BY <1>7, <1>a DEF BackoffElapses, LeaseExpires, LeaseOverrun
<1>8. ASSUME NEW i \in Instances, NEW rows \in SUBSET OperationIds,
             Claim(i, rows) \/ ClaimLost(i, rows)
      PROVE  Goal
  BY <1>8, <1>a DEF Claim, ClaimLost
<1>9. ASSUME NEW i \in Instances, NEW o \in OperationIds,
             \/ StartCall(i, o) \/ Answer(i, o)
             \/ OnFailure(i, o) \/ ResultNotRecorded(i, o)
      PROVE  Goal
  BY <1>9, <1>a
     DEF StartCall, Answer, CallAccepted, CallUnavailable, CallRejected, OnFailure, RecordFailure,
         ResultNotRecorded
<1>10. ASSUME NEW i \in Instances, EmptyPoll(i) \/ Live(i) PROVE Goal
  BY <1>10, <1>a
     DEF EmptyPoll, Live, Boot, Recover, ResumeUnfinished, RecoveryGivesUp, RequestStop,
         GraceExpires, ReleaseClaimed, ReleaseFailed, Crash
<1>11. CASE UNCHANGED vars
  BY <1>11, <1>a
<1> QED BY <1>1, <1>2, <1>3, <1>4, <1>5, <1>6, <1>7, <1>8, <1>9, <1>10, <1>11
        DEF Next, Environment, Deliver, Record

-----------------------------------------------------------------------------
(* Theorems *)

\* The invariants of TaskPaymentsProofs and of this module together.
LEMMA AllInvariant ==
    ASSUME StrayReceipts = {}
    PROVE  Spec => [](TypeOK /\ DeliveryInv /\ SettledInv /\ TruthInv)
<1> DEFINE Inv == TypeOK /\ DeliveryInv /\ SettledInv /\ TruthInv
<1>1. Init => Inv
  BY TypesInitially, SettledInitially, TruthInitially
<1>2. Inv /\ [Next]_vars => Inv'
  BY TypesPreserved, DeliveryInvPreserved, SettledPreserved, TruthPreserved
<1> QED BY <1>1, <1>2, PTL DEF Spec

\* What the tables say of the provider is true: an intent is closed only with
\* the payment of its operation known, and an answer that is about to be
\* recorded never contradicts the link a receipt has made.
THEOREM TablesAreTrue ==
    ASSUME StrayReceipts = {}
    PROVE  Spec => [](DoneMeansCharged /\ NoPaymentMismatch)
<1>1. TypeOK /\ DeliveryInv /\ TruthInv => DoneMeansCharged
  BY DEF TruthInv
<1>2. TypeOK /\ DeliveryInv /\ TruthInv => NoPaymentMismatch
  BY DEF TruthInv, LinkIsTrue, NoPaymentMismatch, DeliveryInv, OneKeyPerOperation,
         WorkIsGenuine, PaymentsOf
<1> QED BY <1>1, <1>2, AllInvariant, PTL

\* While every receipt is of a payment the provider has made, the answer of
\* 202 and the receipt that overtook it name the same payment.
THEOREM AnswerAgreesWithReceipt ==
    ASSUME StrayReceipts = {}
    PROVE  Spec => []NoPaymentMismatch
BY TablesAreTrue, PTL

\* Outbox, dispatcher, retries, faults and any number of processes do no more
\* than PaymentPromise: they charge a submitted operation once and settle it
\* by a report of that charge.
THEOREM PromiseKept ==
    ASSUME StrayReceipts = {}
    PROVE  Spec => KeepsPromise
<1>1. Init => Promise!Init
  BY PromiseInitially
<1>2. TypeOK /\ DeliveryInv /\ SettledInv /\ TruthInv /\ [Next]_vars
        => [Promise!Next]_<<StageMap, ChargeMap, LinkMap>>
  BY PromiseStep
<1> QED BY <1>1, <1>2, AllInvariant, PTL DEF Spec, KeepsPromise, Promise!Spec
===============================================================================
