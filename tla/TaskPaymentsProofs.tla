-------------------------- MODULE TaskPaymentsProofs --------------------------
(***************************************************************************)
(* Proofs about TaskPayments for any number of operations, payments and    *)
(* processes, any settings and any stray receipts.                         *)
(***************************************************************************)
EXTENDS TaskPayments, TLAPS

-----------------------------------------------------------------------------
(* The repository functions give tables of the right type. *)

\* The writes to the operations table keep its rows well-typed.
LEMMA OperationsTyped ==
    ASSUME NEW ops \in [OperationIds -> Operation], NEW o \in OperationIds
    PROVE  /\ CreateOperation(ops, o) \in [OperationIds -> Operation]
           /\ TryBeginProcessing(ops, o) \in [OperationIds -> Operation]
           /\ \A p \in PaymentIds :
                LinkProviderPayment(ops, o, p) \in [OperationIds -> Operation]
           /\ \A s \in TerminalStatuses :
                TryFinalize(ops, o, s) \in [OperationIds -> Operation]
BY DEF CreateOperation, TryBeginProcessing, CanBeginProcessing, LinkProviderPayment,
       TryFinalize, Operation, OperationStatus, TerminalStatuses

\* The writes to one outbox row keep the table well-typed.
LEMMA OutboxTyped ==
    ASSUME NEW ob \in [OperationIds -> SubmitIntent],
           NEW o \in OperationIds, NEW class \in ErrorClass
    PROVE  /\ CreateIntent(ob, o, o) \in [OperationIds -> SubmitIntent]
           /\ MarkDone(ob, o) \in [OperationIds -> SubmitIntent]
           /\ Reschedule(ob, o, class) \in [OperationIds -> SubmitIntent]
           /\ MarkFailed(ob, o, class) \in [OperationIds -> SubmitIntent]
<1> USE DEF SubmitIntent, IntentState, LeaseState, ErrorClass
<1>1. CreateIntent(ob, o, o) \in [OperationIds -> SubmitIntent]
  BY DEF CreateIntent, NoIntent
<1>2. MarkDone(ob, o) \in [OperationIds -> SubmitIntent]
  BY DEF MarkDone
<1>3. Reschedule(ob, o, class) \in [OperationIds -> SubmitIntent]
  <2>1. \A row \in SubmitIntent :
          [row EXCEPT !.state = "PENDING", !.due = FALSE, !.lease = "null",
                      !.error = class] \in SubmitIntent
    OBVIOUS
  <2> QED BY <2>1 DEF Reschedule
<1>4. MarkFailed(ob, o, class) \in [OperationIds -> SubmitIntent]
  <2>1. \A row \in SubmitIntent :
          [row EXCEPT !.state = "FAILED", !.lease = "null", !.error = class] \in SubmitIntent
    OBVIOUS
  <2> QED BY <2>1 DEF MarkFailed
<1> QED BY <1>1, <1>2, <1>3, <1>4

\* So do the writes to many outbox rows: claim, release, recovery, revival.
LEMMA OutboxRowsTyped ==
    ASSUME NEW ob \in [OperationIds -> SubmitIntent], NEW ops, NEW rows
    PROVE  /\ ClaimDue(ob, rows) \in [OperationIds -> SubmitIntent]
           /\ ReleaseForRetry(ob, rows) \in [OperationIds -> SubmitIntent]
           /\ ReleaseAllInFlight(ob) \in [OperationIds -> SubmitIntent]
           /\ ReviveFailed(ob, ops) \in [OperationIds -> SubmitIntent]
<1> USE DEF SubmitIntent, IntentState, LeaseState, ErrorClass
<1>1. ClaimDue(ob, rows) \in [OperationIds -> SubmitIntent]
  <2>1. \A row \in SubmitIntent :
          [row EXCEPT !.state = "IN_FLIGHT", !.attempts = @ + 1, !.lease = "held"]
            \in SubmitIntent
    <3>1. TAKE row \in SubmitIntent
    <3>2. row.attempts + 1 \in Nat
      OBVIOUS
    <3> QED BY <3>2
  <2> QED BY <2>1 DEF ClaimDue
<1>2. \A row \in SubmitIntent : Released(row) \in SubmitIntent
  BY DEF Released
<1>3. /\ ReleaseForRetry(ob, rows) \in [OperationIds -> SubmitIntent]
      /\ ReleaseAllInFlight(ob) \in [OperationIds -> SubmitIntent]
  BY <1>2 DEF ReleaseForRetry, ReleaseAllInFlight
<1>4. ReviveFailed(ob, ops) \in [OperationIds -> SubmitIntent]
  <2>1. \A row \in SubmitIntent :
          [row EXCEPT !.state = "PENDING", !.attempts = 0, !.lease = "null"] \in SubmitIntent
    OBVIOUS
  <2> QED BY <2>1 DEF ReviveFailed
<1> QED BY <1>1, <1>3, <1>4

\* Appending to an operation's history keeps the history well-typed.
LEMMA EventsTyped ==
    ASSUME NEW ev \in [OperationIds -> Seq(Event)], NEW o \in OperationIds,
           NEW type \in EventType, NEW from \in OperationStatus \cup {Null},
           NEW to \in OperationStatus
    PROVE  AppendEvent(ev, o, type, from, to) \in [OperationIds -> Seq(Event)]
<1> DEFINE e == [type |-> type, from |-> from, to |-> to]
<1>1. e \in Event
  BY DEF Event
<1>2. Append(ev[o], e) \in Seq(Event)
  BY <1>1
<1> QED BY <1>2 DEF AppendEvent

\* Recording a receipt adds only a well-typed receipt.
LEMMA ReceiptsTyped ==
    ASSUME NEW rs \in SUBSET Receipt, NEW o \in OperationIds, NEW p \in PaymentIds,
           NEW result \in ReceiptResult, NEW applied \in BOOLEAN, NEW reason \in IgnoreReason
    PROVE  RecordReceipt(rs, o, p, result, applied, reason) \subseteq Receipt
BY DEF RecordReceipt, Receipt

-----------------------------------------------------------------------------
(* Types and keys *)

\* Empty tables, idle processes and a provider without payments are well-typed.
LEMMA TypesInitially == Init => TypeOK /\ DeliveryInv
BY NullAssumption, SettingsAssumption
   DEF Init, TypeOK, TablesInit, ProviderInit, ProcessInit, TablesTypeOK, ProviderTypeOK,
       ProcessTypeOK, DeliveryInv, OneKeyPerOperation, WorkIsGenuine, NoOperation, NoIntent, NoWork, Operation,
       SubmitIntent, LeaseState, ErrorClass, WorkItem, Phase, Absent, ProcState

\* A delivery that is over leaves a well-typed batch.
LEMMA FinishTyped ==
    ASSUME work \in [Instances -> [OperationIds -> WorkItem]],
           NEW i \in Instances, NEW o \in OperationIds, Finish(i, o)
    PROVE  work' \in [Instances -> [OperationIds -> WorkItem]]
<1>1. NoWork \in WorkItem
  BY DEF NoWork, WorkItem, Phase
<1>2. [work[i] EXCEPT ![o] = NoWork] \in [OperationIds -> WorkItem]
  BY <1>1
<1>3. work' = [work EXCEPT ![i] = [work[i] EXCEPT ![o] = NoWork]]
  BY DEF Finish
<1> QED BY <1>2, <1>3

\* A delivery that moves to its next phase leaves a well-typed batch.
LEMMA SetPhaseTyped ==
    ASSUME work \in [Instances -> [OperationIds -> WorkItem]],
           NEW i \in Instances, NEW o \in OperationIds, NEW phase \in Phase,
           SetPhase(i, o, phase)
    PROVE  work' \in [Instances -> [OperationIds -> WorkItem]]
<1>1. [work[i][o] EXCEPT !.phase = phase] \in WorkItem
  BY DEF WorkItem
<1>2. [work[i] EXCEPT ![o] = [work[i][o] EXCEPT !.phase = phase]] \in [OperationIds -> WorkItem]
  BY <1>1
<1>3. work' = [work EXCEPT ![i] = [work[i] EXCEPT ![o] = [work[i][o] EXCEPT !.phase = phase]]]
  BY DEF SetPhase
<1> QED BY <1>2, <1>3

\* Moving one delivery to its next phase keeps its key and every other delivery.
LEMMA SetPhaseEffect ==
    ASSUME work \in [Instances -> [OperationIds -> WorkItem]],
           NEW i \in Instances, NEW o \in OperationIds, NEW phase, SetPhase(i, o, phase)
    PROVE  /\ work'[i][o].phase = phase /\ work'[i][o].key = work[i][o].key
           /\ \A j \in Instances, x \in OperationIds :
                (j = i /\ x = o) \/ work'[j][x] = work[j][x]
<1>1. work'[i][o] = [work[i][o] EXCEPT !.phase = phase]
  BY DEF SetPhase
<1>2. work'[i][o].phase = phase /\ work'[i][o].key = work[i][o].key
  BY <1>1 DEF WorkItem
<1>3. \A j \in Instances, x \in OperationIds : (j = i /\ x = o) \/ work'[j][x] = work[j][x]
  BY DEF SetPhase
<1> QED BY <1>2, <1>3

\* An item that leaves the process's set of claims leaves a set of claims.
LEMMA AcknowledgedTyped ==
    ASSUME claimed \in [Instances -> SUBSET OperationIds], disruptions \in 0 .. MaxDisruptions,
           NEW i \in Instances, NEW o, Acknowledged(i, o)
    PROVE  /\ claimed' \in [Instances -> SUBSET OperationIds]
           /\ disruptions' \in 0 .. MaxDisruptions
<1>1. claimed[i] \ {o} \in SUBSET OperationIds
  OBVIOUS
<1>2. claimed' \in [Instances -> SUBSET OperationIds]
  BY <1>1 DEF Acknowledged
<1>3. disruptions' \in 0 .. MaxDisruptions
  BY SettingsAssumption DEF Acknowledged, Disrupt
<1> QED BY <1>2, <1>3

\* Every step of the system keeps every variable in its type.
LEMMA TypesPreserved ==
    ASSUME TypeOK, DeliveryInv, [Next]_vars
    PROVE  TypeOK'
<1> USE DEF TypeOK, TablesTypeOK, ProviderTypeOK, ProcessTypeOK,
            vars, tables, provider, process
<1> DEFINE Outcomes == {"COMPLETED", "REJECTED"}
<1>0. NoWork \in WorkItem /\ OperationStatus \subseteq OperationStatus \cup {Null}
  BY DEF NoWork, WorkItem, Phase
<1>1. ASSUME NEW o \in OperationIds, ClientCreates(o) PROVE TypeOK'
  <2>1. events' \in [OperationIds -> Seq(Event)]
    BY <1>1, EventsTyped DEF ClientCreates, CreateOperationRequest, EventType, OperationStatus
  <2> QED BY <1>1, <2>1, OperationsTyped DEF ClientCreates, CreateOperationRequest
<1>2. ASSUME NEW o \in OperationIds, ClientSubmits(o) PROVE TypeOK'
  <2>1. events' \in [OperationIds -> Seq(Event)]
    BY <1>2, EventsTyped DEF ClientSubmits, SubmitOperation, EventType, OperationStatus
  <2>2. outbox' \in [OperationIds -> SubmitIntent]
    BY <1>2, OutboxTyped DEF ClientSubmits, SubmitOperation, ErrorClass
  <2> QED BY <1>2, <2>1, <2>2, OperationsTyped DEF ClientSubmits, SubmitOperation
<1>3. ASSUME NEW o \in OperationIds, NEW p \in PaymentIds, NEW result \in ReceiptResult,
             ProcessReceipt(o, p, result), UNCHANGED <<provider, process, disruptions>>
      PROVE  TypeOK'
  <2>1. CASE ApplyReceipt(o, p, result)
    <3>1. ResultToStatus(result) \in TerminalStatuses
      BY DEF ResultToStatus, TerminalStatuses, ReceiptResult
    <3>2. operations' \in [OperationIds -> Operation]
      BY <2>1, <3>1, OperationsTyped DEF ApplyReceipt
    <3>3. events' \in [OperationIds -> Seq(Event)]
      BY <2>1, <3>1, EventsTyped
         DEF ApplyReceipt, EventType, OperationStatus, TerminalStatuses, StatusToEventType
    <3>4. outbox' \in [OperationIds -> SubmitIntent]
      BY <2>1, OutboxTyped DEF ApplyReceipt, ErrorClass
    <3>5. receipts' \subseteq Receipt
      BY <2>1, ReceiptsTyped DEF ApplyReceipt, IgnoreReason
    <3> QED BY <1>3, <3>2, <3>3, <3>4, <3>5
  <2>2. CASE IgnoreReceipt(o, p, result)
    <3>1. operations[o].status \in OperationStatus
      BY <2>2 DEF IgnoreReceipt, Admissible, Operation
    <3>2. events' \in [OperationIds -> Seq(Event)]
      BY <2>2, <3>1, EventsTyped DEF IgnoreReceipt, EventType
    <3>3. receipts' \subseteq Receipt
      BY <2>2, ReceiptsTyped DEF IgnoreReceipt, IgnoreReason
    <3> QED BY <1>3, <2>2, <3>2, <3>3 DEF IgnoreReceipt
  <2> QED BY <1>3, <2>1, <2>2 DEF ProcessReceipt
<1>4. ASSUME NEW o \in OperationIds, ProviderReports(o) PROVE TypeOK'
  BY <1>3, <1>4 DEF ProviderReports, PaymentsOf, Payment
<1>5. ASSUME NEW o \in OperationIds, StrayReceipt(o) PROVE TypeOK'
  BY <1>3, <1>5, StrayReceiptsAssumption DEF StrayReceipt
<1>6. ASSUME NEW id \in PaymentIds, ProviderCreates(id) PROVE TypeOK'
  BY <1>6 DEF ProviderCreates, CreatePayment, Request, Payment
<1>7. ASSUME NEW o \in OperationIds,
             BackoffElapses(o) \/ LeaseExpires(o) \/ LeaseOverrun(o)
      PROVE  TypeOK'
  <2>1. outbox' \in [OperationIds -> SubmitIntent]
    <3>1. \A row \in SubmitIntent : /\ [row EXCEPT !.due = TRUE] \in SubmitIntent
                                   /\ [row EXCEPT !.lease = "expired"] \in SubmitIntent
      BY DEF SubmitIntent, LeaseState
    <3>2. \/ outbox' = [outbox EXCEPT ![o] = [outbox[o] EXCEPT !.due = TRUE]]
          \/ outbox' = [outbox EXCEPT ![o] = [outbox[o] EXCEPT !.lease = "expired"]]
      BY <1>7 DEF BackoffElapses, LeaseExpires, LeaseOverrun
    <3>3. /\ [outbox[o] EXCEPT !.due = TRUE] \in SubmitIntent
          /\ [outbox[o] EXCEPT !.lease = "expired"] \in SubmitIntent
      BY <3>1
    <3> QED BY <3>2, <3>3
  <2>2. disruptions' \in 0 .. MaxDisruptions
    BY <1>7, SettingsAssumption DEF BackoffElapses, LeaseExpires, LeaseOverrun, Disrupt
  <2> QED BY <1>7, <2>1, <2>2 DEF BackoffElapses, LeaseExpires, LeaseOverrun
<1>8. ASSUME NEW i \in Instances, NEW rows \in SUBSET OperationIds, Claim(i, rows)
      PROVE  TypeOK'
  <2>1. outbox' \in [OperationIds -> SubmitIntent]
    BY <1>8, OutboxRowsTyped DEF Claim
  <2>2. \A o \in OperationIds : outbox[o].key \in OperationIds \cup {Null}
                               /\ outbox[o].attempts + 1 \in Nat
    BY DEF SubmitIntent
  <2>3. \A o \in OperationIds :
          [NoWork EXCEPT !.phase = "queued", !.key = outbox[o].key,
                         !.attempt = outbox[o].attempts + 1] \in WorkItem
    BY <2>2 DEF NoWork, WorkItem, Phase
  <2>4. work' \in [Instances -> [OperationIds -> WorkItem]]
    BY <1>0, <1>8, <2>3 DEF Claim
  <2> QED BY <1>8, <2>1, <2>4 DEF Claim
<1>9. ASSUME NEW i \in Instances, NEW rows \in SUBSET OperationIds, ClaimLost(i, rows)
      PROVE  TypeOK'
  <2>1. outbox' \in [OperationIds -> SubmitIntent]
    BY <1>9, OutboxRowsTyped DEF ClaimLost
  <2> QED BY <1>9, <2>1, SettingsAssumption DEF ClaimLost, Disrupt
<1>10. ASSUME NEW i \in Instances, EmptyPoll(i) PROVE TypeOK'
  BY <1>10 DEF EmptyPoll
<1>11. ASSUME NEW i \in Instances, NEW o \in OperationIds, StartCall(i, o) PROVE TypeOK'
  <2>1. work' \in [Instances -> [OperationIds -> WorkItem]]
    BY <1>11, SetPhaseTyped DEF StartCall, Phase
  <2>2. requests' \subseteq Request
    BY <1>11 DEF StartCall, RequestOf, Request, DeliveryInv, OneKeyPerOperation
  <2> QED BY <1>11, <2>1, <2>2 DEF StartCall
<1>12. ASSUME NEW i \in Instances, NEW o \in OperationIds, Answer(i, o) PROVE TypeOK'
  <2>1. work' \in [Instances -> [OperationIds -> WorkItem]]
    <3>1. CASE CallUnavailable(i, o) \/ CallRejected(i, o)
      BY <3>1, SetPhaseTyped DEF CallUnavailable, CallRejected, Phase, Outcome
    <3>2. CASE CallAccepted(i, o)
      <4>1. PICK p \in payments :
              work' = [work EXCEPT ![i][o] = [@ EXCEPT !.phase = "accepted", !.payment = p.id]]
        BY <3>2 DEF CallAccepted
      <4>2. [work[i][o] EXCEPT !.phase = "accepted", !.payment = p.id] \in WorkItem
        <5>1. p.id \in PaymentIds \cup {Null} /\ work[i][o] \in WorkItem
          BY DEF Payment
        <5>2. "accepted" \in Phase
          BY DEF Phase, Outcome
        <5> QED BY <5>1, <5>2 DEF WorkItem
      <4>3. [work[i] EXCEPT ![o] = [work[i][o] EXCEPT !.phase = "accepted", !.payment = p.id]]
              \in [OperationIds -> WorkItem]
        BY <4>2
      <4> QED BY <4>1, <4>3
    <3> QED BY <1>12, <3>1, <3>2 DEF Answer
  <2> QED BY <1>12, <2>1 DEF Answer, CallAccepted, CallUnavailable, CallRejected
<1>13. ASSUME NEW i \in Instances, NEW o \in OperationIds, OnAccepted(i, o) PROVE TypeOK'
  <2> DEFINE p == work[i][o].payment
             linked == LinkProviderPayment(operations, o, p)
  <2>1. p \in PaymentIds
    BY <1>13 DEF OnAccepted, RecordAcceptance, DeliveryInv, WorkIsGenuine, PaymentsOf, Payment
  <2>2. linked \in [OperationIds -> Operation]
    BY <2>1, OperationsTyped
  <2>3. operations[o].status \in OperationStatus
    BY <1>13 DEF OnAccepted, RecordAcceptance, DeliveryInv, WorkIsGenuine, Operation
  <2>3a. StatusRead(o) \subseteq OperationStatus
    BY <2>3 DEF StatusRead, OperationStatus
  <2>4. events' \in [OperationIds -> Seq(Event)]
    <3>1. PICK s \in StatusRead(o) : events' = AppendEvent(events, o, "PROVIDER_ACCEPTED", s, s)
      BY <1>13 DEF OnAccepted, RecordAcceptance
    <3> QED BY <2>3a, <3>1, EventsTyped DEF EventType
  <2>5. outbox' \in [OperationIds -> SubmitIntent]
    BY <1>13, OutboxTyped DEF OnAccepted, RecordAcceptance, ErrorClass
  <2>6. work' \in [Instances -> [OperationIds -> WorkItem]]
    BY <1>13, FinishTyped DEF OnAccepted, RecordAcceptance
  <2>7. /\ claimed' \in [Instances -> SUBSET OperationIds]
        /\ disruptions' \in 0 .. MaxDisruptions
    BY <1>13, AcknowledgedTyped DEF OnAccepted, RecordAcceptance
  <2> QED BY <1>13, <2>2, <2>4, <2>5, <2>6, <2>7 DEF OnAccepted, RecordAcceptance
<1>14. ASSUME NEW i \in Instances, NEW o \in OperationIds, OnFailure(i, o) PROVE TypeOK'
  <2>1. outbox' \in [OperationIds -> SubmitIntent]
    <3>1. work[i][o].phase \in ErrorClass
      BY <1>14 DEF OnFailure, RecordFailure, ErrorClass
    <3> QED BY <1>14, <3>1, OutboxTyped DEF OnFailure, RecordFailure
  <2>2. events' \in [OperationIds -> Seq(Event)]
    BY <1>14, EventsTyped DEF OnFailure, RecordFailure, EventType, OperationStatus
  <2>3. work' \in [Instances -> [OperationIds -> WorkItem]]
    BY <1>14, FinishTyped DEF OnFailure, RecordFailure
  <2>4. /\ claimed' \in [Instances -> SUBSET OperationIds]
        /\ disruptions' \in 0 .. MaxDisruptions
    BY <1>14, AcknowledgedTyped DEF OnFailure, RecordFailure
  <2> QED BY <1>14, <2>1, <2>2, <2>3, <2>4 DEF OnFailure, RecordFailure
<1>15. ASSUME NEW i \in Instances, NEW o \in OperationIds, ResultNotRecorded(i, o)
       PROVE  TypeOK'
  <2>1. work' \in [Instances -> [OperationIds -> WorkItem]]
    BY <1>15, FinishTyped DEF ResultNotRecorded
  <2> QED BY <1>15, <2>1, SettingsAssumption DEF ResultNotRecorded, Disrupt
<1>16. ASSUME NEW i \in Instances, Live(i) PROVE TypeOK'
  <2> USE SettingsAssumption DEF Disrupt, ProcState
  <2>0. [o \in OperationIds |-> NoWork] \in [OperationIds -> WorkItem]
    BY <1>0
  <2>1. CASE Boot(i) \/ RequestStop(i) \/ RecoveryGivesUp(i)
    <3>1. proc' \in [Instances -> ProcState]
      BY <2>1 DEF Boot, RequestStop, RecoveryGivesUp
    <3>2. disruptions' \in 0 .. MaxDisruptions
      BY <2>1 DEF Boot, RequestStop, RecoveryGivesUp
    <3> QED BY <2>1, <3>1, <3>2 DEF Boot, RequestStop, RecoveryGivesUp
  <2>2. CASE Recover(i)
    <3>1. outbox' \in [OperationIds -> SubmitIntent]
      BY <2>2, OutboxRowsTyped DEF Recover, ResumeUnfinished
    <3>2. \A o \in OperationIds :
            AppendEvent(events, o, "RECOVERY_RESUMED", "PROCESSING", "PROCESSING")[o]
              \in Seq(Event)
      BY EventsTyped DEF EventType, OperationStatus
    <3>3. events' \in [OperationIds -> Seq(Event)]
      BY <2>2, <3>2 DEF Recover, ResumeUnfinished
    <3> QED BY <2>2, <3>1, <3>3 DEF Recover, ResumeUnfinished
  <2>3. CASE GraceExpires(i) \/ Crash(i)
    <3>1. proc' \in [Instances -> ProcState]
      BY <2>3 DEF GraceExpires, Crash
    <3>2. disruptions' \in 0 .. MaxDisruptions
      BY <2>3 DEF GraceExpires, Crash
    <3>3. work' \in [Instances -> [OperationIds -> WorkItem]]
      BY <2>0, <2>3 DEF GraceExpires, Crash
    <3>4. claimed' \in [Instances -> SUBSET OperationIds]
      BY <2>3 DEF GraceExpires, Crash
    <3> QED BY <2>3, <3>1, <3>2, <3>3, <3>4 DEF GraceExpires, Crash
  <2>4. CASE ReleaseClaimed(i)
    <3>1. outbox' \in [OperationIds -> SubmitIntent]
      BY <2>4, OutboxRowsTyped DEF ReleaseClaimed
    <3> QED BY <2>4, <3>1 DEF ReleaseClaimed
  <2>5. CASE ReleaseFailed(i)
    BY <2>5 DEF ReleaseFailed
  <2> QED BY <1>16, <2>1, <2>2, <2>3, <2>4, <2>5 DEF Live
<1>17. CASE UNCHANGED vars
  BY <1>17
<1> QED BY <1>1, <1>2, <1>4, <1>5, <1>6, <1>7, <1>8, <1>9, <1>10, <1>11, <1>12, <1>13,
           <1>14, <1>15, <1>16, <1>17
        DEF Next, Environment, Deliver, Record
-----------------------------------------------------------------------------
(* One key, one payment *)

\* The same operations have an intent in both tables, under the same keys.
SameIntents(ob, new) ==
    \A o \in OperationIds :
        /\ new[o].key = ob[o].key
        /\ new[o].state = Absent <=> ob[o].state = Absent

\* The same operations have been submitted in both tables.
SameSubmitted(ops, new) ==
    \A o \in OperationIds :
        new[o].status \in {Absent, "CREATED"} <=> ops[o].status \in {Absent, "CREATED"}

\* Every batch is what it was, but for items that are finished.
OnlyFinished(before, after) ==
    \A i \in Instances, o \in OperationIds :
        after[i][o] = before[i][o] \/ after[i][o].phase = "none"

\* Recording the result of a delivery neither adds an intent nor changes a key.
LEMMA IntentKept ==
    ASSUME NEW ob \in [OperationIds -> SubmitIntent], NEW o \in OperationIds, NEW class
    PROVE  /\ ob[o].state # Absent => SameIntents(ob, MarkDone(ob, o))
           /\ SameIntents(ob, Reschedule(ob, o, class))
           /\ SameIntents(ob, MarkFailed(ob, o, class))
BY DEF SameIntents, Absent, SubmitIntent, MarkDone, Reschedule, MarkFailed

\* Nor do claiming, releasing and recovering intents.
LEMMA IntentsKept ==
    ASSUME NEW ob \in [OperationIds -> SubmitIntent], NEW rows, NEW ops
    PROVE  /\ rows \subseteq Due(ob) => SameIntents(ob, ClaimDue(ob, rows))
           /\ SameIntents(ob, ReleaseForRetry(ob, rows))
           /\ SameIntents(ob, ReleaseAllInFlight(ob))
           /\ SameIntents(ob, ReviveFailed(ob, ops))
<1> USE DEF SameIntents, Absent, SubmitIntent
<1>1. rows \subseteq Due(ob) => SameIntents(ob, ClaimDue(ob, rows))
  BY DEF ClaimDue, Due
<1>2. SameIntents(ob, ReleaseForRetry(ob, rows)) /\ SameIntents(ob, ReleaseAllInFlight(ob))
  BY DEF ReleaseForRetry, ReleaseAllInFlight, Released
<1>3. SameIntents(ob, ReviveFailed(ob, ops))
  BY DEF ReviveFailed
<1> QED BY <1>1, <1>2, <1>3

\* Creating, linking and finalizing do not submit an operation or undo that.
LEMMA SubmittedKept ==
    ASSUME NEW ops \in [OperationIds -> Operation], NEW o \in OperationIds
    PROVE  /\ ops[o].status = Absent => SameSubmitted(ops, CreateOperation(ops, o))
           /\ \A p : SameSubmitted(ops, LinkProviderPayment(ops, o, p))
           /\ \A s \in TerminalStatuses : SameSubmitted(ops, TryFinalize(ops, o, s))
BY DEF SameSubmitted, CreateOperation, LinkProviderPayment, TryFinalize, TerminalStatuses,
       Operation, Absent

\* A step that adds no intent, submits nothing, starts no delivery and leaves
\* the provider alone keeps the keys of all deliveries.
LEMMA DeliveryInvFrame ==
    ASSUME TypeOK, DeliveryInv,
           SameIntents(outbox, outbox'), SameSubmitted(operations, operations'),
           OnlyFinished(work, work'), UNCHANGED provider
    PROVE  DeliveryInv'
<1> USE DEF DeliveryInv, SameIntents, OnlyFinished, provider
<1>1. OneKeyPerOperation'
  BY DEF OneKeyPerOperation
<1>2. WorkIsGenuine'
  BY DEF WorkIsGenuine, SameSubmitted, PaymentsOf
<1> QED BY <1>1, <1>2

\* Ending a delivery changes nothing in a batch but that delivery.
LEMMA Finishes ==
    ASSUME TypeOK, NEW i \in Instances, NEW o \in OperationIds, Finish(i, o)
    PROVE  OnlyFinished(work, work')
BY DEF Finish, OnlyFinished, TypeOK, ProcessTypeOK, NoWork

\* No step gives an operation a second key, in the outbox, in memory or at the
\* provider, and none delivers for an operation that was not submitted.
LEMMA DeliveryInvPreserved ==
    ASSUME TypeOK, DeliveryInv, [Next]_vars
    PROVE  DeliveryInv'
<1> USE DEF tables, provider, process, vars
<1>0. /\ operations \in [OperationIds -> Operation]
      /\ outbox \in [OperationIds -> SubmitIntent]
  BY DEF TypeOK, TablesTypeOK
<1>a. UNCHANGED outbox => SameIntents(outbox, outbox')
  BY DEF SameIntents
<1>b. UNCHANGED operations => SameSubmitted(operations, operations')
  BY DEF SameSubmitted
<1>c. UNCHANGED work => OnlyFinished(work, work')
  BY DEF OnlyFinished
<1>1. ASSUME NEW o \in OperationIds, ClientCreates(o) PROVE DeliveryInv'
  BY <1>1, <1>0, <1>a, <1>c, SubmittedKept, DeliveryInvFrame
     DEF ClientCreates, CreateOperationRequest
<1>2. ASSUME NEW o \in OperationIds, ClientSubmits(o) PROVE DeliveryInv'
  <2> USE DEF ClientSubmits, SubmitOperation, DeliveryInv
  <2>1. OneKeyPerOperation'
    BY <1>0, <1>2 DEF OneKeyPerOperation, CreateIntent, NoIntent, SubmitIntent, Absent
  <2>2. /\ outbox[o].state = Absent
        /\ outbox'[o].state = "PENDING" /\ operations'[o].status = "PROCESSING"
        /\ \A other \in OperationIds \ {o} :
            outbox'[other] = outbox[other] /\ operations'[other] = operations[other]
    BY <1>0, <1>2
       DEF WorkIsGenuine, CreateIntent, NoIntent, SubmitIntent, Operation, TryBeginProcessing,
           CanBeginProcessing
  <2>3. WorkIsGenuine'
    BY <1>2, <2>2 DEF WorkIsGenuine, PaymentsOf, Absent
  <2> QED BY <2>1, <2>3
<1>3. ASSUME NEW o \in OperationIds, NEW p \in PaymentIds, NEW result \in ReceiptResult,
             ProcessReceipt(o, p, result), UNCHANGED <<provider, process, disruptions>>
      PROVE  DeliveryInv'
  <2>1. CASE ApplyReceipt(o, p, result)
    <3> DEFINE linked == LinkProviderPayment(operations, o, p)
    <3>1. outbox[o].state # Absent
      BY <2>1 DEF ApplyReceipt, CanApply, DeliveryInv, WorkIsGenuine, Absent
    <3>2. SameIntents(outbox, outbox')
      BY <1>0, <2>1, <3>1, IntentKept DEF ApplyReceipt
    <3>3. linked \in [OperationIds -> Operation] /\ SameSubmitted(operations, linked)
      BY <1>0, OperationsTyped, SubmittedKept
    <3>4. SameSubmitted(linked, TryFinalize(linked, o, ResultToStatus(result)))
      BY <3>3, SubmittedKept DEF ResultToStatus, TerminalStatuses, ReceiptResult
    <3>5. SameSubmitted(operations, operations')
      BY <2>1, <3>3, <3>4 DEF ApplyReceipt, SameSubmitted
    <3> QED BY <1>3, <1>c, <3>2, <3>5, DeliveryInvFrame
  <2>2. CASE IgnoreReceipt(o, p, result)
    BY <1>3, <1>a, <1>b, <1>c, <2>2, DeliveryInvFrame DEF IgnoreReceipt
  <2> QED BY <1>3, <2>1, <2>2 DEF ProcessReceipt
<1>4. ASSUME NEW o \in OperationIds, ProviderReports(o) PROVE DeliveryInv'
  BY <1>3, <1>4 DEF ProviderReports, PaymentsOf, Payment, TypeOK, ProviderTypeOK
<1>5. ASSUME NEW o \in OperationIds, StrayReceipt(o) PROVE DeliveryInv'
  BY <1>3, <1>5, StrayReceiptsAssumption DEF StrayReceipt
<1>6. ASSUME NEW id \in PaymentIds, ProviderCreates(id) PROVE DeliveryInv'
  <2> USE DEF ProviderCreates, CreatePayment, DeliveryInv
  <2>1. OneKeyPerOperation'
    BY <1>6 DEF OneKeyPerOperation
  <2>2. WorkIsGenuine'
    BY <1>6 DEF WorkIsGenuine, PaymentsOf
  <2> QED BY <2>1, <2>2
<1>7. ASSUME NEW o \in OperationIds,
             BackoffElapses(o) \/ LeaseExpires(o) \/ LeaseOverrun(o)
      PROVE  DeliveryInv'
  <2>1. SameIntents(outbox, outbox')
    BY <1>0, <1>7
       DEF BackoffElapses, LeaseExpires, LeaseOverrun, SameIntents, SubmitIntent
  <2> QED BY <1>7, <1>b, <1>c, <2>1, DeliveryInvFrame
          DEF BackoffElapses, LeaseExpires, LeaseOverrun
<1>8. ASSUME NEW i \in Instances, NEW rows \in SUBSET OperationIds, Claim(i, rows)
      PROVE  DeliveryInv'
  <2> USE DEF DeliveryInv
  <2>1. SameIntents(outbox, outbox')
    BY <1>0, <1>8, IntentsKept DEF Claim, Claimable
  <2>2. \A o \in rows : outbox[o].state # Absent
    BY <1>8 DEF Claim, Claimable, Due, Absent
  <2>3. \A j \in Instances, o \in OperationIds :
          \/ work'[j][o] = work[j][o]
          \/ work'[j][o].phase = "none"
          \/ o \in rows /\ work'[j][o].phase = "queued" /\ work'[j][o].key = outbox[o].key
    BY <1>8 DEF Claim, NoWork, TypeOK, ProcessTypeOK
  <2>4. UNCHANGED <<operations, provider>>
    BY <1>8 DEF Claim
  <2>5. OneKeyPerOperation'
    BY <2>1, <2>2, <2>3, <2>4 DEF OneKeyPerOperation, SameIntents
  <2>6. WorkIsGenuine'
    BY <2>1, <2>2, <2>3, <2>4 DEF WorkIsGenuine, SameIntents, PaymentsOf
  <2> QED BY <2>5, <2>6
<1>9. ASSUME NEW i \in Instances, NEW rows \in SUBSET OperationIds, ClaimLost(i, rows)
      PROVE  DeliveryInv'
  <2>1. SameIntents(outbox, outbox')
    BY <1>0, <1>9, IntentsKept DEF ClaimLost, Claimable
  <2> QED BY <1>9, <1>b, <1>c, <2>1, DeliveryInvFrame DEF ClaimLost
<1>10. ASSUME NEW i \in Instances, EmptyPoll(i) PROVE DeliveryInv'
  BY <1>10, <1>a, <1>b, <1>c, DeliveryInvFrame DEF EmptyPoll
<1>11. ASSUME NEW i \in Instances, NEW o \in OperationIds, StartCall(i, o)
       PROVE  DeliveryInv'
  <2> USE DEF DeliveryInv
  <2>1. work[i][o].key = o
    BY <1>11 DEF StartCall, OneKeyPerOperation
  <2>2. \A j \in Instances, x \in OperationIds :
          \/ work'[j][x] = work[j][x]
          \/ /\ work[j][x].phase = "queued" /\ work'[j][x].phase = "calling"
             /\ work'[j][x].key = work[j][x].key
    BY <1>11 DEF StartCall, SetPhase, TypeOK, ProcessTypeOK, WorkItem
  <2>3. OneKeyPerOperation'
    BY <1>11, <2>1, <2>2 DEF StartCall, OneKeyPerOperation, RequestOf
  <2>4. WorkIsGenuine'
    BY <1>11, <2>2 DEF StartCall, WorkIsGenuine, PaymentsOf
  <2> QED BY <2>3, <2>4
<1>12. ASSUME NEW i \in Instances, NEW o \in OperationIds, Answer(i, o) PROVE DeliveryInv'
  <2> USE DEF DeliveryInv
  <2>1. \A j \in Instances, x \in OperationIds :
          \/ work'[j][x] = work[j][x]
          \/ /\ work[j][x].phase = "calling" /\ work'[j][x].phase # "none"
             /\ work'[j][x].key = work[j][x].key
             /\ work'[j][x].phase = "accepted" =>
                \E p \in payments : p.key = work[j][x].key /\ p.id = work'[j][x].payment
    <3> USE DEF TypeOK, ProcessTypeOK, WorkItem
    <3>1. CASE CallUnavailable(i, o) \/ CallRejected(i, o)
      <4>1. PICK phase \in {"unavailable", "rejected"} : SetPhase(i, o, phase)
        BY <3>1 DEF CallUnavailable, CallRejected
      <4>2. work[i][o].phase = "calling"
        BY <3>1 DEF CallUnavailable, CallRejected
      <4> QED BY <4>1, <4>2, SetPhaseEffect
    <3>2. CASE CallAccepted(i, o)
      <4>1. PICK p \in payments :
              /\ p.key = work[i][o].key
              /\ work' = [work EXCEPT ![i][o] =
                            [@ EXCEPT !.phase = "accepted", !.payment = p.id]]
        BY <3>2 DEF CallAccepted, RequestOf
      <4>2. work'[i][o] = [work[i][o] EXCEPT !.phase = "accepted", !.payment = p.id]
        BY <4>1
      <4>3. /\ work'[i][o].phase = "accepted" /\ work'[i][o].payment = p.id
            /\ work'[i][o].key = work[i][o].key
        BY <4>2
      <4>4. \A j \in Instances, x \in OperationIds :
              (j = i /\ x = o) \/ work'[j][x] = work[j][x]
        BY <4>1
      <4>5. work[i][o].phase = "calling"
        BY <3>2 DEF CallAccepted
      <4>6. /\ work'[i][o].phase # "none"
            /\ \E q \in payments : q.key = work[i][o].key /\ q.id = work'[i][o].payment
        BY <4>1, <4>3
      <4> QED BY ONLY <4>3, <4>4, <4>5, <4>6
    <3> QED BY <1>12, <3>1, <3>2 DEF Answer
  <2>2. UNCHANGED <<tables, provider>>
    BY <1>12 DEF Answer, CallAccepted, CallUnavailable, CallRejected
  <2>3. OneKeyPerOperation'
    BY <2>1, <2>2 DEF OneKeyPerOperation
  <2>4. WorkIsGenuine'
    BY <2>1, <2>2 DEF WorkIsGenuine, OneKeyPerOperation, PaymentsOf
  <2> QED BY <2>3, <2>4
<1>13. ASSUME NEW i \in Instances, NEW o \in OperationIds, OnAccepted(i, o)
       PROVE  DeliveryInv'
  <2>1. outbox[o].state # Absent
    BY <1>13 DEF OnAccepted, RecordAcceptance, DeliveryInv, WorkIsGenuine
  <2>2. SameIntents(outbox, outbox')
    BY <1>0, <1>13, <2>1, IntentKept DEF OnAccepted, RecordAcceptance
  <2>3. SameSubmitted(operations, operations')
    BY <1>0, <1>13, SubmittedKept DEF OnAccepted, RecordAcceptance
  <2> QED BY <1>13, <2>2, <2>3, Finishes, DeliveryInvFrame DEF OnAccepted, RecordAcceptance
<1>14. ASSUME NEW i \in Instances, NEW o \in OperationIds, OnFailure(i, o)
       PROVE  DeliveryInv'
  <2>1. SameIntents(outbox, outbox')
    BY <1>0, <1>14, IntentKept DEF OnFailure, RecordFailure
  <2> QED BY <1>14, <1>b, <2>1, Finishes, DeliveryInvFrame DEF OnFailure, RecordFailure
<1>15. ASSUME NEW i \in Instances, NEW o \in OperationIds, ResultNotRecorded(i, o)
       PROVE  DeliveryInv'
  BY <1>15, <1>a, <1>b, Finishes, DeliveryInvFrame DEF ResultNotRecorded
<1>16. ASSUME NEW i \in Instances, Live(i) PROVE DeliveryInv'
  <2>1. CASE Boot(i) \/ RequestStop(i) \/ RecoveryGivesUp(i) \/ ReleaseFailed(i)
    BY <2>1, <1>a, <1>b, <1>c, DeliveryInvFrame
       DEF Boot, RequestStop, RecoveryGivesUp, ReleaseFailed
  <2>2. CASE Recover(i)
    <3> DEFINE released == ReleaseAllInFlight(outbox)
    <3>1. released \in [OperationIds -> SubmitIntent] /\ SameIntents(outbox, released)
      BY <1>0, OutboxRowsTyped, IntentsKept
    <3>2. SameIntents(released, ReviveFailed(released, operations))
      BY <3>1, IntentsKept
    <3>3. SameIntents(outbox, outbox')
      BY <2>2, <3>1, <3>2 DEF Recover, ResumeUnfinished, SameIntents
    <3> QED BY <2>2, <1>b, <1>c, <3>3, DeliveryInvFrame DEF Recover, ResumeUnfinished
  <2>3. CASE GraceExpires(i) \/ Crash(i)
    <3>1. OnlyFinished(work, work')
      BY <2>3 DEF GraceExpires, Crash, OnlyFinished, NoWork, TypeOK, ProcessTypeOK
    <3> QED BY <2>3, <1>a, <1>b, <3>1, DeliveryInvFrame DEF GraceExpires, Crash
  <2>4. CASE ReleaseClaimed(i)
    <3>1. SameIntents(outbox, outbox')
      BY <1>0, <2>4, IntentsKept DEF ReleaseClaimed
    <3> QED BY <2>4, <1>b, <1>c, <3>1, DeliveryInvFrame DEF ReleaseClaimed
  <2> QED BY <1>16, <2>1, <2>2, <2>3, <2>4 DEF Live
<1>17. CASE UNCHANGED vars
  BY <1>17, <1>a, <1>b, <1>c, DeliveryInvFrame
<1> QED BY <1>1, <1>2, <1>4, <1>5, <1>6, <1>7, <1>8, <1>9, <1>10, <1>11, <1>12, <1>13,
           <1>14, <1>15, <1>16, <1>17
        DEF Next, Environment, Deliver, Record

-----------------------------------------------------------------------------
(* What is settled stays settled *)

\* An operation is not linked before it is submitted.
NoEarlyLink ==
    \A o \in OperationIds :
        operations[o].status \in {Absent, "CREATED"} => operations[o].payment = Null

SettledInv == AppliedReceiptDecides /\ TerminalClosesIntent /\ NoEarlyLink

\* The step of NothingIsUndone.
Forward ==
    \A o \in OperationIds :
        /\ operations[o].status \in TerminalStatuses =>
            operations'[o].status = operations[o].status
        /\ operations[o].payment # Null =>
            operations'[o].payment = operations[o].payment
        /\ outbox[o].state = "DONE" => outbox'[o].state = "DONE"

DoneKept(ob, new) ==
    \A o \in OperationIds : ob[o].state = "DONE" => new[o].state = "DONE"

\* No write to one outbox row reopens a closed intent.
LEMMA IntentDoneKept ==
    ASSUME NEW ob \in [OperationIds -> SubmitIntent], NEW o \in OperationIds, NEW class
    PROVE  /\ DoneKept(ob, CreateIntent(ob, o, o))
           /\ DoneKept(ob, MarkDone(ob, o)) /\ MarkDone(ob, o)[o].state = "DONE"
           /\ DoneKept(ob, Reschedule(ob, o, class))
           /\ DoneKept(ob, MarkFailed(ob, o, class))
BY DEF DoneKept, CreateIntent, NoIntent, MarkDone, Reschedule, MarkFailed, SubmitIntent, Absent

\* Claiming, releasing, recovering and reviving leave closed intents closed.
LEMMA IntentsDoneKept ==
    ASSUME NEW ob \in [OperationIds -> SubmitIntent], NEW rows, NEW ops
    PROVE  /\ rows \subseteq Due(ob) => DoneKept(ob, ClaimDue(ob, rows))
           /\ DoneKept(ob, ReleaseForRetry(ob, rows))
           /\ DoneKept(ob, ReleaseAllInFlight(ob))
           /\ DoneKept(ob, ReviveFailed(ob, ops))
<1> USE DEF DoneKept, SubmitIntent
<1>1. rows \subseteq Due(ob) => DoneKept(ob, ClaimDue(ob, rows))
  BY DEF ClaimDue, Due
<1>2. DoneKept(ob, ReleaseForRetry(ob, rows)) /\ DoneKept(ob, ReleaseAllInFlight(ob))
  BY DEF ReleaseForRetry, ReleaseAllInFlight, Released
<1>3. DoneKept(ob, ReviveFailed(ob, ops))
  BY DEF ReviveFailed
<1> QED BY <1>1, <1>2, <1>3

\* A step that leaves operations and receipts alone and reopens no intent.
LEMMA SettledFrame ==
    ASSUME TypeOK, SettledInv, UNCHANGED <<operations, receipts>>, DoneKept(outbox, outbox')
    PROVE  SettledInv' /\ Forward
<1>1. AppliedReceiptDecides'
  BY DEF SettledInv, AppliedReceiptDecides
<1>2. TerminalClosesIntent' /\ NoEarlyLink' /\ Forward
  BY DEF SettledInv, TerminalClosesIntent, NoEarlyLink, Forward, DoneKept
<1> QED BY <1>1, <1>2 DEF SettledInv

\* A step that leaves the receipts alone and changes one operation, which is
\* not final before or after it.
LEMMA UnsettledFrame ==
    ASSUME TypeOK, SettledInv, NEW o \in OperationIds, UNCHANGED receipts,
           DoneKept(outbox, outbox'),
           \A x \in OperationIds \ {o} : operations'[x] = operations[x],
           operations[o].status \notin TerminalStatuses,
           operations'[o].status \notin TerminalStatuses,
           operations[o].payment \in {Null, operations'[o].payment},
           operations'[o].status \in {Absent, "CREATED"} => operations'[o].payment = Null
    PROVE  SettledInv' /\ Forward
<1>1. AppliedReceiptDecides'
  BY DEF SettledInv, AppliedReceiptDecides
<1>2. TerminalClosesIntent' /\ NoEarlyLink' /\ Forward
  BY DEF SettledInv, TerminalClosesIntent, NoEarlyLink, Forward, DoneKept
<1> QED BY <1>1, <1>2 DEF SettledInv

\* Nothing is settled in empty tables.
LEMMA SettledInitially == Init => SettledInv
BY NullAssumption
   DEF Init, TablesInit, SettledInv, AppliedReceiptDecides, TerminalClosesIntent, NoEarlyLink,
       NoOperation, NoIntent, Absent, TerminalStatuses

\* Every step keeps the settled invariant and takes nothing settled back.
LEMMA SettledPreserved ==
    ASSUME TypeOK, DeliveryInv, SettledInv, [Next]_vars
    PROVE  SettledInv' /\ Forward
<1> USE DEF tables, provider, process, vars
<1>0. /\ operations \in [OperationIds -> Operation]
      /\ outbox \in [OperationIds -> SubmitIntent]
      /\ receipts \in SUBSET Receipt
  BY DEF TypeOK, TablesTypeOK
<1>a. UNCHANGED outbox => DoneKept(outbox, outbox')
  BY DEF DoneKept
<1>1. ASSUME NEW o \in OperationIds, ClientCreates(o) PROVE SettledInv' /\ Forward
  <2>1. operations' = [operations EXCEPT ![o] = [status |-> "CREATED", payment |-> Null]]
    BY <1>1 DEF ClientCreates, CreateOperationRequest, CreateOperation
  <2>2. operations[o].status = Absent /\ operations[o].payment = Null
    BY <1>1 DEF ClientCreates, CreateOperationRequest, SettledInv, NoEarlyLink
  <2>3. UNCHANGED <<outbox, receipts>>
    BY <1>1 DEF ClientCreates, CreateOperationRequest
  <2> QED BY <1>0, <1>a, <2>1, <2>2, <2>3, UnsettledFrame DEF TerminalStatuses, Absent
<1>2. ASSUME NEW o \in OperationIds, ClientSubmits(o) PROVE SettledInv' /\ Forward
  <2>1. /\ operations[o].status = "CREATED"
        /\ operations' = [operations EXCEPT ![o].status = "PROCESSING"]
    BY <1>2 DEF ClientSubmits, SubmitOperation, TryBeginProcessing, CanBeginProcessing
  <2>2. UNCHANGED receipts /\ DoneKept(outbox, outbox')
    BY <1>0, <1>2, IntentDoneKept DEF ClientSubmits, SubmitOperation
  <2>3. /\ operations'[o].status = "PROCESSING"
        /\ operations'[o].payment = operations[o].payment
        /\ \A x \in OperationIds \ {o} : operations'[x] = operations[x]
    BY <1>0, <2>1 DEF Operation
  <2> QED BY <2>1, <2>2, <2>3, UnsettledFrame DEF TerminalStatuses, Absent
<1>3. ASSUME NEW o \in OperationIds, NEW p \in PaymentIds, NEW result \in ReceiptResult,
             ProcessReceipt(o, p, result)
      PROVE  SettledInv' /\ Forward
  <2>1. CASE ApplyReceipt(o, p, result)
    <3> DEFINE new == [op |-> o, payment |-> p, result |-> result,
                       applied |-> TRUE, reason |-> "none"]
    <3>1. /\ operations[o].status = "PROCESSING"
          /\ operations[o].payment \in {Null, p}
          /\ receipts' = receipts \cup {new}
      BY <2>1 DEF ApplyReceipt, CanApply, Admissible, RecordReceipt
    <3>2. /\ operations'[o].status = ResultToStatus(result)
          /\ operations'[o].payment = p
          /\ \A x \in OperationIds \ {o} : operations'[x] = operations[x]
      BY <1>0, <2>1, <3>1, NullAssumption
         DEF ApplyReceipt, LinkProviderPayment, TryFinalize, Operation
    <3>3. ResultToStatus(result) \in TerminalStatuses
      BY DEF ResultToStatus, TerminalStatuses, ReceiptResult
    <3>4. DoneKept(outbox, outbox') /\ outbox'[o].state = "DONE"
      BY <1>0, <2>1, IntentDoneKept DEF ApplyReceipt
    <3>5. {r \in receipts : r.op = o /\ r.applied} = {}
      BY <3>1 DEF SettledInv, AppliedReceiptDecides, TerminalStatuses
    <3>6. {r \in receipts' : r.op = o /\ r.applied} = {new}
      BY <3>1, <3>5
    <3>7. \A x \in OperationIds \ {o} :
            {r \in receipts' : r.op = x /\ r.applied} = {r \in receipts : r.op = x /\ r.applied}
      BY <3>1
    <3>8. AppliedReceiptDecides'
      <4> SUFFICES ASSUME NEW x \in OperationIds
                   PROVE  LET applied == {r \in receipts' : r.op = x /\ r.applied} IN
                          /\ operations'[x].status \in TerminalStatuses <=> applied # {}
                          /\ \A r \in applied :
                              /\ operations'[x].status = ResultToStatus(r.result)
                              /\ operations'[x].payment = r.payment
                              /\ applied = {r}
        BY DEF AppliedReceiptDecides
      <4>1. CASE x = o
        <5>1. new.result = result /\ new.payment = p
          OBVIOUS
        <5>2. {r \in receipts' : r.op = x /\ r.applied} = {new}
          BY <3>6, <4>1
        <5> HIDE DEF new
        <5> QED BY <3>2, <3>3, <4>1, <5>1, <5>2
      <4>2. CASE x # o
        BY <3>2, <3>7, <4>2 DEF SettledInv, AppliedReceiptDecides
      <4> QED BY <4>1, <4>2
    <3>9. TerminalClosesIntent'
      BY <3>2, <3>4 DEF SettledInv, TerminalClosesIntent, DoneKept
    <3>10. NoEarlyLink'
      BY <3>2, <3>3 DEF SettledInv, NoEarlyLink, TerminalStatuses, Absent
    <3>11. Forward
      BY <3>1, <3>2, <3>4 DEF Forward, DoneKept, TerminalStatuses
    <3> QED BY <3>8, <3>9, <3>10, <3>11 DEF SettledInv
  <2>2. CASE IgnoreReceipt(o, p, result)
    <3>1. /\ UNCHANGED <<operations, outbox>>
          /\ \E reason : receipts' = receipts \cup
                {[op |-> o, payment |-> p, result |-> result,
                  applied |-> FALSE, reason |-> reason]}
      BY <2>2 DEF IgnoreReceipt, RecordReceipt
    <3>2. \A x \in OperationIds :
            {r \in receipts' : r.op = x /\ r.applied} = {r \in receipts : r.op = x /\ r.applied}
      BY <3>1
    <3>3. AppliedReceiptDecides'
      BY <3>1, <3>2 DEF SettledInv, AppliedReceiptDecides
    <3>4. TerminalClosesIntent' /\ NoEarlyLink' /\ Forward
      BY <3>1 DEF SettledInv, TerminalClosesIntent, NoEarlyLink, Forward
    <3> QED BY <3>3, <3>4 DEF SettledInv
  <2> QED BY <1>3, <2>1, <2>2 DEF ProcessReceipt
<1>4. ASSUME NEW o \in OperationIds, ProviderReports(o) PROVE SettledInv' /\ Forward
  BY <1>3, <1>4 DEF ProviderReports, PaymentsOf, Payment, TypeOK, ProviderTypeOK
<1>5. ASSUME NEW o \in OperationIds, StrayReceipt(o) PROVE SettledInv' /\ Forward
  BY <1>3, <1>5, StrayReceiptsAssumption DEF StrayReceipt
<1>6. ASSUME NEW id \in PaymentIds, ProviderCreates(id) PROVE SettledInv' /\ Forward
  BY <1>6, <1>a, SettledFrame DEF ProviderCreates
<1>7. ASSUME NEW o \in OperationIds,
             BackoffElapses(o) \/ LeaseExpires(o) \/ LeaseOverrun(o)
      PROVE  SettledInv' /\ Forward
  <2>1. DoneKept(outbox, outbox')
    BY <1>0, <1>7 DEF BackoffElapses, LeaseExpires, LeaseOverrun, DoneKept, SubmitIntent
  <2> QED BY <1>7, <2>1, SettledFrame DEF BackoffElapses, LeaseExpires, LeaseOverrun
<1>8. ASSUME NEW i \in Instances, NEW rows \in SUBSET OperationIds,
             Claim(i, rows) \/ ClaimLost(i, rows)
      PROVE  SettledInv' /\ Forward
  <2>1. DoneKept(outbox, outbox')
    BY <1>0, <1>8, IntentsDoneKept DEF Claim, ClaimLost, Claimable
  <2> QED BY <1>8, <2>1, SettledFrame DEF Claim, ClaimLost
<1>9. ASSUME NEW i \in Instances, NEW o \in OperationIds,
             StartCall(i, o) \/ Answer(i, o) \/ ResultNotRecorded(i, o)
      PROVE  SettledInv' /\ Forward
  BY <1>9, <1>a, SettledFrame
     DEF StartCall, Answer, CallAccepted, CallUnavailable, CallRejected, ResultNotRecorded
<1>10. ASSUME NEW i \in Instances, EmptyPoll(i) PROVE SettledInv' /\ Forward
  BY <1>10, <1>a, SettledFrame DEF EmptyPoll
<1>11. ASSUME NEW i \in Instances, NEW o \in OperationIds, OnAccepted(i, o)
       PROVE  SettledInv' /\ Forward
  <2> DEFINE p == work[i][o].payment
  <2>1. /\ operations' = LinkProviderPayment(operations, o, p)
        /\ UNCHANGED receipts
        /\ DoneKept(outbox, outbox')
    BY <1>0, <1>11, IntentDoneKept DEF OnAccepted, RecordAcceptance
  <2>2. CASE operations[o].payment # Null
    BY <1>0, <2>1, <2>2, SettledFrame DEF LinkProviderPayment
  <2>3. CASE operations[o].payment = Null
    <3>1. /\ operations'[o].status = operations[o].status
          /\ \A x \in OperationIds \ {o} : operations'[x] = operations[x]
      BY <1>0, <2>1, <2>3 DEF LinkProviderPayment, Operation
    <3>2. operations[o].status \notin TerminalStatuses
      BY <1>0, <2>3, NullAssumption DEF SettledInv, AppliedReceiptDecides, Receipt
    <3>3. operations[o].status \notin {Absent, "CREATED"}
      BY <1>11 DEF OnAccepted, RecordAcceptance, DeliveryInv, WorkIsGenuine
    <3> QED BY <2>1, <2>3, <3>1, <3>2, <3>3, UnsettledFrame
  <2> QED BY <2>2, <2>3
<1>12. ASSUME NEW i \in Instances, NEW o \in OperationIds, OnFailure(i, o)
       PROVE  SettledInv' /\ Forward
  <2>1. DoneKept(outbox, outbox')
    BY <1>0, <1>12, IntentDoneKept DEF OnFailure, RecordFailure
  <2> QED BY <1>12, <2>1, SettledFrame DEF OnFailure, RecordFailure
<1>13. ASSUME NEW i \in Instances, Live(i) PROVE SettledInv' /\ Forward
  <2>1. CASE \/ Boot(i) \/ RequestStop(i) \/ RecoveryGivesUp(i)
             \/ ReleaseFailed(i) \/ GraceExpires(i) \/ Crash(i)
    BY <2>1, <1>a, SettledFrame
       DEF Boot, RequestStop, RecoveryGivesUp, ReleaseFailed, GraceExpires, Crash
  <2>2. CASE Recover(i)
    <3> DEFINE released == ReleaseAllInFlight(outbox)
    <3>1. released \in [OperationIds -> SubmitIntent] /\ DoneKept(outbox, released)
      BY <1>0, OutboxRowsTyped, IntentsDoneKept
    <3>2. DoneKept(released, ReviveFailed(released, operations))
      BY <3>1, IntentsDoneKept
    <3>3. DoneKept(outbox, outbox')
      BY <2>2, <3>1, <3>2 DEF Recover, ResumeUnfinished, DoneKept
    <3> QED BY <2>2, <3>3, SettledFrame DEF Recover, ResumeUnfinished
  <2>3. CASE ReleaseClaimed(i)
    BY <1>0, <2>3, IntentsDoneKept, SettledFrame DEF ReleaseClaimed
  <2> QED BY <1>13, <2>1, <2>2, <2>3 DEF Live
<1>14. CASE UNCHANGED vars
  BY <1>14, <1>a, SettledFrame
<1> QED BY <1>1, <1>2, <1>4, <1>5, <1>6, <1>7, <1>8, <1>9, <1>10, <1>11, <1>12, <1>13, <1>14
        DEF Next, Environment, Deliver, Record

-----------------------------------------------------------------------------
(* Leases *)

\* InFlightIffLeased, of any state of the outbox.
Leased(ob) == \A o \in OperationIds : ob[o].state = "IN_FLIGHT" <=> ob[o].lease # "null"

\* A write to one row gives or keeps a lease exactly when it leaves the row in flight.
LEMMA IntentLeased ==
    ASSUME NEW ob \in [OperationIds -> SubmitIntent], Leased(ob),
           NEW o \in OperationIds, NEW class
    PROVE  /\ Leased(CreateIntent(ob, o, o))
           /\ Leased(MarkDone(ob, o))
           /\ Leased(Reschedule(ob, o, class))
           /\ Leased(MarkFailed(ob, o, class))
BY DEF Leased, SubmitIntent, CreateIntent, NoIntent, MarkDone, Reschedule, MarkFailed

\* So do claiming, releasing, recovering and reviving.
LEMMA IntentsLeased ==
    ASSUME NEW ob \in [OperationIds -> SubmitIntent], Leased(ob), NEW rows, NEW ops
    PROVE  /\ Leased(ClaimDue(ob, rows))
           /\ Leased(ReleaseForRetry(ob, rows))
           /\ Leased(ReleaseAllInFlight(ob))
           /\ Leased(ReviveFailed(ob, ops))
<1> USE DEF Leased, SubmitIntent
<1>1. Leased(ClaimDue(ob, rows))
  BY DEF ClaimDue
<1>2. Leased(ReleaseForRetry(ob, rows)) /\ Leased(ReleaseAllInFlight(ob))
  BY DEF ReleaseForRetry, ReleaseAllInFlight, Released
<1>3. Leased(ReviveFailed(ob, ops))
  BY DEF ReviveFailed
<1> QED BY <1>1, <1>2, <1>3

\* Every step keeps leases and intents in flight together.
LEMMA LeasedPreserved ==
    ASSUME TypeOK, Leased(outbox), [Next]_vars
    PROVE  Leased(outbox)'
<1> USE DEF tables, provider, process, vars
<1>0. outbox \in [OperationIds -> SubmitIntent]
  BY DEF TypeOK, TablesTypeOK
<1>a. UNCHANGED outbox => Leased(outbox)'
  BY DEF Leased
<1>1. ASSUME NEW o \in OperationIds, ClientCreates(o) \/ ClientSubmits(o) PROVE Leased(outbox)'
  BY <1>0, <1>1, <1>a, IntentLeased
     DEF ClientCreates, CreateOperationRequest, ClientSubmits, SubmitOperation
<1>2. ASSUME NEW o \in OperationIds, ProviderReports(o) \/ StrayReceipt(o)
      PROVE  Leased(outbox)'
  <2>1. PICK p, result : ProcessReceipt(o, p, result)
    BY <1>2 DEF ProviderReports, StrayReceipt
  <2> QED BY <1>0, <1>a, <2>1, IntentLeased DEF ProcessReceipt, ApplyReceipt, IgnoreReceipt
<1>3. ASSUME NEW o \in OperationIds,
             BackoffElapses(o) \/ LeaseExpires(o) \/ LeaseOverrun(o)
      PROVE  Leased(outbox)'
  BY <1>0, <1>3 DEF BackoffElapses, LeaseExpires, LeaseOverrun, Leased, SubmitIntent
<1>4. ASSUME NEW i \in Instances, NEW rows, Claim(i, rows) \/ ClaimLost(i, rows)
      PROVE  Leased(outbox)'
  BY <1>0, <1>4, IntentsLeased DEF Claim, ClaimLost
<1>5. ASSUME NEW i \in Instances, NEW o \in OperationIds, Record(i, o) PROVE Leased(outbox)'
  <2>1. \/ outbox' = MarkDone(outbox, o)
        \/ \E class : outbox' \in {Reschedule(outbox, o, class), MarkFailed(outbox, o, class)}
    BY <1>5 DEF Record, OnAccepted, RecordAcceptance, OnFailure, RecordFailure
  <2> QED BY <1>0, <2>1, IntentLeased
<1>6. ASSUME NEW i \in Instances, Live(i) PROVE Leased(outbox)'
  <2>1. CASE \/ Boot(i) \/ RequestStop(i) \/ RecoveryGivesUp(i)
             \/ ReleaseFailed(i) \/ GraceExpires(i) \/ Crash(i)
    BY <1>a, <2>1 DEF Boot, RequestStop, RecoveryGivesUp, ReleaseFailed, GraceExpires, Crash
  <2>2. CASE Recover(i)
    <3> DEFINE released == ReleaseAllInFlight(outbox)
    <3>1. released \in [OperationIds -> SubmitIntent] /\ Leased(released)
      BY <1>0, OutboxRowsTyped, IntentsLeased
    <3>2. Leased(ReviveFailed(released, operations))
      BY <3>1, IntentsLeased
    <3> QED BY <2>2, <3>2 DEF Recover, ResumeUnfinished
  <2>3. CASE ReleaseClaimed(i)
    BY <1>0, <2>3, IntentsLeased DEF ReleaseClaimed
  <2> QED BY <1>6, <2>1, <2>2, <2>3 DEF Live
<1>7. CASE UNCHANGED outbox
  BY <1>7, <1>a
<1>8. ASSUME NEW i \in Instances, Deliver(i) PROVE Leased(outbox)'
  <2>1. \/ UNCHANGED outbox
        \/ \E rows : Claim(i, rows) \/ ClaimLost(i, rows)
        \/ \E o \in OperationIds : Record(i, o)
    BY <1>8
       DEF Deliver, EmptyPoll, StartCall, Answer, CallAccepted, CallUnavailable,
           CallRejected, ResultNotRecorded
  <2> QED BY <1>a, <1>4, <1>5, <2>1
<1>9. ASSUME Environment PROVE Leased(outbox)'
  BY <1>1, <1>2, <1>3, <1>7, <1>9 DEF Environment, ProviderCreates
<1> QED BY <1>6, <1>7, <1>8, <1>9 DEF Next

-----------------------------------------------------------------------------
(* The history *)

\* Moves, of any sequence of events.
MovesIn(h) == {k \in 1 .. Len(h) : h[k].from # h[k].to}

StatusRank(status) ==
    CASE status = Absent -> 0
      [] status = "CREATED" -> 1
      [] status = "PROCESSING" -> 2
      [] status \in TerminalStatuses -> 3

\* What HistoryTellsStatus says of one operation, and that its moves only go
\* forward, which is why none enters a status again.
Story(h, status) ==
    /\ MovesIn(h) = {} <=> status = Absent
    /\ \A k \in MovesIn(h) :
        /\ StatusRank(h[k].to) <= StatusRank(status)
        /\ (\A j \in MovesIn(h) : k <= j) => h[k].from = Null
        /\ (\A j \in MovesIn(h) : j <= k) => h[k].to = status
        /\ \A j \in MovesIn(h) : j < k =>
            /\ h[j].to # h[k].to
            /\ \/ h[k].from = h[j].to
               \/ \E i \in MovesIn(h) : j < i /\ i < k

HistoryInv == \A o \in OperationIds : Story(events[o], operations[o].status)

\* An appended event is a move of its own or none, and the others stay.
LEMMA MovesOfAppend ==
    ASSUME NEW h \in Seq(Event), NEW e \in Event
    PROVE  LET g == Append(h, e)
               n == Len(h) + 1 IN
           /\ n \in Nat /\ g[n] = e
           /\ \A k \in MovesIn(h) : k \in Nat /\ k < n /\ g[k] = h[k]
           /\ MovesIn(g) = IF e.from = e.to THEN MovesIn(h) ELSE MovesIn(h) \cup {n}
<1> DEFINE g == Append(h, e)
           n == Len(h) + 1
<1>1. Len(h) \in Nat /\ Len(g) = n /\ g[n] = e
  OBVIOUS
<1>2. \A k \in 1 .. Len(h) : g[k] = h[k]
  OBVIOUS
<1>3. 1 .. n = (1 .. Len(h)) \cup {n}
  BY <1>1
<1> HIDE DEF g, n
<1>4. MovesIn(g) = IF e.from = e.to THEN MovesIn(h) ELSE MovesIn(h) \cup {n}
  BY <1>1, <1>2, <1>3 DEF MovesIn, n
<1> QED BY <1>1, <1>2, <1>4 DEF MovesIn, g, n

\* An event that records a fact and moves nothing.
LEMMA StoryStays ==
    ASSUME NEW h \in Seq(Event), NEW e \in Event, e.from = e.to,
           NEW status, Story(h, status)
    PROVE  Story(Append(h, e), status)
<1> DEFINE g == Append(h, e)
<1>1. MovesIn(g) = MovesIn(h) /\ \A k \in MovesIn(h) : g[k] = h[k]
  BY MovesOfAppend
<1> HIDE DEF g
<1>2. Story(g, status)
  BY <1>1 DEF Story
<1> QED BY <1>2 DEF g

\* An event that records a step of the status forward.
LEMMA StoryGoesOn ==
    ASSUME NEW h \in Seq(Event), NEW e \in Event,
           NEW status \in OperationStatus \cup {Absent}, Story(h, status),
           e.from = IF status = Absent THEN Null ELSE status,
           StatusRank(status) < StatusRank(e.to)
    PROVE  Story(Append(h, e), e.to)
<1> DEFINE g == Append(h, e)
           n == Len(h) + 1
<1>1. /\ n \in Nat /\ g[n] = e
      /\ \A k \in MovesIn(h) : k \in Nat /\ k < n /\ g[k] = h[k]
      /\ MovesIn(g) = IF e.from = e.to THEN MovesIn(h) ELSE MovesIn(h) \cup {n}
  BY MovesOfAppend
<1> HIDE DEF g, n
<1>4. \A s \in OperationStatus \cup {Absent} : StatusRank(s) \in Nat
  BY DEF StatusRank, OperationStatus, TerminalStatuses, Absent
<1>2. e.to \in OperationStatus /\ e.to # Absent /\ e.from # e.to
  <2>1. e.to \in OperationStatus /\ Null \notin OperationStatus /\ Absent \notin OperationStatus
    BY NullAssumption DEF Event, OperationStatus, Absent
  <2>2. status # e.to
    BY <1>4, <2>1
  <2> QED BY <2>1, <2>2
<1>3. MovesIn(g) = MovesIn(h) \cup {n}
  BY <1>1, <1>2
<1>5. \A k \in MovesIn(h) : /\ h[k].to \in OperationStatus /\ StatusRank(h[k].to) \in Nat
                            /\ h[k].to # e.to
                            /\ StatusRank(h[k].to) <= StatusRank(e.to)
  <2> TAKE k \in MovesIn(h)
  <2>1. h[k] \in Event
    BY DEF MovesIn
  <2>2. h[k].to \in OperationStatus
    BY <2>1 DEF Event
  <2>3. StatusRank(h[k].to) <= StatusRank(status)
    BY DEF Story
  <2> QED BY <1>2, <1>4, <2>2, <2>3
<1>6. ASSUME NEW j \in MovesIn(h)
      PROVE  e.from = h[j].to \/ \E i \in MovesIn(h) : j < i
  <2>1. CASE \A i \in MovesIn(h) : i <= j
    <3>1. h[j].to = status /\ status # Absent
      BY <2>1 DEF Story
    <3> QED BY <3>1
  <2>2. CASE \E i \in MovesIn(h) : ~ (i <= j)
    BY <1>1, <2>2
  <2> QED BY <2>1, <2>2
<1>7. MovesIn(h) = {} => e.from = Null
  BY DEF Story
<1>8. ASSUME NEW k \in MovesIn(g)
      PROVE  /\ StatusRank(g[k].to) <= StatusRank(e.to)
             /\ (\A j \in MovesIn(g) : k <= j) => g[k].from = Null
             /\ (\A j \in MovesIn(g) : j <= k) => g[k].to = e.to
             /\ \A j \in MovesIn(g) : j < k =>
                 /\ g[j].to # g[k].to
                 /\ \/ g[k].from = g[j].to
                    \/ \E i \in MovesIn(g) : j < i /\ i < k
  <2>1. CASE k = n
    <3>1. g[k] = e
      BY <1>1, <2>1
    <3>2. (\A j \in MovesIn(g) : k <= j) => MovesIn(h) = {}
      <4>1. ASSUME NEW j \in MovesIn(h) PROVE j \in MovesIn(g) /\ ~ (k <= j)
        <5>1. j \in Nat /\ n \in Nat /\ j < n
          BY <1>1
        <5>2. ~ (n <= j)
          BY <5>1
        <5> QED BY <1>3, <2>1, <5>2
      <4> QED BY <4>1
    <3>3. \A j \in MovesIn(g) : j < k => j \in MovesIn(h)
      BY <1>1, <1>3, <2>1
    <3> QED BY <1>1, <1>2, <1>3, <1>4, <1>5, <1>6, <1>7, <2>1, <3>1, <3>2, <3>3
  <2>2. CASE k \in MovesIn(h)
    <3>1. k \in Nat /\ k < n /\ n \in MovesIn(g) /\ g[k] = h[k]
      BY <1>1, <1>3, <2>2
    <3>2. \A j \in MovesIn(g) : j < k => j \in MovesIn(h) /\ g[j] = h[j]
      BY <1>1, <1>3, <3>1
    <3>3. (\A j \in MovesIn(g) : k <= j) => h[k].from = Null
      BY <1>3, <2>2 DEF Story
    <3>4. ASSUME NEW j \in MovesIn(h), j < k
          PROVE  /\ h[j].to # h[k].to
                 /\ \/ h[k].from = h[j].to
                    \/ \E i \in MovesIn(h) : j < i /\ i < k
      BY <2>2, <3>4 DEF Story
    <3> QED BY <1>3, <1>5, <2>2, <3>1, <3>2, <3>3, <3>4
  <2> QED BY <1>3, <1>8, <2>1, <2>2
<1>9. MovesIn(g) # {} /\ e.to # Absent
  BY <1>2, <1>3
<1>10. Story(g, e.to)
  BY <1>8, <1>9, Zenon DEF Story
<1> QED BY <1>10 DEF g

\* What AppendEvent does to each history.
LEMMA Appended ==
    ASSUME NEW ev \in [OperationIds -> Seq(Event)], NEW o \in OperationIds,
           NEW type, NEW from, NEW to
    PROVE  LET new == AppendEvent(ev, o, type, from, to)
               e == [type |-> type, from |-> from, to |-> to] IN
           /\ new[o] = Append(ev[o], e)
           /\ \A x \in OperationIds : x # o => new[x] = ev[x]
BY DEF AppendEvent

\* A transaction that moves one operation forward, or none, and tells so.
LEMMA HistoryFrame ==
    ASSUME TypeOK, HistoryInv, NEW o \in OperationIds, NEW type \in EventType,
           NEW from \in OperationStatus \cup {Null}, NEW to \in OperationStatus,
           events' = AppendEvent(events, o, type, from, to),
           \A x \in OperationIds : x # o => operations'[x].status = operations[x].status,
           \/ from = to /\ operations'[o].status = operations[o].status
           \/ /\ from = IF operations[o].status = Absent THEN Null ELSE operations[o].status
              /\ StatusRank(operations[o].status) < StatusRank(to)
              /\ operations'[o].status = to
    PROVE  HistoryInv'
<1> DEFINE e == [type |-> type, from |-> from, to |-> to]
<1>1. /\ events \in [OperationIds -> Seq(Event)]
      /\ operations[o].status \in OperationStatus \cup {Absent}
  BY DEF TypeOK, TablesTypeOK, Operation
<1>2. e \in Event /\ e.from = from /\ e.to = to
  BY DEF Event
<1>3. /\ events'[o] = Append(events[o], e)
      /\ \A x \in OperationIds : x # o => events'[x] = events[x]
  BY <1>1, Appended
<1> HIDE DEF e
<1>4. Story(events[o], operations[o].status) /\ events[o] \in Seq(Event)
  BY <1>1 DEF HistoryInv
<1>5. Story(events'[o], operations'[o].status)
  BY <1>1, <1>2, <1>3, <1>4, StoryStays, StoryGoesOn
<1> QED BY <1>3, <1>5 DEF HistoryInv

\* A step that appends no event moves no operation.
LEMMA HistoryStutter ==
    ASSUME HistoryInv, UNCHANGED <<operations, events>>
    PROVE  HistoryInv'
BY DEF HistoryInv

\* Every transaction tells in the history what it does to the status.
LEMMA HistoryPreserved ==
    ASSUME TypeOK, DeliveryInv, HistoryInv, [Next]_vars
    PROVE  HistoryInv'
<1> USE DEF tables, provider, process, vars
<1>0. /\ operations \in [OperationIds -> Operation]
      /\ events \in [OperationIds -> Seq(Event)]
      /\ \A o \in OperationIds : operations[o].status \in OperationStatus \cup {Absent}
  BY DEF TypeOK, TablesTypeOK, Operation
<1>a. /\ Absent \notin OperationStatus /\ TerminalStatuses \subseteq OperationStatus
      /\ OperationStatus \subseteq OperationStatus \cup {Null}
      /\ StatusRank(Absent) < StatusRank("CREATED")
      /\ StatusRank("CREATED") < StatusRank("PROCESSING")
      /\ \A s \in TerminalStatuses : StatusRank("PROCESSING") < StatusRank(s)
  BY DEF OperationStatus, Absent, TerminalStatuses, StatusRank
<1>1. ASSUME NEW o \in OperationIds, ClientCreates(o) PROVE HistoryInv'
  <2>1. /\ operations[o].status = Absent
        /\ operations' = [operations EXCEPT ![o] = [status |-> "CREATED", payment |-> Null]]
        /\ events' = AppendEvent(events, o, "CREATED", Null, "CREATED")
    BY <1>1 DEF ClientCreates, CreateOperationRequest, CreateOperation
  <2>2. /\ operations'[o].status = "CREATED"
        /\ \A x \in OperationIds : x # o => operations'[x] = operations[x]
    BY <1>0, <2>1
  <2>3. "CREATED" \in EventType /\ "CREATED" \in OperationStatus
    BY DEF EventType, OperationStatus
  <2> QED BY <1>a, <2>1, <2>2, <2>3, HistoryFrame
<1>2. ASSUME NEW o \in OperationIds, ClientSubmits(o) PROVE HistoryInv'
  <2>1. /\ operations[o].status = "CREATED"
        /\ operations' = [operations EXCEPT ![o].status = "PROCESSING"]
        /\ events' = AppendEvent(events, o, "SUBMIT_REQUESTED", "CREATED", "PROCESSING")
    BY <1>2 DEF ClientSubmits, SubmitOperation, TryBeginProcessing, CanBeginProcessing
  <2>2. /\ operations'[o].status = "PROCESSING"
        /\ \A x \in OperationIds : x # o => operations'[x] = operations[x]
    BY <1>0, <2>1 DEF Operation
  <2>3. /\ "SUBMIT_REQUESTED" \in EventType /\ "CREATED" \in OperationStatus
        /\ "PROCESSING" \in OperationStatus /\ "CREATED" # Absent
    BY DEF EventType, OperationStatus, Absent
  <2> QED BY <1>a, <2>1, <2>2, <2>3, HistoryFrame
<1>3. ASSUME NEW o \in OperationIds, NEW p \in PaymentIds, NEW result \in ReceiptResult,
             ProcessReceipt(o, p, result)
      PROVE  HistoryInv'
  <2>1. CASE ApplyReceipt(o, p, result)
    <3> DEFINE target == ResultToStatus(result)
    <3>1. /\ operations[o].status = "PROCESSING"
          /\ events' = AppendEvent(events, o, StatusToEventType(target), "PROCESSING", target)
          /\ operations' = TryFinalize(LinkProviderPayment(operations, o, p), o, target)
      BY <2>1 DEF ApplyReceipt, CanApply
    <3>2. /\ target \in TerminalStatuses /\ target \in OperationStatus
          /\ StatusToEventType(target) \in EventType
          /\ "PROCESSING" \in OperationStatus /\ "PROCESSING" # Absent
      BY DEF ResultToStatus, StatusToEventType, ReceiptResult, TerminalStatuses, EventType,
             OperationStatus, Absent
    <3>3. /\ operations'[o].status = target
          /\ \A x \in OperationIds : x # o => operations'[x] = operations[x]
      BY <1>0, <3>1 DEF LinkProviderPayment, TryFinalize, Operation
    <3> HIDE DEF target
    <3> QED BY <1>a, <3>1, <3>2, <3>3, HistoryFrame
  <2>2. CASE IgnoreReceipt(o, p, result)
    <3> DEFINE status == operations[o].status
    <3>1. /\ status # Absent /\ operations' = operations
          /\ events' = AppendEvent(events, o, "RECEIPT_CONFLICT_IGNORED", status, status)
      BY <2>2 DEF IgnoreReceipt, Admissible
    <3>2. status \in OperationStatus /\ "RECEIPT_CONFLICT_IGNORED" \in EventType
      BY <1>0, <3>1 DEF EventType
    <3> QED BY <1>a, <3>1, <3>2, HistoryFrame
  <2> QED BY <1>3, <2>1, <2>2 DEF ProcessReceipt
<1>4. ASSUME NEW i \in Instances, NEW o \in OperationIds, OnAccepted(i, o) PROVE HistoryInv'
  <2>1. PICK status \in StatusRead(o) :
          events' = AppendEvent(events, o, "PROVIDER_ACCEPTED", status, status)
    BY <1>4 DEF OnAccepted, RecordAcceptance
  <2>2. \A x \in OperationIds : operations'[x].status = operations[x].status
    BY <1>0, <1>4 DEF OnAccepted, RecordAcceptance, LinkProviderPayment, Operation
  <2>3. operations[o].status # Absent
    BY <1>4 DEF OnAccepted, DeliveryInv, WorkIsGenuine
  <2>4. status \in OperationStatus /\ "PROVIDER_ACCEPTED" \in EventType
    BY <1>0, <2>1, <2>3 DEF StatusRead, OperationStatus, EventType
  <2> QED BY <1>a, <2>1, <2>2, <2>4, HistoryFrame
<1>5. ASSUME NEW i \in Instances, NEW o \in OperationIds, OnFailure(i, o) PROVE HistoryInv'
  <2>1. /\ events' = AppendEvent(events, o, "PROVIDER_ATTEMPT_FAILED", "PROCESSING", "PROCESSING")
        /\ operations' = operations
    BY <1>5 DEF OnFailure, RecordFailure
  <2>2. "PROVIDER_ATTEMPT_FAILED" \in EventType /\ "PROCESSING" \in OperationStatus
    BY DEF EventType, OperationStatus
  <2> QED BY <1>a, <2>1, <2>2, HistoryFrame
<1>6. ASSUME NEW i \in Instances, Recover(i) PROVE HistoryInv'
  <2> DEFINE e == [type |-> "RECOVERY_RESUMED", from |-> "PROCESSING", to |-> "PROCESSING"]
  <2>1. operations' = operations
    BY <1>6 DEF Recover, ResumeUnfinished
  <2>2. \A o \in OperationIds : events'[o] \in {events[o], Append(events[o], e)}
    BY <1>0, <1>6, Appended DEF Recover, ResumeUnfinished
  <2>3. e \in Event /\ e.from = e.to
    BY DEF Event, EventType, OperationStatus
  <2> HIDE DEF e
  <2>4. ASSUME NEW o \in OperationIds PROVE Story(events'[o], operations[o].status)
    <3>1. Story(events[o], operations[o].status) /\ events[o] \in Seq(Event)
      BY <1>0 DEF HistoryInv
    <3>2. Story(Append(events[o], e), operations[o].status)
      BY <2>3, <3>1, StoryStays
    <3> QED BY <2>2, <3>1, <3>2
  <2> QED BY <2>1, <2>4 DEF HistoryInv
<1>7. CASE UNCHANGED <<operations, events>>
  BY <1>7, HistoryStutter
<1>8. ASSUME NEW i \in Instances, Deliver(i) PROVE HistoryInv'
  BY <1>4, <1>5, <1>7, <1>8
     DEF Deliver, Claim, ClaimLost, EmptyPoll, StartCall, Answer, CallAccepted, CallUnavailable,
         CallRejected, Record, ResultNotRecorded
<1>9. ASSUME NEW i \in Instances, Live(i) PROVE HistoryInv'
  BY <1>6, <1>7, <1>9
     DEF Live, Boot, RecoveryGivesUp, RequestStop, GraceExpires, ReleaseClaimed, ReleaseFailed, Crash
<1>10. ASSUME Environment PROVE HistoryInv'
  <2>1. ASSUME NEW o \in OperationIds, ProviderReports(o) PROVE HistoryInv'
    <3>1. PICK p \in PaymentsOf(o), result \in ReceiptResult : ProcessReceipt(o, p.id, result)
      BY <2>1 DEF ProviderReports
    <3>2. p.id \in PaymentIds
      BY <3>1 DEF PaymentsOf, TypeOK, ProviderTypeOK, Payment
    <3> QED BY <1>3, <3>1, <3>2
  <2>2. ASSUME NEW o \in OperationIds, StrayReceipt(o) PROVE HistoryInv'
    <3>1. PICK r \in StrayReceipts : ProcessReceipt(o, r.payment, r.result)
      BY <2>2 DEF StrayReceipt
    <3>2. r.payment \in PaymentIds /\ r.result \in ReceiptResult
      BY <3>1, StrayReceiptsAssumption
    <3> QED BY <1>3, <3>1, <3>2
  <2> QED BY <1>1, <1>2, <1>7, <1>10, <2>1, <2>2
    DEF Environment, ProviderCreates, BackoffElapses, LeaseExpires, LeaseOverrun
<1> QED BY <1>7, <1>8, <1>9, <1>10 DEF Next

-----------------------------------------------------------------------------
(* Theorems *)

\* Every table, message and in-memory item always has its type, and the keys
\* under which the provider is called are always those of the operations.
THEOREM TypeCorrect == Spec => [](TypeOK /\ DeliveryInv)
<1>1. Init => TypeOK /\ DeliveryInv
  BY TypesInitially
<1>2. TypeOK /\ DeliveryInv /\ [Next]_vars => (TypeOK /\ DeliveryInv)'
  BY TypesPreserved, DeliveryInvPreserved
<1> QED BY <1>1, <1>2, PTL DEF Spec

\* The tables hold rows of their types, the provider's answers are payments and
\* the batches in memory hold work items, in every reachable state.
THEOREM TypesHold == Spec => []TypeOK
BY TypeCorrect, PTL

\* The first half of the main invariant of README.md.
THEOREM AtMostOnePayment == Spec => []OnePaymentPerOperation
<1>1. TypeOK /\ DeliveryInv => OnePaymentPerOperation
  BY DEF DeliveryInv, OneKeyPerOperation, OnePaymentPerOperation
<1> QED BY <1>1, TypeCorrect, PTL

\* The other half of it, and what it needs: a final status is that of the one
\* applied receipt, and a final operation's intent is closed.
THEOREM ReceiptDecides == Spec => [](AppliedReceiptDecides /\ TerminalClosesIntent)
<1>1. Init => SettledInv
  BY SettledInitially
<1>2. TypeOK /\ DeliveryInv /\ SettledInv /\ [Next]_vars => SettledInv'
  BY SettledPreserved
<1>3. SettledInv => AppliedReceiptDecides /\ TerminalClosesIntent
  BY DEF SettledInv
<1> QED BY <1>1, <1>2, <1>3, TypeCorrect, PTL DEF Spec

\* An operation a receipt has settled has its intent closed in the same
\* transaction, so no process sends it to the provider again.
THEOREM FinalIsClosed == Spec => []TerminalClosesIntent
BY ReceiptDecides, PTL

\* No step of any process, client or provider takes back a final status, a link
\* or a closed intent.
THEOREM NothingUndone == Spec => NothingIsUndone
<1>1. Init => SettledInv
  BY SettledInitially
<1>2. TypeOK /\ DeliveryInv /\ SettledInv /\ [Next]_vars => SettledInv' /\ [Forward]_vars
  BY SettledPreserved
<1> QED BY <1>1, <1>2, TypeCorrect, PTL DEF Spec, NothingIsUndone, Forward

\* Every intent in flight has a lease, whichever process, fault or recovery
\* handled it last, so the claiming query finds it again; no other intent has.
THEOREM InFlightHasLease == Spec => []InFlightIffLeased
<1>1. ASSUME Init PROVE Leased(outbox)
  <2>1. \A o \in OperationIds : outbox[o] = NoIntent
    BY <1>1 DEF Init, TablesInit
  <2>2. NoIntent.state # "IN_FLIGHT" /\ NoIntent.lease = "null"
    BY DEF NoIntent, Absent
  <2> QED BY <2>1, <2>2 DEF Leased
<1>2. TypeOK /\ Leased(outbox) /\ [Next]_vars => Leased(outbox)'
  BY LeasedPreserved
<1>3. Leased(outbox) => InFlightIffLeased
  BY DEF Leased, InFlightIffLeased
<1> QED BY <1>1, <1>2, <1>3, TypeCorrect, PTL DEF Spec

\* The history of every operation is the unbroken story of its status, whoever
\* wrote its events: requests, receipts, deliveries of any process, recoveries.
THEOREM HistoryIsTheStory == Spec => []HistoryTellsStatus
<1>1. Init => HistoryInv
  <2>1. \A o \in OperationIds : Init => events[o] = <<>> /\ operations[o].status = Absent
    BY DEF Init, TablesInit, NoOperation
  <2>2. MovesIn(<<>>) = {}
    BY DEF MovesIn
  <2>3. Story(<<>>, Absent)
    BY <2>2 DEF Story
  <2> QED BY <2>1, <2>3 DEF HistoryInv
<1>2. TypeOK /\ DeliveryInv /\ HistoryInv /\ [Next]_vars => HistoryInv'
  BY HistoryPreserved
<1>3. HistoryInv => HistoryTellsStatus
  BY DEF HistoryInv, Story, MovesIn, HistoryTellsStatus, Moves
<1> QED BY <1>1, <1>2, <1>3, TypeCorrect, PTL DEF Spec

-----------------------------------------------------------------------------
(***************************************************************************)
(* What holds when one process serves, as the recovery assumes             *)
(* (app/repositories/intents.py, release_all_in_flight): a delivery is     *)
(* never disturbed by another, and the number of attempts it began with is *)
(* the one the table still has when its result is recorded.                *)
(***************************************************************************)

Alone == \A i, j \in Instances : i = j

Exhausted(row) ==
    row.state = "FAILED" /\ row.error = "unavailable" => row.attempts >= MaxAttempts

\* The snapshot taken at the claim stays true while the item is delivered, and
\* a process that is not serving or stopping delivers nothing.
ClaimInv ==
    /\ \A i \in Instances : proc[i] \in {"down", "starting", "cancelled"} => BatchOver(i)
    /\ \A i \in Instances, o \in OperationIds : work[i][o].phase # "none" =>
        /\ work[i][o].attempt = outbox[o].attempts
        /\ outbox[o].state \in {"IN_FLIGHT", "DONE"}
    /\ \A o \in OperationIds : Exhausted(outbox[o])

\* The step that DeliveryKeepsItsClaim asks for.
KeepsClaims ==
    \A i \in Instances, o \in OperationIds :
        work[i][o].phase # "none" /\ work'[i][o].phase # "none" =>
            /\ outbox'[o].attempts = outbox[o].attempts
            /\ outbox'[o].state \in {outbox[o].state, "DONE"}

\* Idle processes and empty tables.
LEMMA ClaimInitially == Init => ClaimInv
<1> SUFFICES ASSUME Init PROVE ClaimInv
  OBVIOUS
<1>1. \A i \in Instances, o \in OperationIds : work[i][o].phase = "none"
  BY DEF Init, ProcessInit, NoWork
<1>2. \A o \in OperationIds : outbox[o].state = "ABSENT"
  BY DEF Init, TablesInit, NoIntent, Absent
<1> QED BY <1>1, <1>2 DEF ClaimInv, BatchOver, Exhausted

\* A step that leaves the processes alone and, of an intent being delivered,
\* at most closes it.
LEMMA ClaimFrame ==
    ASSUME ClaimInv, UNCHANGED <<proc, work>>,
           \A o \in OperationIds : Exhausted(outbox'[o]),
           \A i \in Instances, o \in OperationIds : work[i][o].phase # "none" =>
                /\ outbox'[o].attempts = outbox[o].attempts
                /\ outbox'[o].state \in {outbox[o].state, "DONE"}
    PROVE  ClaimInv' /\ KeepsClaims
BY DEF ClaimInv, BatchOver, KeepsClaims

\* A step with no item in delivery before or after it, in the only process.
LEMMA IdleFrame ==
    ASSUME \A j \in Instances, o \in OperationIds :
                work[j][o].phase = "none" /\ work'[j][o].phase = "none",
           \A o \in OperationIds : Exhausted(outbox'[o])
    PROVE  ClaimInv' /\ KeepsClaims
BY DEF ClaimInv, BatchOver, KeepsClaims

\* A closed row, a released or revived row and a row claimed again are not
\* given up; one that was given up with enough attempts stays so.
LEMMA RowsExhausted ==
    ASSUME NEW ob \in [OperationIds -> SubmitIntent], NEW ops, NEW rows, NEW o \in OperationIds,
           \A x \in OperationIds : Exhausted(ob[x])
    PROVE  /\ \A x \in OperationIds : Exhausted(MarkDone(ob, o)[x])
           /\ \A x \in OperationIds : Exhausted(ClaimDue(ob, rows)[x])
           /\ \A x \in OperationIds : Exhausted(ReleaseForRetry(ob, rows)[x])
           /\ \A x \in OperationIds : Exhausted(ReleaseAllInFlight(ob)[x])
           /\ \A x \in OperationIds : Exhausted(ReviveFailed(ob, ops)[x])
           /\ \A x \in OperationIds, class \in ErrorClass : Exhausted(Reschedule(ob, o, class)[x])
<1> USE DEF Exhausted, SubmitIntent
<1>1. \A x \in OperationIds : Exhausted(MarkDone(ob, o)[x])
  BY DEF MarkDone
<1>2. \A x \in OperationIds : Exhausted(ClaimDue(ob, rows)[x])
  BY DEF ClaimDue
<1>3. /\ \A x \in OperationIds : Exhausted(ReleaseForRetry(ob, rows)[x])
      /\ \A x \in OperationIds : Exhausted(ReleaseAllInFlight(ob)[x])
  BY DEF ReleaseForRetry, ReleaseAllInFlight, Released
<1>4. \A x \in OperationIds : Exhausted(ReviveFailed(ob, ops)[x])
  BY DEF ReviveFailed
<1>5. \A x \in OperationIds, class \in ErrorClass : Exhausted(Reschedule(ob, o, class)[x])
  BY DEF Reschedule
<1> QED BY <1>1, <1>2, <1>3, <1>4, <1>5

\* Clients, the provider, receipts and clocks.
LEMMA EnvironmentKeepsClaims ==
    ASSUME TypeOK, DeliveryInv, ClaimInv, Environment
    PROVE  ClaimInv' /\ KeepsClaims
<1> USE DEF tables, provider, process
<1>0. /\ outbox \in [OperationIds -> SubmitIntent]
      /\ \A o \in OperationIds : Exhausted(outbox[o])
  BY DEF TypeOK, TablesTypeOK, ClaimInv
<1>1. CASE UNCHANGED <<proc, work, outbox>>
  BY <1>0, <1>1, ClaimFrame
<1>2. ASSUME NEW o \in OperationIds, ClientSubmits(o) PROVE ClaimInv' /\ KeepsClaims
  <2>1. UNCHANGED <<proc, work>> /\ outbox' = CreateIntent(outbox, o, o)
    BY <1>2 DEF ClientSubmits, SubmitOperation
  <2>2. outbox[o].state = Absent
    <3>1. operations[o].status = "CREATED"
      BY <1>2 DEF ClientSubmits, SubmitOperation, CanBeginProcessing
    <3> QED BY <3>1 DEF DeliveryInv, WorkIsGenuine
  <2>3. /\ outbox'[o].state = "PENDING"
        /\ \A x \in OperationIds : x # o => outbox'[x] = outbox[x]
    BY <1>0, <2>1, <2>2 DEF CreateIntent, NoIntent
  <2>4. \A i \in Instances : work[i][o].phase = "none"
    BY <2>2 DEF DeliveryInv, WorkIsGenuine
  <2>5. \A x \in OperationIds : Exhausted(outbox'[x])
    BY <1>0, <2>3 DEF Exhausted
  <2> QED BY <2>1, <2>3, <2>4, <2>5, ClaimFrame
<1>3. ASSUME NEW o \in OperationIds, ProviderReports(o) \/ StrayReceipt(o)
      PROVE  ClaimInv' /\ KeepsClaims
  <2>1. PICK p, result : ProcessReceipt(o, p, result)
    BY <1>3 DEF ProviderReports, StrayReceipt
  <2>2. UNCHANGED <<proc, work>>
    BY <1>3 DEF ProviderReports, StrayReceipt
  <2>3. CASE outbox' = MarkDone(outbox, o)
    <3>1. \A x \in OperationIds :
            /\ outbox'[x].attempts = outbox[x].attempts
            /\ outbox'[x].state \in {outbox[x].state, "DONE"}
      BY <1>0, <2>3 DEF MarkDone, SubmitIntent
    <3> QED BY <1>0, <2>2, <2>3, <3>1, RowsExhausted, ClaimFrame
  <2>4. CASE UNCHANGED outbox
    BY <1>1, <2>2, <2>4
  <2> QED BY <2>1, <2>3, <2>4 DEF ProcessReceipt, ApplyReceipt, IgnoreReceipt
<1>4. ASSUME NEW o \in OperationIds, BackoffElapses(o) \/ LeaseExpires(o) \/ LeaseOverrun(o)
      PROVE  ClaimInv' /\ KeepsClaims
  <2>1. UNCHANGED <<proc, work>>
    BY <1>4 DEF BackoffElapses, LeaseExpires, LeaseOverrun
  <2>2. \A x \in OperationIds :
          /\ outbox'[x].attempts = outbox[x].attempts
          /\ outbox'[x].state = outbox[x].state
          /\ outbox'[x].error = outbox[x].error
    BY <1>0, <1>4 DEF BackoffElapses, LeaseExpires, LeaseOverrun, SubmitIntent
  <2> QED BY <1>0, <2>1, <2>2, ClaimFrame DEF Exhausted
<1> QED BY <1>1, <1>2, <1>3, <1>4
  DEF Environment, ClientCreates, CreateOperationRequest, ProviderCreates

\* In the only process an idle batch is the absence of any delivery.
LEMMA AloneIdle ==
    ASSUME Alone, NEW i \in Instances, BatchOver(i)
    PROVE  \A j \in Instances, o \in OperationIds : work[j][o].phase = "none"
BY DEF Alone, BatchOver

\* Starting, recovering, stopping and dying.
LEMMA LifeKeepsClaims ==
    ASSUME TypeOK, Alone, ClaimInv, NEW i \in Instances, Live(i)
    PROVE  ClaimInv' /\ KeepsClaims
<1> USE DEF tables, provider, process
<1>0. /\ outbox \in [OperationIds -> SubmitIntent]
      /\ \A o \in OperationIds : Exhausted(outbox[o])
      /\ proc \in [Instances -> ProcState]
      /\ work \in [Instances -> [OperationIds -> WorkItem]]
  BY DEF TypeOK, TablesTypeOK, ProcessTypeOK, ClaimInv
<1>1. CASE RequestStop(i)
  <2>1. proc' = [proc EXCEPT ![i] = "stopping"] /\ UNCHANGED <<work, outbox>>
    BY <1>1 DEF RequestStop
  <2> QED BY <1>0, <2>1 DEF ClaimInv, BatchOver, KeepsClaims
<1>2. CASE GraceExpires(i) \/ Crash(i)
  <2>1. UNCHANGED outbox /\ work' = [work EXCEPT ![i] = [o \in OperationIds |-> NoWork]]
    BY <1>2 DEF GraceExpires, Crash
  <2>2. \A j \in Instances, o \in OperationIds : work'[j][o].phase = "none"
    BY <1>0, <2>1 DEF Alone, NoWork
  <2> QED BY <1>0, <2>1, <2>2 DEF ClaimInv, BatchOver, KeepsClaims
<1>3. CASE Boot(i) \/ RecoveryGivesUp(i) \/ ReleaseFailed(i) \/ Recover(i) \/ ReleaseClaimed(i)
  <2>1. BatchOver(i)
    BY <1>3 DEF Boot, RecoveryGivesUp, ReleaseFailed, Recover, ReleaseClaimed, Stopped, ClaimInv
  <2>2. work' = work
    BY <1>3 DEF Boot, RecoveryGivesUp, ReleaseFailed, Recover, ReleaseClaimed
  <2>3. \A j \in Instances, o \in OperationIds :
          work[j][o].phase = "none" /\ work'[j][o].phase = "none"
    BY <2>1, <2>2, AloneIdle
  <2>4. \A o \in OperationIds : Exhausted(outbox'[o])
    <3>1. CASE Recover(i)
      <4> DEFINE released == ReleaseAllInFlight(outbox)
      <4>1. released \in [OperationIds -> SubmitIntent]
        BY <1>0, OutboxRowsTyped
      <4>2. \A o \in OperationIds : Exhausted(released[o])
        BY <1>0, RowsExhausted
      <4>3. \A o \in OperationIds : Exhausted(ReviveFailed(released, operations)[o])
        <5> HIDE DEF released
        <5> QED BY <4>1, <4>2, RowsExhausted
      <4> QED BY <3>1, <4>3 DEF Recover, ResumeUnfinished
    <3>2. CASE ReleaseClaimed(i)
      BY <1>0, <3>2, RowsExhausted DEF ReleaseClaimed
    <3>3. CASE UNCHANGED outbox
      BY <1>0, <3>3
    <3> QED BY <1>3, <3>1, <3>2, <3>3 DEF Boot, RecoveryGivesUp, ReleaseFailed
  <2> QED BY <2>3, <2>4, IdleFrame
<1> QED BY <1>1, <1>2, <1>3 DEF Live

\* Claiming, calling and recording.
LEMMA DeliveryKeepsClaims ==
    ASSUME TypeOK, Alone, ClaimInv, NEW i \in Instances, Deliver(i)
    PROVE  ClaimInv' /\ KeepsClaims
<1> USE DEF tables, provider, process
<1>0. /\ outbox \in [OperationIds -> SubmitIntent]
      /\ \A o \in OperationIds : Exhausted(outbox[o])
      /\ proc \in [Instances -> ProcState]
      /\ work \in [Instances -> [OperationIds -> WorkItem]]
  BY DEF TypeOK, TablesTypeOK, ProcessTypeOK, ClaimInv
<1>1. ASSUME NEW rows \in SUBSET OperationIds, Claim(i, rows) PROVE ClaimInv' /\ KeepsClaims
  <2>1. /\ proc[i] = "serving" /\ proc' = proc
        /\ \A j \in Instances, o \in OperationIds : work[j][o].phase = "none"
    BY <1>1, AloneIdle DEF Claim
  <2>2. outbox' = ClaimDue(outbox, rows)
    BY <1>1 DEF Claim
  <2>3. \A o \in OperationIds :
          IF o \in rows
          THEN work'[i][o].attempt = outbox[o].attempts + 1
          ELSE work'[i][o] = NoWork
    BY <1>0, <1>1 DEF Claim, NoWork
  <2>4. \A o \in rows :
          outbox'[o].attempts = outbox[o].attempts + 1 /\ outbox'[o].state = "IN_FLIGHT"
    BY <1>0, <2>2 DEF ClaimDue, SubmitIntent
  <2>5. \A o \in OperationIds : Exhausted(outbox'[o])
    BY <1>0, <2>2, RowsExhausted
  <2>6. \A j \in Instances, o \in OperationIds : work'[j][o].phase # "none" =>
          /\ work'[j][o].attempt = outbox'[o].attempts
          /\ outbox'[o].state = "IN_FLIGHT"
    BY <2>3, <2>4 DEF Alone, NoWork
  <2>7. \A j \in Instances : proc'[j] = "serving"
    BY <2>1 DEF Alone
  <2> QED BY <2>1, <2>5, <2>6, <2>7 DEF ClaimInv, KeepsClaims
<1>2. ASSUME NEW rows \in SUBSET OperationIds, ClaimLost(i, rows) PROVE ClaimInv' /\ KeepsClaims
  <2>1. \A j \in Instances, o \in OperationIds :
          work[j][o].phase = "none" /\ work'[j][o].phase = "none"
    BY <1>2, AloneIdle DEF ClaimLost
  <2>2. \A o \in OperationIds : Exhausted(outbox'[o])
    BY <1>0, <1>2, RowsExhausted DEF ClaimLost
  <2> QED BY <2>1, <2>2, IdleFrame
<1>3. CASE EmptyPoll(i)
  BY <1>0, <1>3, ClaimFrame DEF EmptyPoll
<1>4. ASSUME NEW o \in OperationIds, StartCall(i, o) \/ Answer(i, o)
      PROVE  ClaimInv' /\ KeepsClaims
  <2>1. /\ UNCHANGED <<proc, outbox>> /\ proc[i] = proc[i]
        /\ work[i][o].phase # "none"
    BY <1>4 DEF StartCall, Answer, CallAccepted, CallUnavailable, CallRejected
  <2>2. /\ work'[i][o].attempt = work[i][o].attempt
        /\ \A j \in Instances, x \in OperationIds : x # o => work'[j][x] = work[j][x]
    <3>1. ASSUME NEW phase, SetPhase(i, o, phase)
          PROVE  work'[i][o] = [work[i][o] EXCEPT !.phase = phase]
      BY <1>0, <3>1 DEF SetPhase
    <3>2. ASSUME NEW phase, SetPhase(i, o, phase)
          PROVE  /\ work'[i][o].attempt = work[i][o].attempt
                 /\ \A j \in Instances, x \in OperationIds : x # o => work'[j][x] = work[j][x]
      <4>1. work'[i][o] = [work[i][o] EXCEPT !.phase = phase] /\ work[i][o] \in WorkItem
        BY <1>0, <3>1, <3>2
      <4>2. work'[i][o].attempt = work[i][o].attempt
        BY <4>1 DEF WorkItem
      <4>3. \A j \in Instances, x \in OperationIds : x # o => work'[j][x] = work[j][x]
        BY <1>0, <3>2 DEF SetPhase
      <4> QED BY <4>2, <4>3
    <3>3. CASE CallAccepted(i, o)
      <4>1. PICK p \in payments :
              work' = [work EXCEPT ![i][o] = [@ EXCEPT !.phase = "accepted", !.payment = p.id]]
        BY <3>3 DEF CallAccepted
      <4>2. work'[i][o] = [work[i][o] EXCEPT !.phase = "accepted", !.payment = p.id]
        BY <1>0, <4>1
      <4>3. work'[i][o].attempt = work[i][o].attempt
        BY <1>0, <4>2 DEF WorkItem
      <4>4. \A j \in Instances, x \in OperationIds : x # o => work'[j][x] = work[j][x]
        BY <1>0, <4>1
      <4> QED BY <4>3, <4>4
    <3> QED BY <1>4, <3>2, <3>3 DEF StartCall, Answer, CallUnavailable, CallRejected
  <2>3. proc[i] \notin {"down", "starting", "cancelled"}
    BY <2>1 DEF ClaimInv, BatchOver
  <2> QED BY <1>0, <2>1, <2>2, <2>3 DEF ClaimInv, BatchOver, KeepsClaims, Alone
<1>5. ASSUME NEW o \in OperationIds, Record(i, o) \/ ResultNotRecorded(i, o)
      PROVE  ClaimInv' /\ KeepsClaims
  <2>1. UNCHANGED proc /\ Finish(i, o) /\ work[i][o].phase \in Outcome
    BY <1>5 DEF Record, OnAccepted, OnFailure, ResultNotRecorded, Outcome
  <2>2. /\ work'[i][o].phase = "none"
        /\ \A j \in Instances, x \in OperationIds : x # o => work'[j][x] = work[j][x]
    BY <1>0, <2>1 DEF Finish, NoWork
  <2>3. \A x \in OperationIds : x # o => outbox'[x] = outbox[x]
    BY <1>0, <1>5
       DEF Record, OnAccepted, RecordAcceptance, OnFailure, RecordFailure, ResultNotRecorded,
           MarkDone, Reschedule, MarkFailed
  <2>4. Exhausted(outbox'[o])
    <3>1. CASE UNCHANGED outbox
      BY <1>0, <3>1
    <3>2. CASE OnAccepted(i, o)
      BY <1>0, <3>2, RowsExhausted DEF OnAccepted, RecordAcceptance
    <3>3. CASE OnFailure(i, o)
      <4> DEFINE class == work[i][o].phase
      <4>1. class \in {"unavailable", "rejected"}
        BY <3>3 DEF OnFailure
      <4>2. CASE outbox' = Reschedule(outbox, o, class)
        BY <1>0, <4>1, <4>2, RowsExhausted DEF ErrorClass
      <4>3. CASE outbox' = MarkFailed(outbox, o, class) /\ ~ AttemptsLeft(work[i][o])
        <5>1. work[i][o].attempt = outbox[o].attempts
          BY <2>1 DEF ClaimInv, Outcome
        <5>2. class = "unavailable" => outbox[o].attempts >= MaxAttempts
          BY <1>0, <4>3, <5>1, SettingsAssumption DEF AttemptsLeft, SubmitIntent
        <5> HIDE DEF class
        <5> QED BY <1>0, <4>3, <5>2 DEF MarkFailed, Exhausted, SubmitIntent
      <4> QED BY <3>3, <4>2, <4>3 DEF OnFailure, RecordFailure
    <3> QED BY <1>5, <3>1, <3>2, <3>3 DEF Record, ResultNotRecorded
  <2>5. proc[i] \notin {"down", "starting", "cancelled"}
    BY <2>1 DEF ClaimInv, BatchOver, Outcome
  <2> QED BY <1>0, <2>1, <2>2, <2>3, <2>4, <2>5 DEF ClaimInv, BatchOver, KeepsClaims, Alone
<1> QED BY <1>1, <1>2, <1>3, <1>4, <1>5 DEF Deliver

\* Every step of the system.
LEMMA ClaimPreserved ==
    ASSUME TypeOK, DeliveryInv, Alone, ClaimInv, [Next]_vars
    PROVE  ClaimInv' /\ KeepsClaims
<1>1. CASE UNCHANGED vars
  BY <1>1, ClaimFrame DEF vars, tables, provider, process, ClaimInv
<1> QED BY <1>1, EnvironmentKeepsClaims, LifeKeepsClaims, DeliveryKeepsClaims DEF Next

-----------------------------------------------------------------------------
(* One acceptance *)

Acceptances(h) == {k \in 1 .. Len(h) : h[k].type = "PROVIDER_ACCEPTED"}

\* An accepted operation has its intent closed and is in nobody's batch, so that
\* no second acceptance can be on its way.
AcceptedInv ==
    \A o \in OperationIds :
        /\ \A j, k \in Acceptances(events[o]) : j = k
        /\ Acceptances(events[o]) # {} =>
            /\ outbox[o].state = "DONE"
            /\ \A i \in Instances : work[i][o].phase = "none"

\* An appended event is an acceptance of its own or none.
LEMMA AcceptancesOfAppend ==
    ASSUME NEW h \in Seq(Event), NEW e
    PROVE  Acceptances(Append(h, e)) =
                IF e.type = "PROVIDER_ACCEPTED"
                THEN Acceptances(h) \cup {Len(h) + 1}
                ELSE Acceptances(h)
<1> DEFINE g == Append(h, e)
           n == Len(h) + 1
<1>1. Len(h) \in Nat /\ Len(g) = n /\ g[n] = e
  OBVIOUS
<1>2. \A k \in 1 .. Len(h) : g[k] = h[k]
  OBVIOUS
<1>3. 1 .. n = (1 .. Len(h)) \cup {n}
  BY <1>1
<1> HIDE DEF g, n
<1>4. Acceptances(g) = IF e.type = "PROVIDER_ACCEPTED" THEN Acceptances(h) \cup {n} ELSE Acceptances(h)
  BY <1>1, <1>2, <1>3 DEF Acceptances, n
<1> QED BY <1>4 DEF g, n

\* A step that appends no acceptance, does not reopen a closed intent and takes
\* nothing that is closed into a batch.
LEMMA AcceptedFrame ==
    ASSUME AcceptedInv,
           \A o \in OperationIds :
                /\ Acceptances(events'[o]) = Acceptances(events[o])
                /\ outbox[o].state = "DONE" => outbox'[o].state = "DONE"
                /\ \A i \in Instances :
                    work[i][o].phase = "none" /\ outbox[o].state = "DONE" => work'[i][o].phase = "none"
    PROVE  AcceptedInv'
BY DEF AcceptedInv

\* The steps that append no acceptance append other events or nothing.
LEMMA OtherEvents ==
    ASSUME TypeOK, [Next]_vars, \A i \in Instances, o \in OperationIds : ~ OnAccepted(i, o)
    PROVE  \A o \in OperationIds : Acceptances(events'[o]) = Acceptances(events[o])
<1> USE DEF tables, provider, process, vars
<1>0. events \in [OperationIds -> Seq(Event)]
  BY DEF TypeOK, TablesTypeOK
<1>1. ASSUME NEW o \in OperationIds, NEW type, NEW from, NEW to, type # "PROVIDER_ACCEPTED",
             events' = AppendEvent(events, o, type, from, to)
      PROVE  \A x \in OperationIds : Acceptances(events'[x]) = Acceptances(events[x])
  <2> DEFINE e == [type |-> type, from |-> from, to |-> to]
  <2>1. /\ events'[o] = Append(events[o], e)
        /\ \A x \in OperationIds : x # o => events'[x] = events[x]
    BY <1>0, <1>1, Appended
  <2>2. e.type # "PROVIDER_ACCEPTED"
    BY <1>1
  <2> HIDE DEF e
  <2>3. Acceptances(events'[o]) = Acceptances(events[o])
    BY <1>0, <2>1, <2>2, AcceptancesOfAppend
  <2> QED BY <2>1, <2>3
<1>2. CASE UNCHANGED events
  BY <1>2
<1>3. ASSUME NEW o \in OperationIds, ClientCreates(o) \/ ClientSubmits(o)
      PROVE  \A x \in OperationIds : Acceptances(events'[x]) = Acceptances(events[x])
  BY <1>1, <1>3 DEF ClientCreates, CreateOperationRequest, ClientSubmits, SubmitOperation
<1>4. ASSUME NEW o \in OperationIds, ProviderReports(o) \/ StrayReceipt(o)
      PROVE  \A x \in OperationIds : Acceptances(events'[x]) = Acceptances(events[x])
  <2>1. PICK p : \E result \in ReceiptResult : ProcessReceipt(o, p, result)
    BY <1>4, StrayReceiptsAssumption DEF ProviderReports, StrayReceipt
  <2>2. \A result \in ReceiptResult :
            StatusToEventType(ResultToStatus(result)) # "PROVIDER_ACCEPTED"
    BY DEF StatusToEventType, ResultToStatus, ReceiptResult
  <2> QED BY <1>1, <2>1, <2>2 DEF ProcessReceipt, ApplyReceipt, IgnoreReceipt
<1>5. ASSUME NEW i \in Instances, NEW o \in OperationIds, OnFailure(i, o)
      PROVE  \A x \in OperationIds : Acceptances(events'[x]) = Acceptances(events[x])
  BY <1>1, <1>5 DEF OnFailure, RecordFailure
<1>6. ASSUME NEW i \in Instances, Recover(i)
      PROVE  \A x \in OperationIds : Acceptances(events'[x]) = Acceptances(events[x])
  <2> DEFINE e == [type |-> "RECOVERY_RESUMED", from |-> "PROCESSING", to |-> "PROCESSING"]
  <2>1. \A o \in OperationIds : events'[o] \in {events[o], Append(events[o], e)}
    BY <1>0, <1>6, Appended DEF Recover, ResumeUnfinished
  <2>2. e.type # "PROVIDER_ACCEPTED"
    OBVIOUS
  <2> HIDE DEF e
  <2> QED BY <1>0, <2>1, <2>2, AcceptancesOfAppend
<1>7. ASSUME NEW i \in Instances, Deliver(i)
      PROVE  \A x \in OperationIds : Acceptances(events'[x]) = Acceptances(events[x])
  BY <1>2, <1>5, <1>7
     DEF Deliver, Claim, ClaimLost, EmptyPoll, StartCall, Answer, CallAccepted, CallUnavailable,
         CallRejected, Record, ResultNotRecorded
<1>8. ASSUME NEW i \in Instances, Live(i)
      PROVE  \A x \in OperationIds : Acceptances(events'[x]) = Acceptances(events[x])
  BY <1>2, <1>6, <1>8
     DEF Live, Boot, RecoveryGivesUp, RequestStop, GraceExpires, ReleaseClaimed, ReleaseFailed, Crash
<1>9. ASSUME Environment
      PROVE  \A x \in OperationIds : Acceptances(events'[x]) = Acceptances(events[x])
  BY <1>2, <1>3, <1>4, <1>9
     DEF Environment, ProviderCreates, BackoffElapses, LeaseExpires, LeaseOverrun
<1> QED BY <1>2, <1>7, <1>8, <1>9 DEF Next

\* A claim takes only intents that are waiting or in flight, and no other step
\* begins a delivery.
LEMMA ClosedStaysOut ==
    ASSUME TypeOK, [Next]_vars, NEW i \in Instances, NEW o \in OperationIds,
           work[i][o].phase = "none", outbox[o].state = "DONE"
    PROVE  work'[i][o].phase = "none"
<1> USE DEF tables, provider, process, vars
<1>0. work \in [Instances -> [OperationIds -> WorkItem]]
  BY DEF TypeOK, ProcessTypeOK
<1>1. ASSUME NEW j \in Instances, NEW rows, Claim(j, rows) PROVE work'[i][o].phase = "none"
  <2>1. o \notin rows
    BY <1>1 DEF Claim, Claimable, Due
  <2> QED BY <1>0, <1>1, <2>1 DEF Claim, NoWork
<1>2. ASSUME NEW j \in Instances, NEW x \in OperationIds,
             StartCall(j, x) \/ Answer(j, x) \/ Record(j, x) \/ ResultNotRecorded(j, x)
      PROVE  work'[i][o].phase = "none"
  <2>1. work[j][x].phase # "none" /\ ~ (j = i /\ x = o)
    BY <1>2 DEF StartCall, Answer, CallAccepted, CallUnavailable, CallRejected, Record, OnAccepted,
                OnFailure, ResultNotRecorded, Outcome
  <2>2. \E item : work' = [work EXCEPT ![j][x] = item]
    BY <1>0, <1>2
       DEF StartCall, Answer, CallAccepted, CallUnavailable, CallRejected, Record, OnAccepted,
           OnFailure, ResultNotRecorded, SetPhase, Finish
  <2>3. work'[i][o] = work[i][o]
    BY <1>0, <2>1, <2>2
  <2> QED BY <2>3
<1>3. ASSUME NEW j \in Instances, GraceExpires(j) \/ Crash(j) PROVE work'[i][o].phase = "none"
  BY <1>0, <1>3 DEF GraceExpires, Crash, NoWork
<1>4. CASE UNCHANGED work
  BY <1>4
<1>5. ASSUME NEW j \in Instances, Deliver(j) PROVE work'[i][o].phase = "none"
  BY <1>1, <1>2, <1>4, <1>5 DEF Deliver, ClaimLost, EmptyPoll
<1>6. ASSUME NEW j \in Instances, Live(j) PROVE work'[i][o].phase = "none"
  BY <1>3, <1>4, <1>6
     DEF Live, Boot, Recover, RecoveryGivesUp, RequestStop, ReleaseClaimed, ReleaseFailed
<1>7. ASSUME Environment PROVE work'[i][o].phase = "none"
  BY <1>4, <1>7
     DEF Environment, ClientCreates, ClientSubmits, ProviderReports, StrayReceipt, ProviderCreates,
         BackoffElapses, LeaseExpires, LeaseOverrun
<1> QED BY <1>4, <1>5, <1>6, <1>7 DEF Next

\* The one step that accepts finds no acceptance yet, because the item was in a
\* batch; and in the only process it takes the item out of the only batch.
LEMMA AcceptedPreserved ==
    ASSUME TypeOK, DeliveryInv, SettledInv, Alone, AcceptedInv, [Next]_vars
    PROVE  AcceptedInv'
<1>1. ASSUME NEW i \in Instances, NEW o \in OperationIds, OnAccepted(i, o) PROVE AcceptedInv'
  <2>0. /\ events \in [OperationIds -> Seq(Event)] /\ outbox \in [OperationIds -> SubmitIntent]
        /\ work \in [Instances -> [OperationIds -> WorkItem]]
    BY DEF TypeOK, TablesTypeOK, ProcessTypeOK
  <2>1. PICK status : events' = AppendEvent(events, o, "PROVIDER_ACCEPTED", status, status)
    BY <1>1 DEF OnAccepted, RecordAcceptance
  <2> DEFINE e == [type |-> "PROVIDER_ACCEPTED", from |-> status, to |-> status]
  <2>2. /\ events'[o] = Append(events[o], e)
        /\ \A x \in OperationIds : x # o => events'[x] = events[x]
    BY <2>0, <2>1, Appended
  <2>3. Acceptances(events[o]) = {}
    BY <1>1 DEF AcceptedInv, OnAccepted
  <2>4. Acceptances(events'[o]) = {Len(events[o]) + 1}
    <3>1. e.type = "PROVIDER_ACCEPTED"
      OBVIOUS
    <3> HIDE DEF e
    <3> QED BY <2>0, <2>2, <2>3, <3>1, AcceptancesOfAppend
  <2>5. /\ outbox'[o].state = "DONE"
        /\ \A x \in OperationIds : x # o => outbox'[x] = outbox[x]
    BY <1>1, <2>0 DEF OnAccepted, RecordAcceptance, MarkDone, SubmitIntent
  <2>6. /\ work'[i][o].phase = "none"
        /\ \A x \in OperationIds : x # o => work'[i][x] = work[i][x]
    BY <1>1, <2>0 DEF OnAccepted, Finish, NoWork
  <2> HIDE DEF e
  <2>7. ASSUME NEW x \in OperationIds, x # o
        PROVE  /\ \A j, k \in Acceptances(events'[x]) : j = k
               /\ Acceptances(events'[x]) # {} =>
                    /\ outbox'[x].state = "DONE"
                    /\ \A j \in Instances : work'[j][x].phase = "none"
    <3>1. events'[x] = events[x] /\ outbox'[x] = outbox[x] /\ work'[i][x] = work[i][x]
      BY <2>2, <2>5, <2>6, <2>7
    <3>2. \A j \in Instances : work'[j][x] = work[j][x]
      BY <3>1 DEF Alone
    <3> QED BY <3>1, <3>2 DEF AcceptedInv
  <2>8. \A j \in Instances : work'[j][o].phase = "none"
    BY <2>6 DEF Alone
  <2> QED BY <2>4, <2>5, <2>7, <2>8 DEF AcceptedInv
<1>2. CASE \A i \in Instances, o \in OperationIds : ~ OnAccepted(i, o)
  <2>1. \A o \in OperationIds : Acceptances(events'[o]) = Acceptances(events[o])
    BY <1>2, OtherEvents
  <2>2. \A o \in OperationIds : outbox[o].state = "DONE" => outbox'[o].state = "DONE"
    BY SettledPreserved DEF Forward, vars
  <2>3. \A o \in OperationIds, i \in Instances :
            work[i][o].phase = "none" /\ outbox[o].state = "DONE" => work'[i][o].phase = "none"
    BY ClosedStaysOut
  <2> QED BY <2>1, <2>2, <2>3, AcceptedFrame
<1> QED BY <1>1, <1>2

-----------------------------------------------------------------------------
(* Theorems *)

\* With one process, whatever faults there are, an intent is given up for want
\* of an answer only after PROVIDER_MAX_ATTEMPTS attempts.
THEOREM GivesUpOnlyWhenExhausted ==
    ASSUME Alone
    PROVE  Spec => []GivenUpOnlyWhenExhausted
<1>1. Init => ClaimInv
  BY ClaimInitially
<1>2. TypeOK /\ DeliveryInv /\ ClaimInv /\ [Next]_vars => ClaimInv'
  BY ClaimPreserved
<1>3. ClaimInv => GivenUpOnlyWhenExhausted
  BY DEF ClaimInv, Exhausted, GivenUpOnlyWhenExhausted
<1> QED BY <1>1, <1>2, <1>3, TypeCorrect, PTL DEF Spec

\* With one process, nothing but its own recording and a receipt touches an
\* intent under delivery, even when its lease runs out.
THEOREM OneProcessKeepsItsClaims ==
    ASSUME Alone
    PROVE  Spec => DeliveryKeepsItsClaim
<1>1. Init => ClaimInv
  BY ClaimInitially
<1>2. TypeOK /\ DeliveryInv /\ ClaimInv /\ [Next]_vars => ClaimInv' /\ [KeepsClaims]_vars
  BY ClaimPreserved
<1> QED BY <1>1, <1>2, TypeCorrect, PTL DEF Spec, DeliveryKeepsItsClaim, KeepsClaims

\* With one process, PROVIDER_ACCEPTED is recorded once for an operation: what
\* has been recorded as delivered is never delivered again.
THEOREM AcceptsOnce ==
    ASSUME Alone
    PROVE  Spec => []AcceptedOnce
<1>1. Init => SettledInv /\ AcceptedInv
  <2>1. \A o \in OperationIds : Init => events[o] = <<>>
    BY DEF Init, TablesInit
  <2>2. Acceptances(<<>>) = {}
    BY DEF Acceptances
  <2> QED BY <2>1, <2>2, SettledInitially DEF AcceptedInv
<1>2. TypeOK /\ DeliveryInv /\ SettledInv /\ AcceptedInv /\ [Next]_vars => (SettledInv /\ AcceptedInv)'
  BY SettledPreserved, AcceptedPreserved
<1>3. AcceptedInv => AcceptedOnce
  BY DEF AcceptedInv, Acceptances, AcceptedOnce
<1> QED BY <1>1, <1>2, <1>3, TypeCorrect, PTL DEF Spec
=============================================================================
