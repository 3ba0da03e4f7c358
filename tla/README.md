# Task Payments: a verification project

TLA+ specifications of the payment service in `src/`, checked with TLC, and
theorems about them, checked with TLAPS.

The service takes a payment operation from a client, has an external provider
carry it out, and settles it when the provider reports the outcome. It does so
over retries, concurrent requests, lost answers, restarts and reports that come
early, late, twice or in conflict. `src/README.md` states its main invariant:
*one operation corresponds to at most one payment of the provider, and the final
status is determined only by the callback receipt.* That sentence is what this
project is about.

## 1. Inventory of the system

| Component | State | Operations | Interacts with |
|---|---|---|---|
| Domain model (`domain/enums.py`, `domain/models.py`, migration) | four tables: `operations`, `event_outbox`, `events`, `receipts` | none; constraints: one intent per operation, a payment linked to one operation, one receipt per (operation, payment, result), one event per (operation, event id) | everything below |
| Repositories (`repositories/*`) | none | one function per statement; every UPDATE has its precondition in WHERE | called by the services inside their transaction |
| Operation service (`operation_service.py`, `api/operations.py`) | `operations`, `event_outbox`, `events` | create, submit (compare-and-set CREATED to PROCESSING, intent and event in one transaction) | clients; the dispatcher finds the intent |
| Receipt service (`receipt_service.py`, `api/receipts.py`) | all four tables | process a receipt: 404, 409, duplicate, applied, ignored | the provider posts receipts; closes the intent under the dispatcher |
| Recovery (`recovery.py`) | `event_outbox`, `events` | at start: release every IN_FLIGHT intent, revive FAILED ones of unfinished operations, log | run by the lifespan, before requests are served |
| Dispatcher (`dispatcher.py`) | in memory: the batch, `_claimed`, the semaphore, `_stopping`; in the database: leases, attempts | claim a batch, call the provider, record the result, stop gracefully, release what is left | polls the outbox, calls the provider outside any transaction |
| Process lifecycle (`main.py`) | where the process is between start and stop | recover (15 attempts, then serve all the same), start, serve, stop | compose restarts a process that died |
| Provider client (`provider/http_client.py`, `base.py`) | a connection pool | one attempt; classifies the outcome as accepted, unavailable or rejected | the provider, over HTTP |
| Backoff (`provider/retry.py`) | none | delay of the next attempt | the dispatcher |
| Schemas, errors (`api/schemas.py`, `api/errors.py`) | none | parse and format amounts, map errors to statuses | the API |
| Transactions (`deps.py`, `db/engine.py`) | a session | commit on success, roll back on any exception | every service |
| Deployment (`docker-entrypoint.sh`, `compose.yaml`, migrations) | whether the schema is at head | migrate with retries, hand over to uvicorn, restart, stop and kill | the lifespan; the database, which goes and comes |
| Configuration (`config.py`) | settings | none; the periods have to fit together | every component |
| Logging, health | none | none that changes the state | |

### What is hard

* **Interleaving.** A delivery is three transactions with a network call in the
  middle. Between any two of them a receipt may settle the operation, the lease
  may end, another process may claim or release the intent, and this process may
  stop or die.
* **Unreliable delivery.** A request may be lost, may reach the provider after
  its sender gave up, and its answer may be lost. Reports come in any order, any
  number of times, before or after the answer, and may contradict each other.
* **Crash and restart.** The batch and `_claimed` are lost; the intent stays
  IN_FLIGHT. A restart rewrites the outbox for all processes.
* **Partial failure.** The claim or the recording may be committed without the
  process learning of it, or be rolled back; recovery may fail; the release at
  the stop may fail.
* **Stale state.** The attempt number is the one of the claim; the failure is
  recorded without reading the operation; a submit that loses replies from what it
  read before.
* **Replies before commits.** The transaction of a request commits after its reply has
  been sent, or fails to: the caller may know more than the tables, for a moment or for
  good.
* **Locks and numbers.** Transactions of one operation take the rows of the
  operation, of the intent and of the event ids in different orders, and compute
  event ids as MAX + 1.
* **Classification.** A response, or none, has to be taken for what it says about
  the payment: a refusal, an acceptance, or nothing.
* **Time.** The lease, the time limit of a call, the grace of the dispatcher, the
  stop period of docker and the backoff are set apart from each other and have to
  fit.
* **Liveness.** Nobody waits for the intent: only leases, backoffs and restarts
  bring it back.

### What makes each component correct

* Operation service: an operation is submitted once; status and intent appear
  together.
* Receipt service: exactly one receipt decides; deduplication loses no report.
* Recovery: nothing that is closed is reopened; nothing unfinished is left out.
* Dispatcher: one key per operation; an intent closed by a receipt is not
  reopened; an intent in flight always comes back; it gives up only after the
  configured number of attempts; with one process, no intent is delivered twice
  at a time.
* Transactions: seen from the tables, each happens at once, at its commit; the
  history is numbered without gaps; requests do not deadlock among themselves.
* Provider client: a refusal means that there is no payment, an acceptance that
  there is one.
* API: amounts are kept to the cent; no reply takes back what an earlier one said, once
  that one has committed.
* Deployment: the service serves on a migrated schema only, and comes to serve.
* The whole: it implements `PaymentPromise`.

## 2. Modules

| Module | Models |
|---|---|
| `Domain` | enumerations and rows; NULL and "no row"; timestamps as whether they have passed |
| `Repositories` | the functions of `app/repositories` as operators from table to table |
| `Service` | create, submit, receipt, recovery: one action per transaction over the four tables |
| `Provider` | the provider and the network (outside this repository): requests that are never forgotten, payments by Idempotency-Key |
| `Dispatcher` | the dispatcher in its process, for any number of processes over one database |
| `TaskPayments` | the composition: clients, provider, receipts and processes; fairness; the properties |
| `PaymentPromise` | the abstract specification: accept, start, charge once, link, settle |
| `DocumentedClaims` | statements of docs and comments that the code does not keep |
| `AtomicTables` | the tables when every transaction is one step: the transactions of `Service` in any order |
| `Transactions` | the transactions of one operation statement by statement: row locks, foreign-key locks, waiting, deadlock and its victim, event ids and their collisions, roll-back, the reply of a submit |
| `ProviderCall` | one attempt at the provider down to the HTTP response, and what is recorded of it |
| `Requests` | the API: validation, amounts, codes, replies and the commits or failures after them, and two replies of any callers at any distance |
| `Backoff` | `compute_backoff` and the attempts at an intent while the provider is away |
| `DeliveryTiming` | one batch, its lease, a stop and a kill in discrete time |
| `Deployment` | entrypoint, migration, lifespan, crashes, outages of the database |
| `MCTaskPayments`, `MCStrayReceipts`, `MCTransactions`, `MCRequests`, `MCBackoff`, `MCDeliveryTiming` | instances for TLC |
| `TaskPaymentsProofs` | theorems on types, keys, receipts, leases and the history, and on what holds when one process serves |
| `PromiseProofs` | the refinement of `PaymentPromise` |
| `TransactionsProofs` | the properties of `Transactions`: numbering, locks, atomicity, replies |
| `RequestsProofs` | what callers of the API see |
| `BackoffProofs` | the delays: bounds, growth and sum |
| `ProviderCallProofs` | what an outcome says of the payment |
| `DeliveryTimingProofs` | the inequalities between the periods |
| `DeploymentProofs` | the order of the container's life |

`TaskPayments` extends `Dispatcher`, which extends `Service` and `Provider`;
`Service` extends `Repositories`, which extends `Domain`. `Transactions` uses the same
`Repositories`, so that a statement has one definition whether it runs alone or
inside an atomic action, and is checked against `AtomicTables`, the atomic actions
of `Service`. `ProviderCall` justifies the three outcomes of a call that `Dispatcher`
takes for granted, `DeliveryTiming` that its leases do not end under a delivery.

How they correspond to the code:

* The variables `operations`, `outbox`, `events`, `receipts` are the tables;
  `proc` is where a process is between the start and the stop of `lifespan`;
  `work[i][o]` is the `ClaimedWork` of process `i` for operation `o` together
  with how far `_process_one` has got with it; `claimed[i]` is
  `Dispatcher._claimed`; `requests` and `payments` are the outside world.
* In `TaskPayments` a transaction is one action. That this is right is what
  `Transactions` is about: whatever the interleaving of statements, each commit of a
  request, a delivery or a recovery is a step of `AtomicTables`
  (`TransactionsAreAtomic`). There are two exceptions, and both commit nothing but an
  event. A failure whose UPDATE finds the intent not in flight has no lock: a claim may
  commit between that statement and its own commit, which then leaves the event only
  (`NoteFailure`), where a failure recorded in one step after the claim would have
  released the intent. A recovery whose two UPDATEs have found nothing to release or to
  revive, and whose listing has then found the intent waiting, has no lock either: by
  its commit the intent may be claimed, or closed by a receipt, and RECOVERY_RESUMED is
  recorded all the same (`NoteResumption`). Both need a second process, or a recovery
  under a delivery. A recovery that has changed the intent has its row locked, and is
  whole.
* `Claim`, `StartCall`, the three outcomes of the call, and `OnAccepted` /
  `OnFailure` are separate actions, because the code commits and awaits between
  them. The trailing event and the closing of the intent are part of the action
  that records, as they are part of its transaction.
* Failures that the code handles are actions: `ClaimLost` (the tick fails after
  its commit), `ResultNotRecorded` (`_process` swallows the exception),
  the second disjunct of `Acknowledged` (committed, but not removed from
  `_claimed`), `RecoveryGivesUp`, `GraceExpires`, `ReleaseFailed`, `Crash`.
* Time: `BackoffElapses` and `LeaseExpires` may happen at any moment after the
  timestamp is set; `LeaseOverrun` is a lease that ends under a running delivery.
* A request that changes nothing (404, 409, repeated submit, duplicate receipt)
  is a stuttering step of `TaskPayments` and has no action there; in `Requests` it has
  one, because it has a reply.
* In `Transactions` a statement first looks at the committed row, takes its lock if
  its WHERE clause holds, waits if it must, and looks again, as UPDATE does at READ
  COMMITTED. `Program` lists the statements of each kind of transaction; `tx[t]` holds
  what a transaction has written to itself, `held` and `want` its locks. Linking locks
  the row as FOR UPDATE does, because the payment id is part of a unique index; a
  status is not, and locks as FOR NO KEY UPDATE; a foreign key locks as FOR KEY SHARE.
* In `Requests` the id of a creation is stripped by its validator, the id in a URL or
  in a receipt is not, and a path carries no slash (`Routable`); a reply keeps the code
  and what is shown of the operation.
* A request of `Requests` that writes is two actions, because the code sends the reply
  before it commits: `RepliedBeforeCommit` answers and leaves the request in `pending`,
  where it holds the row of its operation, and `Commit` or `CommitFails` ends it
  (`get_session`, `session_scope`). A request of the same operation that needs the row
  waits (`Free`); a read does not, and still sees the old row. `BrokenOff` is the 500 of
  a deadlock's victim, of the last collision of an event id or of a lost connection. A
  submit that loses is answered with any status the operation has had that the caller
  may have read (`past`), since it is not read again (`Transactions` has the statements).
* The copy of the row that a submit that lost replies from: the comment in
  `submit_operation` says that its UPDATE leaves the copy alone, the default of the ORM
  is to apply the UPDATE to it. `LoserCopies` allows both.

## 3. Runs

| Run | Instance | What it shows |
|---|---|---|
| `one_operation` | 1 operation, 1 process, 2 attempts, 4 disruptions | at most one payment, nothing closed that was not charged, no intent lost to the queue, nothing given up early, and the refinement of `PaymentPromise`, under every placement of four faults: a fault, one during its repair, and two more |
| `two_operations` | 2 operations in one batch, 1 call at a time, 1 attempt, 1 disruption, stray receipts | the delivery of one operation does not disturb the other's, and exactly one applied receipt decides the outcome of an operation, even when the receipt had no payment behind it |
| `two_processes` | 1 operation, 2 processes, 2 attempts, 1 disruption, fairness | an intent that a receipt has closed is not opened by the rescheduled failure, the release or the recovery of either process; every intent concludes, every delivered operation settles and its history tells how, when two processes recover, claim and release the same intent |
| `transactions` | five mixes of up to four concurrent transactions, 2 retries, 1 lost connection | statements, locks and retries implement the atomic transactions; no deadlock is made of requests alone; nobody waits for ever (deadlock is checked: a state with a transaction that is open and cannot go on would be one) |
| `provider_call` | 3 operations (sound, refused, not sendable), 3 attempts, fairness | what is recorded never says more than the provider has done, and each delivery ends |
| `api` | 2 operations, 2 payments, ids with blanks, amounts and currencies to refuse, a receipt for the wrong operation, any commit lost, any request broken off | two replies at any distance agree once the first has committed |
| `backoff` | the default settings, 10 attempts, draws at both ends, in the middle and between | delays stay in bounds, grow, and outlast 52 s; the hypotheses of the theorems hold of the default settings |
| `delivery_timing` | a batch of 4, 2 calls at a time, default periods | the lease outlives two rounds of calls, and stop's grace fits into docker's period when open requests take 8 s or less |
| `deployment` | 3 migration attempts, 2 recovery attempts, 3 outages, 3 stops, fairness | migrated before serving, closed after the batch, serving in the end |
| `claim_history_end`, `claim_report_dropped`, `claim_planned_is_sent` | minimal | what the documentation says and the code does not keep |

### Bounds

* `MaxDisruptions` bounds the faults, stops and overruns of a behaviour (each is an
  action guarded by `Disrupt`), and with them the attempts and the history.
* Two payment ids are enough where payments are counted: the properties fail as soon
  as a second one exists. `two_processes` has one, because it asks about progress and
  the history; that two processes never make two payments is a theorem, like the other
  safety properties, for any number of processes.
* Two processes and two operations are enough because every action reads and writes
  the rows of its own operations and the memory of its own process. `two_operations`
  has one attempt, so a retryable failure gives up at once; retries are in
  `one_operation` and `two_processes`, which also checks what two processes may not undo
  (`TerminalClosesIntent`, `NothingIsUndone`). At most one payment with two processes is
  the theorem `AtMostOnePayment`, for any number of them.
  With one payment a link cannot change to another one: that part of `NothingIsUndone`
  is the theorem `NothingUndone`, for any payments and stray receipts, and for receipts
  that overtake the answer `NoPaymentMismatch` in `one_operation`.
* `two_operations` switches deadlock checking off: when a stray receipt has linked a
  payment to the wrong operation, the answer for the right one can only be rolled back,
  and once the disruptions are used up the model has nothing left to do. The code goes
  on retrying, once per lease. `provider_call`, `backoff` and `delivery_timing` switch
  it off because deliveries, attempts and batches end.
* `transactions`: `MaxCollisions` is 2 (5 in the code), so that an append that gives up
  happens with four transactions. `MaxFaults` is 1 connection lost. The mixes are two
  submits, a claim and a receipt; a submit, a claim, the failure of its delivery and a
  receipt; an answer, a failure and two contradicting receipts; a recovery beside an
  answer, a refusal and the report of another payment; a recovery, and a claim of what
  it has released beside the failure of the delivery before. They start from an operation
  that is CREATED, or that is PROCESSING with an intent claimed twice (the second
  claim after the lease of the first, so that two recordings may meet). Two concurrent
  creations meet in one statement (ON CONFLICT DO NOTHING) and are not broken up.
* `delivery_timing`: one unit is two seconds. `Lease` 30 is `intent_lease_seconds` 60,
  `Grace` 5 is `shutdown_grace_seconds` 10, `StopGrace` 10 is `stop_grace_period` 20 s.
  `CallLimit` 14 is 28 s: pool and connect 3 s each, write and read 10 s each, and 2 s to
  record the result. Two of them make 56 s of the 60 of the lease, which is the margin
  there is. The write and read time-outs of httpx are per chunk, so that 28 s is an
  assumption about the provider's answers as much as a setting. `Drain` 4 is 8 s that
  open requests may take between the signal and the call of `stop`; uvicorn has no limit
  of its own for them. `MCDeliveryTiming` asserts that these fit (`DefaultsFit`). 4 items
  and 2 calls stand for 16 and 8.
* `backoff`: milliseconds; `MaxExponent` is 8 for 32, because the ceiling of 15 s is
  reached at the fifth doubling; floating-point rounding is left out. The lowest draw is
  one of the five, so that the shortest run of waits, 52.85 s, is among the behaviours:
  `OutlastsOutage` fails with an outage longer than that. Ten attempts do not reach the
  cap of the exponent, nor a delay that the floor at zero changes; `DelaysAreBounded`
  covers them. An attempt that a crash uses up has no wait after it but that for the
  lease or the restart, and is not one of these.
* `api`: `MaxWhole` is 999 for 10^18 - 1. Two replies: any reply may be kept as
  `earlier`, `later` is then the last one that was given to a request sent after the
  commit of the earlier; a reply that has a failed commit behind it promises nothing of
  the tables, and is watched for what it still says of the request (`AmountIsKept`,
  `GenuineReceiptIsTaken`). `Routable` has both operations, so that both can be submitted;
  the theorems are for any.
* `deployment`: 3 and 2 attempts for 30 and 15; the pauses between them are the moments
  at which the database may change.

### Properties

* `OnePaymentPerOperation`, `AppliedReceiptDecides`: the main invariant.
* `TerminalClosesIntent`, `NothingIsUndone`: late failures (the guard of
  `intents.reschedule`), answers, releases and recoveries of any process change nothing
  that is settled.
* `DoneMeansCharged`, `NoPaymentMismatch`: what the tables say of the provider is
  true.
* `InFlightIffLeased`: an intent in flight always comes back.
* `HistoryTellsStatus`: the moves of the history form a chain to the status.
* `GivenUpOnlyWhenExhausted`, `AcceptedOnce`, `DeliveryKeepsItsClaim`: hold with
  one process, which is what the code assumes.
* `KeepsPromise`: the system implements `PaymentPromise`, where the charge of an
  operation is mapped to the provider's payment for it.
* `DeliveryConcludes`, `OperationSettles`: liveness.
* `TransactionsAreAtomic`, `StatementsUndoNothing`, `RequestsKeepOneOrder`,
  `EventIdsDense`, `CollisionsAreCommits`, `RepliesTellTheTruth`, `OneReceiptSettles`
  (receipts that contradict each other, each having read its own): what row locks,
  conditions in WHERE and the savepoint of `append_event` are there for. Deadlocks do
  exist: each has in it a transaction that takes an intent or an event id first and
  reaches the operation through a foreign key. `RequestsKeepOneOrder` says that there are
  no others, `TransactionsAreAtomic` that their victims leave nothing behind.
* `RepliesTellTheTruth` is about the replies to submits, including those whose commit
  fails afterwards (`Unkept`): only a lost connection can do that, so there are no more
  of them than faults, and without them one submit is told 202 and its intent is stored.
  `README.md:124` promises more, and the property is no proof of it: see the divergences
  below.
* `RefusalMeansNoPayment`, `DoneNamesThePayment`, `EveryDeliveryEnds`: the
  classification of responses, against a provider that is honest: a 4xx other than
  those that `Interpret` retries is taken to come from the provider and to mean that it
  has made no payment and will make none. A 401, 403 or 404 of a proxy, or a 409 for a
  request whose earlier answer was lost, would be taken for a refusal as well.
* `AmountIsKept`, `ClientsSeeProgress`, `GenuineReceiptIsTaken`, `MismatchIsFinal`:
  what callers see. They hold with replies that run ahead of their commits: the progress
  a caller sees is promised by a reply that has committed, and a 500 of a request that
  was broken off is allowed everywhere.
* `KilledOnlyByDrain`: docker's kill finds a process only when the open requests alone
  have taken longer than `Drain`.
* `LeaseOutlivesDelivery`, `DelayBounded`, `OutlastsOutage`,
  `WaitsGrow`: the periods.
* `ServesMigratedSchema`, `BatchHasItsClients`, `ComesToServe`: deployment.

### Fairness

`TaskPayments!FairSpec` assumes that a process makes progress with what it can do (the
event loop runs every ready task; httpx calls end by their timeouts; shutdown has a
grace period), that compose restarts a dead process, that clocks advance, and that a
provider with a payment goes on reporting it until a report is taken, that is, until a
receipt of it is recorded. A provider stops at the 204, which is sent before the commit:
if that commit is lost, so is the report, unless it is sent again. It assumes
nothing of clients, of requests reaching the provider, or of faults, except that
`MaxDisruptions` makes faults finite in number. `ProviderCall!FairSpec` assumes the
steps of the process and its time-outs, and nothing of the network or the provider; in
it a result is always recorded, since failures to record are in `Dispatcher`.
`Deployment!FairSpec` assumes that the container goes on (docker's restart policy; after
a deliberate `docker stop`, which `unless-stopped` does not undo, an operator) and
that the database comes back (the same policy); crashes, stops and outages are finite
in number.

### Findings

* `claim_history_end`: a late failure is written into the history as
  PROCESSING to PROCESSING, after COMPLETED or REJECTED.
* `claim_report_dropped`: a receipt stored before the submit makes the real report
  of the same outcome a duplicate.
* `claim_planned_is_sent`: an id that is not ASCII is accepted and planned, but no
  header can carry it: its delivery fails before anything is sent, at every attempt and
  after every restart.

Other divergences between the code and its comments that came up, without a run:

* `repositories/intents.py:3-5` says that two instances are never given one intent;
  the recovery of the second hands it the intent the first is delivering. The main
  invariant survives (`AtMostOnePayment`).
* `README.md:191` calls `PROVIDER_MAX_ATTEMPTS` the limit of attempts; it is looked at
  when a failure is recorded and not when an intent is claimed, so lost results add
  attempts.
* `main.py:35-36` says that a failed recovery loses nothing because leases end; a
  FAILED intent has no lease and waits for the next restart.
* `services/receipt_service.py:4-6` says that the lock of the operation spares the
  receipt the races with the recording of the answer; the failure of a delivery, and an
  answer for an operation already linked, take the rows in another order, and the
  deadlock's victim may be the receipt, whose sender then gets a 500.
* `README.md:124` gives 202 to the one submit that creates the intent. The session commits
  in the exit code of a dependency (`deps.py:22`), which the permitted versions of FastAPI
  run after the reply has been sent: when that commit fails (`ConnectionLost` in
  `Transactions`, `CommitFails` in `Requests`), nothing is stored and the next submit is
  told 202 as well. In the same way a 201 or a 204 may precede a commit that fails; the
  provider does not repeat a report that was answered 204.
* `README.md:124-125`, `repositories/operations.py:84-85` and
  `tests/test_submit_outbox.py:86` give a submit that lost the current state. It returns
  the copy it read before its UPDATE (`operation_service.py:71,95`; only the winner
  refreshes it), which may be CREATED although the UPDATE has found PROCESSING, or not
  final although it has found the operation final. `LoserCopies` and `SubmitLoses` have
  these replies, and the properties bound how stale they are.
* `README.md:121` gives `GET /operations/{id}` as the current state of an operation. The
  validation of a creation (`schemas.py:77,95-101`) accepts ids with a slash, which no
  route of the operation matches (`api/operations.py:34,54`): such an operation can be
  neither read nor submitted.
* `provider/retry.py:3-6`: the jitter is there so that a batch that failed together is
  not retried together; the sum is cut at the maximum again, so that at the ceiling
  every draw above zero gives the same delay.

## 4. Proofs

For any sets of operations, payments and processes, any settings, any
`StrayReceipts`, and the named assumptions of the modules, `TaskPaymentsProofs`
proves:

* `TypeCorrect`, `TypesHold`: `TypeOK` and `DeliveryInv` are invariant.
* `AtMostOnePayment`: `OnePaymentPerOperation` is invariant.
* `ReceiptDecides`, `FinalIsClosed`: `AppliedReceiptDecides` and
  `TerminalClosesIntent` are invariant.
* `NothingUndone`: the action property `NothingIsUndone`.
* `InFlightHasLease`: `InFlightIffLeased` is invariant.
* `HistoryIsTheStory`: `HistoryTellsStatus` is invariant.

and, when there is one process (the section "What holds when one process serves"):

* `GivesUpOnlyWhenExhausted`: `GivenUpOnlyWhenExhausted` is invariant.
* `AcceptsOnce`: `AcceptedOnce` is invariant.
* `OneProcessKeepsItsClaims`: with one process, nothing but its own recording and
  a receipt touches an intent under delivery (the action property
  `DeliveryKeepsItsClaim`), even when its lease runs out.

`PromiseProofs` proves, with the further assumption `StrayReceipts = {}` (every
receipt reports a payment made for its operation; without it a stray receipt may
settle an operation that was never charged, which `PaymentPromise` excludes):

* `TablesAreTrue`, `AnswerAgreesWithReceipt`: `DoneMeansCharged` and
  `NoPaymentMismatch` are invariant.
* `PromiseKept`: `Spec => KeepsPromise`, the refinement.

`TransactionsProofs` proves every property that the run `transactions` checks, for any
finite set of transactions of any kinds, any number of retries and of faults:

* `TablesAreTyped`: `TypeOK` is invariant.
* `HistoryIsDense`: the committed events are numbered 1, 2, 3, ... (`EventIdsDense`).
* `CommitsAreAtomic`: `TransactionsAreAtomic`, that every commit, those of recoveries
  included, is a step of `AtomicTables`, with the two exceptions of section 2.
* `OneReportSettles`: `OneReceiptSettles` is invariant.
* `NothingIsUndone`: `StatementsUndoNothing`.
* `RequestsTakeOneOrder`: `RequestsKeepOneOrder` is invariant.
* `CollisionsArePaidFor`: `CollisionsAreCommits` is invariant.
* `RepliesAreTrue`: `RepliesTellTheTruth` is invariant.

`RequestsProofs` proves all the properties of the run `api`, for any callers, amounts,
operations and payments: `AmountStays`, `RepliesShowProgress`, `OwnReceiptIsTaken` and
`RefusalIsFinal`.

`ProviderCallProofs` proves `CallsAreTyped`, `RefusedIsUnpaid` and `DoneIsPaid`.
`DeliveryTimingProofs` proves `TwoRoundsFit` (a batch of at most twice the concurrency,
a lease longer than two calls) and `DrainAlone` (`KilledOnlyByDrain`, if grace and drain
together are shorter than docker's period; `MCDeliveryTiming` asserts both conditions of
the defaults). `DeploymentProofs` proves
`MigratedBeforeServing` and `ClosedAfterBatch`.

`BackoffProofs` proves all the properties of the run `backoff`:

* `DelaysAreBounded`: `DelayBounded` is invariant, for any base, ceiling, jitter and
  draws.
* `AttemptsOutlastOutage`: `OutlastsOutage` is invariant, for any settings under which
  the shortest waits of all attempts but the last (`LeastWaited`) add up to the outage.
* `WaitsAreGrowing`: the action property `WaitsGrow`, for any settings with a jitter
  below a third (`MildJitter`) and a ceiling that doubling 32 times reaches
  (`CeilingReached`).

The hypotheses of the last two are conditions on the settings. `MCBackoff` assumes those
of `WaitsAreGrowing` of the default ones, which TLC evaluates; that of
`AttemptsOutlastOutage` is what the run checks itself at the end of the behaviour with
the lowest draws. Without them waits need not grow: with half of the delay as jitter two
draws undo a doubling, and a ceiling out of reach is no bound on delays that have
stopped growing.

What the theorems assume of the constants is what the code gives: NULL is not an id and
not a value of a column (`NullAssumption`), there are finitely many transactions at a
time, the settings are numbers of the right sign (`config.py` checks their types only:
there are attempts, no period is negative), an amount as a caller writes it has digits,
and the provider has one payment for an operation, of that operation alone.

The argument. Neither types nor the main invariant are inductive: that a request
has a well-typed key needs the key of the work item, which needs the key of the
row it was claimed from; that an accepted answer has a payment, and that an event
of it has a status, need that work exists only for submitted operations.
`DeliveryInv` says this: the key of an intent, a work item, a request and a payment
is the operation id (`OneKeyPerOperation`), and work is of submitted operations with
true answers (`WorkIsGenuine`). At most one payment follows from one payment per key.
For the receipts, `SettledInv` adds that an unsubmitted operation is not linked; a
final operation has an applied receipt, hence a link, so that a late answer
changes nothing. Most steps are instances of a frame lemma (`DeliveryInvFrame`,
`SettledFrame`, `UnsettledFrame`): they leave the relevant tables as they are up to
`SameIntents`, `SameSubmitted`, `OnlyFinished` or `DoneKept`, which lemmas about the
repository functions give.

The refinement maps the charge of an operation to the id of the provider's payment
for it, which is unique by `AtMostOnePayment`. Its steps need `TruthInv`: requests
and payments are of submitted operations (so that the abstract `Charge` finds its
operation PROCESSING, and not final because a final operation is linked and a link
is true), payment ids differ, links and closed intents tell the truth.
`ClientCreates`, `ClientSubmits`, `ProviderCreates` and an applied report are
`Accept`, `Start`, `Charge` and `Settle`; an answer recorded before the report is
`Link`; every other step, of the dispatcher, of recovery, of time and of faults, is a
stutter.

With one process, `ClaimInv` says that the attempt number an item carries is still the
one in the table, that its intent is in flight or closed, and that a process which
neither serves nor stops delivers nothing: so a recovery, which releases everything,
finds nothing under delivery, and the number that `_on_failure` compares with the limit
is the one that was counted. `AcceptedInv` adds that the intent of an
operation with an acceptance in its history is closed and in nobody's batch.

The numbering of the history is not inductive either: that two commits never carry the
same number rests on the index of the primary key. `DenseInv` says that an event not
yet committed has the number after the last one and that its transaction holds the key
of that number; two transactions cannot hold one key, hence at most one row waits to be
committed, and its commit extends the sequence by one. A number computed earlier and
already taken is a collision, which computes it again.

The history of an operation: `HistoryTellsStatus` speaks of the events that move, which
are numbers of the sequence and not a filtered sequence, so that appending one event
needs no induction. `HistoryInv` (`Story`) says the same of a sequence and a status, and
is preserved because a moving event is appended in the transaction that moves the status,
with the old status as its `from`, every other event has `from` and `to` equal, and a
status only goes forward, so that no two moves enter the same one.

The atomicity of transactions. `WholeInv` says what locks are for. `LocksInv`: no two
transactions hold locks that exclude each other. `CommittedInv`: the committed tables
agree with each other; it contains `OneReceiptSettles`, which is why no receipt, having
locked a final operation, has to ask whether another has been applied. For each kind of transaction an invariant of its own
(`SubmitInv`, `ReceiptInv`, `AcceptedInv`, `FailureInv`, `ClaimInv`, `RecoveryInv`): what
it has written to itself is the row that is committed *now*, transformed as its
statement transforms it. That holds from the statement to the commit because the
transaction holds the lock of the row, so nobody else commits a change of it in between;
and it holds at the statement because UPDATE looks again once it has the lock. At the
commit, the tables then change as the atomic action changes them (`AtomicTables`), and
the event is the next one by `DenseInv`. A recovery may hold the intent in the form of
its first statement, of its second, or of both, one after the other; `RecoveryInv` says
that it is the same row each time, the one `ReviveFailed` makes of what
`ReleaseAllInFlight` makes of the committed one (`Resumed`), because a row released is
not one to revive, and once it is locked nobody else closes or fails it. What is read without a lock, the status a
submit that lost has read and the intent a failure has not found, is what the two weaker
statements are about.

Deadlocks: every submit, every receipt and every answer that links takes the row of the
operation before anything else, with a lock that excludes the other's; whoever of them
waits inside a cycle holds something, hence that row, and only one can. Claims pass over
what is locked. `TriesInv` counts collisions: a number that collides is committed, and is
not below the first one computed plus the collisions before it. `RepliesInv` says of each
submit which status it has read and which it has replied, `WinnerInv` that one
transaction at most has won the compare-and-set, because the operation is not CREATED
again.

What becomes of a reply is in `RepliesAreTrue`: a reply belongs to the winner
(`OneWinner`), which stores the intent (`WinnerStores`), or to one that has rolled back,
and a submit that has replied can only roll back by losing its connection
(`RepliedIsOver`, `UnkeptStep`), so that `Unkept` never outgrows the faults.

`RequestsInv` has five parts. `TableInv`: the tables agree with each other and a stored
amount denotes what was sent. `PendingInv`: what waits for its commit is well-formed.
`EarlierInv`: a reply whose transaction has committed says something of the tables that
later steps cannot take back (`Holds`), and one that waits for its commit describes the
pending request that will make it true (`DueAt`); `CommitMoves` is where the second
becomes the first. `PastInv`: every status a stale copy may show is one the operation has
had since the earlier reply committed, so not behind what that reply showed, and has
moved on from. `LaterInv`: the later reply agrees with the earlier one. A new reply
(`Speaks`) is compared with the earlier one through the tables and the past.

`CallInv` carries the truth of an outcome from the response to its recording
(`InterpretIsSound`). `RoundInv` counts: while an item is queued, the items that began
at the claim fill the semaphore, so after one call nobody is queued and after two
nobody is calling. `LifeInv` orders the phases of the container. `RetriesInv` keeps the
number of an attempt above zero, which makes its exponent a natural number.

The waits. `WaitedInv` compares what has been waited with `LeastWaited` of the attempts
made, attempt by attempt, since the delay grows with the draw (`LowestDraw`).
`DelayInv` says that the delay kept is that of the attempt and the draw kept with it, so
that a step can compare two consecutive ones: below the ceiling the next one starts from
twice as much (`NominalDoubles`, where the bound on the exponent is seen to be out of
play), and a jitter below a third cannot take that back (`JitterIsMild`). Two facts about
recursive definitions are needed. That `2^(n+1)` is twice `2^n` the provers do not
know; `PowerDoubles` counts the subsets of a set with one more element. That
`LeastWaited` has the values its definition reads like, which a recursive function has
only if some function satisfies the equation, is `LeastWaitedAdds`: finite sums exist
(`SumsExist`) and agree (`SumsAgree`). The induction in both is `InductionOnSet`: it
speaks of a set of numbers where the library's speaks of a predicate, and is proved by
taking the least number outside of it.

Model-checked only:

* liveness and what needs ENABLED (`DeliveryConcludes`, `OperationSettles`,
  `EveryDeliveryEnds`, `ComesToServe`), out of reach of the prover;
* that nobody waits for ever in `Transactions`, which TLC checks as the absence of
  deadlocked states.

Checking `TransactionsAreAtomic` on the first four mixes did not show that it has to
allow for a failure that found nothing: the attempt to prove it did, and the fifth mix,
which reaches that commit, was added for it.

## 5. Not modelled

* Logging, the correlation-id middleware, the health check and the parsing of
  settings: they change no state. `list_events` and the routes that read it only read.
* Texts: lengths of ids and descriptions, timestamps, the wording of errors, the
  rendering of JSON.
* Floating-point rounding in `compute_backoff`.
* The statements of the one migration; `Deployment` takes it as one step, which its
  transaction makes it. Images, health checks and start order of other containers.
* The provider simulator and the database engine, except for what the code relies on:
  the simulator is modelled as a provider that is honest and free in time, the engine
  as rows, locks and constraints.

What would come next: statement-level creations, whose one statement (ON CONFLICT DO
NOTHING) is atomic so far; the rows of several operations in `Transactions`, which a
claim of a batch and a recovery lock together.
