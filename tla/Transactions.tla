------------------------------ MODULE Transactions ------------------------------
(***************************************************************************)
(* The transactions of one operation, statement by statement, as they run  *)
(* against PostgreSQL at READ COMMITTED: row locks and waiting, the locks  *)
(* that foreign keys take, event ids computed as MAX + 1 with a retry from *)
(* a savepoint, deadlock and its victim, failures and roll-backs, and the  *)
(* reply of a submit.                                                      *)
(*                                                                         *)
(* A transaction keeps the rows it has written to itself until it commits. *)
(* A statement first looks at the committed row: if its WHERE clause does  *)
(* not hold there it is over, otherwise it takes the lock of the row,      *)
(* waiting if it must, and looks again.                                    *)
(***************************************************************************)
EXTENDS Repositories, FiniteSets

CONSTANTS
    Op,             \* the operation
    Txs,            \* transactions
    Mixes,          \* the sets of them that run beside each other
    Kind,           \* what each of them does
    PaymentOf,      \* the payment a receipt or an answer names
    MaxCollisions,  \* _MAX_ID_COLLISION_RETRIES
    MaxFaults       \* bound on connections lost

Receipts == {"completed", "rejected"}
Recordings == {"accepted", "unavailable", "refused"}
Kinds == Receipts \cup Recordings \cup {"submit", "claim", "recovery"}

ASSUME TransactionsAssumption ==
    /\ Op \in OperationIds
    /\ Null \notin Operation /\ Null \notin SubmitIntent
    /\ IsFiniteSet(Txs)
    /\ Mixes \subseteq SUBSET Txs
    /\ Kind \in [Txs -> Kinds]
    /\ PaymentOf \in [Txs -> PaymentIds]
    /\ MaxCollisions \in Nat \ {0}
    /\ MaxFaults \in Nat

VARIABLES
    operations, outbox, receipts,   \* the committed tables
    log,        \* the committed rows of "events" of Op
    tx,         \* how far each transaction has got, and what it has written
    held,       \* the locks each transaction holds
    want,       \* the lock it waits for, if it waits
    reply,      \* the reply of a submit, once it is sent
    faults

committed == <<operations, outbox, receipts, log>>
vars == <<committed, tx, held, want, reply, faults>>

-----------------------------------------------------------------------------
(* statements *)

ProgramWithoutRowLock(kind) ==
    CASE kind \in Receipts      -> <<"read", "record", "link", "finalize", "number", "insert", "reference", "close">>
      [] kind = "submit"        -> <<"read", "begin", "store", "number", "insert", "reference", "refresh">>
      [] kind = "accepted"      -> <<"link", "read", "number", "insert", "reference", "close">>
      [] kind = "unavailable"   -> <<"reschedule", "number", "insert", "reference">>
      [] kind = "refused"       -> <<"fail", "number", "insert", "reference">>
      [] kind = "recovery"      -> <<"release", "revive", "list", "number", "insert", "reference">>
      [] kind = "claim"         -> <<"claim">>

\* The statements of each kind of transaction.  "number", "insert", "reference"
\* are the INSERT of append_event: the id is computed, the row enters the
\* primary key, its foreign key is checked.
Program(kind) ==
    CASE kind = "submit"      -> <<"read", "begin", "store", "number", "insert", "reference", "refresh">>
      [] kind \in Receipts    -> <<"lock", "record", "link", "finalize", "number", "insert", "reference", "close">>
      [] kind = "accepted"    -> <<"link", "read", "number", "insert", "reference", "close">>
      [] kind = "unavailable" -> <<"reschedule", "number", "insert", "reference">>
      [] kind = "refused"     -> <<"fail", "number", "insert", "reference">>
      [] kind = "recovery"    -> <<"release", "revive", "list", "number", "insert", "reference">>
      [] kind = "claim"       -> <<"claim">>

Over(t) == tx[t].step > Len(Program(Kind[t]))

Begun(t) == tx[t].step > 1 \/ want[t] # {} \/ tx[t].state \in {"committed", "aborted"}

\* A recording follows a claim of its own.
MayBegin(t) ==
    Kind[t] \in Recordings =>
        Cardinality({u \in Txs : Kind[u] \in Recordings /\ Begun(u)}) < outbox[Op].attempts

At(t, statement) ==
    /\ tx[t].state = "open" /\ ~ Over(t)
    /\ Program(Kind[t])[tx[t].step] = statement
    /\ Begun(t) \/ MayBegin(t)

\* The tables as transaction t sees them.
OperationsOf(t) == IF tx[t].operation = Null THEN operations
                   ELSE [operations EXCEPT ![Op] = tx[t].operation]
OutboxOf(t) == IF tx[t].intent = Null THEN outbox ELSE [outbox EXCEPT ![Op] = tx[t].intent]

Result(t) == IF Kind[t] = "completed" THEN "COMPLETED" ELSE "REJECTED"

Applies(t) == tx[t].copy.status = "PROCESSING"

-----------------------------------------------------------------------------
(* locks *)

OperationRow(mode) == [on |-> <<"operation", 0>>, mode |-> mode]
IntentRow == [on |-> <<"intent", 0>>, mode |-> "update"]
EventKey(id) == [on |-> <<"event", id>>, mode |-> "update"]

\* FOR KEY SHARE goes with itself and with FOR NO KEY UPDATE.
Compatible(a, b) == "share" \in {a, b} /\ "update" \notin {a, b}

Blockers(t, lock) ==
    {u \in Txs \ {t} : \E l \in held[u] : l.on = lock.on /\ ~ Compatible(l.mode, lock.mode)}

\* The lock the next statement needs.  A status is no key, but the payment id
\* is part of a unique index, so that linking locks as FOR UPDATE does.
Needs(t) ==
    LET row == OperationsOf(t)[Op]
        state == OutboxOf(t)[Op].state
    IN
    {l \in {OperationRow("update"), OperationRow("no key"), OperationRow("share"), IntentRow,
            EventKey(tx[t].id)} :
        \/ /\ l = OperationRow("update")
           /\ \/ At(t, "lock")
              \/ At(t, "link") /\ row.payment = Null /\ (Kind[t] \in Receipts => Applies(t))
        \/ /\ l = OperationRow("no key")
           /\ \/ At(t, "begin") /\ row.status = "CREATED"
              \/ At(t, "finalize") /\ Applies(t)
        \/ /\ l = OperationRow("share")
           /\ At(t, "reference") \/ At(t, "store") \/ At(t, "record")
        \/ /\ l = IntentRow
           /\ \/ At(t, "close") /\ (Kind[t] \in Receipts => Applies(t))
              \/ state = "IN_FLIGHT" /\ (At(t, "reschedule") \/ At(t, "fail") \/ At(t, "release"))
              \/ state = "FAILED" /\ operations[Op].status = "PROCESSING" /\ At(t, "revive")
        \/ l = EventKey(tx[t].id) /\ At(t, "insert")}

Locks(t) == IF want[t] # {} THEN want[t] ELSE Needs(t)

Acquire(t) ==
    /\ \A lock \in Locks(t) : Blockers(t, lock) = {}
    /\ held' = [held EXCEPT ![t] = @ \cup Locks(t)]
    /\ want' = [want EXCEPT ![t] = {}]

Wait(t) ==
    /\ tx[t].state = "open" /\ want[t] = {}
    /\ \E lock \in Needs(t) : Blockers(t, lock) # {}
    /\ want' = [want EXCEPT ![t] = Needs(t)]
    /\ UNCHANGED <<committed, tx, held, reply, faults>>

Waiting == {t \in Txs : want[t] # {}}

WaitsFor(t) == UNION {Blockers(t, lock) : lock \in want[t]}

\* A set in which everyone waits for another of the set, and no smaller one in
\* it: a cycle of waiting transactions.
Stuck(cycle) == cycle # {} /\ \A t \in cycle : WaitsFor(t) \cap cycle # {}

Cycle(cycle) == Stuck(cycle) /\ \A t \in cycle : ~ \E part \in SUBSET (cycle \ {t}) : Stuck(part)

-----------------------------------------------------------------------------
(* executing a statement *)

Advance(t, row) == tx' = [tx EXCEPT ![t] = [row EXCEPT !.step = @ + 1]]

GoBack(t, row) == tx' = [tx EXCEPT ![t] = [row EXCEPT !.step = @ - 1]]

Leave(t, row) == tx' = [tx EXCEPT ![t] = [row EXCEPT !.step = Len(Program(Kind[t])) + 1]]

\* A row that the statement leaves as it is, is not written.
WritesOperation(t, table) ==
    [tx[t] EXCEPT !.operation = IF table = OperationsOf(t) THEN @ ELSE table[Op]]

WritesIntent(t, table) ==
    [tx[t] EXCEPT !.intent = IF table = OutboxOf(t) THEN @ ELSE table[Op]]

Run(t, statement) ==
    /\ At(t, statement)
    /\ Acquire(t)
    /\ UNCHANGED <<committed, reply, faults>>

Roll(t, tries) ==
    /\ tx' = [tx EXCEPT ![t].state = "aborted", ![t].tries = tries]
    /\ held' = [held EXCEPT ![t] = {}]
    /\ want' = [want EXCEPT ![t] = {}]
    /\ UNCHANGED <<committed, reply>>

\* get_or_raise of a submit, operations.get of an answer, session.refresh.
Read(t) ==
    LET row == OperationsOf(t)[Op] IN
    /\ Run(t, "read")
    /\ Advance(t, [tx[t] EXCEPT !.copy = row, !.since = row.status])

Refresh(t) ==
    /\ Run(t, "refresh")
    /\ Advance(t, [tx[t] EXCEPT !.copy = OperationsOf(t)[Op]])

LoserAlwaysProcessing(copy) == {[copy EXCEPT !.status = "PROCESSING"]}

\* The copy a submit that lost is left with.  The comment in submit_operation
\* says that an UPDATE leaves it as it was; by default the ORM applies the
\* UPDATE to it as well.
LoserCopies(copy) ==
    {copy, IF copy.status = "CREATED" THEN [copy EXCEPT !.status = "PROCESSING"] ELSE copy}

BeginProcessing(t) ==
    LET table == OperationsOf(t) IN
    /\ Run(t, "begin")
    /\ \/ /\ CanBeginProcessing(table, Op)
          /\ Advance(t, [WritesOperation(t, TryBeginProcessing(table, Op)) EXCEPT !.won = TRUE])
       \/ /\ ~ CanBeginProcessing(table, Op)
          /\ \E copy \in LoserCopies(tx[t].copy) : Leave(t, [tx[t] EXCEPT !.copy = copy])

StoreIntent(t) ==
    /\ Run(t, "store")
    /\ Advance(t, WritesIntent(t, CreateIntent(OutboxOf(t), Op, Op)))

\* get_for_update, and the 409 of a receipt for another payment.
LockOperation(t) ==
    LET row == OperationsOf(t)[Op] IN
    /\ row.payment \in {Null, PaymentOf[t]}
    /\ Run(t, "lock")
    /\ Advance(t, [tx[t] EXCEPT !.copy = row])

Mismatch(t) ==
    /\ At(t, "lock")
    /\ \A lock \in Locks(t) : Blockers(t, lock) = {}
    /\ operations[Op].payment \notin {Null, PaymentOf[t]}
    /\ Roll(t, tx[t].tries)
    /\ UNCHANGED faults

\* A receipt that is not inserted is a duplicate, and nothing more is done.
TryRecord(t) ==
    LET reason == IF Applies(t) THEN "none"
                  ELSE IF tx[t].copy.status \in TerminalStatuses THEN "already_final"
                  ELSE "not_submitted"
        table == RecordReceipt({}, Op, PaymentOf[t], Result(t), Applies(t), reason)
    IN
    /\ Run(t, "record")
    /\ IF AlreadyRecorded(receipts, Op, PaymentOf[t], Result(t))
       THEN Leave(t, tx[t])
       ELSE Advance(t, [tx[t] EXCEPT !.receipt = table])

Link(t) ==
    /\ Run(t, "link")
    /\ IF Kind[t] \in Receipts /\ ~ Applies(t)
       THEN Advance(t, tx[t])
       ELSE Advance(t, WritesOperation(t, LinkProviderPayment(OperationsOf(t), Op, PaymentOf[t])))

Finalize(t) ==
    /\ Run(t, "finalize")
    /\ IF Applies(t)
       THEN Advance(t, WritesOperation(t, TryFinalize(OperationsOf(t), Op, ResultToStatus(Result(t)))))
       ELSE Advance(t, tx[t])

Close(t) ==
    /\ Run(t, "close")
    /\ IF Kind[t] \in Receipts /\ ~ Applies(t)
       THEN Advance(t, tx[t])
       ELSE Advance(t, WritesIntent(t, MarkDone(OutboxOf(t), Op)))

RecordsFailure(t) ==
    \/ /\ Run(t, "reschedule")
       /\ Advance(t, WritesIntent(t, Reschedule(OutboxOf(t), Op, "unavailable")))
    \/ /\ Run(t, "fail")
       /\ Advance(t, WritesIntent(t, MarkFailed(OutboxOf(t), Op, "rejected")))

Resume(t) ==
    \/ Run(t, "release") /\ Advance(t, WritesIntent(t, ReleaseAllInFlight(OutboxOf(t))))
    \/ Run(t, "revive") /\ Advance(t, WritesIntent(t, ReviveFailed(OutboxOf(t), operations)))
    \/ /\ Run(t, "list")
       /\ IF Op \in ListResumable(OutboxOf(t), operations) THEN Advance(t, tx[t]) ELSE Leave(t, tx[t])

\* SKIP LOCKED: a row that somebody else has locked is passed over.
ClaimIntent(t) ==
    /\ At(t, "claim")
    /\ IF Op \in Due(outbox) /\ Blockers(t, IntentRow) = {}
       THEN /\ held' = [held EXCEPT ![t] = @ \cup {IntentRow}]
            /\ Advance(t, WritesIntent(t, ClaimDue(outbox, {Op})))
       ELSE Advance(t, tx[t]) /\ UNCHANGED held
    /\ want' = [want EXCEPT ![t] = {}]
    /\ UNCHANGED <<committed, reply, faults>>

-----------------------------------------------------------------------------
(* append_event *)

Ids == {e.id : e \in log}

NextIdOfUncommitted ==
    LET seen == Ids \cup {0} \cup UNION {{e.id : e \in tx[t].event} : t \in Txs}
    IN 1 + CHOOSE n \in seen : \A id \in seen : id <= n

\* COALESCE(MAX(event_id), 0) + 1 over the rows that are committed.
LastId == CHOOSE n \in Ids \cup {0} : \A id \in Ids : id <= n

NextId == LastId + 1

EventOf(t) ==
    LET status == tx[t].copy.status
        New(type, from, to) == [id |-> tx[t].id, type |-> type, from |-> from, to |-> to]
    IN
    CASE Kind[t] = "submit" -> New("SUBMIT_REQUESTED", "CREATED", "PROCESSING")
      [] Kind[t] = "accepted" -> New("PROVIDER_ACCEPTED", status, status)
      [] Kind[t] \in {"unavailable", "refused"} -> New("PROVIDER_ATTEMPT_FAILED", "PROCESSING", "PROCESSING")
      [] Kind[t] = "recovery" -> New("RECOVERY_RESUMED", "PROCESSING", "PROCESSING")
      [] Kind[t] \in Receipts ->
            IF Applies(t)
            THEN New(StatusToEventType(ResultToStatus(Result(t))), "PROCESSING", ResultToStatus(Result(t)))
            ELSE New("RECEIPT_CONFLICT_IGNORED", status, status)

NumberEvent(t) ==
    /\ Run(t, "number")
    /\ Advance(t, [tx[t] EXCEPT !.id = NextId, !.first = IF tx[t].tries = 0 THEN NextId ELSE @])

InsertEvent(t) ==
    /\ tx[t].id \notin Ids
    /\ Run(t, "insert")
    /\ Advance(t, [tx[t] EXCEPT !.event = {EventOf(t)}])

Collides(t) ==
    /\ At(t, "insert")
    /\ \A lock \in Locks(t) : Blockers(t, lock) = {}
    /\ tx[t].id \in Ids

CollideOnTheSameId(t) ==
    /\ Collides(t)
    /\ tx[t].tries + 1 < MaxCollisions
    /\ tx' = [tx EXCEPT ![t].tries = @ + 1]
    /\ want' = [want EXCEPT ![t] = {}]
    /\ UNCHANGED <<committed, held, reply, faults>>

\* IntegrityError: back to the savepoint and to a new id.
Collide(t) ==
    /\ Collides(t)
    /\ tx[t].tries + 1 < MaxCollisions
    /\ GoBack(t, [tx[t] EXCEPT !.tries = @ + 1])
    /\ want' = [want EXCEPT ![t] = {}]
    /\ UNCHANGED <<committed, held, reply, faults>>

\* The last one is raised, and the transaction is rolled back.
CollideAtLast(t) ==
    /\ Collides(t)
    /\ tx[t].tries + 1 = MaxCollisions
    /\ Roll(t, tx[t].tries + 1)
    /\ UNCHANGED faults

CheckReference(t) == Run(t, "reference") /\ Advance(t, tx[t])

-----------------------------------------------------------------------------
(* ends *)

Commit(t) ==
    /\ tx[t].state = "open" /\ Over(t)
    /\ operations' = OperationsOf(t)
    /\ outbox' = OutboxOf(t)
    /\ receipts' = receipts \cup tx[t].receipt
    /\ log' = log \cup tx[t].event
    /\ tx' = [tx EXCEPT ![t].state = "committed"]
    /\ held' = [held EXCEPT ![t] = {}]
    /\ UNCHANGED <<want, reply, faults>>

\* The handler has returned.  The commit is the exit code of a dependency with
\* yield, which FastAPI runs before or after it sends the reply, as its version
\* has it.
SendReply(t) ==
    /\ Kind[t] = "submit"
    /\ Over(t) /\ tx[t].state \in {"open", "committed"}
    /\ reply[t].code = 0
    /\ reply' = [reply EXCEPT ![t] =
        [code |-> IF tx[t].won THEN 202 ELSE 200, status |-> tx[t].copy.status]]
    /\ UNCHANGED <<committed, tx, held, want, faults>>

\* PostgreSQL rolls back one of the transactions that wait for each other.
DeadlockVictim(t) ==
    /\ t \in Waiting
    /\ \E cycle \in SUBSET Waiting : t \in cycle /\ Cycle(cycle)
    /\ Roll(t, tx[t].tries)
    /\ UNCHANGED faults

ConnectionLost(t) ==
    /\ tx[t].state = "open" /\ Begun(t)
    /\ faults < MaxFaults
    /\ faults' = faults + 1
    /\ Roll(t, tx[t].tries)

\* No request is left: every transaction has ended, or has no claim to record.
Quiet ==
    /\ \A t \in Txs : tx[t].state # "open" \/ ~ (Begun(t) \/ MayBegin(t))
    /\ UNCHANGED vars

Statement(t) ==
    \/ Read(t) \/ Refresh(t) \/ BeginProcessing(t) \/ StoreIntent(t)
    \/ LockOperation(t) \/ Mismatch(t) \/ TryRecord(t)
    \/ Link(t) \/ Finalize(t) \/ Close(t)
    \/ RecordsFailure(t) \/ Resume(t) \/ ClaimIntent(t)
    \/ NumberEvent(t) \/ InsertEvent(t) \/ Collide(t) \/ CollideAtLast(t) \/ CheckReference(t)

Proceed(t) == Wait(t) \/ Statement(t) \/ Commit(t) \/ DeadlockVictim(t)

Next ==
    \/ \E t \in Txs : Proceed(t) \/ SendReply(t) \/ ConnectionLost(t)
    \/ Quiet

-----------------------------------------------------------------------------

NoTx ==
    [state |-> "open", step |-> 1, operation |-> Null, intent |-> Null,
     receipt |-> {}, event |-> {}, copy |-> NoOperation, since |-> Absent,
     id |-> 0, first |-> 0, tries |-> 0, won |-> FALSE]

Row(id, type, from, to) == [id |-> id, type |-> type, from |-> from, to |-> to]

\* The operation has been created, or it has been submitted and its intent has
\* been claimed for two deliveries, the second after the lease of the first.
Init ==
    /\ \/ /\ operations = [o \in OperationIds |-> IF o = Op THEN [NoOperation EXCEPT !.status = "CREATED"]
                                                  ELSE NoOperation]
          /\ outbox = [o \in OperationIds |-> NoIntent]
          /\ log = {Row(1, "CREATED", Null, "CREATED")}
       \/ /\ operations = [o \in OperationIds |-> IF o = Op THEN [NoOperation EXCEPT !.status = "PROCESSING"]
                                                  ELSE NoOperation]
          /\ outbox = [o \in OperationIds |->
                IF o = Op THEN [state |-> "IN_FLIGHT", key |-> Op, attempts |-> 2, due |-> TRUE,
                                lease |-> "held", error |-> "none"]
                ELSE NoIntent]
          /\ log = {Row(1, "CREATED", Null, "CREATED"),
                    Row(2, "SUBMIT_REQUESTED", "CREATED", "PROCESSING")}
    /\ receipts = {}
    /\ \E mix \in Mixes :
        tx = [t \in Txs |-> IF t \in mix THEN NoTx ELSE [NoTx EXCEPT !.state = "absent"]]
    /\ held = [t \in Txs |-> {}]
    /\ want = [t \in Txs |-> {}]
    /\ reply = [t \in Txs |-> [code |-> 0, status |-> Absent]]
    /\ faults = 0

Spec == Init /\ [][Next]_vars

-----------------------------------------------------------------------------
(* Safety *)

Lock == [on : {"operation", "intent", "event"} \X Nat, mode : {"share", "no key", "update"}]

EventRow == [id : Nat, type : EventType, from : OperationStatus \cup {Null}, to : OperationStatus]

\* What a transaction has written to itself is a row of the table, or nothing.
TypeOK ==
    /\ operations \in [OperationIds -> Operation]
    /\ outbox \in [OperationIds -> SubmitIntent]
    /\ receipts \subseteq Receipt
    /\ log \subseteq EventRow
    /\ \A t \in Txs :
        /\ tx[t].state \in {"absent", "open", "committed", "aborted"}
        /\ tx[t].operation \in Operation \cup {Null}
        /\ tx[t].intent \in SubmitIntent \cup {Null}
        /\ tx[t].receipt \subseteq Receipt
        /\ tx[t].event \subseteq EventRow
        /\ held[t] \cup want[t] \subseteq Lock
    /\ faults \in 0 .. MaxFaults

\* The history of an operation is numbered 1, 2, 3, ... in the order of the
\* commits: a roll-back leaves no gap, and no two transactions get one number
\* (the docstring of repositories/events.py).
EventIdsDense == Ids = 1 .. Cardinality(log)

\* An append gives up after _MAX_ID_COLLISION_RETRIES collisions; it never
\* collides twice with one row, so each of them, the last one included, is paid
\* for by another transaction that has committed an event since it began.
CollisionsAreCommits ==
    \A t \in Txs : Cardinality({id \in Ids : id >= tx[t].first}) >= tx[t].tries

\* Submits and receipts never wait for each other in a cycle, nor with the
\* answer that links the operation: they lock the operation first.  Every
\* deadlock has in it a transaction that takes an intent or an event id and
\* only then, through a foreign key, the operation.
RequestsKeepOneOrder ==
    \A cycle \in SUBSET Waiting :
        Cycle(cycle) =>
            \E t \in cycle :
                \/ Kind[t] \in {"unavailable", "refused", "recovery"}
                \/ Kind[t] = "accepted" /\ tx[t].operation = Null

Rank(status) ==
    CASE status = "CREATED" -> 1 [] status = "PROCESSING" -> 2 [] OTHER -> 3

\* The replies whose transaction did not commit after all.
Unkept == {t \in Txs : reply[t].code # 0 /\ tx[t].state = "aborted"}

\* A reply to a submit can be broken by nothing but a connection lost at the
\* commit: no deadlock, no collision and no other submit comes in its way.  Of
\* the submits whose reply is not broken so, one at most is told 202, and its
\* intent is stored or goes with its transaction.  The status a loser is told
\* is one the operation had between its read and now, whatever becomes of the
\* winner (operation_service.submit_operation, deps.get_session).  README.md:124
\* promises more: one 202 without exception, and the current status to the rest.
RepliesTellTheTruth ==
    /\ Cardinality(Unkept) <= faults
    /\ \A t \in Txs \ Unkept :
        reply[t].code = 202 =>
            /\ (IF tx[t].state = "open" THEN OutboxOf(t) ELSE outbox)[Op].state # Absent
            /\ \A u \in Txs \ Unkept : reply[u].code = 202 => u = t
    /\ \A t \in Txs :
        reply[t].code = 200 =>
            /\ Rank(tx[t].since) <= Rank(reply[t].status)
            /\ Rank(reply[t].status) <= Rank(operations[Op].status)

\* One report settles the operation, however many arrive together and whatever
\* each has read: the operation is final exactly when a receipt is recorded as
\* applied, there is one such receipt, status and link are its own, and the
\* intent has been closed with it (receipt_service.process_receipt).
OneReceiptSettles ==
    LET applied == {r \in receipts : r.applied} IN
    /\ operations[Op].status \in TerminalStatuses <=> applied # {}
    /\ \A r \in applied :
        /\ applied = {r}
        /\ ResultToStatus(r.result) = operations[Op].status
        /\ r.payment = operations[Op].payment
        /\ outbox[Op].state = "DONE"

\* No interleaving of statements takes back a final status, a link, a closed
\* intent or a row of the history, not even when a recovery runs beside
\* requests and deliveries, or a failure is recorded after a receipt.
StatementsUndoNothing ==
    [][/\ operations[Op].status \in TerminalStatuses => operations'[Op].status = operations[Op].status
       /\ operations[Op].payment # Null => operations'[Op].payment = operations[Op].payment
       /\ outbox[Op].state = "DONE" => outbox'[Op].state = "DONE"
       /\ log \subseteq log']_vars

-----------------------------------------------------------------------------
(* What the statements implement *)

History ==
    [o \in OperationIds |->
        IF o # Op THEN <<>>
        ELSE [k \in 1 .. Cardinality(log) |->
                LET e == CHOOSE row \in log : row.id = k
                IN [type |-> e.type, from |-> e.from, to |-> e.to]]]

Tables == INSTANCE AtomicTables WITH events <- History

\* What a failure or a recovery has found is known at its statement; a claim, or
\* even a receipt, may come before its commit.
FoundNothing(kinds) ==
    \E t \in Txs :
        /\ Kind[t] \in kinds /\ tx[t].intent = Null
        /\ tx[t].state = "open" /\ tx'[t].state = "committed"

\* Seen from the tables, every transaction happens at once, at its commit: it is
\* one of the steps TaskPayments takes a transaction to be.  A failure that found
\* nothing in flight commits its event alone, and so does a recovery that had
\* nothing to release or to revive, for an intent it has found waiting.
TransactionsAreAtomic ==
    [][\/ UNCHANGED committed
       \/ Tables!Next
       \/ FoundNothing({"unavailable", "refused"}) /\ Tables!NoteFailure(Op)
       \/ FoundNothing({"recovery"}) /\ Tables!NoteResumption(Op)]_vars

===============================================================================
