------------------------------ MODULE Dispatcher ------------------------------
(***************************************************************************)
(* The background dispatcher (app/services/dispatcher.py) inside the       *)
(* service process that runs it (app/main.py), for any number of processes *)
(* over one database.                                                      *)
(*                                                                         *)
(* A process claims a batch in one transaction, calls the provider outside *)
(* any transaction, and records each result in a transaction of its own.   *)
(* Between these steps anything else may happen: a receipt, the end of the *)
(* lease, a shutdown, a crash.                                             *)
(*                                                                         *)
(* What a process holds in memory is work and claimed; it dies with it.    *)
(* Clocks are not modelled: a backoff or a lease may end at any moment.    *)
(***************************************************************************)
EXTENDS Service, Provider, FiniteSets

CONSTANTS
    Instances,      \* processes of the service
    MaxAttempts,    \* provider_max_attempts
    BatchSize,      \* dispatcher_batch_size
    Concurrency,    \* dispatcher_concurrency
    MaxDisruptions  \* bound on crashes, stops and failures of a behaviour

ASSUME SettingsAssumption ==
    /\ MaxAttempts \in Nat \ {0}
    /\ BatchSize \in Nat \ {0}
    /\ Concurrency \in Nat \ {0}
    /\ MaxDisruptions \in Nat

VARIABLES
    proc,           \* where each process is in its life
    work,           \* the batch each process is delivering: one item per operation
    claimed,        \* Dispatcher._claimed of each process
    disruptions     \* how many disruptions there have been

process == <<proc, work, claimed>>

ProcState == {"down", "starting", "serving", "stopping", "cancelled"}

\* An item of a batch: queued for the semaphore, calling the provider, or
\* holding the outcome of the call until it is recorded.
Outcome == {"accepted", "unavailable", "rejected"}
Phase == {"none", "queued", "calling"} \cup Outcome

\* ClaimedWork, the snapshot taken of the row, and the provider's answer.
WorkItem ==
    [phase : Phase,
     key : OperationIds \cup {Null},
     attempt : Nat,
     payment : PaymentIds \cup {Null}]

NoWork == [phase |-> "none", key |-> Null, attempt |-> 0, payment |-> Null]

ProcessInit ==
    /\ proc = [i \in Instances |-> "down"]
    /\ work = [i \in Instances |-> [o \in OperationIds |-> NoWork]]
    /\ claimed = [i \in Instances |-> {}]
    /\ disruptions = 0

ProcessTypeOK ==
    /\ proc \in [Instances -> ProcState]
    /\ work \in [Instances -> [OperationIds -> WorkItem]]
    /\ claimed \in [Instances -> SUBSET OperationIds]
    /\ disruptions \in 0 .. MaxDisruptions

\* MaxDisruptions bounds everything that may interrupt the normal course.
Disrupt ==
    /\ disruptions < MaxDisruptions
    /\ disruptions' = disruptions + 1

Serving == \E i \in Instances : proc[i] = "serving"

\* gather has returned: every item of the batch is finished.
BatchOver(i) == \A o \in OperationIds : work[i][o].phase = "none"

\* Items inside "async with self._limit".
Limited(i) == {o \in OperationIds : work[i][o].phase \in {"calling"} \cup Outcome}

Delivering(o) == {i \in Instances : work[i][o].phase # "none"}

SetPhase(i, o, phase) == work' = [work EXCEPT ![i][o].phase = phase]

Finish(i, o) == work' = [work EXCEPT ![i][o] = NoWork]

-----------------------------------------------------------------------------
(* claiming a batch *)

\* ORDER BY, LIMIT and SKIP LOCKED together: some due rows, at most a batch.
Claimable(rows) ==
    /\ rows # {}
    /\ rows \subseteq Due(outbox)
    /\ Cardinality(rows) <= BatchSize

Claim(i, rows) ==
    /\ proc[i] = "serving"
    /\ BatchOver(i)
    /\ Claimable(rows)
    /\ outbox' = ClaimDue(outbox, rows)
    /\ work' = [work EXCEPT ![i] =
        [o \in OperationIds |->
            IF o \in rows
            THEN [NoWork EXCEPT !.phase = "queued", !.key = outbox[o].key,
                                !.attempt = outbox[o].attempts + 1]
            ELSE NoWork]]
    /\ claimed' = [claimed EXCEPT ![i] = @ \cup rows]
    /\ UNCHANGED <<operations, events, receipts, provider, proc, disruptions>>

\* The claim was committed, but its acknowledgement did not come back: the
\* tick fails and nobody delivers the rows until their lease ends.
ClaimLost(i, rows) ==
    /\ proc[i] = "serving"
    /\ BatchOver(i)
    /\ Claimable(rows)
    /\ outbox' = ClaimDue(outbox, rows)
    /\ Disrupt
    /\ UNCHANGED <<operations, events, receipts, provider, process>>

\* run_once finds nothing to do and the loop idles.
EmptyPoll(i) ==
    /\ proc[i] = "serving"
    /\ BatchOver(i)
    /\ Due(outbox) = {}
    /\ UNCHANGED <<tables, provider, process, disruptions>>

-----------------------------------------------------------------------------
(* calling the provider *)

KeyedByAttempt(item, o) == [key |-> <<item.key, item.attempt>>, op |-> o]

\* Every attempt of an operation sends the stored key and the stored body.
RequestOf(item, o) == [key |-> item.key, op |-> o]

StartCall(i, o) ==
    /\ work[i][o].phase = "queued"
    /\ Cardinality(Limited(i)) < Concurrency
    /\ SetPhase(i, o, "calling")
    /\ requests' = requests \cup {RequestOf(work[i][o], o)}
    /\ UNCHANGED <<tables, payments, proc, claimed, disruptions>>

\* A 202 whose body names the payment kept for this key.
CallAccepted(i, o) ==
    /\ work[i][o].phase = "calling"
    /\ \E p \in payments :
        /\ p.key = RequestOf(work[i][o], o).key
        /\ work' = [work EXCEPT ![i][o] =
            [@ EXCEPT !.phase = "accepted", !.payment = p.id]]
    /\ UNCHANGED <<tables, provider, proc, claimed, disruptions>>

\* ProviderUnavailable: a timeout, a network failure, a 5xx, 408, 425, 429 or
\* an unusable body.  The payment may or may not have been created.
CallUnavailable(i, o) ==
    /\ work[i][o].phase = "calling"
    /\ SetPhase(i, o, "unavailable")
    /\ UNCHANGED <<tables, provider, proc, claimed, disruptions>>

\* ProviderRejectedRequest: any other 4xx.
CallRejected(i, o) ==
    /\ work[i][o].phase = "calling"
    /\ SetPhase(i, o, "rejected")
    /\ UNCHANGED <<tables, provider, proc, claimed, disruptions>>

-----------------------------------------------------------------------------
(* recording the result *)

\* The operation leaves _claimed when its result is committed.  If only the
\* acknowledgement of the commit is lost, it stays there.
Acknowledged(i, o) ==
    \/ claimed' = [claimed EXCEPT ![i] = @ \ {o}] /\ UNCHANGED disruptions
    \/ UNCHANGED claimed /\ Disrupt

OnAccepted(i, o) ==
    /\ work[i][o].phase = "accepted"
    /\ RecordAcceptance(o, work[i][o].payment)
    /\ Finish(i, o)
    /\ Acknowledged(i, o)
    /\ UNCHANGED <<provider, proc>>

GivesUpEarly(item) == item.phase = "unavailable" /\ item.attempt + 1 < MaxAttempts

AttemptsLeft(item) == item.phase = "unavailable" /\ item.attempt < MaxAttempts

OnFailure(i, o) ==
    /\ work[i][o].phase \in {"unavailable", "rejected"}
    /\ RecordFailure(o, work[i][o].phase, AttemptsLeft(work[i][o]))
    /\ Finish(i, o)
    /\ Acknowledged(i, o)
    /\ UNCHANGED <<provider, proc>>

\* The recording transaction raised (the database is away, the link is refused
\* by its unique constraint) and was rolled back.  _process swallows the
\* exception; the operation stays in _claimed and the row IN_FLIGHT.
ResultNotRecorded(i, o) ==
    /\ work[i][o].phase \in Outcome
    /\ Finish(i, o)
    /\ Disrupt
    /\ UNCHANGED <<tables, provider, proc, claimed>>

-----------------------------------------------------------------------------
(* life of the process *)

Boot(i) ==
    /\ proc[i] = "down"
    /\ proc' = [proc EXCEPT ![i] = "starting"]
    /\ UNCHANGED <<tables, provider, work, claimed, disruptions>>

\* The recovery transaction commits; the dispatcher starts and the process
\* begins to serve requests.
Recover(i) ==
    /\ proc[i] = "starting"
    /\ ResumeUnfinished
    /\ proc' = [proc EXCEPT ![i] = "serving"]
    /\ UNCHANGED <<provider, work, claimed, disruptions>>

\* All attempts at recovery failed; the process starts all the same.
RecoveryGivesUp(i) ==
    /\ proc[i] = "starting"
    /\ proc' = [proc EXCEPT ![i] = "serving"]
    /\ Disrupt
    /\ UNCHANGED <<tables, provider, work, claimed>>

\* SIGTERM: requests are no longer served and stop() has set _stopping.
RequestStop(i) ==
    /\ proc[i] = "serving"
    /\ proc' = [proc EXCEPT ![i] = "stopping"]
    /\ Disrupt
    /\ UNCHANGED <<tables, provider, work, claimed>>

\* shutdown_grace_seconds are over: the task is cancelled with its batch.
GraceExpires(i) ==
    /\ proc[i] = "stopping"
    /\ ~ BatchOver(i)
    /\ proc' = [proc EXCEPT ![i] = "cancelled"]
    /\ work' = [work EXCEPT ![i] = [o \in OperationIds |-> NoWork]]
    /\ UNCHANGED <<tables, provider, claimed, disruptions>>

StoppedAtOnce(i) == proc[i] \in {"stopping", "cancelled"}

Stopped(i) == proc[i] = "cancelled" \/ (proc[i] = "stopping" /\ BatchOver(i))

\* _release_claimed, the last thing the dispatcher does.
ReleaseClaimed(i) ==
    /\ Stopped(i)
    /\ outbox' = ReleaseForRetry(outbox, claimed[i])
    /\ claimed' = [claimed EXCEPT ![i] = {}]
    /\ proc' = [proc EXCEPT ![i] = "down"]
    /\ UNCHANGED <<operations, events, receipts, provider, work, disruptions>>

ReleaseFailed(i) ==
    /\ Stopped(i)
    /\ claimed[i] # {}
    /\ claimed' = [claimed EXCEPT ![i] = {}]
    /\ proc' = [proc EXCEPT ![i] = "down"]
    /\ Disrupt
    /\ UNCHANGED <<tables, provider, work>>

Crash(i) ==
    /\ proc[i] # "down"
    /\ proc' = [proc EXCEPT ![i] = "down"]
    /\ work' = [work EXCEPT ![i] = [o \in OperationIds |-> NoWork]]
    /\ claimed' = [claimed EXCEPT ![i] = {}]
    /\ Disrupt
    /\ UNCHANGED <<tables, provider>>

-----------------------------------------------------------------------------
(* time *)

BackoffElapses(o) ==
    /\ outbox[o].state = "PENDING"
    /\ ~ outbox[o].due
    /\ outbox' = [outbox EXCEPT ![o].due = TRUE]
    /\ UNCHANGED <<operations, events, receipts, provider, process, disruptions>>

LeaseExpires(o) ==
    /\ outbox[o].lease = "held"
    /\ Delivering(o) = {}
    /\ outbox' = [outbox EXCEPT ![o].lease = "expired"]
    /\ UNCHANGED <<operations, events, receipts, provider, process, disruptions>>

\* The lease ends while a process is still delivering the intent: a call, or
\* the wait for the semaphore before it, has taken longer than the lease.
LeaseOverrun(o) ==
    /\ outbox[o].lease = "held"
    /\ Delivering(o) # {}
    /\ outbox' = [outbox EXCEPT ![o].lease = "expired"]
    /\ Disrupt
    /\ UNCHANGED <<operations, events, receipts, provider, process>>
===============================================================================
