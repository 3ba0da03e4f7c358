---------------------------- MODULE DeliveryTiming ----------------------------
(***************************************************************************)
(* The clock that module Dispatcher abstracts from: one batch from its     *)
(* claim to its last result, a stop that may come meanwhile, and the four  *)
(* periods of app/config.py and compose.yaml that have to fit together.    *)
(*                                                                         *)
(* Time is counted in units of two seconds from the claim.  A tick only    *)
(* comes when nothing is due now: asyncio starts a waiting item as soon as *)
(* the semaphore is free, and a timeout fires when its time has come.      *)
(***************************************************************************)
EXTENDS Integers, FiniteSets

CONSTANTS
    Items,          \* the intents of one batch (dispatcher_batch_size)
    Concurrency,    \* dispatcher_concurrency
    CallLimit,      \* the longest an item may hold the semaphore
    Lease,          \* intent_lease_seconds
    Grace,          \* shutdown_grace_seconds
    StopGrace,      \* stop_grace_period, after which docker kills
    Drain,          \* how long open requests may keep uvicorn from calling stop
    Never           \* a time that has not come

ASSUME TimingAssumption ==
    /\ Concurrency \in Nat \ {0}
    /\ CallLimit \in Nat \ {0} /\ Lease \in Nat /\ Grace \in Nat
    /\ StopGrace \in Nat /\ Drain \in Nat
    /\ Never \notin Nat

VARIABLES
    now,            \* time since the claim
    phase,          \* of each item
    since,          \* when each item got the semaphore
    signalled,      \* when SIGTERM came
    stopCalled,     \* when Dispatcher.stop was called
    process         \* "running", "stopped" (all released) or "killed"

vars == <<now, phase, since, signalled, stopCalled, process>>

Init ==
    /\ now = 0
    /\ phase = [i \in Items |-> "queued"]
    /\ since = [i \in Items |-> Never]
    /\ signalled = Never /\ stopCalled = Never
    /\ process = "running"

Calling == {i \in Items : phase[i] = "calling"}
Delivering == {i \in Items : phase[i] \in {"queued", "calling"}}

HasRoomForOneMore == Cardinality(Calling) + 1 < Concurrency

HasRoom == Cardinality(Calling) < Concurrency

\* "async with self._limit"; the call and the recording of its result both
\* happen inside.
Acquire(i) ==
    /\ process = "running"
    /\ phase[i] = "queued"
    /\ HasRoom
    /\ phase' = [phase EXCEPT ![i] = "calling"]
    /\ since' = [since EXCEPT ![i] = now]
    /\ UNCHANGED <<now, signalled, stopCalled, process>>

\* An answer or a timeout, recorded.
Conclude(i) ==
    /\ process = "running"
    /\ phase[i] = "calling"
    /\ phase' = [phase EXCEPT ![i] = "over"]
    /\ since' = [since EXCEPT ![i] = Never]
    /\ UNCHANGED <<now, signalled, stopCalled, process>>

\* docker stop: SIGTERM reaches uvicorn, which first lets the open requests
\* finish; for how long is not bounded.
Signal ==
    /\ process = "running" /\ signalled = Never
    /\ signalled' = now
    /\ UNCHANGED <<now, phase, since, stopCalled, process>>

CallStop ==
    /\ process = "running" /\ signalled # Never /\ stopCalled = Never
    /\ stopCalled' = now
    /\ UNCHANGED <<now, phase, since, signalled, process>>

\* asyncio.wait returns with the task done: release what is left and go.
StopInTime ==
    /\ process = "running" /\ stopCalled # Never
    /\ Delivering = {}
    /\ process' = "stopped"
    /\ UNCHANGED <<now, phase, since, signalled, stopCalled>>

GraceIgnored == FALSE

GraceOver == stopCalled # Never /\ now = stopCalled + Grace

\* The timeout of asyncio.wait: cancel the task, release and go.
StopByForce ==
    /\ process = "running" /\ GraceOver
    /\ phase' = [i \in Items |-> IF i \in Delivering THEN "abandoned" ELSE phase[i]]
    /\ process' = "stopped"
    /\ UNCHANGED <<now, since, signalled, stopCalled>>

KillDue == signalled # Never /\ now >= signalled + StopGrace

Kill ==
    /\ process = "running" /\ KillDue
    /\ process' = "killed"
    /\ phase' = [i \in Items |-> IF i \in Delivering THEN "abandoned" ELSE phase[i]]
    /\ UNCHANGED <<now, since, signalled, stopCalled>>

\* What has to happen before time goes on.
Overdue ==
    \/ HasRoom /\ \E i \in Items : phase[i] = "queued"
    \/ \E i \in Calling : now = since[i] + CallLimit
    \/ stopCalled # Never /\ Delivering = {}
    \/ GraceOver
    \/ KillDue

Tick ==
    /\ process = "running"
    /\ Delivering # {} \/ signalled # Never
    /\ ~ Overdue
    /\ now' = now + 1
    /\ UNCHANGED <<phase, since, signalled, stopCalled, process>>

Next ==
    \/ \E i \in Items : Acquire(i) \/ Conclude(i)
    \/ Signal \/ CallStop \/ StopInTime \/ StopByForce \/ Kill
    \/ Tick

Spec == Init /\ [][Next]_vars

-----------------------------------------------------------------------------
\* No lease ends while its intent waits for the semaphore, is being sent or
\* recorded: the batch needs no more rounds than the lease has time for, and
\* with one process no intent is delivered twice at once (config.py, lines
\* 50-52; the intents of one claim share one lease).
LeaseOutlivesDelivery == Delivering # {} => now < Lease

\* docker kills no process whose open requests have been answered within Drain
\* of the signal: what is then left of stop_grace_period is more than the
\* shutdown_grace_seconds that stop may take, so that an intent left in flight by
\* a kill was lost to slower requests alone (compose.yaml, "Диспетчеру нужно
\* время на корректное завершение").
KilledOnlyByDrain ==
    process = "killed" => (stopCalled = Never \/ stopCalled - signalled > Drain)
===============================================================================
