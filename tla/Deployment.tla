------------------------------- MODULE Deployment -------------------------------
(***************************************************************************)
(* The life of the service's container: docker-entrypoint.sh migrates the  *)
(* schema and hands over to uvicorn, whose lifespan (app/main.py) opens    *)
(* the clients, recovers, starts the dispatcher and closes all of it in    *)
(* the reverse order; compose.yaml starts the container again.  The        *)
(* database goes away and comes back meanwhile.                            *)
(*                                                                         *)
(* Times are left out here: the pauses between attempts (sleep 2,          *)
(* _RECOVERY_RETRY_DELAY) let the database change in between.              *)
(***************************************************************************)
EXTENDS Naturals

CONSTANTS
    MigrationAttempts,  \* ATTEMPTS, 30 by default
    RecoveryAttempts,   \* _RECOVERY_ATTEMPTS, 15
    MaxOutages,         \* outages of the database that are considered
    MaxStops            \* stops and crashes that are considered

ASSUME DeploymentAssumption ==
    /\ MigrationAttempts \in Nat \ {0} /\ RecoveryAttempts \in Nat \ {0}
    /\ MaxOutages \in Nat /\ MaxStops \in Nat

VARIABLES
    phase,      \* where the container is in its life
    attempt,    \* the attempt at migrating or recovering
    schema,     \* "none" or "head": what alembic_version says
    database,   \* whether the database accepts connections
    provider,   \* the HTTP client of the provider
    engine,     \* the pool of database connections
    batch,      \* what the dispatcher is doing
    outages, stops

vars == <<phase, attempt, schema, database, provider, engine, batch, outages, stops>>

Init ==
    /\ phase = "down" /\ attempt = 0
    /\ schema = "none" /\ database = "up"
    /\ provider = "closed" /\ engine = "closed" /\ batch = "none"
    /\ outages = 0 /\ stops = 0

Available == database = "up"

-----------------------------------------------------------------------------
(* docker-entrypoint.sh *)

\* restart: unless-stopped; after a stop, whoever stopped it starts it again.
Start ==
    /\ phase = "down"
    /\ phase' = "migrating" /\ attempt' = 1
    /\ UNCHANGED <<schema, database, provider, engine, batch, outages, stops>>

UpgradesOnlyFresh == Available /\ schema = "none"

\* alembic upgrade head succeeds when it reaches the database: a schema that is
\* at head is left as it is.
Upgrades == Available

\* The upgrade is one transaction; then exec "$@".  The lifespan begins
\* by opening the client; the pool opens with its first use.
Migrate ==
    /\ phase = "migrating" /\ Upgrades
    /\ schema' = "head"
    /\ phase' = "recovering" /\ attempt' = 1
    /\ provider' = "open" /\ engine' = "open"
    /\ UNCHANGED <<database, batch, outages, stops>>

CarryOn ==
    /\ phase' = "recovering" /\ attempt' = 1
    /\ provider' = "open" /\ engine' = "open"

\* exit 1
GiveUpMigrating ==
    /\ phase' = "down" /\ attempt' = 0
    /\ UNCHANGED <<provider, engine>>

MigrationFails ==
    /\ phase = "migrating" /\ ~ Upgrades
    /\ \/ /\ attempt < MigrationAttempts
          /\ attempt' = attempt + 1
          /\ UNCHANGED <<phase, provider, engine>>
       \/ /\ attempt >= MigrationAttempts
          /\ GiveUpMigrating
    /\ UNCHANGED <<schema, database, batch, outages, stops>>

-----------------------------------------------------------------------------
(* main.lifespan *)

Serve == phase' = "serving" /\ attempt' = 0

Recover ==
    /\ phase = "recovering" /\ Available
    /\ Serve
    /\ UNCHANGED <<schema, database, provider, engine, batch, outages, stops>>

\* After the last attempt the process serves all the same.
RecoveryFails ==
    /\ phase = "recovering" /\ ~ Available
    /\ IF attempt < RecoveryAttempts
       THEN attempt' = attempt + 1 /\ UNCHANGED phase
       ELSE Serve
    /\ UNCHANGED <<schema, database, provider, engine, batch, outages, stops>>

Working == phase \in {"serving", "stopping"}

Claim ==
    /\ phase = "serving" /\ batch = "none" /\ Available
    /\ batch' = "calling"
    /\ UNCHANGED <<phase, attempt, schema, database, provider, engine, outages, stops>>

CallEnds ==
    /\ Working /\ batch = "calling"
    /\ batch' = "recording"
    /\ UNCHANGED <<phase, attempt, schema, database, provider, engine, outages, stops>>

\* Recorded, or not recorded because the database is away.
BatchEnds ==
    /\ Working /\ batch = "recording"
    /\ batch' = "none"
    /\ UNCHANGED <<phase, attempt, schema, database, provider, engine, outages, stops>>

StopRequested ==
    /\ phase = "serving" /\ stops < MaxStops
    /\ phase' = "stopping" /\ stops' = stops + 1
    /\ UNCHANGED <<attempt, schema, database, provider, engine, batch, outages>>

StopsAtOnce == phase' = "closing" /\ UNCHANGED batch

\* Dispatcher.stop returns when the batch is over, or has been cancelled.
StopsAfterBatch == phase' = "closing" /\ batch' = "none"

DispatcherStops ==
    /\ phase = "stopping"
    /\ StopsAfterBatch
    /\ UNCHANGED <<attempt, schema, database, provider, engine, outages, stops>>

ProviderCloses ==
    /\ phase = "closing"
    /\ provider' = "closed"
    /\ phase' = "disposing"
    /\ UNCHANGED <<attempt, schema, database, engine, batch, outages, stops>>

EngineDisposes ==
    /\ phase = "disposing"
    /\ engine' = "closed"
    /\ phase' = "down"
    /\ UNCHANGED <<attempt, schema, database, provider, batch, outages, stops>>

Crash ==
    /\ phase # "down" /\ stops < MaxStops
    /\ phase' = "down" /\ attempt' = 0
    /\ provider' = "closed" /\ engine' = "closed" /\ batch' = "none"
    /\ stops' = stops + 1
    /\ UNCHANGED <<schema, database, outages>>

DatabaseGoes ==
    /\ database = "up" /\ outages < MaxOutages
    /\ database' = "down" /\ outages' = outages + 1
    /\ UNCHANGED <<phase, attempt, schema, provider, engine, batch, stops>>

DatabaseReturns ==
    /\ database = "down"
    /\ database' = "up"
    /\ UNCHANGED <<phase, attempt, schema, provider, engine, batch, outages, stops>>

Container ==
    \/ Start \/ Migrate \/ MigrationFails \/ Recover \/ RecoveryFails
    \/ Claim \/ CallEnds \/ BatchEnds
    \/ DispatcherStops \/ ProviderCloses \/ EngineDisposes

Next == Container \/ StopRequested \/ Crash \/ DatabaseGoes \/ DatabaseReturns

Spec == Init /\ [][Next]_vars

\* The container goes on as long as it can, docker's restart policy included,
\* and postgres is restarted by the same policy.
FairSpec == Spec /\ WF_vars(Container) /\ WF_vars(DatabaseReturns)

-----------------------------------------------------------------------------
\* No request is served and no intent claimed on a schema that has not been
\* migrated, however the migration's attempts, outages and restarts interleave
\* (docker-entrypoint.sh, lines 2 and 6-8).
ServesMigratedSchema ==
    phase \in {"recovering", "serving", "stopping"} => schema = "head"

\* Nothing uses a connection after it has been closed: a call needs the client,
\* its recording the pool (main.py, "Порядок обратный запуску").
BatchHasItsClients ==
    batch # "none" => provider = "open" /\ engine = "open"

\* Once outages, crashes and stops are over the service serves, for good: no
\* number of attempts used up on the way leaves it down or waiting.
ComesToServe == <>[](phase = "serving")
===============================================================================
