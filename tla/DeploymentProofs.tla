---------------------------- MODULE DeploymentProofs ----------------------------
(***************************************************************************)
(* The order of the container's life, for any number of attempts, outages  *)
(* and stops.                                                              *)
(***************************************************************************)
EXTENDS Deployment, TLAPS

\* What each phase leaves behind it: the schema is migrated before anything is
\* opened, everything is open before a batch begins, and the batch is over
\* before anything is closed.
LifeInv ==
    /\ phase \notin {"down", "migrating"} => schema = "head"
    /\ phase \in {"recovering", "serving", "stopping", "closing"} => provider = "open"
    /\ phase \in {"recovering", "serving", "stopping", "closing", "disposing"} => engine = "open"
    /\ batch # "none" => phase \in {"serving", "stopping"}

LEMMA LifeInit == Init => LifeInv
BY DEF Init, LifeInv

\* One step for each action: a phase is only entered from the one before it.
LEMMA LifeStep == LifeInv /\ [Next]_vars => LifeInv'
<1> SUFFICES ASSUME LifeInv, [Next]_vars PROVE LifeInv'
  OBVIOUS
<1> USE DEF LifeInv
<1>1. CASE Start
  BY <1>1 DEF Start
<1>2. CASE Migrate
  BY <1>2 DEF Migrate
<1>3. CASE MigrationFails
  BY <1>3 DEF MigrationFails, GiveUpMigrating
<1>4. CASE Recover \/ RecoveryFails
  BY <1>4 DEF Recover, RecoveryFails, Serve
<1>5. CASE Claim \/ CallEnds \/ BatchEnds
  BY <1>5 DEF Claim, CallEnds, BatchEnds, Working
<1>6. CASE StopRequested
  BY <1>6 DEF StopRequested
<1>7. CASE DispatcherStops
  BY <1>7 DEF DispatcherStops, StopsAfterBatch
<1>8. CASE ProviderCloses \/ EngineDisposes
  BY <1>8 DEF ProviderCloses, EngineDisposes
<1>9. CASE Crash
  BY <1>9 DEF Crash
<1>10. CASE DatabaseGoes \/ DatabaseReturns
  BY <1>10 DEF DatabaseGoes, DatabaseReturns
<1>11. CASE UNCHANGED vars
  BY <1>11 DEF vars
<1> QED BY <1>1, <1>2, <1>3, <1>4, <1>5, <1>6, <1>7, <1>8, <1>9, <1>10, <1>11
  DEF Next, Container

\* What is served has been migrated, however often the attempts fail.
THEOREM MigratedBeforeServing == Spec => []ServesMigratedSchema
<1>1. LifeInv => ServesMigratedSchema
  BY DEF LifeInv, ServesMigratedSchema
<1> QED BY <1>1, LifeInit, LifeStep, PTL DEF Spec

\* The shutdown closes nothing that a batch still uses.
THEOREM ClosedAfterBatch == Spec => []BatchHasItsClients
<1>1. LifeInv => BatchHasItsClients
  BY DEF LifeInv, BatchHasItsClients
<1> QED BY <1>1, LifeInit, LifeStep, PTL DEF Spec
===============================================================================
