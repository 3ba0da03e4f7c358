-------------------------- MODULE DeliveryTimingProofs --------------------------
(***************************************************************************)
(* The periods of the configuration fit together, for any batch, any       *)
(* concurrency and any periods that satisfy two inequalities.              *)
(***************************************************************************)
EXTENDS DeliveryTiming, FiniteSetTheorems, TLAPS

Time == Nat \cup {Never}

TypeInv ==
    /\ now \in Nat
    /\ phase \in [Items -> {"queued", "calling", "over", "abandoned"}]
    /\ since \in [Items -> Time]
    /\ signalled \in Time /\ stopCalled \in Time
    /\ process \in {"running", "stopped", "killed"}
    /\ \A i \in Items : phase[i] = "calling" => since[i] \in 0 .. now

-----------------------------------------------------------------------------
(* The stop *)

\* A kill comes only if what was left of stop_grace_period when stop was called
\* did not exceed the grace.
KilledLate ==
    process = "killed" =>
        (stopCalled = Never \/ stopCalled - signalled + Grace >= StopGrace)

\* Dispatcher.stop comes after the signal and lasts no longer than its grace.
StopInv ==
    /\ TypeInv
    /\ signalled # Never => signalled <= now
    /\ stopCalled # Never =>
        /\ signalled # Never
        /\ signalled <= stopCalled /\ stopCalled <= now
        /\ process = "running" => now <= stopCalled + Grace
    /\ KilledLate

LEMMA StopInit == Init => StopInv
BY TimingAssumption DEF Init, StopInv, TypeInv, Time, KilledLate

LEMMA StopStep == StopInv /\ [Next]_vars => StopInv'
<1> SUFFICES ASSUME StopInv, [Next]_vars PROVE StopInv'
  OBVIOUS
<1> USE TimingAssumption DEF StopInv, TypeInv, Time
<1>1. ASSUME NEW i \in Items, Acquire(i) PROVE StopInv'
  BY <1>1 DEF Acquire, KilledLate
<1>2. ASSUME NEW i \in Items, Conclude(i) PROVE StopInv'
  BY <1>2 DEF Conclude, KilledLate
<1>3. CASE Signal
  BY <1>3 DEF Signal, KilledLate
<1>4. CASE CallStop
  BY <1>4 DEF CallStop, KilledLate
<1>5. CASE StopInTime
  BY <1>5 DEF StopInTime, KilledLate
<1>6. CASE StopByForce
  BY <1>6 DEF StopByForce, KilledLate
<1>7. CASE Kill
  <2>1. stopCalled # Never => stopCalled - signalled + Grace >= StopGrace
    BY <1>7 DEF Kill, KillDue
  <2> QED BY <1>7, <2>1 DEF Kill, KilledLate
<1>8. CASE Tick
  <2>1. stopCalled # Never => now + 1 <= stopCalled + Grace
    BY <1>8 DEF Tick, Overdue, GraceOver
  <2> QED BY <1>8, <2>1 DEF Tick, KilledLate
<1>9. CASE UNCHANGED vars
  BY <1>9 DEF vars, KilledLate
<1> QED BY <1>1, <1>2, <1>3, <1>4, <1>5, <1>6, <1>7, <1>8, <1>9 DEF Next

\* Where the grace and the time that requests may take to be answered fit
\* together into stop_grace_period, docker kills only processes whose requests
\* took longer: with the defaults 10 s, 8 s and 20 s.
THEOREM DrainAlone ==
    ASSUME Grace + Drain < StopGrace
    PROVE  Spec => []KilledOnlyByDrain
<1>1. StopInv => KilledOnlyByDrain
  <2> SUFFICES ASSUME StopInv, process = "killed", stopCalled # Never
               PROVE  stopCalled - signalled > Drain
    BY DEF KilledOnlyByDrain
  <2>1. /\ stopCalled \in Nat /\ signalled \in Nat
        /\ stopCalled - signalled + Grace >= StopGrace
    BY DEF StopInv, TypeInv, Time, KilledLate
  <2> QED BY <2>1, TimingAssumption
<1> QED BY <1>1, StopInit, StopStep, PTL DEF Spec

-----------------------------------------------------------------------------
(* The lease *)

\* A batch of at most two rounds, and a lease longer than two calls.
TwoRounds ==
    /\ IsFiniteSet(Items)
    /\ Cardinality(Items) <= 2 * Concurrency
    /\ 2 * CallLimit < Lease

Queued == {i \in Items : phase[i] = "queued"}

\* The items of the first round: they got the semaphore at the claim.
FirstRound ==
    {i \in Items : phase[i] = "over" \/ (phase[i] = "calling" /\ since[i] = 0)}

\* While an item is queued the first round is full, so that after one call
\* nobody is queued, and everybody who is calling began by then.
RoundInv ==
    /\ TypeInv
    /\ process # "running" => Delivering = {}
    /\ \A i \in Calling : now <= since[i] + CallLimit
    /\ (now > 0 /\ Queued # {}) => Cardinality(FirstRound) >= Concurrency
    /\ now > CallLimit => Queued = {}
    /\ \A i \in Calling : since[i] <= CallLimit

LEMMA RoundInit == Init => RoundInv
BY TimingAssumption DEF Init, RoundInv, TypeInv, Time, Calling, Delivering, Queued

\* A step that keeps the clock, of the items queued and of the first round at
\* most moves some from the one to the other, and begins only calls of now.
LEMMA RoundFrame ==
    ASSUME TwoRounds, RoundInv, TypeInv', now' = now,
           process' # "running" => Delivering' = {},
           Queued' \subseteq Queued,
           FirstRound \subseteq FirstRound',
           \A i \in Calling' : \/ i \in Calling /\ since'[i] = since[i]
                               \/ i \in Queued /\ since'[i] = now
    PROVE  RoundInv'
<1> USE TimingAssumption
<1>1. FirstRound' \subseteq Items
  BY DEF FirstRound
<1>2. IsFiniteSet(FirstRound') /\ IsFiniteSet(FirstRound)
  BY <1>1, FS_Subset DEF TwoRounds
<1>3. Cardinality(FirstRound) <= Cardinality(FirstRound')
  BY <1>2, FS_Subset
<1>4. Cardinality(FirstRound) \in Nat /\ Cardinality(FirstRound') \in Nat
  BY <1>2, FS_CardinalityType
<1>5. now' > 0 /\ Queued' # {} => Cardinality(FirstRound') >= Concurrency
  BY <1>3, <1>4 DEF RoundInv
<1>6. \A i \in Calling' : now <= since'[i] + CallLimit /\ since'[i] <= CallLimit
  BY DEF RoundInv, TypeInv, Queued
<1> QED BY <1>5, <1>6 DEF RoundInv

\* The step of the clock.  Nothing is due: the first round is full if somebody
\* is queued, and when its time is over there is a second round, which holds
\* all the rest.
LEMMA RoundTick ==
    ASSUME TwoRounds, RoundInv, TypeInv', Tick
    PROVE  RoundInv'
<1> USE TimingAssumption
<1>1. /\ now' = now + 1 /\ Queued' = Queued /\ Calling' = Calling
      /\ FirstRound' = FirstRound /\ Delivering' = Delivering
      /\ UNCHANGED <<phase, since, process>>
  BY DEF Tick, Queued, Calling, FirstRound, Delivering
<1>2. /\ Queued # {} => ~ HasRoom
      /\ \A i \in Calling : now # since[i] + CallLimit
  BY DEF Tick, Overdue, Queued
<1>3. \A i \in Calling : since[i] \in 0 .. now
  BY DEF RoundInv, TypeInv, Calling
<1>4. \A i \in Calling : now' <= since[i] + CallLimit
  BY <1>1, <1>2, <1>3 DEF RoundInv, TypeInv
<1>5. /\ Calling \subseteq Items /\ FirstRound \subseteq Items
      /\ IsFiniteSet(Calling) /\ IsFiniteSet(FirstRound)
      /\ Cardinality(Calling) \in Nat /\ Cardinality(FirstRound) \in Nat
  <2>1. Calling \subseteq Items /\ FirstRound \subseteq Items
    BY DEF Calling, FirstRound
  <2>2. IsFiniteSet(Calling) /\ IsFiniteSet(FirstRound)
    BY <2>1, FS_Subset DEF TwoRounds
  <2> QED BY <2>1, <2>2, FS_CardinalityType
<1>6. Queued # {} => Cardinality(Calling) >= Concurrency
  BY <1>2, <1>5 DEF HasRoom
<1>7. Queued # {} => Cardinality(FirstRound) >= Concurrency
  <2>1. CASE now > 0
    BY <2>1 DEF RoundInv
  <2>2. CASE now = 0
    <3>1. Calling \subseteq FirstRound
      BY <1>3, <2>2 DEF Calling, FirstRound
    <3>2. Cardinality(Calling) <= Cardinality(FirstRound)
      BY <1>5, <3>1, FS_Subset
    <3> QED BY <1>5, <1>6, <3>2
  <2> QED BY <2>1, <2>2 DEF RoundInv, TypeInv
<1>8. now' > CallLimit => Queued = {}
  <2> SUFFICES ASSUME now' > CallLimit, Queued # {} PROVE FALSE
    OBVIOUS
  <2>1. \A i \in Calling : since[i] > 0
    BY <1>1, <1>3, <1>4 DEF RoundInv, TypeInv
  <2>2. Calling \cap FirstRound = {}
    BY <2>1 DEF Calling, FirstRound
  <2>3. PICK i \in Queued : TRUE
    OBVIOUS
  <2>4. i \in Items /\ i \notin Calling \cup FirstRound
    BY <2>3 DEF Queued, Calling, FirstRound
  <2> DEFINE both == Calling \cup FirstRound
  <2>5. IsFiniteSet(both) /\ Cardinality(both) = Cardinality(Calling) + Cardinality(FirstRound)
    <3>1. IsFiniteSet(both) /\ Cardinality(both)
              = Cardinality(Calling) + Cardinality(FirstRound) - Cardinality(Calling \cap FirstRound)
      BY <1>5, FS_Union
    <3>2. Cardinality(Calling \cap FirstRound) = 0
      BY <2>2, FS_EmptySet
    <3> QED BY <1>5, <3>1, <3>2
  <2>6. IsFiniteSet(both \cup {i}) /\ Cardinality(both \cup {i}) = Cardinality(both) + 1
    BY <2>4, <2>5, FS_AddElement
  <2>7. both \cup {i} \subseteq Items
    BY <1>5, <2>4
  <2>8. Cardinality(both \cup {i}) <= Cardinality(Items)
    BY <2>7, FS_Subset DEF TwoRounds
  <2>9. Cardinality(Items) \in Nat
    BY FS_CardinalityType DEF TwoRounds
  <2> HIDE DEF both
  <2> QED BY <1>5, <1>6, <1>7, <2>5, <2>6, <2>8, <2>9 DEF TwoRounds
<1> QED BY <1>1, <1>4, <1>7, <1>8 DEF RoundInv

LEMMA RoundStep ==
    ASSUME TwoRounds, RoundInv, [Next]_vars
    PROVE  RoundInv'
<1> USE TimingAssumption
<1>1. TypeInv'
  <2> USE DEF RoundInv, TypeInv, Time
  <2>1. ASSUME NEW i \in Items, Acquire(i) \/ Conclude(i) PROVE TypeInv'
    BY <2>1 DEF Acquire, Conclude
  <2>2. CASE Signal \/ CallStop \/ StopInTime \/ Tick \/ UNCHANGED vars
    BY <2>2 DEF Signal, CallStop, StopInTime, Tick, vars
  <2>3. CASE StopByForce \/ Kill
    BY <2>3 DEF StopByForce, Kill
  <2> QED BY <2>1, <2>2, <2>3 DEF Next
<1> USE DEF Queued, FirstRound, Calling, Delivering
<1>2. ASSUME NEW i \in Items, Acquire(i) PROVE RoundInv'
  <2>1. /\ now' = now /\ process' = process /\ process = "running"
        /\ phase[i] = "queued" /\ phase'[i] = "calling" /\ since'[i] = now
        /\ \A j \in Items \ {i} : phase'[j] = phase[j] /\ since'[j] = since[j]
    BY <1>2 DEF Acquire, RoundInv, TypeInv
  <2>2. Queued' \subseteq Queued /\ FirstRound \subseteq FirstRound'
    BY <2>1
  <2>3. \A j \in Calling' : \/ j \in Calling /\ since'[j] = since[j]
                            \/ j \in Queued /\ since'[j] = now
    BY <2>1
  <2> QED BY <1>1, <2>1, <2>2, <2>3, RoundFrame
<1>3. ASSUME NEW i \in Items, Conclude(i) PROVE RoundInv'
  <2>1. /\ now' = now /\ process' = process /\ process = "running"
        /\ phase[i] = "calling" /\ phase'[i] = "over"
        /\ \A j \in Items \ {i} : phase'[j] = phase[j] /\ since'[j] = since[j]
    BY <1>3 DEF Conclude, RoundInv, TypeInv
  <2>2. Queued' \subseteq Queued /\ FirstRound \subseteq FirstRound'
    BY <2>1
  <2>3. \A j \in Calling' : j \in Calling /\ since'[j] = since[j]
    BY <2>1
  <2> QED BY <1>1, <2>1, <2>2, <2>3, RoundFrame
<1>4. CASE Signal \/ CallStop \/ StopInTime \/ UNCHANGED vars
  <2>1. now' = now /\ phase' = phase /\ since' = since
    BY <1>4 DEF Signal, CallStop, StopInTime, vars
  <2>2. process' # "running" => Delivering' = {}
    BY <1>4, <2>1 DEF Signal, CallStop, StopInTime, vars, RoundInv
  <2>3. Queued' = Queued /\ FirstRound' = FirstRound /\ Calling' = Calling
    BY <2>1
  <2> QED BY <1>1, <2>1, <2>2, <2>3, RoundFrame
<1>5. CASE StopByForce \/ Kill
  <2>1. /\ now' = now /\ since' = since
        /\ phase' = [i \in Items |-> IF i \in Delivering THEN "abandoned" ELSE phase[i]]
    BY <1>5 DEF StopByForce, Kill
  <2>2. \A i \in Items : phase'[i] \notin {"queued", "calling"}
    BY <2>1
  <2>3. Queued' = {} /\ Calling' = {} /\ Delivering' = {}
    BY <2>2
  <2> QED BY <1>1, <2>1, <2>3 DEF RoundInv
<1>6. CASE Tick
  BY <1>1, <1>6, RoundTick
<1> QED BY <1>2, <1>3, <1>4, <1>5, <1>6 DEF Next

\* When a batch is no larger than twice the concurrency and the lease is longer
\* than two calls, no lease ends under a delivery of the batch, whatever the
\* calls take and whenever a stop comes: with the defaults a batch of 16, eight
\* calls at a time, 26 s and 60 s.
THEOREM TwoRoundsFit ==
    ASSUME TwoRounds
    PROVE  Spec => []LeaseOutlivesDelivery
<1>1. RoundInv => LeaseOutlivesDelivery
  <2> SUFFICES ASSUME RoundInv, Delivering # {} PROVE now < Lease
    BY DEF LeaseOutlivesDelivery
  <2>1. CASE Queued # {}
    BY <2>1, TimingAssumption DEF RoundInv, TypeInv, TwoRounds
  <2>2. CASE Queued = {}
    <3>1. PICK i \in Calling : TRUE
      BY <2>2 DEF Delivering, Queued, Calling
    <3>2. now <= since[i] + CallLimit /\ since[i] <= CallLimit /\ since[i] \in Nat
      BY <3>1 DEF RoundInv, TypeInv, Calling
    <3> QED BY <3>2, TimingAssumption DEF RoundInv, TypeInv, TwoRounds
  <2> QED BY <2>1, <2>2
<1>2. RoundInv /\ [Next]_vars => RoundInv'
  BY RoundStep
<1> QED BY <1>1, <1>2, RoundInit, PTL DEF Spec
=================================================================================
