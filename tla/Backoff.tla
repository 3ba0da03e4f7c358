-------------------------------- MODULE Backoff --------------------------------
(***************************************************************************)
(* The delay before the next attempt (app/provider/retry.py) and what it   *)
(* makes of the attempts at one intent while the provider is away          *)
(* (dispatcher._on_failure): each failed attempt draws its jitter, and the *)
(* last permitted one gives up.                                            *)
(*                                                                         *)
(* Times are integers, in milliseconds with the values of the runs.  The   *)
(* jitter is a percentage, and a draw of random.uniform(-1, 1) * jitter is *)
(* one of Draws; floating-point rounding is left out.                      *)
(***************************************************************************)
EXTENDS Integers

CONSTANTS
    Operations,     \* operations whose intents are retried
    Base,           \* provider_backoff_base
    Maximum,        \* provider_backoff_max
    Jitter,         \* provider_backoff_jitter, in percent
    Draws,          \* the draws considered, in percent
    MaxExponent,    \* 32 in the code
    MaxAttempts,    \* provider_max_attempts
    Outage          \* an outage of the provider that has to be survived

ASSUME BackoffAssumption ==
    /\ Base \in Nat /\ Maximum \in Nat /\ Jitter \in Nat /\ Outage \in Nat
    /\ MaxExponent \in Nat /\ MaxAttempts \in Nat \ {0}
    /\ Draws \subseteq -Jitter .. Jitter

VARIABLE retries    \* per operation: the failed attempts and the waits

vars == retries

Lesser(a, b) == IF a <= b THEN a ELSE b

\* The exponent is bounded so that the power stays a float, the delay by the
\* maximum.
NominalLinear(attempt) == Lesser(Maximum, Base * attempt)

Nominal(attempt) ==
    LET exponent == Lesser(attempt - 1, MaxExponent)
    IN  Lesser(Maximum, Base * 2 ^ exponent)

JitteredUncapped(delay, draw) == delay + (delay * draw) \div 100

Jittered(delay, draw) ==
    LET spread == delay + (delay * draw) \div 100
    IN  IF spread < 0 THEN 0 ELSE Lesser(spread, Maximum)

ComputeBackoff(attempt, draw) ==
    Jittered(Nominal(IF attempt < 1 THEN 1 ELSE attempt), draw)

NoRetry == [attempt |-> 0, draw |-> 0, delay |-> 0, waited |-> 0, givenUp |-> FALSE]

Init == retries = [o \in Operations |-> NoRetry]

\* A retryable failure of the next attempt, with attempts left.
Reschedule(o) ==
    LET attempt == retries[o].attempt + 1 IN
    /\ ~ retries[o].givenUp
    /\ attempt < MaxAttempts
    /\ \E draw \in Draws :
        LET delay == ComputeBackoff(attempt, draw) IN
        retries' = [retries EXCEPT ![o] =
            [retries[o] EXCEPT !.attempt = attempt, !.draw = draw, !.delay = delay,
                               !.waited = @ + delay]]

GiveUp(o) ==
    /\ ~ retries[o].givenUp
    /\ retries[o].attempt + 1 >= MaxAttempts
    /\ retries' = [retries EXCEPT ![o] = [retries[o] EXCEPT !.attempt = @ + 1, !.givenUp = TRUE]]

Next == \E o \in Operations : Reschedule(o) \/ GiveUp(o)

Spec == Init /\ [][Next]_vars

-----------------------------------------------------------------------------
\* The least that n failed attempts have waited: every draw the shortest.
LeastWaited[n \in Nat] ==
    IF n = 0 THEN 0 ELSE LeastWaited[n - 1] + ComputeBackoff(n, -Jitter)

\* The jitter is below a third, by what rounding to a unit of time can take.
MildJitter == Base * (100 - 3 * Jitter) >= 100

\* The bound on the exponent is not felt below the ceiling.
CeilingReached == Base * 2 ^ MaxExponent >= Maximum

\* No delay is negative or above PROVIDER_BACKOFF_MAX, whatever is drawn
\* (retry.py, line 34; README, "Потолок задержки").
DelayBounded == \A o \in Operations : retries[o].delay \in 0 .. Maximum

\* The attempts at an intent outlast an outage of the provider of the given
\* length even when every draw is the shortest: with the default settings the
\* exponential growth is what buys the time.
OutlastsOutage ==
    \A o \in Operations : retries[o].givenUp => retries[o].waited >= Outage

\* Below the ceiling every wait is longer than the one before it, however the
\* two draws fall: the jitter is too small to undo a doubling.
WaitsGrow ==
    [][\A o \in Operations :
        \/ retries'[o].attempt = retries[o].attempt
        \/ retries'[o].givenUp
        \/ Nominal(retries'[o].attempt) = Maximum
        \/ retries'[o].delay > retries[o].delay]_vars
===============================================================================
