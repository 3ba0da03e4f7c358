----------------------------- MODULE BackoffProofs -----------------------------
(***************************************************************************)
(* The delays (app/provider/retry.py) for any settings, any draws and any  *)
(* number of attempts: their bounds, what all of them add up to, and how   *)
(* they grow.  The powers of two and the sum of the shortest waits are     *)
(* defined by recursion; what is needed of them is proved by taking the    *)
(* least exception, in lemmas of their own.                                *)
(***************************************************************************)
EXTENDS Backoff, FiniteSetTheorems, NaturalsInduction, WellFoundedInduction, TLAPS

\* What is kept of the retries of an operation: the number of the next attempt is
\* never below 1, so that the exponent of its delay is one.
Retry ==
    [attempt : Nat, draw : Int, delay : 0 .. Maximum, waited : Nat, givenUp : BOOLEAN]

RetriesInv == retries \in [Operations -> Retry]

\* The ceiling is applied before the draw and after it, the floor after it.
LEMMA BoundsOfBackoff ==
    ASSUME NEW attempt \in Nat \ {0}, NEW draw \in Int
    PROVE  ComputeBackoff(attempt, draw) \in 0 .. Maximum
<1>1. Base \in Nat /\ Maximum \in Nat /\ MaxExponent \in Nat
  BY BackoffAssumption
<1> DEFINE exponent == Lesser(attempt - 1, MaxExponent)
<1>2. exponent \in Nat
  BY <1>1 DEF Lesser
<1>3. 2 ^ exponent \in Int
  BY <1>2
<1> HIDE DEF exponent
<1>4. Base * 2 ^ exponent \in Int
  BY <1>1, <1>3
<1>5. Nominal(attempt) \in Int
  BY <1>1, <1>4 DEF Nominal, Lesser, exponent
<1> DEFINE delay == Nominal(attempt)
           spread == delay + (delay * draw) \div 100
<1> HIDE DEF delay
<1>6. spread \in Int
  BY <1>1, <1>5 DEF delay
<1> HIDE DEF spread
<1>7. ComputeBackoff(attempt, draw) = IF spread < 0 THEN 0 ELSE Lesser(spread, Maximum)
  BY DEF ComputeBackoff, Jittered, delay, spread
<1> QED BY <1>1, <1>6, <1>7 DEF Lesser

\* Nothing has been delayed at first.
LEMMA RetriesInit == Init => RetriesInv
  BY BackoffAssumption DEF Init, NoRetry, RetriesInv, Retry

\* An attempt that fails is delayed within the bounds, or is the last.
LEMMA RetriesStep == RetriesInv /\ [Next]_vars => RetriesInv'
<1> SUFFICES ASSUME RetriesInv, [Next]_vars PROVE RetriesInv'
  OBVIOUS
<1>1. ASSUME NEW o \in Operations, Reschedule(o)
      PROVE  RetriesInv'
  <2> DEFINE n == retries[o].attempt + 1
  <2>1. n \in Nat \ {0} /\ retries[o] \in Retry
    BY DEF RetriesInv, Retry
  <2>2. PICK draw \in Draws :
            retries' = [retries EXCEPT ![o] =
                [retries[o] EXCEPT !.attempt = n, !.draw = draw, !.delay = ComputeBackoff(n, draw),
                                   !.waited = @ + ComputeBackoff(n, draw)]]
    BY <1>1, Zenon DEF Reschedule
  <2>3. draw \in Int /\ ComputeBackoff(n, draw) \in 0 .. Maximum
    <3>1. draw \in Int
      BY BackoffAssumption
    <3> QED BY <2>1, <3>1, BoundsOfBackoff
  <2> DEFINE r == retries[o]
             d == ComputeBackoff(n, draw)
  <2>4. retries' = [retries EXCEPT ![o] =
                [r EXCEPT !.attempt = n, !.draw = draw, !.delay = d, !.waited = r.waited + d]]
    BY <2>2
  <2>5. r \in Retry /\ d \in 0 .. Maximum /\ Maximum \in Nat
    BY <2>1, <2>3, BackoffAssumption
  <2> HIDE DEF n, r, d
  <2>6. r.waited + d \in Nat
    BY <2>5 DEF Retry
  <2>7. [r EXCEPT !.attempt = n, !.draw = draw, !.delay = d, !.waited = r.waited + d] \in Retry
    BY <2>1, <2>3, <2>5, <2>6 DEF Retry
  <2> QED BY <2>4, <2>7 DEF RetriesInv
<1>2. ASSUME NEW o \in Operations, GiveUp(o)
      PROVE  RetriesInv'
  <2> DEFINE r == retries[o]
             row == [r EXCEPT !.attempt = r.attempt + 1, !.givenUp = TRUE]
  <2>1. retries' = [retries EXCEPT ![o] = row]
    BY <1>2 DEF GiveUp
  <2>2. r \in Retry /\ r.attempt + 1 \in Nat
    BY DEF RetriesInv, Retry
  <2> HIDE DEF r
  <2>3. row \in Retry
    BY <2>2 DEF Retry
  <2> HIDE DEF row
  <2> QED BY <2>1, <2>3 DEF RetriesInv
<1>3. CASE UNCHANGED vars
  BY <1>3 DEF vars, RetriesInv
<1> QED BY <1>1, <1>2, <1>3 DEF Next

\* Whatever the base, the ceiling, the jitter (above 100 percent, too), the draws
\* and the attempt, no delay is negative or above the ceiling.
THEOREM DelaysAreBounded == Spec => []DelayBounded
<1>1. RetriesInv => DelayBounded
  BY DEF RetriesInv, Retry, DelayBounded
<1> QED BY <1>1, RetriesInit, RetriesStep, PTL DEF Spec

-----------------------------------------------------------------------------
\* The induction the sums of the waits need, and the powers of two.

\* The order of the natural numbers, as a relation.
LEMMA LessIsWellFounded ==
  \E R : IsWellFoundedOn(R, Nat) /\ \A x, y \in Nat : x < y => <<x, y>> \in R
<1> DEFINE R == OpToRel(<, Nat)
<1>1. IsWellFoundedOn(R, Nat)
  BY NatLessThanWellFounded
<1>2. \A x, y \in Nat : x < y => <<x, y>> \in R
  BY DEF OpToRel
<1> QED BY <1>1, <1>2

\* Every nonempty set of natural numbers has a least element.
LEMMA NatHasLeast ==
  ASSUME NEW T, T \subseteq Nat, T # {}
  PROVE  \E x \in T : \A y \in T : ~ (y < x)
<1>1. PICK R : IsWellFoundedOn(R, Nat) /\ \A x, y \in Nat : x < y => <<x, y>> \in R
  BY LessIsWellFounded
<1>2. \E x \in T : \A y \in T : ~ (<<y, x>> \in R)
  BY <1>1, WFMin, ZenonT(60)
<1> QED BY <1>1, <1>2

\* Induction over the natural numbers, for a set of them in place of a predicate.
LEMMA InductionOnSet ==
  ASSUME NEW S \in SUBSET Nat, 0 \in S, \A n \in S : n + 1 \in S
  PROVE  S = Nat
<1> SUFFICES ASSUME S # Nat PROVE FALSE
  OBVIOUS
<1>1. Nat \ S \subseteq Nat /\ Nat \ S # {}
  OBVIOUS
<1>3. PICK x \in Nat \ S : \A y \in Nat \ S : ~ (y < x)
  BY <1>1, NatHasLeast
<1>5. x # 0 /\ x - 1 \in Nat /\ x - 1 < x /\ x = (x - 1) + 1
  BY <1>3
<1> QED BY <1>3, <1>5

\* A set of n elements has 2 ^ n subsets: one more element doubles them.
LEMMA PowerDoubles ==
    ASSUME NEW n \in Nat
    PROVE  /\ 2 ^ n \in Nat \ {0} /\ 2 ^ (n + 1) = 2 * 2 ^ n
<1> DEFINE old == SUBSET (1 .. n)
           new == {s \cup {n + 1} : s \in old}
<1>1. /\ IsFiniteSet(1 .. n) /\ Cardinality(1 .. n) = n
      /\ IsFiniteSet(1 .. n + 1) /\ Cardinality(1 .. n + 1) = n + 1
  BY FS_Interval
<1>2. IsFiniteSet(old) /\ Cardinality(old) = 2 ^ n
  BY <1>1, FS_SUBSET
<1>3. Cardinality(SUBSET (1 .. n + 1)) = 2 ^ (n + 1)
  BY <1>1, FS_SUBSET
<1>4. SUBSET (1 .. n + 1) = old \cup new
  <2>1. ASSUME NEW s \in SUBSET (1 .. n + 1), n + 1 \in s
        PROVE  s \in new
    <3>1. s \ {n + 1} \in old /\ s = (s \ {n + 1}) \cup {n + 1}
      BY <2>1
    <3> QED BY <3>1
  <2>2. ASSUME NEW s \in SUBSET (1 .. n + 1), n + 1 \notin s
        PROVE  s \in old
    BY <2>2
  <2>3. \A s \in old : s \in SUBSET (1 .. n + 1) /\ s \cup {n + 1} \in SUBSET (1 .. n + 1)
    OBVIOUS
  <2> HIDE DEF old, new
  <2>4. old \subseteq SUBSET (1 .. n + 1)
    BY <2>3
  <2>5. new \subseteq SUBSET (1 .. n + 1)
    BY <2>3 DEF new
  <2>6. SUBSET (1 .. n + 1) \subseteq old \cup new
    BY <2>1, <2>2
  <2> QED BY <2>4, <2>5, <2>6
<1>5. old \cap new = {}
  <2>1. \A s \in old : n + 1 \notin s
    OBVIOUS
  <2> QED BY <2>1
<1>6. IsFiniteSet(new) /\ Cardinality(new) = Cardinality(old)
  <2> DEFINE f == [s \in old |-> s \cup {n + 1}]
  <2>1. f \in Bijection(old, new)
    <3>1. f \in [old -> new] /\ \A t \in new : \E s \in old : f[s] = t
      OBVIOUS
    <3>2. ASSUME NEW s \in old, NEW t \in old, f[s] = f[t] PROVE s = t
      <4>1. n + 1 \notin s /\ n + 1 \notin t /\ s \cup {n + 1} = t \cup {n + 1}
        BY <3>2
      <4> QED BY <4>1
    <3>3. f \in Injection(old, new)
      <4>1. \A s, t \in DOMAIN f : f[s] = f[t] => s = t
        BY <3>2
      <4> QED BY <3>1, <4>1, Zenon DEF Injection, IsInjective
    <3>4. f \in Surjection(old, new)
      BY <3>1, Zenon DEF Surjection
    <3> QED BY <3>3, <3>4, Zenon DEF Bijection
  <2> QED BY <1>2, <2>1, FS_Bijection DEF ExistsBijection
<1>7. Cardinality(old) \in Nat /\ Cardinality(old) # 0
  <2>1. {} \in old
    OBVIOUS
  <2> HIDE DEF old
  <2> QED BY <1>2, <2>1, FS_CardinalityType, FS_EmptySet
<1> HIDE DEF old, new
<1>8. Cardinality(old \cup new) = Cardinality(old) + Cardinality(new) - Cardinality(old \cap new)
  BY <1>2, <1>6, FS_Union
<1>9. Cardinality(old \cup new) = 2 * Cardinality(old)
  BY <1>5, <1>6, <1>7, <1>8, FS_EmptySet
<1> QED BY <1>2, <1>3, <1>4, <1>7, <1>9

-----------------------------------------------------------------------------
\* The shortest wait after the n-th failed attempt, and the functions that add up
\* the waits of the first n.
Wait(n) == ComputeBackoff(n, -Jitter)

Sums(n) == {g \in [0 .. n -> Nat] : g[0] = 0 /\ \A k \in 1 .. n : g[k] = g[k - 1] + Wait(k)}

\* No wait is negative.
LEMMA WaitNat == \A n \in Nat \ {0} : Wait(n) \in Nat
<1>1. -Jitter \in Int /\ Maximum \in Nat
  BY BackoffAssumption
<1> QED BY <1>1, BoundsOfBackoff DEF Wait

\* There is a sum of the waits of any number of attempts,
LEMMA SumsExist == \A n \in Nat : Sums(n) # {}
<1> DEFINE S == {n \in Nat : Sums(n) # {}}
<1>1. 0 \in S
  <2>1. [k \in 0 .. 0 |-> 0] \in Sums(0)
    BY DEF Sums
  <2> QED BY <2>1
<1>2. ASSUME NEW n \in S PROVE n + 1 \in S
  <2>1. PICK g : g \in Sums(n)
    BY <1>2
  <2>2. n \in Nat /\ n + 1 \in Nat \ {0}
    BY <1>2
  <2> DEFINE h == [k \in 0 .. n + 1 |-> IF k = n + 1 THEN g[n] + Wait(n + 1) ELSE g[k]]
  <2>3. g \in [0 .. n -> Nat] /\ g[0] = 0 /\ \A k \in 1 .. n : g[k] = g[k - 1] + Wait(k)
    BY <2>1 DEF Sums
  <2>4. Wait(n + 1) \in Nat
    BY <2>2, WaitNat
  <2>5. h \in [0 .. n + 1 -> Nat] /\ h[0] = 0
    BY <2>2, <2>3, <2>4
  <2>6. \A k \in 1 .. n + 1 : h[k] = h[k - 1] + Wait(k)
    <3> SUFFICES ASSUME NEW k \in 1 .. n + 1 PROVE h[k] = h[k - 1] + Wait(k)
      OBVIOUS
    <3>1. CASE k = n + 1
      BY <2>2, <3>1
    <3>2. CASE k # n + 1
      BY <2>2, <2>3, <3>2
    <3> QED BY <3>1, <3>2
  <2> HIDE DEF h
  <2>7. h \in Sums(n + 1)
    BY <2>5, <2>6 DEF Sums
  <2> QED BY <2>2, <2>7
<1> HIDE DEF S
<1>3. S = Nat
  <2>1. S \in SUBSET Nat
    BY DEF S
  <2> QED BY <1>1, <1>2, <2>1, InductionOnSet
<1> QED BY <1>3 DEF S

\* and only one.
LEMMA SumsAgree ==
    \A m, n \in Nat : \A g \in Sums(m), h \in Sums(n) : \A k \in (0 .. m) \cap (0 .. n) : g[k] = h[k]
<1> DEFINE Same(k) == \A m, n \in Nat : \A g \in Sums(m), h \in Sums(n) :
                        k \in (0 .. m) \cap (0 .. n) => g[k] = h[k]
           S == {k \in Nat : Same(k)}
<1>1. Same(0)
  BY DEF Sums
<1>2. ASSUME NEW k \in Nat, Same(k) PROVE Same(k + 1)
  <2> SUFFICES ASSUME NEW m \in Nat, NEW n \in Nat, NEW g \in Sums(m), NEW h \in Sums(n),
                      k + 1 \in (0 .. m) \cap (0 .. n)
               PROVE  g[k + 1] = h[k + 1]
    OBVIOUS
  <2>1. k \in (0 .. m) \cap (0 .. n) /\ k + 1 \in 1 .. m /\ k + 1 \in 1 .. n /\ (k + 1) - 1 = k
    OBVIOUS
  <2>2. g[k] = h[k]
    BY <1>2, <2>1
  <2>3. g[k + 1] = g[k] + Wait(k + 1) /\ h[k + 1] = h[k] + Wait(k + 1)
    BY <2>1 DEF Sums
  <2> QED BY <2>2, <2>3
<1> HIDE DEF Same
<1>3. S = Nat
  <2>1. S \in SUBSET Nat /\ 0 \in S /\ \A k \in S : k + 1 \in S
    BY <1>1, <1>2
  <2> HIDE DEF S
  <2> QED BY <2>1, InductionOnSet
<1>4. \A k \in Nat : Same(k)
  BY <1>3
<1> QED BY <1>4 DEF Same

\* So that the recursive definition of LeastWaited has the solution it reads like.
LEMMA LeastWaitedAdds ==
    /\ LeastWaited[0] = 0
    /\ \A n \in Nat : LeastWaited[n] \in Nat
    /\ \A n \in Nat \ {0} : LeastWaited[n] = LeastWaited[n - 1] + ComputeBackoff(n, -Jitter)
<1> DEFINE F(f) == [n \in Nat |-> IF n = 0 THEN 0 ELSE f[n - 1] + ComputeBackoff(n, -Jitter)]
           f1 == [n \in Nat |-> (CHOOSE g : g \in Sums(n))[n]]
<1>1. ASSUME NEW n \in Nat PROVE \E g \in Sums(n) : f1[n] = g[n]
  BY SumsExist
<1> HIDE DEF f1
<1>2. f1 = F(f1)
  <2>1. \A n \in Nat : f1[n] = IF n = 0 THEN 0 ELSE f1[n - 1] + ComputeBackoff(n, -Jitter)
    <3> SUFFICES ASSUME NEW n \in Nat
                 PROVE  f1[n] = IF n = 0 THEN 0 ELSE f1[n - 1] + ComputeBackoff(n, -Jitter)
      OBVIOUS
    <3>1. PICK g \in Sums(n) : f1[n] = g[n]
      BY <1>1
    <3>2. CASE n = 0
      BY <3>1, <3>2 DEF Sums
    <3>3. CASE n # 0
      <4>1. n - 1 \in Nat /\ n \in 1 .. n /\ n - 1 \in (0 .. n - 1) \cap (0 .. n)
        BY <3>3
      <4>2. PICK h \in Sums(n - 1) : f1[n - 1] = h[n - 1]
        BY <1>1, <4>1
      <4>3. h[n - 1] = g[n - 1]
        BY <4>1, SumsAgree
      <4>4. g[n] = g[n - 1] + Wait(n)
        BY <4>1 DEF Sums
      <4> QED BY <3>1, <3>3, <4>2, <4>3, <4>4 DEF Wait
    <3> QED BY <3>2, <3>3
  <2>2. f1 = [n \in Nat |-> f1[n]]
    BY DEF f1
  <2> QED BY <2>1, <2>2
<1>3. LeastWaited = CHOOSE f : f = F(f)
  BY DEF LeastWaited
<1>4. LeastWaited = F(LeastWaited)
  <2> HIDE DEF F
  <2> QED BY <1>2, <1>3
<1>5. \A n \in Nat : LeastWaited[n] = IF n = 0 THEN 0 ELSE LeastWaited[n - 1] + Wait(n)
  BY <1>4 DEF Wait
<1>6. {n \in Nat : LeastWaited[n] \in Nat} = Nat
  <2> DEFINE S == {n \in Nat : LeastWaited[n] \in Nat}
  <2>1. S \in SUBSET Nat /\ 0 \in S
    BY <1>5
  <2>2. ASSUME NEW n \in S PROVE n + 1 \in S
    <3>1. n \in Nat /\ n + 1 \in Nat \ {0} /\ (n + 1) - 1 = n /\ LeastWaited[n] \in Nat
      BY <2>2
    <3>2. LeastWaited[n + 1] = LeastWaited[n] + Wait(n + 1) /\ Wait(n + 1) \in Nat
      BY <1>5, <3>1, WaitNat
    <3> QED BY <3>1, <3>2
  <2> HIDE DEF S
  <2>3. S = Nat
    BY <2>1, <2>2, InductionOnSet
  <2> QED BY <2>3 DEF S
<1> QED BY <1>5, <1>6 DEF Wait

-----------------------------------------------------------------------------
\* A delay grows with its draw and with the delay it starts from.
LEMMA TimesMonotone ==
    ASSUME NEW a \in Nat, NEW b \in Int, NEW c \in Int, b <= c
    PROVE  a * b \in Int /\ a * c \in Int /\ a * b <= a * c
  OBVIOUS

\* The exponential delay is a natural number.
LEMMA NominalType ==
    ASSUME NEW n \in Nat \ {0}
    PROVE  Nominal(n) \in Nat
<1> DEFINE e == Lesser(n - 1, MaxExponent)
<1>1. Base \in Nat /\ Maximum \in Nat /\ MaxExponent \in Nat
  BY BackoffAssumption
<1>2. e \in Nat
  BY <1>1 DEF Lesser
<1>3. Nominal(n) = Lesser(Maximum, Base * 2 ^ e)
  BY DEF Nominal
<1> HIDE DEF e
<1>4. 2 ^ e \in Nat
  BY <1>2, PowerDoubles
<1>5. Base * 2 ^ e \in Nat
  BY <1>1, <1>4
<1> QED BY <1>1, <1>3, <1>5 DEF Lesser

\* Below the ceiling the exponential delay is twice the one before it, and at
\* least the base, where the bound on the exponent is out of play.
LEMMA NominalDoubles ==
    ASSUME CeilingReached, NEW n \in Nat \ {0}, Nominal(n + 1) # Maximum
    PROVE  /\ Nominal(n + 1) = 2 * Nominal(n)
           /\ Nominal(n) >= Base
           /\ Nominal(n + 1) < Maximum
<1>1. Base \in Nat /\ Maximum \in Nat /\ MaxExponent \in Nat /\ Base * 2 ^ MaxExponent >= Maximum
  BY BackoffAssumption DEF CeilingReached
<1> DEFINE e == Lesser(n, MaxExponent)
           p == 2 ^ (n - 1)
<1>2. (n + 1) - 1 = n /\ n - 1 \in Nat /\ (n - 1) + 1 = n
  OBVIOUS
<1>3. Nominal(n + 1) = Lesser(Maximum, Base * 2 ^ e)
  BY <1>2 DEF Nominal
<1>4. e \in Nat /\ (n < MaxExponent \/ e = MaxExponent)
  BY <1>1 DEF Lesser
<1> HIDE DEF e
<1>5. 2 ^ e \in Nat /\ Base * 2 ^ e \in Nat
  <2>1. 2 ^ e \in Nat
    BY <1>4, PowerDoubles
  <2> QED BY <1>1, <2>1
<1>6. Nominal(n + 1) = Base * 2 ^ e /\ Base * 2 ^ e < Maximum
  BY <1>1, <1>3, <1>5 DEF Lesser
<1>7. n < MaxExponent
  <2>1. e # MaxExponent
    <3> SUFFICES ASSUME e = MaxExponent PROVE FALSE
      OBVIOUS
    <3>1. Base * 2 ^ e >= Maximum
      BY <1>1
    <3> QED BY <1>1, <1>5, <1>6, <3>1
  <2> QED BY <1>4, <2>1
<1>8. e = n /\ Lesser(n - 1, MaxExponent) = n - 1
  BY <1>1, <1>7 DEF Lesser, e
<1>9. p \in Nat \ {0} /\ 2 ^ n = 2 * p
  BY <1>2, PowerDoubles
<1>10. Nominal(n) = Lesser(Maximum, Base * p)
  BY <1>8 DEF Nominal
<1> HIDE DEF p
<1>11. Base * 2 ^ e = Base * (2 * p)
  BY <1>8, <1>9
<1>12. Base * p \in Int /\ Base * (2 * p) = 2 * (Base * p)
  BY <1>1, <1>9
<1>13. Base <= Base * p
  <2>1. Base * 1 <= Base * p
    BY <1>1, <1>9, TimesMonotone
  <2> QED BY <1>1, <2>1
<1> DEFINE x == Base * p
<1>14. /\ x \in Int /\ Base <= x /\ Nominal(n) = Lesser(Maximum, x)
       /\ Nominal(n + 1) = 2 * x /\ 2 * x < Maximum
  BY <1>6, <1>10, <1>11, <1>12, <1>13
<1> HIDE DEF x
<1>15. x <= 2 * x /\ Nominal(n) = x
  BY <1>1, <1>14 DEF Lesser
<1> QED BY <1>14, <1>15

\* The delay of an attempt, with the floor of an attempt below 1 out of the way.
LEMMA BackoffOf ==
    ASSUME NEW n \in Nat \ {0}, NEW draw
    PROVE  ComputeBackoff(n, draw) = Jittered(Nominal(n), draw)
<1>1. ~ (n < 1)
  OBVIOUS
<1> QED BY <1>1 DEF ComputeBackoff

\* The shortest wait is the one of the lowest draw.
LEMMA LowestDraw ==
    ASSUME NEW n \in Nat \ {0}, NEW draw \in Draws
    PROVE  ComputeBackoff(n, draw) >= Wait(n)
<1>1. Jitter \in Nat /\ Maximum \in Nat /\ draw \in Int /\ -Jitter \in Int /\ -Jitter <= draw
  BY BackoffAssumption
<1> DEFINE x == Nominal(n)
<1>2. x \in Nat
  BY NominalType
<1>3. /\ ComputeBackoff(n, draw) = Jittered(x, draw)
      /\ Wait(n) = Jittered(x, -Jitter)
  BY BackoffOf DEF Wait
<1> HIDE DEF x
<1> DEFINE low == x * (-Jitter)
           high == x * draw
<1>4. low \in Int /\ high \in Int /\ low <= high
  BY <1>1, <1>2, TimesMonotone
<1>5. /\ Jittered(x, draw) = IF x + high \div 100 < 0 THEN 0 ELSE Lesser(x + high \div 100, Maximum)
      /\ Jittered(x, -Jitter) = IF x + low \div 100 < 0 THEN 0 ELSE Lesser(x + low \div 100, Maximum)
  BY DEF Jittered
<1> HIDE DEF low, high
<1>6. x + low \div 100 \in Int /\ x + high \div 100 \in Int /\ x + low \div 100 <= x + high \div 100
  BY <1>2, <1>4
<1> QED BY <1>1, <1>3, <1>5, <1>6 DEF Lesser

-----------------------------------------------------------------------------
\* What has been waited, per operation: at least the shortest waits of the attempts
\* made; the attempt that gives up adds none.
WaitedInv ==
    \A o \in Operations :
        IF retries[o].givenUp
        THEN retries[o].waited >= LeastWaited[MaxAttempts - 1]
        ELSE /\ retries[o].attempt <= MaxAttempts - 1
             /\ retries[o].waited >= LeastWaited[retries[o].attempt]

LEMMA WaitedInit == Init => WaitedInv
<1> SUFFICES ASSUME Init, NEW o \in Operations
             PROVE  /\ ~ retries[o].givenUp
                    /\ retries[o].attempt <= MaxAttempts - 1
                    /\ retries[o].waited >= LeastWaited[retries[o].attempt]
  BY DEF WaitedInv
<1>1. ~ retries[o].givenUp /\ retries[o].attempt = 0 /\ retries[o].waited = 0
  BY DEF Init, NoRetry
<1>2. MaxAttempts \in Nat \ {0} /\ LeastWaited[0] = 0
  BY BackoffAssumption, LeastWaitedAdds
<1> QED BY <1>1, <1>2

LEMMA WaitedStep == RetriesInv /\ WaitedInv /\ [Next]_vars => WaitedInv'
<1> SUFFICES ASSUME RetriesInv, WaitedInv, [Next]_vars PROVE WaitedInv'
  OBVIOUS
<1> DEFINE Row(r) ==
        IF r.givenUp THEN r.waited >= LeastWaited[MaxAttempts - 1]
        ELSE r.attempt <= MaxAttempts - 1 /\ r.waited >= LeastWaited[r.attempt]
<1>0. ASSUME NEW o \in Operations, NEW row, retries' = [retries EXCEPT ![o] = row], Row(row)
      PROVE  WaitedInv'
  <2> SUFFICES ASSUME NEW q \in Operations PROVE Row(retries'[q])
    BY DEF WaitedInv
  <2>1. retries \in [Operations -> Retry] /\ Row(retries[q])
    BY DEF RetriesInv, WaitedInv
  <2> HIDE DEF Row
  <2> QED BY <1>0, <2>1
<1>1. ASSUME NEW o \in Operations, Reschedule(o)
      PROVE  WaitedInv'
  <2> DEFINE r == retries[o]
             n == r.attempt + 1
  <2>1. r \in Retry /\ n \in Nat \ {0} /\ n - 1 = r.attempt /\ r.attempt \in Nat /\ r.waited \in Nat
    BY DEF RetriesInv, Retry
  <2>2. ~ r.givenUp /\ n < MaxAttempts
    BY <1>1 DEF Reschedule
  <2>3. r.waited >= LeastWaited[n - 1]
    BY <2>1, <2>2 DEF WaitedInv
  <2>4. PICK draw \in Draws :
            retries' = [retries EXCEPT ![o] =
                [retries[o] EXCEPT !.attempt = n, !.draw = draw, !.delay = ComputeBackoff(n, draw),
                                   !.waited = @ + ComputeBackoff(n, draw)]]
    BY <1>1, Zenon DEF Reschedule
  <2> DEFINE d == ComputeBackoff(n, draw)
             row == [r EXCEPT !.attempt = n, !.draw = draw, !.delay = d, !.waited = r.waited + d]
  <2>5. retries' = [retries EXCEPT ![o] = row]
    BY <2>4
  <2> HIDE DEF n
  <2>6. d \in Int /\ d >= Wait(n) /\ Wait(n) \in Nat
    <3>1. draw \in Int /\ Maximum \in Nat
      BY BackoffAssumption
    <3> QED BY <2>1, <3>1, BoundsOfBackoff, LowestDraw, WaitNat
  <2>7. LeastWaited[n] = LeastWaited[n - 1] + Wait(n) /\ LeastWaited[n - 1] \in Nat
    BY <2>1, LeastWaitedAdds DEF Wait
  <2> HIDE DEF r, d
  <2>8. r.waited + d >= LeastWaited[n]
    BY <2>1, <2>3, <2>6, <2>7
  <2>9. row.attempt = n /\ row.waited = r.waited + d /\ ~ row.givenUp
    BY <2>1, <2>2 DEF Retry
  <2>10. n <= MaxAttempts - 1
    BY <2>1, <2>2, BackoffAssumption
  <2>11. Row(row)
    BY <2>8, <2>9, <2>10
  <2> HIDE DEF row, Row
  <2> QED BY <1>0, <2>5, <2>11
<1>2. ASSUME NEW o \in Operations, GiveUp(o)
      PROVE  WaitedInv'
  <2> DEFINE r == retries[o]
             row == [r EXCEPT !.attempt = r.attempt + 1, !.givenUp = TRUE]
  <2>1. retries' = [retries EXCEPT ![o] = row]
    BY <1>2 DEF GiveUp
  <2>2. r \in Retry /\ r.attempt \in Nat /\ ~ r.givenUp /\ r.attempt + 1 >= MaxAttempts
    BY <1>2 DEF RetriesInv, Retry, GiveUp
  <2>3. r.attempt <= MaxAttempts - 1 /\ r.waited >= LeastWaited[r.attempt]
    BY <2>2 DEF WaitedInv
  <2> HIDE DEF r
  <2>4. r.attempt = MaxAttempts - 1
    BY <2>2, <2>3, BackoffAssumption
  <2>5. row.givenUp /\ row.waited = r.waited
    BY <2>2 DEF Retry
  <2>6. Row(row)
    BY <2>3, <2>4, <2>5
  <2> HIDE DEF row, Row
  <2> QED BY <1>0, <2>1, <2>6
<1>3. CASE UNCHANGED vars
  BY <1>3 DEF vars, WaitedInv
<1> QED BY <1>1, <1>2, <1>3 DEF Next

\* An intent is not given up before an outage is over, for any settings under
\* which the shortest waits of all attempts but the last add up to the outage,
\* whatever is drawn (dispatcher.py, _on_failure; retry.py, compute_backoff).
THEOREM AttemptsOutlastOutage ==
    ASSUME LeastWaited[MaxAttempts - 1] >= Outage
    PROVE  Spec => []OutlastsOutage
<1>1. RetriesInv /\ WaitedInv => OutlastsOutage
  <2> SUFFICES ASSUME RetriesInv, WaitedInv, NEW o \in Operations, retries[o].givenUp
               PROVE  retries[o].waited >= Outage
    BY DEF OutlastsOutage
  <2>1. retries[o].waited \in Nat /\ retries[o].waited >= LeastWaited[MaxAttempts - 1]
    BY DEF RetriesInv, Retry, WaitedInv
  <2>2. LeastWaited[MaxAttempts - 1] \in Nat /\ Outage \in Nat
    <3>1. MaxAttempts - 1 \in Nat /\ Outage \in Nat
      BY BackoffAssumption
    <3> QED BY <3>1, LeastWaitedAdds
  <2> QED BY <2>1, <2>2
<1> QED BY <1>1, RetriesInit, RetriesStep, WaitedInit, WaitedStep, PTL DEF Spec

-----------------------------------------------------------------------------
\* The delay kept is the one of the attempt and the draw kept with it: what a step
\* compares the next delay with.
DelayInv ==
    \A o \in Operations :
        \/ retries[o].givenUp
        \/ retries[o].attempt = 0 /\ retries[o].delay = 0
        \/ /\ retries[o].attempt > 0
           /\ retries[o].draw \in Draws
           /\ retries[o].delay = ComputeBackoff(retries[o].attempt, retries[o].draw)

LEMMA DelayInit == Init => DelayInv
<1> SUFFICES ASSUME Init, NEW o \in Operations
             PROVE  retries[o].attempt = 0 /\ retries[o].delay = 0
  BY DEF DelayInv
<1> QED BY DEF Init, NoRetry

LEMMA DelayStep == RetriesInv /\ DelayInv /\ [Next]_vars => DelayInv'
<1> SUFFICES ASSUME RetriesInv, DelayInv, [Next]_vars PROVE DelayInv'
  OBVIOUS
<1> DEFINE Row(r) ==
        \/ r.givenUp
        \/ r.attempt = 0 /\ r.delay = 0
        \/ r.attempt > 0 /\ r.draw \in Draws /\ r.delay = ComputeBackoff(r.attempt, r.draw)
<1>0. ASSUME NEW o \in Operations, NEW row, retries' = [retries EXCEPT ![o] = row], Row(row)
      PROVE  DelayInv'
  <2> SUFFICES ASSUME NEW q \in Operations PROVE Row(retries'[q])
    BY DEF DelayInv
  <2>1. retries \in [Operations -> Retry] /\ Row(retries[q])
    BY DEF RetriesInv, DelayInv
  <2> HIDE DEF Row
  <2> QED BY <1>0, <2>1
<1>1. ASSUME NEW o \in Operations, Reschedule(o)
      PROVE  DelayInv'
  <2> DEFINE r == retries[o]
             n == r.attempt + 1
  <2>1. r \in Retry /\ n \in Nat \ {0}
    BY DEF RetriesInv, Retry
  <2>2. PICK draw \in Draws :
            retries' = [retries EXCEPT ![o] =
                [retries[o] EXCEPT !.attempt = n, !.draw = draw, !.delay = ComputeBackoff(n, draw),
                                   !.waited = @ + ComputeBackoff(n, draw)]]
    BY <1>1, Zenon DEF Reschedule
  <2> DEFINE d == ComputeBackoff(n, draw)
             w == r.waited + d
             row == [r EXCEPT !.attempt = n, !.draw = draw, !.delay = d, !.waited = w]
  <2>3. retries' = [retries EXCEPT ![o] = row]
    BY <2>2
  <2> HIDE DEF n, d, w
  <2>4. row.attempt = n /\ row.draw = draw /\ row.delay = d
    BY <2>1 DEF Retry
  <2>5. n > 0 /\ draw \in Draws /\ d = ComputeBackoff(n, draw)
    BY <2>1 DEF d
  <2> HIDE DEF row
  <2>6. Row(row)
    BY <2>4, <2>5
  <2> HIDE DEF Row
  <2> QED BY <1>0, <2>3, <2>6
<1>2. ASSUME NEW o \in Operations, GiveUp(o)
      PROVE  DelayInv'
  <2> DEFINE r == retries[o]
             row == [r EXCEPT !.attempt = r.attempt + 1, !.givenUp = TRUE]
  <2>1. retries' = [retries EXCEPT ![o] = row]
    BY <1>2 DEF GiveUp
  <2>2. r \in Retry
    BY DEF RetriesInv
  <2>3. Row(row)
    BY <2>2 DEF Retry
  <2> HIDE DEF row, Row
  <2> QED BY <1>0, <2>1, <2>3
<1>3. CASE UNCHANGED vars
  BY <1>3 DEF vars, DelayInv
<1> QED BY <1>1, <1>2, <1>3 DEF Next

\* A mild jitter leaves a delay positive, below twice what it started from, and
\* below that of twice as much.
LEMMA JitterIsMild ==
    ASSUME MildJitter, NEW x \in Nat, x >= Base, x < Maximum, NEW draw \in Draws
    PROVE  /\ Jittered(x, draw) > 0
           /\ \A other \in Draws :
                2 * x < Maximum => Jittered(2 * x, other) > Jittered(x, draw)
<1>1. Base \in Nat /\ Jitter \in Nat /\ Maximum \in Nat
  BY BackoffAssumption
<1>2. Base * (100 - 3 * Jitter) >= 100
  BY DEF MildJitter
<1>3. 100 - 3 * Jitter > 0
  <2> SUFFICES ASSUME 100 - 3 * Jitter <= 0 PROVE FALSE
    BY <1>1
  <2>1. Base * (100 - 3 * Jitter) <= Base * 0
    BY <1>1, TimesMonotone
  <2>2. Base * 0 = 0 /\ Base * (100 - 3 * Jitter) \in Int
    BY <1>1
  <2> QED BY <1>2, <2>1, <2>2
<1>4. 100 * x - 3 * (x * Jitter) >= 100
  <2> DEFINE m == 100 - 3 * Jitter
  <2>1. m \in Nat /\ Base * m >= 100
    BY <1>1, <1>2, <1>3
  <2>2. x * m = 100 * x - 3 * (x * Jitter)
    BY <1>1
  <2> HIDE DEF m
  <2>3. Base * m <= x * m /\ x * m \in Int /\ Base * m \in Int
    <3>1. m * Base <= m * x
      BY <1>1, <2>1, TimesMonotone
    <3>2. m * Base = Base * m /\ m * x = x * m /\ x * m \in Int /\ Base * m \in Int
      BY <1>1, <2>1
    <3> QED BY <3>1, <3>2
  <2> QED BY <2>1, <2>2, <2>3
<1> DEFINE xj == x * Jitter
<1>5. xj \in Int /\ 0 <= xj
  BY <1>1
<1>6. ASSUME NEW d \in Draws
      PROVE  x * d \in Int /\ x * d <= xj /\ -xj <= x * d /\ (2 * x) * d = 2 * (x * d)
  <2>1. d \in Int /\ -Jitter \in Int /\ -Jitter <= d /\ d <= Jitter
    BY BackoffAssumption
  <2>2. x * (-Jitter) <= x * d /\ x * d <= x * Jitter /\ x * d \in Int
    BY <1>1, <2>1, TimesMonotone
  <2>3. x * (-Jitter) = -(x * Jitter) /\ (2 * x) * d = 2 * (x * d)
    BY <1>1, <2>1
  <2> QED BY <2>2, <2>3
<1>7. 100 * x - 3 * xj >= 100
  BY <1>4
<1> HIDE DEF xj
<1> DEFINE y == x * draw
<1>8. y \in Int /\ y <= xj /\ -xj <= y
  BY <1>6
<1>9. Jittered(x, draw) = IF x + y \div 100 < 0 THEN 0 ELSE Lesser(x + y \div 100, Maximum)
  BY DEF Jittered
<1> HIDE DEF y
<1> DEFINE s == x + y \div 100
<1>10. s \in Int /\ s > 0 /\ s < 2 * x /\ 100 * s <= 100 * x + xj
  BY <1>5, <1>7, <1>8
<1>11. Jittered(x, draw) = Lesser(s, Maximum)
  BY <1>9, <1>10
<1> HIDE DEF s
<1>12. Jittered(x, draw) > 0
  BY <1>1, <1>10, <1>11 DEF Lesser
<1>13. ASSUME NEW other \in Draws, 2 * x < Maximum
       PROVE  Jittered(2 * x, other) > Jittered(x, draw)
  <2> DEFINE z == x * other
             t == 2 * x + (2 * z) \div 100
  <2>1. z \in Int /\ z <= xj /\ -xj <= z /\ (2 * x) * other = 2 * z
    BY <1>6
  <2>2. Jittered(2 * x, other) = IF t < 0 THEN 0 ELSE Lesser(t, Maximum)
    BY <2>1 DEF Jittered
  <2> HIDE DEF z
  <2>3. t \in Int /\ 100 * t >= 200 * x - 2 * xj - 99
    BY <1>5, <2>1
  <2> HIDE DEF t
  <2>4. t > s
    BY <1>5, <1>7, <1>10, <2>3
  <2>5. Jittered(2 * x, other) = Lesser(t, Maximum)
    BY <1>10, <2>2, <2>3, <2>4
  <2> QED BY <1>1, <1>10, <1>11, <1>13, <2>3, <2>4, <2>5 DEF Lesser
<1> QED BY <1>12, <1>13

\* With a mild jitter two draws never undo a doubling, for any base, any ceiling that
\* doubling reaches, and any number of attempts: each wait below the ceiling is longer than the one before
\* it (retry.py, compute_backoff).
THEOREM WaitsAreGrowing ==
    ASSUME MildJitter, CeilingReached
    PROVE  Spec => WaitsGrow
<1>1. ASSUME RetriesInv, DelayInv, [Next]_vars
      PROVE  [\A o \in Operations :
                \/ retries'[o].attempt = retries[o].attempt
                \/ retries'[o].givenUp
                \/ Nominal(retries'[o].attempt) = Maximum
                \/ retries'[o].delay > retries[o].delay]_vars
  <2> SUFFICES ASSUME NEW p \in Operations, Reschedule(p) \/ GiveUp(p), NEW o \in Operations,
                      retries'[o].attempt # retries[o].attempt, ~ retries'[o].givenUp,
                      Nominal(retries'[o].attempt) # Maximum
               PROVE  retries'[o].delay > retries[o].delay
    BY <1>1 DEF Next
  <2>1. retries \in [Operations -> Retry] /\ retries[o] \in Retry
    BY <1>1 DEF RetriesInv
  <2>2. p = o
    BY <2>1 DEF Reschedule, GiveUp
  <2>3. ~ GiveUp(o)
    BY <2>1 DEF GiveUp, Retry
  <2>4. Reschedule(o)
    BY <2>2, <2>3
  <2> DEFINE r == retries[o]
             n == r.attempt + 1
  <2>5. ~ r.givenUp /\ r.attempt \in Nat /\ n \in Nat \ {0}
    <3>1. ~ r.givenUp
      BY <2>4 DEF Reschedule
    <3> QED BY <2>1, <3>1 DEF Retry
  <2>6. PICK draw \in Draws :
            retries' = [retries EXCEPT ![o] =
                [retries[o] EXCEPT !.attempt = n, !.draw = draw, !.delay = ComputeBackoff(n, draw),
                                   !.waited = @ + ComputeBackoff(n, draw)]]
    BY <2>4, Zenon DEF Reschedule
  <2> DEFINE d == ComputeBackoff(n, draw)
             w == r.waited + d
             row == [r EXCEPT !.attempt = n, !.draw = draw, !.delay = d, !.waited = w]
  <2>7. retries'[o] = row
    BY <2>1, <2>6
  <2>8. row.attempt = n /\ row.delay = d
    <3> HIDE DEF n, d, w
    <3> QED BY <2>1 DEF Retry
  <2>9. retries'[o].attempt = n /\ retries'[o].delay = d
    BY <2>7, <2>8
  <2>10. d = Jittered(Nominal(n), draw)
    BY <2>5, BackoffOf
  <2>11. Nominal(n) # Maximum
    BY <2>9
  <2>12. CASE r.attempt = 0
    <3>1. Base \in Nat /\ Maximum \in Nat /\ MaxExponent \in Nat
      BY BackoffAssumption
    <3>2. r.delay = 0 /\ n = 1
      BY <1>1, <2>5, <2>12 DEF DelayInv
    <3>3. Nominal(1) = Base /\ Base < Maximum
      <4>1. Lesser(1 - 1, MaxExponent) = 0
        BY <3>1 DEF Lesser
      <4>2. Base * 2 ^ 0 = Base
        BY <3>1
      <4>3. Nominal(1) = Lesser(Maximum, Base)
        BY <4>1, <4>2 DEF Nominal
      <4> QED BY <2>11, <3>1, <3>2, <4>3 DEF Lesser
    <3>4. Jittered(Base, draw) > 0
      BY <3>1, <3>3, JitterIsMild
    <3> QED BY <2>9, <2>10, <3>2, <3>3, <3>4
  <2>13. CASE r.attempt # 0
    <3> DEFINE a == r.attempt
    <3>1. a \in Nat \ {0}
      BY <2>5, <2>13
    <3>2. r.draw \in Draws /\ r.delay = Jittered(Nominal(a), r.draw)
      <4>1. r.draw \in Draws /\ r.delay = ComputeBackoff(a, r.draw)
        BY <1>1, <2>5, <2>13 DEF DelayInv
      <4> QED BY <3>1, <4>1, BackoffOf
    <3>3. Nominal(n) = 2 * Nominal(a) /\ Nominal(a) >= Base /\ Nominal(n) < Maximum
      BY <2>11, <3>1, NominalDoubles
    <3>4. Nominal(a) \in Nat /\ Maximum \in Nat
      BY <3>1, NominalType, BackoffAssumption
    <3>5. Jittered(2 * Nominal(a), draw) > Jittered(Nominal(a), r.draw)
      <4>1. Nominal(a) < Maximum /\ 2 * Nominal(a) < Maximum
        BY <3>3, <3>4
      <4> QED BY <3>2, <3>3, <3>4, <4>1, JitterIsMild
    <3> QED BY <2>9, <2>10, <3>2, <3>3, <3>5
  <2> QED BY <2>12, <2>13
<1> QED BY <1>1, RetriesInit, RetriesStep, DelayInit, DelayStep, PTL DEF Spec, WaitsGrow
================================================================================
