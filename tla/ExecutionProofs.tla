-------------------------- MODULE ExecutionProofs ---------------------------
(***************************************************************************)
(* The breaker's counters are honest, attempts are executions, jobs die    *)
(* only of what they deserve to and retries back off, for every            *)
(* configuration and every number of concurrent executions.                *)
(***************************************************************************)
EXTENDS Execution, WellFoundedInduction, TLAPS

\* Steps without arithmetic are left to Zenon; the others name their prover.
USE Zenon

\* The comparison the breaker makes is with a counter; the history variables
\* say what was really recorded.  CountsConsecutive ties the two together and
\* is inductive with the types.
BreakerInv == TypeOK /\ CountsConsecutive

\* The thresholds New settles on are positive, whatever was configured.
LEMMA ThresholdsPositive ==
  /\ FailureThreshold \in Nat \ {0}
  /\ SuccessThreshold \in Nat \ {0}
  /\ HalfOpenRequests \in Nat \ {0}
BY BreakerAssumption, SMT
DEF FailureThreshold, SuccessThreshold, HalfOpenRequests, Default

\* A new breaker satisfies the invariant.
LEMMA BreakerInit == Init => BreakerInv
<1> SUFFICES ASSUME Init PROVE BreakerInv
  OBVIOUS
<1>1. cooled \in BOOLEAN /\ healthy \in BOOLEAN
  BY DEF Init
<1>2. 0 \in 0..FailureThreshold /\ 0 \in 0..SuccessThreshold /\ 0 < FailureThreshold
  BY ThresholdsPositive, SMT
<1>3. admitted \in [Callers -> {"no", "closed", "half-open"}]
  BY DEF Init
<1> QED
  BY <1>1, <1>2, <1>3, SMT DEF Init, BreakerInv, TypeOK, CountsConsecutive

\* One report: what it does to the invariant, and the transition it may make.
LEMMA BreakerStep ==
  ASSUME BreakerInv, [Next]_vars
  PROVE  /\ BreakerInv'
         /\ state = "closed" /\ state' # "closed" =>
              state' = "open" /\ bad' = FailureThreshold
         /\ state = "open" /\ state' # "open" => state' = "half-open" /\ cooled
         /\ state = "half-open" /\ state' = "closed" => good' = SuccessThreshold
<1> USE ThresholdsPositive DEF BreakerInv, TypeOK, CountsConsecutive
<1> HIDE DEF FailureThreshold, SuccessThreshold, HalfOpenRequests
<1>1. ASSUME NEW c \in Callers, Allow(c)
      PROVE  /\ BreakerInv'
             /\ state = "closed" => state' = "closed"
             /\ state = "open" => state' = "half-open" /\ cooled
             /\ state = "half-open" => state' = "half-open"
  BY <1>1, SMT DEF Allow, Allowed, Outcomes
<1>2. ASSUME NEW c \in Callers, RecordSuccess(c)
      PROVE  /\ BreakerInv'
             /\ state # "half-open" => state' = state
             /\ state = "half-open" /\ state' = "closed" => good' = SuccessThreshold
  BY <1>2, SMT DEF RecordSuccess, Reported, Upto
<1>3. ASSUME NEW c \in Callers, RecordFailure(c)
      PROVE  /\ BreakerInv'
             /\ state = "closed" /\ state' # "closed" =>
                  state' = "open" /\ bad' = FailureThreshold
             /\ state # "closed" => state' = "open"
  <2>1. admitted' \in [Callers -> {"no", "closed", "half-open"}]
    BY <1>3 DEF RecordFailure, Reported
  <2>2. bad' \in 0..FailureThreshold /\ good' = 0 /\ healthy' = healthy
    BY <1>3, SMT DEF RecordFailure, Upto
  <2>3. CASE state = "closed" /\ failures + 1 < FailureThreshold
    BY <1>3, <2>1, <2>2, <2>3, SMT DEF RecordFailure, Upto
  <2>4. CASE state = "closed" /\ failures + 1 >= FailureThreshold
    <3>1. failures' = failures + 1 /\ state' = "open" /\ cooled' = FALSE
      BY <1>3, <2>4, SMT DEF RecordFailure
    <3>2. failures' \in 0..FailureThreshold /\ bad' = FailureThreshold
      BY <1>3, <2>4, <3>1, SMT DEF RecordFailure, Upto
    <3>3. successes' = successes
      BY <1>3, <2>4 DEF RecordFailure
    <3>4. cooled' \in BOOLEAN /\ healthy' \in BOOLEAN
      BY <2>2, <3>1
    <3>5. TypeOK'
      BY <2>1, <2>2, <3>1, <3>2, <3>3, <3>4, SMT
    <3>6. CountsConsecutive'
      BY <3>1
    <3> QED
      BY <2>4, <3>1, <3>2, <3>5, <3>6
  <2>5. CASE state = "half-open"
    <3>1. state' = "open" /\ cooled' = FALSE /\ failures' = 0 /\ successes' = 0
      BY <1>3, <2>5 DEF RecordFailure
    <3>2. cooled' \in BOOLEAN /\ healthy' \in BOOLEAN
      BY <2>2, <3>1
    <3>3. TypeOK'
      BY <2>1, <2>2, <3>1, <3>2, SMT
    <3>4. CountsConsecutive'
      BY <3>1
    <3> QED
      BY <2>5, <3>1, <3>3, <3>4
  <2>6. CASE state = "open"
    BY <1>3, <2>1, <2>2, <2>6, SMT DEF RecordFailure
  <2> QED
    BY <2>3, <2>4, <2>5, <2>6, SMT
<1>4. ASSUME NEW c \in Callers, ReturnUnreported(c)
      PROVE  BreakerInv' /\ state' = state
  BY <1>4 DEF ReturnUnreported, Reported, Outcomes
<1>5. CASE Cool \/ Recover
  BY <1>5 DEF Cool, Recover, Outcomes
<1>6. CASE UNCHANGED vars
  BY <1>6 DEF vars
<1>7. ASSUME NEW c \in Callers, Refuse(c) PROVE UNCHANGED vars
  BY <1>7 DEF Refuse
<1> HIDE DEF BreakerInv, TypeOK, CountsConsecutive
<1>8. state \in {"closed", "open", "half-open"}
  BY DEF BreakerInv, TypeOK
<1> QED
  BY <1>1, <1>2, <1>3, <1>4, <1>5, <1>6, <1>7, <1>8 DEF Next

\* A failure count in the closed state never exceeds the failures recorded in
\* a row, nor a half-open success count the successes in a row.
THEOREM BreakerInvariance == Spec => [](TypeOK /\ CountsConsecutive)
<1>1. BreakerInv /\ [Next]_vars => BreakerInv'
  BY BreakerStep
<1> QED
  BY BreakerInit, <1>1, PTL DEF Spec, BreakerInv

\* Every transition of the breaker is earned: it opens, probes and closes only
\* for the reasons RecordFailure, Allow and RecordSuccess are meant to have.
THEOREM TransitionsEarnedHolds == Spec => TransitionsEarned
<1>1. BreakerInv /\ [Next]_vars =>
        [/\ state = "closed" /\ state' # "closed" =>
              state' = "open" /\ bad' = FailureThreshold
         /\ state = "open" /\ state' # "open" => state' = "half-open" /\ cooled
         /\ state = "half-open" /\ state' = "closed" => good' = SuccessThreshold
        ]_vars
  BY BreakerStep
<1> QED
  BY BreakerInvariance, <1>1, PTL DEF Spec, BreakerInv, TransitionsEarned

-----------------------------------------------------------------------------
(* When the breaker can close again.  Half-open, Allow compares successes  *)
(* with HalfOpenRequests and RecordSuccess with SuccessThreshold.          *)

\* Half-open, nobody is admitted, and nobody admitted is left to report.
Wedged ==
  /\ state = "half-open" /\ ~Allowed
  /\ \A c \in Callers : admitted[c] = "no"

\* A wedged breaker stays wedged: no clock, recovery, or request of any caller
\* moves it.
THEOREM WedgedForEver == Spec => [][Wedged => Wedged']_vars
<1>1. Wedged /\ [Next]_vars => Wedged'
  <2> SUFFICES ASSUME Wedged, [Next]_vars PROVE Wedged'
    OBVIOUS
  <2>1. UNCHANGED <<state, successes, admitted>> => Wedged'
    BY DEF Wedged, Allowed
  <2>2. ASSUME NEW c \in Callers PROVE ~Allow(c) /\ ~Reported(c)
    BY DEF Wedged, Allow, Reported
  <2> QED
    BY <2>1, <2>2 DEF Next, Refuse, RecordSuccess, RecordFailure, ReturnUnreported, Cool,
                      Recover, vars
<1> QED
  BY <1>1, PTL DEF Spec

\* With HalfOpenRequests at least SuccessThreshold, half-open is never without a
\* probe that Allow admits, so nothing wedges.  cmd/server configures 1 and 2.
THEOREM EnoughProbesNeverWedge ==
  ASSUME SuccessThreshold <= HalfOpenRequests
  PROVE  Spec => []~Wedged
<1>1. BreakerInv => ~Wedged
  <2> SUFFICES ASSUME BreakerInv, state = "half-open" PROVE Allowed
    BY DEF Wedged
  <2>1. successes \in 0..SuccessThreshold /\ successes < SuccessThreshold
    BY DEF BreakerInv, TypeOK, CountsConsecutive
  <2>2. \A i, m, n \in Nat : i < m /\ m <= n => i < n
    BY SMT
  <2>3. successes \in Nat
    BY <2>1, SMT
  <2>4. successes < HalfOpenRequests
    BY <2>1, <2>2, <2>3, ThresholdsPositive
  <2> QED
    BY <2>4 DEF Allowed
<1> QED
  BY <1>1, BreakerInvariance, PTL DEF BreakerInv
-----------------------------------------------------------------------------
\* A set of numbers that is not empty has a least one.
LEMMA LeastNumber ==
  ASSUME NEW S, S \subseteq Nat, S # {}
  PROVE  \E x \in S : \A y \in S : x <= y
<1>1. PICK x \in S : \A y \in S : ~(<<y, x>> \in OpToRel(<, Nat))
  BY NatLessThanWellFounded, WFMin
<1>2. \A y \in S : ~(y < x)
  BY <1>1 DEF OpToRel
<1> QED
  BY <1>2, SMT

\* The first n + 1 values of iterating F from a.
Iterates(S, F, a, n) ==
  {g \in [0..n -> S] : g[0] = a /\ \A i \in 1..n : g[i] = F[g[i - 1]]}

\* All of them.
Iteration(g, S, F, a) == g \in [Nat -> S] /\ g[0] = a /\ \A n \in Nat : g[n + 1] = F[g[n]]

\* A function can be iterated: what a loop that repeats one assignment computes.
LEMMA IteratesExist ==
  ASSUME NEW S, NEW F \in [S -> S], NEW a \in S
  PROVE  \E g : Iteration(g, S, F, a)
<1>1. ASSUME NEW n \in Nat PROVE Iterates(S, F, a, n) # {}
  <2> DEFINE none == {m \in Nat : Iterates(S, F, a, m) = {}}
  <2>1. SUFFICES ASSUME none # {} PROVE FALSE
    OBVIOUS
  <2>2. PICK m \in none : \A y \in none : m <= y
    BY <2>1, LeastNumber
  <2>3. CASE m = 0
    <3>1. [i \in 0..0 |-> a] \in Iterates(S, F, a, 0)
      BY SMT DEF Iterates
    <3> QED
      BY <2>2, <2>3, <3>1
  <2>4. CASE m # 0
    <3>1. m - 1 \in Nat /\ m - 1 \notin none
      BY <2>2, <2>4, SMT
    <3>2. PICK g \in Iterates(S, F, a, m - 1) : TRUE
      BY <3>1
    <3>3. g \in [0..(m - 1) -> S] /\ g[0] = a /\ \A i \in 1..(m - 1) : g[i] = F[g[i - 1]]
      BY <3>2 DEF Iterates
    <3> DEFINE h == [i \in 0..m |-> IF i = m THEN F[g[m - 1]] ELSE g[i]]
    <3>4. g[m - 1] \in S
      BY <3>1, <3>3, SMT
    <3>5. ASSUME NEW i \in 0..m PROVE h[i] \in S
      BY <3>1, <3>3, <3>4, <3>5, SMT
    <3>6. h[0] = a
      BY <2>2, <2>4, <3>3, SMT
    <3>7. ASSUME NEW i \in 1..m PROVE h[i] = F[h[i - 1]]
      BY <3>1, <3>3, <3>7, SMT
    <3>8. h \in Iterates(S, F, a, m)
      BY <3>5, <3>6, <3>7 DEF Iterates
    <3> QED
      BY <2>2, <3>8
  <2> QED
    BY <2>3, <2>4
<1>2. ASSUME NEW n \in Nat, NEW g \in Iterates(S, F, a, n), NEW h \in Iterates(S, F, a, n + 1)
      PROVE  \A i \in 0..n : g[i] = h[i]
  <2> DEFINE apart == {i \in 0..n : g[i] # h[i]}
  <2>1. SUFFICES ASSUME apart # {} PROVE FALSE
    OBVIOUS
  <2>2. PICK i \in apart : \A j \in apart : i <= j
    <3>1. apart \subseteq Nat
      BY SMT
    <3> QED
      BY <2>1, <3>1, LeastNumber
  <2>3. /\ g[0] = a /\ h[0] = a
        /\ \A j \in 1..n : g[j] = F[g[j - 1]] /\ h[j] = F[h[j - 1]]
    BY <1>2, SMT DEF Iterates
  <2>4. i # 0
    BY <2>2, <2>3
  <2>5. i - 1 \in 0..n /\ i - 1 \notin apart /\ i \in 1..n
    BY <2>2, <2>4, SMT
  <2> QED
    BY <2>2, <2>3, <2>5
<1> DEFINE G(n) == CHOOSE g \in Iterates(S, F, a, n) : TRUE
           f == [n \in Nat |-> G(n)[n]]
<1>3. ASSUME NEW n \in Nat PROVE G(n) \in Iterates(S, F, a, n)
  BY <1>1
<1> HIDE DEF G
<1>4. ASSUME NEW n \in Nat PROVE G(n) \in [0..n -> S] /\ G(n)[0] = a
  BY <1>3 DEF Iterates
<1>5. f \in [Nat -> S] /\ f[0] = a
  BY <1>4, SMT
<1>6. ASSUME NEW n \in Nat PROVE f[n + 1] = F[f[n]]
  <2>1. G(n + 1)[n + 1] = F[G(n + 1)[n]]
    <3>1. n + 1 \in Nat /\ n + 1 \in 1..(n + 1) /\ (n + 1) - 1 = n
      BY SMT
    <3>2. G(n + 1) \in Iterates(S, F, a, n + 1)
      BY <1>3, <3>1
    <3> QED
      BY <3>1, <3>2 DEF Iterates
  <2>2. G(n)[n] = G(n + 1)[n]
    <3>1. n + 1 \in Nat /\ n \in 0..n
      BY SMT
    <3> QED
      BY <1>2, <1>3, <3>1
  <2> QED
    BY <2>1, <2>2, SMT
<1> QED
  BY <1>5, <1>6 DEF Iteration

\* The lesser and the greater of two numbers.
LEMMA MinMaxOfTwo ==
  ASSUME NEW x \in Int, NEW y \in Int
  PROVE  /\ Min({x, y}) = IF x <= y THEN x ELSE y
         /\ Max({x, y}) = IF x >= y THEN x ELSE y
<1>1. Min({x, y}) \in {x, y} /\ \A z \in {x, y} : Min({x, y}) <= z
  <2>1. \E m \in {x, y} : \A z \in {x, y} : m <= z
    BY SMT
  <2> QED
    BY <2>1 DEF Min
<1>2. Max({x, y}) \in {x, y} /\ \A z \in {x, y} : Max({x, y}) >= z
  <2>1. \E m \in {x, y} : \A z \in {x, y} : m >= z
    BY SMT
  <2> QED
    BY <2>1 DEF Max
<1> QED
  BY <1>1, <1>2, SMT

\* The settings NewEngine settles on make sense, whatever was configured.
LEMMA RetrySettings ==
  /\ BaseDelay \in Nat \ {0} /\ MaxDelay \in Nat /\ BaseDelay <= MaxDelay
  /\ Multiplier \in Nat /\ Multiplier >= 2
  /\ Jitter \in 0..100
<1>0. CfgBase \in Int /\ CfgMax \in Int /\ CfgMultiplier \in Int /\ CfgJitter \in Int
  BY ExecutionAssumption
<1>1. BaseDelay \in Nat \ {0}
  BY <1>0, SMT DEF BaseDelay
<1>2. MaxDelay \in Nat /\ BaseDelay <= MaxDelay
  <2> DEFINE m == IF CfgMax <= 0 THEN 3000 ELSE CfgMax
  <2>1. m \in Int /\ BaseDelay \in Int
    BY <1>0, <1>1, SMT
  <2>2. MaxDelay = IF BaseDelay >= m THEN BaseDelay ELSE m
    <3> HIDE DEF m
    <3>1. MaxDelay = Max({BaseDelay, m})
      BY DEF MaxDelay, m
    <3> QED
      BY <2>1, <3>1, MinMaxOfTwo
  <2> QED
    BY <1>0, <1>1, <2>2, SMT
<1>3. Multiplier \in Nat /\ Multiplier >= 2
  BY <1>0, SMT DEF Multiplier
<1>4. Jitter \in 0..100
  <2>1. Max({0, CfgJitter}) = IF 0 >= CfgJitter THEN 0 ELSE CfgJitter
    BY <1>0, MinMaxOfTwo, SMT
  <2>2. Max({0, CfgJitter}) \in Nat
    BY <1>0, <2>1, SMT
  <2>3. Jitter = IF 100 <= Max({0, CfgJitter}) THEN 100 ELSE Max({0, CfgJitter})
    <3>1. 100 \in Int /\ Max({0, CfgJitter}) \in Int
      BY <2>2, SMT
    <3> QED
      BY <3>1, MinMaxOfTwo DEF Jitter
  <2> QED
    BY <2>2, <2>3, SMT
<1> QED
  BY <1>1, <1>2, <1>3, <1>4

\* One turn of the loop of Delay keeps the delay between the base and the cap.
LEMMA LoopTurn ==
  ASSUME NEW x \in BaseDelay..MaxDelay
  PROVE  /\ x * Multiplier \in Nat /\ x * Multiplier >= 2 * x
         /\ Min({MaxDelay, x * Multiplier}) =
              IF MaxDelay <= x * Multiplier THEN MaxDelay ELSE x * Multiplier
         /\ Min({MaxDelay, x * Multiplier}) \in BaseDelay..MaxDelay
<1>1. ASSUME NEW k \in Nat, NEW m \in Nat, m >= 2 PROVE k * m \in Nat /\ k * m >= 2 * k
  BY <1>1, SMT
<1>2. x \in Nat
  BY RetrySettings, SMT
<1>3. x * Multiplier \in Nat /\ x * Multiplier >= 2 * x
  BY <1>1, <1>2, RetrySettings
<1> DEFINE y == x * Multiplier
<1> HIDE DEF y
<1>4. Min({MaxDelay, y}) = IF MaxDelay <= y THEN MaxDelay ELSE y
  <2>1. MaxDelay \in Int /\ y \in Int
    BY <1>3, RetrySettings, SMT DEF y
  <2> QED
    BY <2>1, MinMaxOfTwo
<1>5. Min({MaxDelay, y}) \in BaseDelay..MaxDelay
  BY <1>2, <1>3, <1>4, RetrySettings, SMT DEF y
<1> QED
  BY <1>3, <1>4, <1>5 DEF y

\* What the loop of Delay computes.
LEMMA GrownUnfolds ==
  /\ Grown \in [Nat -> BaseDelay..MaxDelay]
  /\ Grown[0] = BaseDelay
  /\ \A n \in Nat : Grown[n + 1] = Min({MaxDelay, Grown[n] * Multiplier})
<1> DEFINE S == BaseDelay..MaxDelay
           F == [x \in S |-> Min({MaxDelay, x * Multiplier})]
           R(g) == [n \in Nat |-> IF n = 0 THEN BaseDelay ELSE Min({MaxDelay, g[n - 1] * Multiplier})]
<1>1. F \in [S -> S] /\ BaseDelay \in S
  <2>1. BaseDelay \in S
    BY RetrySettings, SMT
  <2>2. \A x \in S : Min({MaxDelay, x * Multiplier}) \in S
    BY LoopTurn
  <2> HIDE DEF S
  <2> QED
    BY <2>1, <2>2
<1> HIDE DEF S, F
<1>2. PICK g : Iteration(g, S, F, BaseDelay)
  BY <1>1, IteratesExist
<1>g. g \in [Nat -> S] /\ g[0] = BaseDelay /\ \A n \in Nat : g[n + 1] = F[g[n]]
  BY <1>2 DEF Iteration
<1> USE DEF S, F
<1>3. \A n \in Nat : g[n + 1] = Min({MaxDelay, g[n] * Multiplier})
  BY <1>g
<1>4. g = R(g)
  <2>1. ASSUME NEW n \in Nat PROVE g[n] = R(g)[n]
    <3>1. CASE n = 0
      BY <1>g, <3>1
    <3>2. CASE n # 0
      <4>1. n - 1 \in Nat /\ (n - 1) + 1 = n
        BY <3>2, SMT
      <4>2. g[n] = Min({MaxDelay, g[n - 1] * Multiplier})
        BY <1>3, <4>1
      <4> QED
        BY <3>2, <4>2
    <3> QED
      BY <3>1, <3>2
  <2> HIDE DEF S
  <2>2. g \in [Nat -> S]
    BY <1>g
  <2> QED
    BY <2>1, <2>2
<1>5. Grown = R(Grown)
  BY <1>4 DEF Grown
<1>6. /\ Grown[0] = BaseDelay
      /\ \A n \in Nat \ {0} : Grown[n] = Min({MaxDelay, Grown[n - 1] * Multiplier})
  BY <1>5
<1>7. ASSUME NEW n \in Nat PROVE Grown[n] \in S
  <2> DEFINE out == {k \in Nat : Grown[k] \notin S}
  <2>1. SUFFICES ASSUME out # {} PROVE FALSE
    OBVIOUS
  <2>2. PICK k \in out : \A y \in out : k <= y
    BY <2>1, LeastNumber
  <2>3. k # 0
    BY <1>1, <1>6, <2>2
  <2>4. k - 1 \in Nat /\ k - 1 \notin out /\ k \in Nat \ {0}
    BY <2>2, <2>3, SMT
  <2>5. Grown[k - 1] \in S
    BY <2>4
  <2>6. Grown[k] \in S
    BY <1>6, <2>4, <2>5, LoopTurn
  <2> QED
    BY <2>2, <2>6
<1>8. ASSUME NEW n \in Nat PROVE Grown[n + 1] = Min({MaxDelay, Grown[n] * Multiplier})
  <2>1. n + 1 \in Nat \ {0} /\ (n + 1) - 1 = n
    BY SMT
  <2> QED
    BY <1>6, <2>1
<1>9. Grown \in [Nat -> S]
  <2>1. Grown = [n \in Nat |-> Grown[n]]
    BY <1>5
  <2> QED
    BY <1>7, <2>1
<1> QED
  BY <1>6, <1>8, <1>9

\* Later delays are at least a multiple of earlier ones, until the cap.
LEMMA GrownGrows ==
  ASSUME NEW n \in Nat, NEW m \in Nat, n < m
  PROVE  Grown[m] = MaxDelay \/ Grown[m] >= Grown[n] * Multiplier
<1> DEFINE wrong == {k \in Nat : n < k /\ ~(Grown[k] = MaxDelay \/ Grown[k] >= Grown[n] * Multiplier)}
<1>1. SUFFICES ASSUME wrong # {} PROVE FALSE
  OBVIOUS
<1>2. PICK k \in wrong : \A y \in wrong : k <= y
  BY <1>1, LeastNumber
<1>3. k - 1 \in Nat /\ n <= k - 1 /\ (k - 1) + 1 = k
  BY <1>2, SMT
<1> DEFINE x == Grown[k - 1]
<1>4. x \in BaseDelay..MaxDelay /\ Grown[n] \in BaseDelay..MaxDelay
  BY <1>3, GrownUnfolds
<1>5. Grown[k] = Min({MaxDelay, x * Multiplier})
  BY <1>3, GrownUnfolds
<1> HIDE DEF x
<1>6. /\ x * Multiplier \in Nat /\ x * Multiplier >= 2 * x
      /\ Grown[k] = IF MaxDelay <= x * Multiplier THEN MaxDelay ELSE x * Multiplier
      /\ Grown[n] * Multiplier \in Nat
  BY <1>4, <1>5, LoopTurn
<1>7. Grown[k] # MaxDelay /\ Grown[k] < Grown[n] * Multiplier
  <2>1. Grown[k] \in Nat
    BY <1>6, RetrySettings
  <2> QED
    BY <1>2, <1>6, <2>1, SMT
<1>8. CASE k - 1 = n
  BY <1>6, <1>7, <1>8, RetrySettings, SMT DEF x
<1>9. CASE k - 1 # n
  <2>1. k - 1 \notin wrong /\ n < k - 1
    BY <1>2, <1>3, <1>9, SMT
  <2>2. x = MaxDelay \/ x >= Grown[n] * Multiplier
    BY <1>3, <2>1 DEF x
  <2> QED
    BY <1>4, <1>6, <1>7, <2>2, RetrySettings, SMT
<1> QED
  BY <1>8, <1>9

\* A delay is between the base and the cap, and its jitter less than doubles it.
LEMMA DelayBounds ==
  ASSUME NEW n \in Nat, NEW d \in Delay(n)
  PROVE  /\ d \in BaseDelay..MaxDelay /\ Grown[n] \in BaseDelay..MaxDelay
         /\ d >= Grown[n] /\ d < 2 * Grown[n]
<1> DEFINE g == Grown[n]
<1>1. g \in BaseDelay..MaxDelay
  BY GrownUnfolds
<1>2. PICK a \in Added(n) : d = Min({MaxDelay, g + a})
  BY DEF Delay
<1> HIDE DEF g
<1>3. g \in Nat \ {0}
  BY <1>1, RetrySettings, SMT
<1>4. g * Jitter \in Nat /\ g * Jitter <= 100 * g
  <2>1. ASSUME NEW k \in Nat, NEW j \in 0..100 PROVE k * j \in Nat /\ k * j <= 100 * k
    BY <2>1, SMT
  <2> QED
    BY <1>3, <2>1, RetrySettings
<1> DEFINE y == g * Jitter
           q == (y - 1) \div 100
<1>5. y \in Nat /\ y <= 100 * g
  BY <1>4
<1> HIDE DEF y
<1>6. q \in Int /\ q < g
  BY <1>3, <1>5, SMT
<1>7. a \in {0, Max({0, q})}
  BY <1>2 DEF Added, g, y
<1> HIDE DEF q
<1>8. a \in Nat /\ a < g
  <2>1. Max({0, q}) = IF 0 >= q THEN 0 ELSE q
    <3>1. 0 \in Int
      BY SMT
    <3> QED
      BY <1>6, <3>1, MinMaxOfTwo
  <2> QED
    BY <1>3, <1>6, <1>7, <2>1, SMT
<1>9. d = IF MaxDelay <= g + a THEN MaxDelay ELSE g + a
  <2>1. MaxDelay \in Int /\ g + a \in Int
    BY <1>3, <1>8, RetrySettings, SMT
  <2> QED
    BY <1>2, <2>1, MinMaxOfTwo
<1>10. /\ d \in BaseDelay..MaxDelay /\ d >= g /\ d < 2 * g
  BY <1>1, <1>3, <1>8, <1>9, RetrySettings, SMT
<1> QED
  BY <1>1, <1>10 DEF g

\* A retry waits longer than any before it, or as long as retries may wait.
LEMMA DelaysGrow ==
  ASSUME NEW n \in Nat, NEW m \in Nat, n < m, NEW d \in Delay(n), NEW e \in Delay(m)
  PROVE  e > d \/ e = MaxDelay
<1>1. /\ d \in BaseDelay..MaxDelay /\ Grown[n] \in BaseDelay..MaxDelay
      /\ d >= Grown[n] /\ d < 2 * Grown[n]
  BY DelayBounds
<1>2. e \in BaseDelay..MaxDelay /\ Grown[m] \in BaseDelay..MaxDelay /\ e >= Grown[m]
  BY DelayBounds
<1>3. Grown[n] * Multiplier \in Nat /\ Grown[n] * Multiplier >= 2 * Grown[n]
  BY <1>1, LoopTurn
<1>4. Grown[m] = MaxDelay \/ Grown[m] >= Grown[n] * Multiplier
  BY GrownGrows
<1> QED
  BY <1>1, <1>2, <1>3, <1>4, RetrySettings, SMT

-----------------------------------------------------------------------------
\* A webhook whose job is not sound fails for good before anything is sent.
LEMMA WebhookUnsound ==
  ASSUME NEW u \in URL, NEW lookup, NEW method \in {"", "POST", "PUT", "PATCH", "GET"}, NEW s,
         ~WebhookSound(u, method)
  PROVE  WebhookHandler(u, lookup, method, s) = "permanent"
<1>1. /\ u.scheme \in {"http", "https", "ftp"}
      /\ u.host \in {"", "localhost", "public", "private", "name"}
  BY DEF URL
<1>2. CASE u.text # "parses" \/ method = "GET"
  BY <1>2 DEF WebhookHandler
<1>3. CASE u.userinfo
  <2>1. ~validateURL(u, lookup)
    BY <1>3 DEF validateURL
  <2> QED
    BY <2>1 DEF WebhookHandler
<1>4. CASE u.text = "parses" /\ method # "GET" /\ ~u.userinfo
  <2>1. ~(<<u.scheme, u.host>> \in {"http", "https"} \X
           ({"public", "name"} \cup IF AllowPrivate THEN {"private"} ELSE {}))
    BY <1>4 DEF WebhookSound
  <2>2. \/ u.scheme = "ftp" \/ u.host \in {"", "localhost"}
        \/ u.host = "private" /\ ~AllowPrivate
    BY <1>1, <2>1
  <2>3. ~validateURL(u, lookup)
    BY <2>2 DEF validateURL, validateAddr
  <2> QED
    BY <2>3 DEF WebhookHandler
<1> QED
  BY <1>2, <1>3, <1>4

\* Statuses that may pass are retried.
LEMMA StatusesRetried ==
  ASSUME NEW status \in {0, 408, 429, 500} PROVE StatusVerdict(status) = "retry"
<1>1. status \in Nat /\ (status = 0 \/ status = 408 \/ status = 429 \/ status = 500)
  BY SMT
<1>2. status \notin 200..299
  BY <1>1, SMT
<1>3. status = 0 \/ WorthRetry(status)
  BY <1>1, SMT DEF WorthRetry
<1> QED
  BY <1>2, <1>3 DEF StatusVerdict

\* Neither the resolver nor the endpoint is to blame.
LEMMA PassingTrouble ==
  ASSUME NEW u, NEW lookup, NEW status,
         WebhookCause(u, lookup, status) \notin {"endpoint", "resolver"}
  PROVE  /\ ~(u.host = "name" /\ (lookup.failed \/ lookup.addrs = {}))
         /\ ~(u.host = "name" /\ "private" \in lookup.addrs /\ ~AllowPrivate)
         /\ StatusVerdict(status) = "retry"
<1>1. /\ ~(u.host = "name" /\ (lookup.failed \/ lookup.addrs = {}))
      /\ ~(u.host = "name" /\ "private" \in lookup.addrs /\ ~AllowPrivate)
      /\ status \in {0, 408, 429, 500}
  BY DEF WebhookCause
<1> QED
  BY <1>1, StatusesRetried, SMT

\* A sound one fails for good only by what the endpoint or the resolver says.
LEMMA WebhookSoundCause ==
  ASSUME NEW u \in URL, NEW lookup \in Lookups,
         NEW method \in {"", "POST", "PUT", "PATCH", "GET"}, NEW s,
         WebhookSound(u, method), WebhookHandler(u, lookup, method, s) = "permanent"
  PROVE  WebhookCause(u, lookup, s) \in {"endpoint", "resolver"}
<1> SUFFICES ASSUME WebhookCause(u, lookup, s) \notin {"endpoint", "resolver"} PROVE FALSE
  OBVIOUS
<1>1. /\ ~(u.host = "name" /\ (lookup.failed \/ lookup.addrs = {}))
      /\ ~(u.host = "name" /\ "private" \in lookup.addrs /\ ~AllowPrivate)
      /\ StatusVerdict(s) = "retry"
  BY PassingTrouble
<1>2. lookup.addrs \subseteq {"public", "private"}
  BY DEF Lookups
<1>3. /\ u.text = "parses" /\ ~u.userinfo /\ method \in {"", "POST", "PUT", "PATCH"}
      /\ u.scheme \in {"http", "https"} /\ u.host \in {"public", "name", "private"}
      /\ u.host = "private" => AllowPrivate
  BY DEF WebhookSound
<1>4. validateURL(u, lookup)
  <2>1. ASSUME u.host = "name", NEW a \in lookup.addrs PROVE validateAddr(a)
    <3>1. a = "public" \/ a = "private"
      BY <1>2, <2>1
    <3> QED
      BY <1>1, <2>1, <3>1 DEF validateAddr
  <2>2. u.host # "name" => validateAddr(u.host)
    BY <1>3 DEF validateAddr
  <2>3. u.host = "name" => ~lookup.failed /\ lookup.addrs # {}
    BY <1>1
  <2>4. u.host \notin {"", "localhost"}
    BY <1>3
  <2> QED
    BY <1>3, <2>1, <2>2, <2>3, <2>4 DEF validateURL
<1>5. WebhookHandler(u, lookup, method, s) = "retry"
  BY <1>1, <1>3, <1>4 DEF WebhookHandler
<1> QED
  BY <1>5

\* A pipeline fails for good exactly when its specification is not sound.
LEMMA EtlVerdict ==
  ASSUME NEW spec \in PipelineSpec, NEW runs
  PROVE  EtlHandler(spec, runs) = "permanent" <=> ~EtlSound(spec)
<1>1. /\ spec.payload \in {"none", "invalid", "spec"} /\ spec.extract \in {"", "select", "other"}
      /\ spec.table \in {"", "t", "1"} /\ spec.target \subseteq Columns
      /\ spec.mode \in {"", "append", "upsert", "other"} /\ spec.conflict \subseteq Columns
      /\ spec.update \in {{}, {"b"}, {"1"}}
  BY DEF PipelineSpec
<1>2. spec.update = {} \/ spec.update = {"b"} \/ spec.update = {"1"}
  BY <1>1
<1>3. WriteMode(spec) = "upsert" <=> spec.mode = "upsert"
  BY <1>1 DEF WriteMode
<1>4. WriteMode(spec) \in {"append", "upsert"} <=> spec.mode # "other"
  BY <1>1 DEF WriteMode
<1>5. ASSUME EtlSound(spec) PROVE ParseSpec(spec) /\ BuildInsertSQL(spec)
  <2>1. ParseSpec(spec)
    BY <1>1, <1>3, <1>4, <1>5 DEF EtlSound, ParseSpec
  <2>2. Unqualified(spec.target) /\ Unqualified(spec.conflict) /\ Unqualified(spec.update)
    BY <1>2, <1>5 DEF EtlSound, Unqualified
  <2>3. Unqualified(UpdateColumns(spec))
    BY <2>2 DEF UpdateColumns, nonConflictColumns, Unqualified
  <2>4. WriteMode(spec) = "upsert" => UpdateColumns(spec) # {}
    <3>1. ASSUME spec.mode = "upsert" PROVE spec.update # {} \/ spec.target \ spec.conflict # {}
      BY <1>5, <3>1 DEF EtlSound
    <3> QED
      BY <1>3, <3>1 DEF UpdateColumns, nonConflictColumns
  <2> QED
    BY <1>5, <2>1, <2>2, <2>3, <2>4 DEF EtlSound, BuildInsertSQL
<1>6. ASSUME ParseSpec(spec), BuildInsertSQL(spec) PROVE EtlSound(spec)
  <2>1. /\ spec.payload = "spec" /\ spec.extract = "select" /\ spec.table = "t"
        /\ spec.target # {} /\ spec.target \subseteq {"a", "b"}
        /\ spec.conflict \subseteq {"a", "b"} /\ UpdateColumns(spec) \subseteq {"a", "b"}
        /\ spec.mode = "upsert" => spec.conflict # {} /\ UpdateColumns(spec) # {}
        /\ spec.mode # "other"
    BY <1>1, <1>3, <1>4, <1>6 DEF ParseSpec, BuildInsertSQL, Unqualified
  <2>2. spec.update # {} => UpdateColumns(spec) = spec.update
    BY DEF UpdateColumns
  <2>3. spec.update \in {{}, {"b"}}
    BY <1>2, <2>1, <2>2
  <2>4. spec.mode = "upsert" /\ spec.update = {} => \E c \in spec.target : c \notin spec.conflict
    BY <1>3, <2>1 DEF UpdateColumns, nonConflictColumns
  <2> QED
    BY <1>1, <2>1, <2>3, <2>4 DEF EtlSound
<1>7. EtlHandler(spec, runs) = "permanent" <=> ~(ParseSpec(spec) /\ BuildInsertSQL(spec))
  BY DEF EtlHandler
<1> QED
  BY <1>5, <1>6, <1>7

-----------------------------------------------------------------------------
\* A pending job has attempts left, only a running one is held, the attempts are
\* accounted for, the last backoff is that of an attempt before the held one, and
\* a dead job deserved it.
JobOK(j) ==
  /\ j \in Job
  /\ j.state = "PENDING" => j.attempt < MaxRetries
  /\ j.held => j.state = "RUNNING"
  /\ j.attempt = j.execs + j.lost + IF j.held THEN 1 ELSE 0
  /\ j.delay = 0 \/ \E n \in 0..(j.execs + j.lost) : j.delay \in Delay(n)
  /\ j.sound /\ j.state = "DEAD" =>
       j.cause \in {"endpoint", "resolver"} \/ j.execs + j.lost = MaxRetries
  /\ ~j.sound /\ j.cause \notin {"none", "lost"} => j.state = "DEAD"

ExecInv ==
  /\ BreakerInv
  /\ task \in {"webhook", "sql.etl", "other"}
  /\ job \in [Callers -> Job]
  /\ \A c \in Callers : JobOK(job[c]) /\ (task = "other" => ~job[c].sound)

\* The verdict of an execution fits the job.
LEMMA Verdicts ==
  ASSUME ExecInv, NEW c \in Callers, NEW o \in Execute(job[c].sound)
  PROVE  /\ o[2] \in Causes \ {"none", "lost"}
         /\ job[c].sound /\ o[1] = "permanent" => o[2] \in {"endpoint", "resolver"}
         /\ ~job[c].sound => o[1] = "permanent"
<1> DEFINE sound == job[c].sound
<1>1. sound \in BOOLEAN /\ (task = "other" => ~sound)
  BY DEF ExecInv, Job
<1>2. CASE task = "webhook"
  <2> DEFINE
        Jobs == {y \in [u : URL, lookup : Lookups, method : {"", "POST", "PUT", "PATCH", "GET"}] :
                  WebhookSound(y.u, y.method) = sound}
        Answers == {Do(hops, refused, status) : hops \in 0..(MaxRedirects + 1),
                     refused \in 0..(MaxRedirects + 1), status \in Statuses}
        Outcome(x, s) == <<WebhookHandler(x.u, x.lookup, x.method, s),
                           IF sound THEN WebhookCause(x.u, x.lookup, s) ELSE "job">>
        All == {Outcome(x, s) : x \in Jobs, s \in Answers}
  <2>1. o \in All
    <3>1. o \in WebhookOutcomes[sound]
      BY <1>2 DEF Execute
    <3>2. WebhookOutcomes[sound] = All
      BY <1>1, SMT DEF WebhookOutcomes
    <3> HIDE DEF All
    <3> QED
      BY <3>1, <3>2
  <2> HIDE DEF Jobs, Answers, Outcome
  <2>2. PICK x \in Jobs, s \in Answers : o = Outcome(x, s)
    BY <2>1, SMT
  <2>3. /\ x.u \in URL /\ x.lookup \in Lookups
        /\ x.method \in {"", "POST", "PUT", "PATCH", "GET"}
        /\ WebhookSound(x.u, x.method) = sound
    BY <2>2 DEF Jobs
  <2>4. /\ o[1] = WebhookHandler(x.u, x.lookup, x.method, s)
        /\ o[2] = IF sound THEN WebhookCause(x.u, x.lookup, s) ELSE "job"
    BY <2>2 DEF Outcome
  <2>5. CASE sound
    <3>1. o[1] = "permanent" => o[2] \in {"endpoint", "resolver"}
      BY <2>3, <2>4, <2>5, WebhookSoundCause
    <3>2. o[2] \in {"endpoint", "resolver", "trouble"}
      BY <2>4, <2>5 DEF WebhookCause
    <3> QED
      BY <2>5, <3>1, <3>2 DEF Causes
  <2>6. CASE ~sound
    BY <2>3, <2>4, <2>6, WebhookUnsound DEF Causes
  <2> QED
    BY <2>5, <2>6
<1>3. CASE task = "sql.etl"
  <2>1. o \in EtlOutcomes[sound]
    BY <1>3 DEF Execute
  <2>2. PICK spec \in {p \in PipelineSpec : EtlSound(p) = sound}, runs \in BOOLEAN :
          o = <<EtlHandler(spec, runs), IF sound THEN "trouble" ELSE "job">>
    BY <1>1, <2>1, SMT DEF EtlOutcomes
  <2>3. spec \in PipelineSpec /\ EtlSound(spec) = sound
    BY <2>2
  <2>4. o[1] = EtlHandler(spec, runs) /\ o[2] = IF sound THEN "trouble" ELSE "job"
    BY <2>2
  <2>5. o[1] = "permanent" <=> ~sound
    BY <2>3, <2>4, EtlVerdict
  <2> QED
    BY <1>1, <2>4, <2>5 DEF Causes
<1>4. CASE task = "other"
  <2>1. o = <<"permanent", "job">>
    BY <1>4 DEF Execute
  <2> QED
    BY <1>1, <1>4, <2>1 DEF Causes
<1> QED
  BY <1>2, <1>3, <1>4 DEF ExecInv

\* A claim.
LEMMA ClaimKeeps ==
  ASSUME NEW j, JobOK(j), j.state = "PENDING", NEW k,
         k = [j EXCEPT !.state = "RUNNING", !.held = TRUE, !.attempt = @ + 1]
  PROVE  JobOK(k) /\ k.sound = j.sound /\ k.state = "RUNNING"
<1>1. /\ j \in Job /\ MaxRetries \in Nat \ {0} /\ j.attempt < MaxRetries /\ ~j.held
      /\ j.attempt = j.execs + j.lost + 0
  BY ExecutionAssumption DEF JobOK, Job
<1>2. j.attempt + 1 \in 0..MaxRetries
  BY <1>1, SMT DEF Job
<1>3. /\ k \in Job /\ k.state = "RUNNING" /\ k.attempt = j.attempt + 1 /\ k.delay = j.delay
      /\ k.execs = j.execs /\ k.sound = j.sound /\ k.cause = j.cause
      /\ k.held /\ k.lost = j.lost
  BY <1>1, <1>2 DEF Job
<1>4. k.attempt = k.execs + k.lost + 1
  BY <1>1, <1>3, SMT DEF Job
<1>5. JobOK(k)
  BY <1>3, <1>4 DEF JobOK
<1> QED
  BY <1>3, <1>5

\* ReleaseClaim gives the attempt back.
LEMMA ReleaseKeeps ==
  ASSUME NEW j, JobOK(j), j.held, NEW k, k = ReleaseClaim(j)
  PROVE  JobOK(k) /\ k.sound = j.sound /\ k.execs = j.execs
<1>1. /\ j \in Job /\ MaxRetries \in Nat \ {0} /\ j.attempt = j.execs + j.lost + 1
      /\ j.execs \in 0..MaxRetries /\ j.lost \in 0..MaxRetries /\ j.attempt \in 0..MaxRetries
      /\ j.state = "RUNNING"
  BY ExecutionAssumption DEF JobOK, Job
<1>2. Max({j.attempt - 1, 0}) = j.execs + j.lost /\ j.execs + j.lost \in 0..MaxRetries
  <2>1. j.attempt - 1 \in Int /\ 0 \in Int /\ j.attempt - 1 >= 0
    BY <1>1, SMT
  <2>2. Max({j.attempt - 1, 0}) = IF j.attempt - 1 >= 0 THEN j.attempt - 1 ELSE 0
    BY <2>1, MinMaxOfTwo
  <2>3. j.attempt - 1 = j.execs + j.lost /\ j.execs + j.lost \in 0..MaxRetries
    BY <1>1, SMT
  <2> QED
    BY <2>1, <2>2, <2>3
<1>3. /\ k \in Job /\ k.state = "PENDING" /\ k.attempt = j.execs + j.lost /\ k.delay = j.delay
      /\ k.execs = j.execs /\ k.sound = j.sound /\ k.cause = j.cause
      /\ ~k.held /\ k.lost = j.lost
  BY <1>1, <1>2 DEF Job, ReleaseClaim
<1>4. k.attempt = k.execs + k.lost + 0 /\ k.attempt < MaxRetries
  BY <1>1, <1>3, SMT
<1>5. ~k.sound => k.cause \in {"none", "lost"}
  BY <1>1, <1>3 DEF JobOK
<1>6. JobOK(k)
  BY <1>3, <1>4, <1>5 DEF JobOK
<1> QED
  BY <1>3, <1>6

\* A claim that ran, or was lost: its attempt is booked, and the row is RUNNING
\* until the outcome is written or the reaper comes.
LEMMA BookedKeeps ==
  ASSUME NEW j, JobOK(j), j.held, NEW k, k = Executed(j) \/ k = Unexecuted(j)
  PROVE  /\ JobOK(k) /\ ~k.held /\ k.state = "RUNNING" /\ k.sound = j.sound
         /\ k.attempt = j.attempt /\ k.delay = j.delay /\ k.cause = j.cause
         /\ k = Executed(j) => k.execs # j.execs
<1>1. /\ j \in Job /\ MaxRetries \in Nat \ {0} /\ j.attempt = j.execs + j.lost + 1
      /\ j.execs \in 0..MaxRetries /\ j.lost \in 0..MaxRetries /\ j.attempt \in 0..MaxRetries
      /\ j.state = "RUNNING"
  BY ExecutionAssumption DEF JobOK, Job
<1>2. j.execs + 1 \in 0..MaxRetries /\ j.lost + 1 \in 0..MaxRetries
  BY <1>1, SMT
<1>3. /\ k \in Job /\ k.state = "RUNNING" /\ ~k.held /\ k.sound = j.sound
      /\ k.attempt = j.attempt /\ k.delay = j.delay /\ k.cause = j.cause
      /\ \/ k.execs = j.execs + 1 /\ k.lost = j.lost
         \/ k.execs = j.execs /\ k.lost = j.lost + 1
  <2>1. CASE k = Executed(j)
    BY <1>1, <1>2, <2>1 DEF Job, Executed
  <2>2. CASE k = Unexecuted(j)
    BY <1>1, <1>2, <2>2 DEF Job, Unexecuted
  <2> QED
    BY <2>1, <2>2
<1>4. k.execs + k.lost = j.execs + j.lost + 1
  BY <1>1, <1>3, SMT
<1>5. k.attempt = k.execs + k.lost + 0
  BY <1>1, <1>3, <1>4, SMT
<1>6. k.delay = 0 \/ \E n \in 0..(k.execs + k.lost) : k.delay \in Delay(n)
  <2>1. CASE j.delay = 0
    BY <1>3, <2>1
  <2>2. CASE j.delay # 0
    <3>1. PICK n \in 0..(j.execs + j.lost) : j.delay \in Delay(n)
      BY <2>2 DEF JobOK
    <3>2. n \in 0..(k.execs + k.lost)
      BY <1>1, <1>4, <3>1, SMT
    <3> QED
      BY <1>3, <3>1, <3>2
  <2> QED
    BY <2>1, <2>2
<1>7. ~k.sound => k.cause \in {"none", "lost"}
  BY <1>1, <1>3 DEF JobOK
<1>8. JobOK(k)
  BY <1>3, <1>5, <1>6, <1>7 DEF JobOK
<1>9. k = Executed(j) => k.execs # j.execs
  <2>1. k = Executed(j) => k.execs = j.execs + 1
    BY <1>1 DEF Executed, Job
  <2>2. j.execs + 1 # j.execs
    BY <1>1, SMT
  <2> QED
    BY <2>1, <2>2
<1> QED
  BY <1>3, <1>8, <1>9

\* The row of a booked claim moves on: done, a retry while attempts are left, or
\* the end.
LEMMA EndKeeps ==
  ASSUME NEW j, JobOK(j), j.state = "RUNNING", ~j.held, NEW k \in Job, k.sound = j.sound,
         k.attempt = j.attempt, k.execs = j.execs, k.lost = j.lost, ~k.held,
         \/ k.state = "COMPLETED" /\ k.delay = j.delay /\ k.cause = j.cause
         \/ k.state = "PENDING" /\ ShouldRetry(j) /\ k.delay \in Delay(j.attempt) /\ k.sound
         \/ k.state = "PENDING" /\ ShouldRetry(j) /\ k.delay = j.delay /\ k.cause = "lost"
         \/ /\ k.state = "DEAD" /\ k.delay = j.delay
            /\ k.sound /\ ShouldRetry(j) => k.cause \in {"endpoint", "resolver"}
  PROVE  JobOK(k)
<1>1. /\ MaxRetries \in Nat \ {0} /\ j.attempt \in 0..MaxRetries /\ j.execs \in 0..MaxRetries
      /\ j.lost \in 0..MaxRetries /\ j.attempt = j.execs + j.lost + 0
  BY ExecutionAssumption DEF JobOK, Job
<1>2. k.attempt = k.execs + k.lost + 0 /\ j.attempt = j.execs + j.lost
  BY <1>1, SMT
<1>3. k.state = "PENDING" => k.attempt < MaxRetries
  BY DEF ShouldRetry
<1>4. k.delay = 0 \/ \E n \in 0..(k.execs + k.lost) : k.delay \in Delay(n)
  <2>1. CASE k.delay = j.delay
    BY <2>1 DEF JobOK
  <2>2. CASE k.delay \in Delay(j.attempt)
    <3>1. j.attempt \in 0..(k.execs + k.lost)
      BY <1>1, SMT
    <3> QED
      BY <2>2, <3>1
  <2> QED
    BY <2>1, <2>2
<1>5. k.sound /\ k.state = "DEAD" =>
        k.cause \in {"endpoint", "resolver"} \/ k.execs + k.lost = MaxRetries
  BY <1>1, SMT DEF ShouldRetry
<1>6. ~k.sound /\ k.cause \notin {"none", "lost"} => k.state = "DEAD"
  BY DEF JobOK
<1> QED
  BY <1>2, <1>3, <1>4, <1>5, <1>6 DEF JobOK

\* The step of BackoffGrows, for one caller.
BacksOff(c) ==
  job[c].state = "RUNNING" /\ job'[c].state = "PENDING" /\ job'[c].cause = "trouble"
    /\ job'[c].execs # job[c].execs =>
    /\ job'[c].delay \in BaseDelay..MaxDelay
    /\ job'[c].delay > job[c].delay \/ job'[c].delay = MaxDelay

\* One caller's job changes.
LEMMA UpdateKeeps ==
  ASSUME ExecInv, BreakerInv', NEW c \in Callers, NEW k, JobOK(k), Update(c, k),
         task = "other" => ~k.sound
  PROVE  /\ ExecInv' /\ job'[c] = k
         /\ \A d \in Callers : d # c => BacksOff(d)
<1>1. k \in Job /\ job' = [job EXCEPT ![c] = k] /\ task' = task /\ job \in [Callers -> Job]
  BY DEF JobOK, Update, ExecInv
<1>2. job' \in [Callers -> Job] /\ job'[c] = k /\ \A d \in Callers : d # c => job'[d] = job[d]
  BY <1>1
<1>3. ASSUME NEW d \in Callers PROVE JobOK(job'[d]) /\ (task' = "other" => ~job'[d].sound)
  <2>1. CASE d = c
    BY <1>1, <1>2, <2>1
  <2>2. CASE d # c
    BY <1>1, <1>2, <2>2 DEF ExecInv
  <2> QED
    BY <2>1, <2>2
<1>4. ExecInv'
  <2>1. \A d \in Callers : JobOK(job[d])'
    BY <1>3 DEF JobOK
  <2> QED
    BY <1>1, <1>2, <1>3, <2>1 DEF ExecInv
<1>5. ASSUME NEW d \in Callers, d # c PROVE BacksOff(d)
  BY <1>2, <1>5 DEF BacksOff
<1> QED
  BY <1>2, <1>4, <1>5

\* A new job has had nothing.
LEMMA NewJobOK ==
  ASSUME NEW sound \in BOOLEAN
  PROVE  JobOK(NewJob(sound)) /\ NewJob(sound).sound = sound
<1> DEFINE k == NewJob(sound)
<1>1. 0 \in 0..MaxRetries /\ 0 < MaxRetries
  BY ExecutionAssumption, SMT
<1>2. /\ k.state = "PENDING" /\ k.attempt = 0 /\ k.delay = 0 /\ k.execs = 0 /\ k.cause = "none"
      /\ k.sound = sound /\ k.held = FALSE /\ k.lost = 0
  BY DEF NewJob
<1>3. k \in Job
  BY <1>1 DEF NewJob, Job, Causes
<1> HIDE DEF k
<1>4. JobOK(k)
  BY <1>1, <1>2, <1>3, SMT DEF JobOK
<1> QED
  BY <1>2, <1>4 DEF k

\* The first jobs satisfy the invariant.
LEMMA ExecInitial == ExecInit => ExecInv
<1> SUFFICES ASSUME ExecInit PROVE ExecInv
  OBVIOUS
<1>1. BreakerInv /\ task \in {"webhook", "sql.etl", "other"}
  BY BreakerInit DEF ExecInit
<1>2. ASSUME NEW c \in Callers PROVE JobOK(job[c]) /\ (task = "other" => ~job[c].sound)
  <2>1. PICK s \in BOOLEAN : MayEnqueue(s) /\ job[c] = NewJob(s)
    BY DEF ExecInit
  <2>2. JobOK(job[c]) /\ job[c].sound = s
    BY <2>1, NewJobOK
  <2>3. task = "other" => ~s
    BY <2>1 DEF MayEnqueue, Sound
  <2> QED
    BY <2>2, <2>3
<1>3. job \in [Callers -> Job]
  <2>1. job = [c \in Callers |-> job[c]]
    BY DEF ExecInit
  <2> QED
    BY <1>2, <2>1 DEF JobOK
<1> QED
  BY <1>1, <1>2, <1>3 DEF ExecInv

\* The executions of one caller, one step.
LEMMA CallerStep ==
  ASSUME ExecInv, BreakerInv', NEW c \in Callers,
         \/ Claim(c) \/ RunRefused(c) \/ LockRefused(c)
         \/ Succeeds(c) \/ Fails(c) \/ Abandoned(c) \/ Reaped(c) \/ Enqueue(c)
  PROVE  ExecInv' /\ \A d \in Callers : BacksOff(d)
<1> DEFINE j == job[c]
<1>1. /\ JobOK(j) /\ j \in Job /\ (task = "other" => ~j.sound)
      /\ MaxRetries \in Nat \ {0} /\ j.attempt \in 0..MaxRetries /\ j.execs \in 0..MaxRetries
  BY ExecutionAssumption DEF ExecInv, JobOK, Job
<1>2. ASSUME NEW k, Update(c, k), JobOK(k), task = "other" => ~k.sound,
             j.state = "RUNNING" /\ k.state = "PENDING" /\ k.cause = "trouble"
               /\ k.execs # j.execs =>
               /\ k.delay \in BaseDelay..MaxDelay
               /\ k.delay > j.delay \/ k.delay = MaxDelay
      PROVE  ExecInv' /\ \A d \in Callers : BacksOff(d)
  <2>1. ExecInv' /\ job'[c] = k /\ \A d \in Callers : d # c => BacksOff(d)
    BY <1>2, UpdateKeeps
  <2>2. BacksOff(c)
    BY <1>2, <2>1 DEF BacksOff
  <2> QED
    BY <2>1, <2>2
<1> HIDE DEF j
<1>3. CASE Claim(c)
  <2> DEFINE k == [j EXCEPT !.state = "RUNNING", !.held = TRUE, !.attempt = @ + 1]
  <2>1. j.state = "PENDING" /\ Update(c, k)
    BY <1>3 DEF Claim, j
  <2>2. JobOK(k) /\ k.sound = j.sound /\ k.state = "RUNNING"
    BY <1>1, <2>1, ClaimKeeps
  <2> HIDE DEF k
  <2> QED
    BY <1>1, <1>2, <2>1, <2>2
<1>4. ASSUME j.held, NEW k, Update(c, k), k = Executed(j) \/ k = Unexecuted(j)
      PROVE  ExecInv' /\ \A d \in Callers : BacksOff(d)
  <2>1. JobOK(k) /\ k.state = "RUNNING" /\ k.sound = j.sound
    BY <1>1, <1>4, BookedKeeps
  <2> QED
    BY <1>1, <1>2, <1>4, <2>1
<1>5. ASSUME j.held, Release(c) PROVE ExecInv' /\ \A d \in Callers : BacksOff(d)
  <2>1. CASE Update(c, ReleaseClaim(j))
    <3>1. PICK k : k = ReleaseClaim(j)
      OBVIOUS
    <3>2. JobOK(k) /\ k.sound = j.sound /\ k.execs = j.execs
      BY <1>1, <1>5, <3>1, ReleaseKeeps
    <3> QED
      BY <1>1, <1>2, <2>1, <3>1, <3>2
  <2>2. CASE Update(c, Unexecuted(j))
    BY <1>4, <1>5, <2>2
  <2> QED
    BY <1>5, <2>1, <2>2 DEF Release, j
<1>6. ASSUME j.held PROVE j.state = "RUNNING"
  BY <1>1, <1>6 DEF JobOK
<1>7. CASE Succeeds(c)
  <2>1. j.held
    BY <1>7 DEF Succeeds, j
  <2>2. CASE Update(c, Executed(j))
    BY <1>4, <2>1, <2>2
  <2>3. CASE Update(c, [Executed(j) EXCEPT !.state = "COMPLETED"])
    <3>1. PICK e : e = Executed(j)
      OBVIOUS
    <3>2. JobOK(e) /\ ~e.held /\ e.state = "RUNNING" /\ e.sound = j.sound
      BY <1>1, <2>1, <3>1, BookedKeeps
    <3>3. PICK k : k = [e EXCEPT !.state = "COMPLETED"]
      OBVIOUS
    <3>4. /\ k \in Job /\ k.state = "COMPLETED" /\ k.execs = e.execs /\ k.attempt = e.attempt
          /\ k.delay = e.delay /\ k.sound = e.sound /\ k.cause = e.cause
          /\ k.lost = e.lost /\ ~k.held
      BY <3>2, <3>3 DEF Job, JobOK
    <3>5. JobOK(k)
      BY <3>2, <3>4, EndKeeps
    <3> QED
      BY <1>1, <1>2, <2>3, <3>1, <3>2, <3>3, <3>4, <3>5
  <2> QED
    BY <1>7, <2>2, <2>3 DEF Succeeds, j
<1>8. CASE Fails(c)
  <2>1. PICK o \in Execute(j.sound) :
          /\ j.held /\ o[1] # "ok"
          /\ \/ \E k \in Fail([Executed(j) EXCEPT !.cause = o[2]], o[1] = "permanent") :
                  Update(c, k)
             \/ Update(c, Executed(j))
    BY <1>8 DEF Fails, j
  <2>2. /\ o[2] \in Causes \ {"none", "lost"}
        /\ j.sound /\ o[1] = "permanent" => o[2] \in {"endpoint", "resolver"}
        /\ ~j.sound => o[1] = "permanent"
    BY Verdicts DEF j
  <2>3. PICK e : e = Executed(j)
    OBVIOUS
  <2>4. /\ JobOK(e) /\ ~e.held /\ e.state = "RUNNING" /\ e.sound = j.sound
        /\ e.attempt = j.attempt /\ e.delay = j.delay /\ e.execs # j.execs
    BY <1>1, <2>1, <2>3, BookedKeeps
  <2>5. PICK f : f = [e EXCEPT !.cause = o[2]]
    OBVIOUS
  <2>6. /\ f \in Job /\ f.state = "RUNNING" /\ f.execs = e.execs /\ f.attempt = e.attempt
        /\ f.delay = e.delay /\ f.sound = e.sound /\ f.cause = o[2]
        /\ f.lost = e.lost /\ ~f.held
    BY <2>2, <2>4, <2>5 DEF Job, JobOK
  <2>7. ShouldRetry(f) <=> ShouldRetry(e)
    BY <2>6 DEF ShouldRetry
  <2>8. CASE Update(c, Executed(j))
    BY <1>4, <2>1, <2>8
  <2>9. ASSUME NEW k \in Fail(f, o[1] = "permanent"), Update(c, k),
               o[1] # "permanent" /\ ShouldRetry(f)
        PROVE  ExecInv' /\ \A d \in Callers : BacksOff(d)
    <3>1. PICK w \in Delay(f.attempt) : k = [f EXCEPT !.state = "PENDING", !.delay = w]
      BY <2>9 DEF Fail
    <3>2. w \in BaseDelay..MaxDelay /\ w \in Nat
      BY <1>1, <2>4, <2>6, <3>1, DelayBounds, RetrySettings, SMT
    <3>3. /\ k \in Job /\ k.state = "PENDING" /\ k.execs = e.execs /\ k.attempt = e.attempt
          /\ k.delay = w /\ k.sound = e.sound /\ k.cause = o[2]
          /\ k.lost = e.lost /\ ~k.held
      BY <2>6, <3>1, <3>2 DEF Job
    <3>4. k.sound
      BY <2>2, <2>4, <2>9, <3>3
    <3>5. JobOK(k)
      <4>1. k.delay \in Delay(e.attempt) /\ ShouldRetry(e)
        BY <2>6, <2>7, <2>9, <3>1, <3>3
      <4> QED
        BY <2>4, <3>3, <3>4, <4>1, EndKeeps, ZenonT(40)
    <3>6. w > j.delay \/ w = MaxDelay
      <4>1. CASE j.delay = 0
        BY <3>2, <4>1, RetrySettings, SMT
      <4>2. CASE j.delay # 0
        <5>1. PICK n \in 0..(j.execs + j.lost) : j.delay \in Delay(n)
          BY <1>1, <4>2 DEF JobOK
        <5>2. j.attempt = j.execs + j.lost + 1 /\ j.lost \in 0..MaxRetries
          BY <1>1, <2>1 DEF JobOK, Job
        <5>3. n \in Nat /\ j.attempt \in Nat /\ n < j.attempt
          BY <1>1, <5>1, <5>2, SMT
        <5> QED
          BY <2>4, <2>6, <3>1, <5>1, <5>3, DelaysGrow
      <4> QED
        BY <4>1, <4>2
    <3> QED
      BY <1>1, <1>2, <2>4, <2>9, <3>2, <3>3, <3>5, <3>6
  <2>10. ASSUME NEW k \in Fail(f, o[1] = "permanent"), Update(c, k),
                ~(o[1] # "permanent" /\ ShouldRetry(f))
         PROVE  ExecInv' /\ \A d \in Callers : BacksOff(d)
    <3>1. k = [f EXCEPT !.state = "DEAD"]
      BY <2>10 DEF Fail
    <3>2. /\ k \in Job /\ k.state = "DEAD" /\ k.execs = e.execs /\ k.attempt = e.attempt
          /\ k.delay = e.delay /\ k.sound = e.sound /\ k.cause = o[2]
          /\ k.lost = e.lost /\ ~k.held
      BY <2>6, <3>1 DEF Job
    <3>3. k.sound /\ ShouldRetry(e) => k.cause \in {"endpoint", "resolver"}
      BY <2>2, <2>4, <2>7, <2>10, <3>2
    <3>4. JobOK(k)
      BY <2>4, <3>2, <3>3, EndKeeps, ZenonT(40)
    <3> QED
      BY <1>1, <1>2, <2>4, <2>10, <3>2, <3>4
  <2> QED
    BY <2>1, <2>3, <2>5, <2>8, <2>9, <2>10
<1>9. CASE Reaped(c)
  <2>1. PICK k : k = [j EXCEPT !.state = IF ShouldRetry(j) THEN "PENDING" ELSE "DEAD",
                                !.cause = "lost"]
    OBVIOUS
  <2>2. j.state = "RUNNING" /\ ~j.held /\ Update(c, k)
    BY <1>9, <2>1 DEF Reaped, j
  <2>3. /\ k \in Job /\ k.state = IF ShouldRetry(j) THEN "PENDING" ELSE "DEAD"
        /\ k.execs = j.execs /\ k.attempt = j.attempt /\ k.lost = j.lost /\ ~k.held
        /\ k.delay = j.delay /\ k.sound = j.sound /\ k.cause = "lost"
    BY <1>1, <2>1, <2>2 DEF Job, Causes
  <2>4. JobOK(k)
    <3>1. CASE ShouldRetry(j)
      BY <1>1, <2>2, <2>3, <3>1, EndKeeps
    <3>2. CASE ~ShouldRetry(j)
      BY <1>1, <2>2, <2>3, <3>2, EndKeeps
    <3> QED
      BY <3>1, <3>2
  <2> QED
    BY <1>1, <1>2, <2>2, <2>3, <2>4
<1>10. CASE Enqueue(c)
  <2>1. PICK s \in BOOLEAN : MayEnqueue(s) /\ Update(c, NewJob(s))
    BY <1>10, SMT DEF Enqueue
  <2>2. JobOK(NewJob(s)) /\ NewJob(s).sound = s
    BY NewJobOK, SMT
  <2>3. task = "other" => ~s
    BY <2>1, SMT DEF MayEnqueue, Sound
  <2>4. j.state # "RUNNING"
    BY <1>10, SMT DEF Enqueue, Finished, j
  <2> QED
    BY <1>2, <2>1, <2>2, <2>3, <2>4, SMT
<1>11. CASE RunRefused(c) \/ LockRefused(c)
  BY <1>5, <1>11 DEF RunRefused, LockRefused, j
<1>12. CASE Abandoned(c)
  BY <1>4, <1>12 DEF Abandoned, j
<1> QED
  BY <1>3, <1>7, <1>8, <1>9, <1>10, <1>11, <1>12

\* A step of the executions is a step of the breaker they share, or none.
LEMMA BreakerShared == [ExecNext]_execVars => [Next]_vars
<1> SUFFICES ASSUME [ExecNext]_execVars PROVE [Next]_vars
  BY SMT
<1>1. ASSUME NEW c \in Callers,
             \/ Claim(c) \/ RunAllowed(c) \/ RunRefused(c) \/ LockRefused(c)
             \/ Succeeds(c) \/ Fails(c) \/ Abandoned(c) \/ Reaped(c) \/ Enqueue(c)
      PROVE  [Next]_vars
  BY <1>1 DEF Claim, RunAllowed, RunRefused, LockRefused, Succeeds, Fails, Abandoned, Reaped,
              Enqueue, Next
<1>2. CASE CoolDown \/ AllWell
  BY <1>2 DEF CoolDown, AllWell, Next
<1>3. CASE UNCHANGED execVars
  BY <1>3, SMT DEF execVars
<1> QED
  BY <1>1, <1>2, <1>3 DEF ExecNext

\* Every step keeps the invariant and backs off.
LEMMA ExecStep ==
  ASSUME ExecInv, [ExecNext]_execVars
  PROVE  ExecInv' /\ (UNCHANGED execVars \/ \A c \in Callers : BacksOff(c))
<1>1. BreakerInv'
  BY BreakerShared, BreakerStep, SMT DEF ExecInv
<1>2. ASSUME UNCHANGED <<task, job>> PROVE ExecInv' /\ \A c \in Callers : BacksOff(c)
  <2>1. ExecInv'
    BY <1>1, <1>2, SMT DEF ExecInv, JobOK
  <2>2. \A c \in Callers : BacksOff(c)
    BY <1>2, SMT DEF BacksOff
  <2> QED
    BY <2>1, <2>2, SMT
<1>3. CASE CoolDown \/ AllWell
  BY <1>2, <1>3, SMT DEF CoolDown, AllWell
<1>4. CASE UNCHANGED execVars
  BY <1>2, <1>4, SMT DEF execVars
<1>5. CASE \E c \in Callers : RunAllowed(c)
  BY <1>2, <1>5 DEF RunAllowed
<1> QED
  BY <1>1, <1>3, <1>4, <1>5, CallerStep, SMT DEF ExecNext

\* The invariant holds for every configuration and any number of callers.
THEOREM ExecInvariance == ExecSpec => []ExecInv
<1>1. ExecInv /\ [ExecNext]_execVars => ExecInv'
  BY ExecStep, SMT
<1> QED
  BY ExecInitial, <1>1, PTL DEF ExecSpec

\* Whatever the breaker and the lock turned away, and whichever claims, releases
\* and outcomes were lost: a job's attempts are its executions and lost claims.
THEOREM AttemptsAccountedFor == ExecSpec => []RefusalsAreFree
<1>1. ExecInv => RefusalsAreFree
  BY DEF ExecInv, JobOK, RefusalsAreFree
<1> QED
  BY <1>1, ExecInvariance, PTL

\* Jobs are given up when they should be, and not before.
THEOREM DeathIsDeserved == ExecSpec => []DeadDeserved
<1>1. ExecInv => DeadDeserved
  BY DEF ExecInv, JobOK, DeadDeserved
<1> QED
  BY <1>1, ExecInvariance, PTL

\* The breaker's transitions are earned by the executions that share it.
THEOREM TransitionsStayEarned == ExecSpec => TransitionsEarned
<1>1. ExecSpec => Spec
  <2>1. ExecInit => Init
    BY SMT DEF ExecInit
  <2> QED
    BY <2>1, BreakerShared, PTL DEF ExecSpec, Spec
<1> QED
  BY <1>1, TransitionsEarnedHolds, PTL

\* Retries back off, within the bounds NewEngine settled on and whatever the
\* jitter.
THEOREM RetriesBackOff == ExecSpec => BackoffGrows
<1>1. ExecInv /\ [ExecNext]_execVars =>
        [\A c \in Callers :
           job[c].state = "RUNNING" /\ job'[c].state = "PENDING" /\ job'[c].cause = "trouble"
             /\ job'[c].execs # job[c].execs =>
             /\ job'[c].delay \in BaseDelay..MaxDelay
             /\ job'[c].delay > job[c].delay \/ job'[c].delay = MaxDelay]_execVars
  BY ExecStep, SMT DEF BacksOff
<1> QED
  BY ExecInvariance, <1>1, PTL DEF ExecSpec, BackoffGrows
=============================================================================
