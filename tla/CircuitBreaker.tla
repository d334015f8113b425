--------------------------- MODULE CircuitBreaker ---------------------------
(***************************************************************************)
(* One task's circuit breaker (internal/circuitbreaker) and the executions *)
(* of jobWorker.Run that share it.  The mutex makes Allow, RecordSuccess   *)
(* and RecordFailure atomic, but an execution calls Allow at one moment    *)
(* and reports at a much later one, and some never report: the lock may be *)
(* refused, the claim lost, or the handler may panic.                      *)
(***************************************************************************)
EXTENDS Integers

CONSTANTS
  Callers,       \* executions of the task this process can run at once
  CfgFailures,   \* Config.FailureThreshold
  CfgSuccesses,  \* Config.SuccessThreshold
  CfgHalfOpen    \* Config.HalfOpenRequests

\* New replaces a threshold that is not positive by its default.
Default(n, d) == IF n <= 0 THEN d ELSE n

FailureThreshold == Default(CfgFailures, 5)

SuccessThreshold == Default(CfgSuccesses, 2)

HalfOpenRequests == Default(CfgHalfOpen, 1)

ASSUME BreakerAssumption ==
  CfgFailures \in Int /\ CfgSuccesses \in Int /\ CfgHalfOpen \in Int

VARIABLES
  state,      \* Breaker.state
  failures,   \* Breaker.failures
  successes,  \* Breaker.successes
  cooled,     \* OpenTimeout has elapsed since openedAt
  admitted,   \* for each caller, "no" or the state it was admitted in
  healthy,    \* the downstream works, and handlers succeed
  bad,        \* history: failures recorded since the last success, saturating
  good        \* history: successes recorded since the last failure, saturating

vars == <<state, failures, successes, cooled, admitted, healthy, bad, good>>

TypeOK ==
  /\ state \in {"closed", "open", "half-open"}
  /\ failures \in 0..FailureThreshold
  /\ successes \in 0..SuccessThreshold
  /\ cooled \in BOOLEAN
  /\ admitted \in [Callers -> {"no", "closed", "half-open"}]
  /\ healthy \in BOOLEAN
  /\ bad \in 0..FailureThreshold
  /\ good \in 0..SuccessThreshold

Init ==
  /\ state = "closed" /\ failures = 0 /\ successes = 0 /\ cooled = FALSE
  /\ admitted = [c \in Callers |-> "no"]
  /\ healthy \in BOOLEAN
  /\ bad = 0 /\ good = 0

-----------------------------------------------------------------------------
Upto(max, n) == IF n < max THEN n ELSE max

Outcomes == <<bad, good>>

\* Mutant: Allow does not look at the clock.
AllowedUncooled ==
  state # "half-open" \/ successes < HalfOpenRequests

\* Mutant: an open breaker admits nobody, however long ago it opened.
AllowedNeverProbes ==
  \/ state = "closed"
  \/ state = "half-open" /\ successes < HalfOpenRequests

\* What Allow answers.
Allowed ==
  \/ state = "closed"
  \/ state = "open" /\ cooled
  \/ state = "half-open" /\ successes < HalfOpenRequests

Allow(c) ==
  /\ admitted[c] = "no"
  /\ Allowed
  /\ IF state = "open"
     THEN state' = "half-open" /\ failures' = 0 /\ successes' = 0
     ELSE UNCHANGED <<state, failures, successes>>
  /\ admitted' = [admitted EXCEPT ![c] = state']
  /\ UNCHANGED <<cooled, healthy, Outcomes>>

\* Allow answers false: Run releases the claim and the breaker is untouched.
Refuse(c) ==
  /\ admitted[c] = "no"
  /\ ~Allowed
  /\ UNCHANGED vars

Reported(c) ==
  /\ admitted[c] # "no"
  /\ admitted' = [admitted EXCEPT ![c] = "no"]

\* RecordSuccess.
RecordSuccess(c) ==
  /\ Reported(c)
  /\ \/ /\ state = "half-open" /\ successes + 1 < SuccessThreshold
        /\ successes' = successes + 1
        /\ UNCHANGED <<state, failures>>
     \/ /\ state = "half-open" /\ successes + 1 >= SuccessThreshold
        /\ state' = "closed" /\ failures' = 0 /\ successes' = 0
     \/ /\ state = "closed"
        /\ failures' = 0
        /\ UNCHANGED <<state, successes>>
     \/ /\ state = "open"
        /\ UNCHANGED <<state, failures, successes>>
  /\ bad' = 0 /\ good' = Upto(SuccessThreshold, good + 1)
  /\ UNCHANGED <<cooled, healthy>>

\* RecordFailure.
RecordFailure(c) ==
  /\ Reported(c)
  /\ ~healthy
  /\ \/ /\ state = "closed" /\ failures + 1 < FailureThreshold
        /\ failures' = failures + 1
        /\ UNCHANGED <<state, successes, cooled>>
     \/ /\ state = "closed" /\ failures + 1 >= FailureThreshold
        /\ failures' = failures + 1
        /\ state' = "open" /\ cooled' = FALSE
        /\ UNCHANGED successes
     \/ /\ state = "half-open"
        /\ state' = "open" /\ cooled' = FALSE /\ failures' = 0 /\ successes' = 0
     \/ /\ state = "open"
        /\ UNCHANGED <<state, failures, successes, cooled>>
  /\ bad' = Upto(FailureThreshold, bad + 1) /\ good' = 0
  /\ UNCHANGED healthy

\* Run returns between Allow and the report: the lock was refused, the claim
\* could not be written, or the handler panicked.
ReturnUnreported(c) ==
  /\ Reported(c)
  /\ UNCHANGED <<state, failures, successes, cooled, healthy, Outcomes>>

\* OpenTimeout elapses.
Cool ==
  /\ state = "open" /\ ~cooled
  /\ cooled' = TRUE
  /\ UNCHANGED <<state, failures, successes, admitted, healthy, Outcomes>>

\* The downstream recovers, for good.
Recover ==
  /\ ~healthy
  /\ healthy' = TRUE
  /\ UNCHANGED <<state, failures, successes, cooled, admitted, Outcomes>>

Next ==
  \/ \E c \in Callers :
       \/ Allow(c) \/ Refuse(c)
       \/ RecordSuccess(c) \/ RecordFailure(c) \/ ReturnUnreported(c)
  \/ Cool \/ Recover

Spec == Init /\ [][Next]_vars

(* Fairness: the clock runs, the queue keeps offering jobs of this task    *)
(* (released ones come back), a handler returns, and an execution that is  *)
(* admitted again and again is not kept from its handler forever.          *)
Fairness ==
  /\ WF_vars(Cool)
  /\ \A c \in Callers :
       /\ WF_vars(Allow(c))
       /\ WF_vars(RecordSuccess(c) \/ RecordFailure(c))
       /\ SF_vars(RecordSuccess(c))

FairSpec == Spec /\ Fairness

-----------------------------------------------------------------------------
\* The counters prove what the breaker decides from them: failures counted in
\* the closed state are consecutive, and so are the successes counted while
\* half-open, late reports of earlier executions included.
CountsConsecutive ==
  /\ state = "closed" => failures < FailureThreshold /\ failures <= bad
  /\ state = "half-open" => successes < SuccessThreshold /\ successes <= good

\* The breaker opens from closed only on FailureThreshold failures in a row,
\* leaves open only for half-open and only once OpenTimeout has elapsed, and
\* closes only on SuccessThreshold successes in a row: a success reported by an
\* execution from before it opened cannot close it.
TransitionsEarned ==
  [][/\ state = "closed" /\ state' # "closed" =>
          state' = "open" /\ bad' = FailureThreshold
     /\ state = "open" /\ state' # "open" => state' = "half-open" /\ cooled
     /\ state = "half-open" /\ state' = "closed" => good' = SuccessThreshold
    ]_vars

\* Once the downstream works again, the breaker closes.
Recovers == healthy ~> state = "closed"

\* docs/ARCHITECTURE.md says one probe is allowed per OpenTimeout, and
\* cmd/server configures HalfOpenRequests = 1: no two executions are out as
\* probes of a half-open breaker at the same time.
OneProbe ==
  state = "half-open" =>
    \A c, d \in Callers :
      admitted[c] = "half-open" /\ admitted[d] = "half-open" => c = d
=============================================================================
