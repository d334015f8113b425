------------------------------ MODULE JobStore ------------------------------
(***************************************************************************)
(* The jobs table and the SQL statements internal/store/store.go runs      *)
(* against it.  A statement is atomic in Postgres, so it appears here as a *)
(* guard on a row (its WHERE clause) and a function from the old row to    *)
(* the new one (its SET clause).  The modules that model the callers apply *)
(* them.                                                                   *)
(*                                                                         *)
(* Time is abstracted to what the statements compare with NOW():           *)
(*   sched   scheduled_at      "due" (in the past or NULL) or "future"     *)
(*   lease   lease_expires_at  "none" (NULL), "live" or "expired"          *)
(*   done    completed_at      "none" (NULL), "recent" or "old" (older     *)
(*                             than the retention age)                     *)
(* and the passage of time turns one value into the next at any moment.    *)
(* That covers every lease length, backoff and retention age, and every    *)
(* skew between a server's clock and the database's.                       *)
(***************************************************************************)
EXTENDS Naturals

CONSTANTS
  Jobs,         \* job ids; newJobID never repeats one
  Tokens,       \* lease tokens
  NoToken,      \* SQL NULL in lease_token
  MaxRetries    \* task_max_retries of each job

\* Enqueue stores a budget of at least one attempt for every job.
ASSUME StoreAssumption ==
  /\ MaxRetries \in [Jobs -> Nat \ {0}]
  /\ NoToken \notin Tokens

\* "NEW" is a job nobody has enqueued yet, "GONE" one retention has deleted:
\* in neither case is there a row.  FAILED is a state of the Go type that no
\* statement writes.
States == {"NEW", "PENDING", "RUNNING", "COMPLETED", "FAILED", "DEAD", "GONE"}

Row == [state   : States,
        attempt : Nat,
        sched   : {"due", "future"},
        lease   : {"none", "live", "expired"},
        token   : Tokens \cup {NoToken},
        done    : {"none", "recent", "old"}]

Blank(s) ==
  [state |-> s, attempt |-> 0, sched |-> "due", lease |-> "none",
   token |-> NoToken, done |-> "none"]

Unsubmitted == Blank("NEW")

Deleted == Blank("GONE")

HasRow(r) == r.state \notin {"NEW", "GONE"}

Finished(r) == r.state \in {"COMPLETED", "DEAD"}

-----------------------------------------------------------------------------
\* CanTransition: the state machine UpdateJob enforces.
CanTransition(from, to) ==
  \/ from = "PENDING" /\ to \in {"RUNNING", "DEAD"}
  \/ from = "RUNNING" /\ to \in {"COMPLETED", "FAILED", "DEAD"}
  \/ from = "FAILED"  /\ to \in {"PENDING", "DEAD"}

\* The columns every statement that ends a claim sets to NULL.
WithoutLease(r) == [r EXCEPT !.lease = "none", !.token = NoToken]

\* Mutant: the fence checks the state only.
FencedByState(r, t) == r.state = "RUNNING"

\* WHERE state = 'RUNNING' AND lease_token = $n, the fence of RenewLease,
\* ReleaseClaim, CompleteClaimedJob and FailClaimedJob.
Fenced(r, t) == r.state = "RUNNING" /\ r.token = t

\* CreateJob, as Enqueue calls it: PENDING, attempt 0, due now or later.
CreateJob(s) == [Blank("PENDING") EXCEPT !.sched = s]

\* Mutant: the lease token is not part of UpdateJob's condition.
UpdatableByAnyone(r) == r.state \in {"PENDING", "RUNNING"}

\* UpdateJob's WHERE clause for a claim: PENDING, RUNNING wanted, no token.
Updatable(r) == r.state = "PENDING" /\ r.token = NoToken

\* Mutant: the claim of a message leaves lease_expires_at NULL.
UpdateWithoutLease(r, t) ==
  [r EXCEPT !.state = "RUNNING", !.attempt = 1, !.sched = "due",
            !.token = t, !.done = "none"]

\* UpdateJob as Run calls it to claim the job of a Kafka message.  It writes
\* the message's copy of the row, in which the attempt is the first one, the
\* job is due and has never finished.
UpdateJob(r, t) ==
  [r EXCEPT !.state = "RUNNING", !.attempt = 1, !.sched = "due",
            !.lease = "live", !.token = t, !.done = "none"]

\* ClaimNextJob's WHERE clause.  ORDER BY only expresses a preference (a row
\* another statement has locked is skipped), so every due row is a candidate.
Claimable(r) == r.state = "PENDING" /\ r.sched = "due"

\* Mutant: the claim leaves lease_expires_at NULL.
ClaimWithoutLease(r, t) ==
  [r EXCEPT !.state = "RUNNING", !.attempt = @ + 1, !.token = t]

ClaimNextJob(r, t) ==
  [r EXCEPT !.state = "RUNNING", !.attempt = @ + 1,
            !.lease = "live", !.token = t]

\* RenewLease does not ask whether the lease has expired already.
RenewLease(r) == [r EXCEPT !.lease = "live"]

\* CancelJob.
Cancellable(r) == r.state \in {"PENDING", "RUNNING", "FAILED"}

CancelJob(r) ==
  [WithoutLease(r) EXCEPT !.state = "DEAD", !.done = "recent"]

\* RequeueExpiredRunning, the lease reaper, on one row of its batch.
Expired(r) == r.state = "RUNNING" /\ r.lease = "expired"

Exhausted(r, max) == r.attempt >= max

\* Mutant: the reaper gives the attempt back, as ReleaseClaim does.
ReapForFree(r, max) ==
  [WithoutLease(r) EXCEPT !.state = "PENDING", !.attempt = @ - 1, !.sched = "due"]

RequeueExpiredRunning(r, max) ==
  IF Exhausted(r, max)
  THEN [WithoutLease(r) EXCEPT !.state = "DEAD", !.done = "recent"]
  ELSE [WithoutLease(r) EXCEPT !.state = "PENDING", !.sched = "due"]

\* Mutant: a COMPLETED job can be requeued too.
RequeueableWhenFinished(r) == Finished(r)

\* RequeueDeadJob.
Requeueable(r) == r.state = "DEAD"

RequeueDeadJob(r) ==
  [WithoutLease(r) EXCEPT !.state = "PENDING", !.attempt = 0,
                          !.sched = "due", !.done = "none"]

\* ReleaseClaim gives the attempt back and defers the job.
ReleaseClaim(r) ==
  [WithoutLease(r) EXCEPT !.state = "PENDING",
                          !.attempt = IF @ > 0 THEN @ - 1 ELSE 0,
                          !.sched = "future"]

CompleteClaimedJob(r) ==
  [WithoutLease(r) EXCEPT !.state = "COMPLETED", !.done = "recent"]

\* Mutant: a failed attempt is given back.
FailForFree(r, retry) ==
  IF retry
  THEN [WithoutLease(r) EXCEPT !.state = "PENDING", !.attempt = @ - 1,
                               !.sched = "future"]
  ELSE [WithoutLease(r) EXCEPT !.state = "DEAD", !.done = "recent"]

\* Mutant: a nil nextRun is written to scheduled_at.
FailWritesNilRun(r, retry) ==
  IF retry
  THEN [WithoutLease(r) EXCEPT !.state = "PENDING", !.sched = "future"]
  ELSE [WithoutLease(r) EXCEPT !.state = "DEAD", !.sched = "nil", !.done = "recent"]

\* FailClaimedJob: retry says whether the caller passed a nextRun.
FailClaimedJob(r, retry) ==
  IF retry
  THEN [WithoutLease(r) EXCEPT !.state = "PENDING", !.sched = "future"]
  ELSE [WithoutLease(r) EXCEPT !.state = "DEAD", !.done = "recent"]

\* DeleteFinished's WHERE clause.
Prunable(r) == Finished(r) /\ r.done = "old"
=============================================================================
