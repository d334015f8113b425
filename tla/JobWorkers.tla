----------------------------- MODULE JobWorkers -----------------------------
(***************************************************************************)
(* The claim holders around the jobs table on the Postgres transport: the  *)
(* slots of the in-process pools (reconciler.go, cmd/server/main.go), the  *)
(* remote workers of the pull API (api/worker.go, service/job_service.go), *)
(* the lease reaper, retention, and the clients that enqueue, cancel and   *)
(* requeue.  Every actor may stall or die between two statements.          *)
(***************************************************************************)
EXTENDS JobStore, FiniteSets

CONSTANTS
  Slots,      \* executions the in-process pools can have in hand
  Remotes,    \* workers that claim over HTTP
  NoJob

Workers == Slots \cup Remotes

ASSUME WorkersAssumption ==
  /\ Slots \cap Remotes = {}
  /\ IsFiniteSet(Slots) /\ IsFiniteSet(Remotes)
  /\ NoJob \notin Jobs

VARIABLES
  job,       \* the jobs table
  holder,    \* what each worker holds in memory: its copy of a claim
  started,   \* history: executions begun since the job was last enqueued or
             \* requeued, by claims made since then
  sweep      \* ids the subselects of DELETEs under way have returned

vars == <<job, holder, started, sweep>>

-----------------------------------------------------------------------------
(* A worker's claim.  "queued" is a claim waiting in the pool or in Run's  *)
(* admission steps, "running" one whose handler is executing, "failing" a  *)
(* call of Fail between its SELECT and its UPDATE, "unsure" a remote       *)
(* worker whose report was sent but whose answer was lost.                 *)
(* retry is the decision Fail took from the row it read; renewing says     *)
(* whether somebody still renews the lease; earlier is history: the claim  *)
(* predates the job's last requeue.                                        *)
Claim == [pc       : {"idle", "queued", "running", "failing", "unsure"},
          job      : Jobs \cup {NoJob},
          token    : Tokens \cup {NoToken},
          retry    : BOOLEAN,
          renewing : BOOLEAN,
          earlier  : BOOLEAN]

Idle == [pc |-> "idle", job |-> NoJob, token |-> NoToken,
         retry |-> FALSE, renewing |-> FALSE, earlier |-> FALSE]

TypeOK ==
  /\ job \in [Jobs -> Row]
  /\ holder \in [Workers -> Claim]
  /\ started \in [Jobs -> Nat]
  /\ sweep \in SUBSET Jobs

Busy(w) == holder[w].pc # "idle"

\* w's token is the one in the row of its job.
Owns(w) == Busy(w) /\ job[holder[w].job].token = holder[w].token

\* Mutant: a token may repeat once the table has forgotten it.
FreshInTable(t) == \A j \in Jobs : job[j].token # t

\* newLeaseToken draws 128 random bits.  A token nobody holds any more is as
\* good as one never drawn, so a finite set of tokens suffices.
Fresh(t) ==
  /\ \A j \in Jobs : job[j].token # t
  /\ \A w \in Workers : holder[w].token # t

Init ==
  /\ job = [j \in Jobs |-> Unsubmitted]
  /\ holder = [w \in Workers |-> Idle]
  /\ started = [j \in Jobs |-> 0]
  /\ sweep = {}

-----------------------------------------------------------------------------
(* Clients of the API.                                                     *)

Enqueue(j, s) ==
  /\ job[j].state = "NEW"
  /\ job' = [job EXCEPT ![j] = CreateJob(s)]
  /\ UNCHANGED <<holder, started, sweep>>

Cancel(j) ==
  /\ Cancellable(job[j])
  /\ job' = [job EXCEPT ![j] = CancelJob(@)]
  /\ UNCHANGED <<holder, started, sweep>>

RequeueJob(j) ==
  /\ Requeueable(job[j])
  /\ job' = [job EXCEPT ![j] = RequeueDeadJob(@)]
  /\ holder' = [w \in Workers |->
                  IF holder[w].job = j THEN [holder[w] EXCEPT !.earlier = TRUE]
                                       ELSE holder[w]]
  /\ started' = [started EXCEPT ![j] = 0]
  /\ UNCHANGED sweep

-----------------------------------------------------------------------------
(* The reconciler's pass: reap, claim for the pool, sweep.                 *)

Reap(j) ==
  /\ Expired(job[j])
  /\ job' = [job EXCEPT ![j] = RequeueExpiredRunning(@, MaxRetries[j])]
  /\ UNCHANGED <<holder, started, sweep>>

\* DeleteFinished, a row of a batch at a time.  The reconcilers of several
\* instances sweep, and a row may be in more than one batch.  The subselect
\* reads a snapshot ...
SweepPicks(j) ==
  /\ Prunable(job[j])
  /\ sweep' = sweep \cup {j}
  /\ UNCHANGED <<job, holder, started>>

\* ... and the DELETE takes the id it returned, whatever the row is by then.
SweepDeletes(j) ==
  /\ j \in sweep
  /\ job' = [job EXCEPT ![j] = Deleted]
  /\ sweep' = sweep \ {j}
  /\ UNCHANGED <<holder, started>>

\* The statement fails or is cancelled: nothing is deleted.
SweepFails(j) ==
  /\ j \in sweep
  /\ sweep' = sweep \ {j}
  /\ UNCHANGED <<job, holder, started>>

ClaimInto(w, j, t, pc, renewing) ==
  /\ ~Busy(w)
  /\ Claimable(job[j])
  /\ Fresh(t)
  /\ job' = [job EXCEPT ![j] = ClaimNextJob(@, t)]
  /\ holder' = [holder EXCEPT
                  ![w] = [Idle EXCEPT !.pc = pc, !.job = j, !.token = t,
                                      !.renewing = renewing]]

\* The reconciler claims and submits; the claim is not renewed while it waits.
ReconcilerClaim(w, j, t) ==
  /\ w \in Slots
  /\ ClaimInto(w, j, t, "queued", FALSE)
  /\ UNCHANGED <<started, sweep>>

-----------------------------------------------------------------------------
(* jobWorker.Run on a claim of the reconciler's.                           *)

Drop(w) == holder' = [holder EXCEPT ![w] = Idle]

\* The handler starts: count it, unless the claim is from before a requeue.
CountStart(w, j) ==
  started' = IF holder[w].earlier THEN started
             ELSE [started EXCEPT ![j] = @ + 1]

\* The breaker or the execution lock refuses; releaseClaim is fenced.
Refuse(w) ==
  LET j == holder[w].job IN
  /\ holder[w].pc = "queued"
  /\ job' = IF Fenced(job[j], holder[w].token)
            THEN [job EXCEPT ![j] = ReleaseClaim(@)] ELSE job
  /\ Drop(w)
  /\ UNCHANGED <<started, sweep>>

\* Run never re-reads the row, so a claim lost while it queued still executes.
Execute(w) ==
  /\ holder[w].pc = "queued"
  /\ holder' = [holder EXCEPT ![w].pc = "running", ![w].renewing = TRUE]
  /\ CountStart(w, holder[w].job)
  /\ UNCHANGED <<job, sweep>>

\* One tick of startLeaseRenewal, or a heartbeat.
Renew(w) ==
  LET j == holder[w].job IN
  /\ holder[w].pc \in {"running", "failing"}
  /\ holder[w].renewing
  /\ IF Fenced(job[j], holder[w].token)
     THEN job' = [job EXCEPT ![j] = RenewLease(@)] /\ UNCHANGED holder
     ELSE holder' = [holder EXCEPT ![w].renewing = FALSE] /\ UNCHANGED job
  /\ UNCHANGED <<started, sweep>>

\* The first failed renewal ends the renewing goroutine, not the handler; a
\* remote worker may stop heartbeating for reasons of its own.
RenewalStops(w) ==
  /\ holder[w].pc \in {"running", "failing"}
  /\ holder[w].renewing
  /\ holder' = [holder EXCEPT ![w].renewing = FALSE]
  /\ UNCHANGED <<job, started, sweep>>

\* After a report a worker is done with the claim, whatever the answer was.
\* A remote worker whose answer is lost still holds the token and may repeat
\* the report.
Reported(w, answered) ==
  IF answered THEN Drop(w)
  ELSE /\ w \in Remotes
       /\ holder' = [holder EXCEPT ![w].pc = "unsure", ![w].renewing = FALSE]

Complete(w, answered) ==
  LET j == holder[w].job IN
  /\ holder[w].pc \in {"running", "unsure"}
  /\ job' = IF Fenced(job[j], holder[w].token)
            THEN [job EXCEPT ![j] = CompleteClaimedJob(@)] ELSE job
  /\ Reported(w, answered)
  /\ UNCHANGED <<started, sweep>>

\* Fail, first half: GetJob and the retry decision.  The row read is the
\* job's, whoever holds it by now.
ShouldRetry(r, max) == r.attempt < max

FailRead(w, permanent) ==
  LET j == holder[w].job IN
  /\ holder[w].pc \in {"running", "unsure"}
  /\ IF HasRow(job[j])
     THEN holder' = [holder EXCEPT
                       ![w].pc = "failing",
                       ![w].retry = ~permanent
                                    /\ ShouldRetry(job[j], MaxRetries[j])]
     ELSE Drop(w)
  /\ UNCHANGED <<job, started, sweep>>

\* Fail, second half: the fenced UPDATE.
FailWrite(w, answered) ==
  LET j == holder[w].job IN
  /\ holder[w].pc = "failing"
  /\ job' = IF Fenced(job[j], holder[w].token)
            THEN [job EXCEPT ![j] = FailClaimedJob(@, holder[w].retry)]
            ELSE job
  /\ Reported(w, answered)
  /\ UNCHANGED <<started, sweep>>

\* The worker is killed, loses its database connection, or is shut down: the
\* claim is forgotten and the row left as it is.
Crash(w) ==
  /\ Busy(w)
  /\ Drop(w)
  /\ UNCHANGED <<job, started, sweep>>

-----------------------------------------------------------------------------
(* The pull API: POST /api/jobs/claim hands the job straight to a worker   *)
(* that starts on it and may heartbeat.  Its other calls are Renew,        *)
(* Complete, FailRead and FailWrite above.                                 *)

RemoteClaim(w, j, t) ==
  /\ w \in Remotes
  /\ ClaimInto(w, j, t, "running", TRUE)
  /\ started' = [started EXCEPT ![j] = @ + 1]
  /\ UNCHANGED sweep

-----------------------------------------------------------------------------
(* Time.                                                                   *)

LeaseExpires(j) ==
  /\ job[j].lease = "live"
  /\ job' = [job EXCEPT ![j].lease = "expired"]
  /\ UNCHANGED <<holder, started, sweep>>

BecomesDue(j) ==
  /\ job[j].sched = "future"
  /\ job' = [job EXCEPT ![j].sched = "due"]
  /\ UNCHANGED <<holder, started, sweep>>

Ages(j) ==
  /\ job[j].done = "recent"
  /\ job' = [job EXCEPT ![j].done = "old"]
  /\ UNCHANGED <<holder, started, sweep>>

-----------------------------------------------------------------------------
ClientStep(j) ==
  \/ \E s \in {"due", "future"} : Enqueue(j, s)
  \/ Cancel(j)
  \/ RequeueJob(j)

StoreStep(j) == Reap(j) \/ SweepPicks(j) \/ SweepDeletes(j) \/ SweepFails(j)

ClaimStep(j) ==
  \E w \in Workers, t \in Tokens : ReconcilerClaim(w, j, t) \/ RemoteClaim(w, j, t)

WorkerStep(w) ==
  \/ Refuse(w) \/ Execute(w) \/ Renew(w) \/ RenewalStops(w) \/ Crash(w)
  \/ \E answered \in BOOLEAN : Complete(w, answered) \/ FailWrite(w, answered)
  \/ \E permanent \in BOOLEAN : FailRead(w, permanent)

TimeStep(j) == LeaseExpires(j) \/ BecomesDue(j) \/ Ages(j)

Next ==
  \/ \E j \in Jobs : ClientStep(j) \/ StoreStep(j) \/ ClaimStep(j) \/ TimeStep(j)
  \/ \E w \in Workers : WorkerStep(w)

Spec == Init /\ [][Next]_vars

-----------------------------------------------------------------------------
(* Fairness.  Time passes, so a lease nobody renews runs out and a deferred *)
(* job becomes due.  Some instance's reconciler is alive: its timer keeps   *)
(* calling the reaper and the claim.  A goroutine in Run takes its next     *)
(* step, and a handler returns (the executors run under timeouts).  Remote  *)
(* workers and clients owe nothing.                                         *)

Renewed(j) ==
  \E w \in Workers : holder[w].job = j /\ holder[w].renewing /\ Owns(w)

Fairness ==
  /\ \A j \in Jobs :
       /\ WF_vars(LeaseExpires(j) /\ ~Renewed(j))
       /\ WF_vars(BecomesDue(j))
       /\ WF_vars(Reap(j))
       /\ WF_vars(\E w \in Slots, t \in Tokens : ReconcilerClaim(w, j, t))
  /\ \A w \in Slots :
       /\ WF_vars(Execute(w) \/ Refuse(w))
       /\ WF_vars(Complete(w, TRUE) \/ FailRead(w, FALSE))
       /\ WF_vars(FailWrite(w, TRUE))

FairSpec == Spec /\ Fairness

-----------------------------------------------------------------------------
(* Safety.                                                                 *)

\* The lease columns describe a claim exactly while the row is RUNNING, and
\* completed_at is set exactly while it is finished.  The reaper finds rows by
\* the first and retention by the second, so a row that broke either would
\* be stranded or deleted early.
LeaseColumns ==
  \A j \in Jobs :
    /\ (job[j].state = "RUNNING") <=> (job[j].token # NoToken)
    /\ (job[j].state = "RUNNING") <=> (job[j].lease # "none")
    /\ Finished(job[j]) <=> (job[j].done # "none")

\* The budget: no row exceeds task_max_retries, and a PENDING row has an
\* attempt left, although ClaimNextJob itself never looks at the budget.
AttemptBudget ==
  \A j \in Jobs :
    /\ job[j].attempt <= MaxRetries[j]
    /\ job[j].state = "PENDING" => job[j].attempt < MaxRetries[j]
    /\ job[j].state = "RUNNING" => job[j].attempt > 0

\* The handler of a job is started at most task_max_retries times per enqueue
\* or requeue, reaped, released and repeated claims included.
ExecutionBudget ==
  \A j \in Jobs : started[j] <= MaxRetries[j]

\* Two workers never both hold the token of a job's row, however many of them
\* believe they are executing it.
OneOwner ==
  \A v, w \in Workers :
    Owns(v) /\ Owns(w) /\ holder[v].job = holder[w].job => v = w

\* Fail decides from an attempt it read before its UPDATE.  When the UPDATE's
\* fence still holds, the row it decides for is the row it read: a retry is
\* only written while the budget lasts.
FailDecisionCurrent ==
  \A w \in Workers :
    holder[w].pc = "failing" /\ Owns(w) /\ holder[w].retry =>
      job[holder[w].job].attempt < MaxRetries[holder[w].job]

-----------------------------------------------------------------------------
(* Steps.                                                                  *)

\* The step is one of w's own (a requeue marks claims as earlier ones).
Acts(w) == holder'[w] \notin {holder[w], [holder[w] EXCEPT !.earlier = TRUE]}

\* A worker whose lease was lost (reaped, cancelled, requeued, claimed by
\* another) changes nothing in the job's row, whatever it reports and however
\* late: Complete, Fail, ReleaseClaim and the heartbeat are all fenced.
ZombieStepsHarmless ==
  \A w \in Workers :
    Busy(w) /\ ~Owns(w) /\ Acts(w)
      => job'[holder[w].job] = job[holder[w].job]

ZombiesAreFenced == [][ZombieStepsHarmless]_vars

\* Clients, workers, reapers and sweeps together take every job through the
\* lifecycle of JobLifecycle and no other way.  What is deleted was finished when
\* the sweep chose it; it may have been requeued since.
Lifecycle == INSTANCE JobLifecycle WITH
  state   <- [j \in Jobs |-> job[j].state],
  attempt <- [j \in Jobs |-> job[j].attempt],
  doomed  <- sweep

ImplementsLifecycle == Lifecycle!Spec

-----------------------------------------------------------------------------
(* Liveness.                                                               *)

\* A claim whose holder is gone does not stay RUNNING: the lease runs out and
\* the reaper takes the job back.
AbandonedClaimsRecovered ==
  \A j \in Jobs :
    (job[j].state = "RUNNING" /\ ~\E w \in Workers : holder[w].job = j /\ Owns(w))
      ~> job[j].state # "RUNNING"

\* Every job that is waiting is completed or dead-lettered in the end, unless
\* the breaker or the lock refuses it again and again, or a remote worker
\* heartbeats for it forever.
EveryJobSettles ==
  \A j \in Jobs :
    \/ job[j].state = "PENDING" ~> job[j].state \in {"COMPLETED", "DEAD", "GONE"}
    \/ []<><<\E w \in Slots : holder[w].job = j /\ Refuse(w)>>_vars
    \/ <>[](\E w \in Remotes : holder[w].job = j /\ holder[w].renewing)
=============================================================================
