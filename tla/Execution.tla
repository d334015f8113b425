----------------------------- MODULE Execution ------------------------------
(***************************************************************************)
(* The executions of one task in one process, claim after claim: the       *)
(* task's circuit breaker, the handler, and the retry policy that decides  *)
(* what becomes of the job (cmd/server jobWorker.Run, service Fail).  Each *)
(* caller of the breaker has a job, and another when that one is finished. *)
(* Who else could hold the job is JobWorkers' matter: here a claim is held *)
(* until its outcome or its release is written, or it is lost, before or   *)
(* after its handler ran, and the reaper returns the job.                  *)
(***************************************************************************)
EXTENDS CircuitBreaker, Webhook, Etl, FiniteSetsExt

CONSTANTS
  MaxRetries,        \* task_max_retries of the jobs
  Unlucky,           \* bound: the callers whose claims may be lost
  CfgBase, CfgMax,   \* of the retry engine: Config.BaseDelay and Config.MaxDelay
  CfgMultiplier,     \* Config.Multiplier
  CfgJitter          \* Config.Jitter

ASSUME ExecutionAssumption ==
  /\ MaxRetries \in Nat \ {0}
  /\ Unlucky \subseteq Callers
  /\ {CfgBase, CfgMax, CfgMultiplier, CfgJitter} \subseteq Int

-----------------------------------------------------------------------------
(* internal/retry.  Delays are in hundredths of a second, the multiplier   *)
(* is whole and the jitter is in percent.                                  *)

\* NewEngine replaces what makes no sense.
BaseDelay == IF CfgBase <= 0 THEN 100 ELSE CfgBase

MaxDelay == Max({BaseDelay, IF CfgMax <= 0 THEN 3000 ELSE CfgMax})

Multiplier == IF CfgMultiplier <= 1 THEN 2 ELSE CfgMultiplier

Jitter == Min({100, Max({0, CfgJitter})})

\* The loop of Delay: the base, multiplied for every attempt, and capped.
Grown[n \in Nat] == IF n = 0 THEN BaseDelay ELSE Min({MaxDelay, Grown[n - 1] * Multiplier})

\* What the jitter adds at random, least and most for all that lies between.
\* rand.Float64 is below 1: the whole share is never reached.
Added(n) == {0, Max({0, (Grown[n] * Jitter - 1) \div 100})}

\* Mutant: the jitter goes on top of the cap.
DelayUncapped(n) == {Grown[n] + a : a \in Added(n)}

\* Delay adds the jitter and caps again.
Delay(n) == {Min({MaxDelay, Grown[n] + a}) : a \in Added(n)}

-----------------------------------------------------------------------------
VARIABLES
  task,   \* the task whose breaker this is; "other" stands for unregistered names
  job     \* of each caller, its job

execVars == <<vars, task, job>>

Causes == {"none", "job", "endpoint", "resolver", "trouble", "lost"}

\* held: somebody has a claim that neither ran nor was lost yet.  History: the
\* executions of the handler, the claims lost without one, whether a later
\* execution could succeed, and what the last failure is to blame on.
Job == [state   : {"PENDING", "RUNNING", "COMPLETED", "DEAD"},
        attempt : 0..MaxRetries,
        held    : BOOLEAN,
        delay   : Nat,
        execs   : 0..MaxRetries,
        lost    : 0..MaxRetries,
        sound   : BOOLEAN,
        cause   : Causes]

NewJob(sound) == [state |-> "PENDING", attempt |-> 0, held |-> FALSE, delay |-> 0,
                  execs |-> 0, lost |-> 0, sound |-> sound, cause |-> "none"]

ExecTypeOK ==
  /\ TypeOK
  /\ task \in {"webhook", "sql.etl", "other"}
  /\ job \in [Callers -> Job]

\* No handler is registered for the names of "other".
Sound == IF task = "other" THEN {FALSE} ELSE BOOLEAN

Finished(c) == job[c].state \in {"COMPLETED", "DEAD"}

\* While the downstream is healthy, clients enqueue nothing that must fail.
MayEnqueue(sound) == sound \in Sound /\ (healthy => sound)

ExecInit ==
  /\ Init
  /\ task \in {"webhook", "sql.etl", "other"}
  /\ job \in [Callers -> {NewJob(sound) : sound \in {s \in BOOLEAN : MayEnqueue(s)}}]

-----------------------------------------------------------------------------
\* execute: the handler of the task, or none.
Execute(sound) ==
  CASE task = "webhook" -> WebhookOutcomes[sound]
    [] task = "sql.etl" -> EtlOutcomes[sound]
    [] OTHER            -> {<<"permanent", "job">>}

Update(c, j) == job' = [job EXCEPT ![c] = j] /\ UNCHANGED task

\* The claim's handler ran.
Executed(j) == [j EXCEPT !.held = FALSE, !.execs = @ + 1]

\* The claim is lost without an execution: the row stays RUNNING.
Unexecuted(j) == [j EXCEPT !.held = FALSE, !.lost = @ + 1]

\* ClaimNextJob.
Claim(c) ==
  /\ job[c].state = "PENDING"
  /\ Update(c, [job[c] EXCEPT !.state = "RUNNING", !.held = TRUE, !.attempt = @ + 1])
  /\ UNCHANGED vars

\* Mutant: the attempt of a claim that comes back unexecuted stays spent.
ReleaseClaimSpent(j) == [j EXCEPT !.state = "PENDING", !.held = FALSE]

\* ReleaseClaim.
ReleaseClaim(j) == [j EXCEPT !.state = "PENDING", !.held = FALSE, !.attempt = Max({@ - 1, 0})]

\* releaseClaim: a release that fails is logged, and nobody has the claim.
Release(c) ==
  \/ Update(c, ReleaseClaim(job[c]))
  \/ c \in Unlucky /\ Update(c, Unexecuted(job[c]))

\* Allow says yes, and the execution goes on to the lock.
RunAllowed(c) ==
  /\ job[c].held
  /\ Allow(c)
  /\ UNCHANGED <<task, job>>

\* "circuit open".
RunRefused(c) ==
  /\ job[c].held
  /\ Refuse(c)
  /\ Release(c)

\* The execution lock is held elsewhere.
LockRefused(c) ==
  /\ job[c].held
  /\ ReturnUnreported(c)
  /\ Release(c)

\* shouldRetry.
ShouldRetry(j) == j.attempt < MaxRetries

\* Fail.
Fail(j, permanent) ==
  IF ~permanent /\ ShouldRetry(j)
  THEN {[j EXCEPT !.state = "PENDING", !.delay = d] : d \in Delay(j.attempt)}
  ELSE {[j EXCEPT !.state = "DEAD"]}

\* The breaker hears of the success whether or not Complete can be written.
Succeeds(c) ==
  /\ job[c].held
  /\ \E o \in Execute(job[c].sound) : o[1] = "ok"
  /\ RecordSuccess(c)
  /\ \/ Update(c, [Executed(job[c]) EXCEPT !.state = "COMPLETED"])
     \/ c \in Unlucky /\ Update(c, Executed(job[c]))

\* So it does of a failure.
Fails(c) ==
  /\ job[c].held
  /\ \E o \in Execute(job[c].sound) :
       /\ o[1] # "ok"
       /\ \/ \E j \in Fail([Executed(job[c]) EXCEPT !.cause = o[2]], o[1] = "permanent") :
               Update(c, j)
          \/ c \in Unlucky /\ Update(c, Executed(job[c]))
  /\ RecordFailure(c)

\* The handler panics, or the process that has the claim, this one or another,
\* dies: with the claim in its queue, on the way to the handler or in it.
Abandoned(c) ==
  /\ c \in Unlucky /\ job[c].held
  /\ \/ ReturnUnreported(c)
     \/ admitted[c] = "no" /\ UNCHANGED vars
  /\ Update(c, Executed(job[c])) \/ Update(c, Unexecuted(job[c]))

\* The lease of a claim nobody has expires, and the reaper requeues the job
\* (RequeueExpiredRunning): no backoff, and the attempt stays spent.
Reaped(c) ==
  /\ job[c].state = "RUNNING" /\ ~job[c].held
  /\ Update(c, [job[c] EXCEPT !.state = IF ShouldRetry(job[c]) THEN "PENDING" ELSE "DEAD",
                              !.cause = "lost"])
  /\ UNCHANGED vars

\* The next job of the task.
Enqueue(c) ==
  /\ Finished(c)
  /\ \E sound \in BOOLEAN : MayEnqueue(sound) /\ Update(c, NewJob(sound))
  /\ UNCHANGED vars

\* The downstream is well and no job is left that must fail.
AllWell ==
  /\ task # "other"
  /\ \A c \in Callers : Finished(c) \/ job[c].sound
  /\ Recover
  /\ UNCHANGED <<task, job>>

CoolDown == Cool /\ UNCHANGED <<task, job>>

ExecNext ==
  \/ \E c \in Callers :
       \/ Claim(c) \/ RunAllowed(c) \/ RunRefused(c) \/ LockRefused(c)
       \/ Succeeds(c) \/ Fails(c) \/ Abandoned(c) \/ Reaped(c) \/ Enqueue(c)
  \/ CoolDown \/ AllWell

(* Fairness: time passes, the queue offers pending jobs and clients bring  *)
(* new ones, leases expire and the reaper runs, a handler returns, and     *)
(* claims are not lost forever before the breaker or after it.             *)
ExecSpec ==
  /\ ExecInit
  /\ [][ExecNext]_execVars
  /\ WF_execVars(CoolDown)
  /\ \A c \in Callers :
       /\ WF_execVars(Claim(c))
       /\ SF_execVars(RunAllowed(c))
       /\ WF_execVars(Succeeds(c) \/ Fails(c))
       /\ SF_execVars(Succeeds(c))
       /\ WF_execVars(Reaped(c))
       /\ WF_execVars(Enqueue(c))

-----------------------------------------------------------------------------
\* Being turned away is free: however often the breaker or the lock refused a
\* job, its attempts are the executions of its handler, the claims that were
\* lost before one, and the claim somebody has.  A job does not die "for a
\* reason that was not its own" (docs/UPGRADING.md), except that a release that
\* could not be written costs the attempt like any other lost claim.
RefusalsAreFree ==
  \A c \in Callers :
    job[c].attempt = job[c].execs + job[c].lost + IF job[c].held THEN 1 ELSE 0

\* Jobs are given up when they should be and not before.  One that can never
\* succeed is executed once, unless the execution was lost: "they do not burn
\* retry capacity" (docs/use-cases/sql-elt.md).  One that could still succeed
\* dies only of what the endpoint or the resolver answered, or after MaxRetries
\* claims that were executed or lost.
DeadDeserved ==
  \A c \in Callers :
    IF job[c].sound
    THEN job[c].state = "DEAD" =>
           \/ job[c].cause \in {"endpoint", "resolver"}
           \/ job[c].execs + job[c].lost = MaxRetries
    ELSE job[c].cause \notin {"none", "lost"} => job[c].state = "DEAD"

\* internal/retry: ErrNoRetry is for "permanent failures (bad input, missing
\* record, etc)".  A lookup that fails is none.
OutagesAreRetried ==
  \A c \in Callers :
    job[c].state = "DEAD" /\ job[c].attempt < MaxRetries => job[c].cause # "resolver"

\* Backoff: a retry waits at least as long as the one before and longer until
\* the ceiling is reached, between BaseDelay and MaxDelay whatever the jitter.
BackoffGrows ==
  [][\A c \in Callers :
       job[c].state = "RUNNING" /\ job'[c].state = "PENDING" /\ job'[c].cause = "trouble"
         /\ job'[c].execs # job[c].execs =>
         /\ job'[c].delay \in BaseDelay..MaxDelay
         /\ job'[c].delay > job[c].delay \/ job'[c].delay = MaxDelay]_execVars
=============================================================================
