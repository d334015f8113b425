----------------------------- MODULE KafkaProofs -----------------------------
(***************************************************************************)
(* Proofs about KafkaDispatch, for every set of jobs, slots, remote        *)
(* workers and tokens, every retry budget and any number of deliveries.    *)
(***************************************************************************)
EXTENDS KafkaDispatch, JobWorkersProofs

\* Steps without arithmetic are left to Zenon; the others name their prover.
USE Zenon

\* A message in hand names a job, and the slot it is in has no claim.
FetchNamed ==
  /\ fetch \in [Slots -> [pc : {"none", "fetched", "checked"}, job : Jobs \cup {NoJob}]]
  /\ \A w \in Slots : fetch[w].pc # "none" => fetch[w].job \in Jobs /\ ~Busy(w)

KInv == IInv /\ FetchNamed

\* An empty topic and idle slots satisfy the invariant.
LEMMA KafkaInitInv == KafkaInit => KInv
<1> SUFFICES ASSUME KafkaInit PROVE KInv
  OBVIOUS
<1>1. IInv
  BY InitInv DEF KafkaInit
<1>2. FetchNamed
  BY DEF KafkaInit, FetchNamed, Nothing
<1> QED
  BY <1>1, <1>2 DEF KInv

\* The row UpdateJob writes for a message: the first attempt of a new claim.
LEMMA UpdateFields ==
  ASSUME NEW r \in Row, NEW t \in Tokens
  PROVE  LET n == UpdateJob(r, t) IN
         /\ n \in Row
         /\ n.state = "RUNNING" /\ n.attempt = 1 /\ n.lease = "live"
         /\ n.token = t /\ n.done = "none"
BY DEF UpdateJob, Row, States

\* The claim of a message is a claim like ClaimNextJob's: its UPDATE finds the
\* row PENDING and without a token, or it does nothing.
LEMMA FetchedClaimPreserves ==
  ASSUME KInv, NEW w \in Slots, NEW t \in Tokens, ClaimFetched(w, t)
  PROVE  IInv'
<1> DEFINE j == fetch[w].job
           n == UpdateJob(job[j], t)
           c == [Idle EXCEPT !.pc = "running", !.job = j, !.token = t, !.renewing = TRUE]
<1>1. w \in Workers /\ j \in Jobs /\ ~Busy(w) /\ Fresh(t)
  BY DEF KInv, FetchNamed, ClaimFetched, Workers
<1>2. CASE Updatable(job[j])
  <2>1. /\ job' = [job EXCEPT ![j] = n] /\ holder' = [holder EXCEPT ![w] = c]
        /\ started' = [started EXCEPT ![j] = @ + 1]
    BY <1>2 DEF ClaimFetched
  <2>2. job[j] \in Row /\ job[j].state = "PENDING"
    BY <1>1, <1>2 DEF Updatable, KInv, IInv, RowsOK
  <2>3. /\ n \in Row
        /\ n.state = "RUNNING" /\ n.attempt = 1 /\ n.lease = "live"
        /\ n.token = t /\ n.done = "none"
    BY <2>2, UpdateFields
  <2>4. c \in Claim /\ c.pc = "running" /\ c.job = j /\ c.token = t
    BY <1>1, StoreAssumption DEF Claim, Idle
  <2>5. started' \in [Jobs -> Nat]
    BY <1>1, <2>1, SMT DEF KInv, IInv, RowsOK
  <2>6. MaxRetries[j] \in Nat \ {0}
    BY <1>1, StoreAssumption
  <2> HIDE DEF j, n, c
  <2>7. n.attempt > 0 /\ n.attempt <= MaxRetries[j]
    BY <2>3, <2>6, SMT
  <2> QED
    BY <1>1, <2>1, <2>2, <2>3, <2>4, <2>5, <2>7, NewClaimPreserves DEF KInv
<1>3. CASE ~Updatable(job[j])
  <2>1. UNCHANGED vars
    BY <1>3 DEF ClaimFetched
  <2> QED
    BY <2>1, NextInv DEF KInv
<1> QED
  BY <1>2, <1>3

\* Every delivery, claim and step of the core preserves the invariant.
LEMMA KafkaNextInv == KInv /\ [KafkaNext]_kvars => KInv'
<1> SUFFICES ASSUME KInv, [KafkaNext]_kvars PROVE KInv'
  OBVIOUS
<1>u. UNCHANGED vars => IInv'
  BY NextInv DEF KInv
<1>1. CASE CoreStep
  <2>1. IInv'
    BY <1>1, NextInv DEF CoreStep, KInv
  <2>2. FetchNamed'
    BY <1>1 DEF CoreStep, KInv, FetchNamed
  <2> QED
    BY <2>1, <2>2 DEF KInv
<1>2. ASSUME NEW w \in Slots, NEW j \in Jobs, Handle(w, j) PROVE KInv'
  <2>1. FetchNamed'
    BY <1>2 DEF Handle, KInv, FetchNamed, Busy, vars
  <2> QED
    BY <1>2, <1>u, <2>1 DEF KInv, Handle
<1>3. ASSUME NEW w \in Slots, RefuseFetched(w) \/ CheckTransition(w) \/ CrashFetched(w)
      PROVE  KInv'
  <2>1. UNCHANGED vars
    BY <1>3 DEF RefuseFetched, CheckTransition, CrashFetched
  <2>2. \/ fetch' = [fetch EXCEPT ![w] = Nothing]
        \/ fetch' = [fetch EXCEPT ![w].pc = "checked"] /\ fetch[w].pc = "fetched"
    BY <1>3 DEF RefuseFetched, CheckTransition, CrashFetched, Forget
  <2>3. FetchNamed'
    BY <2>1, <2>2, SMT DEF KInv, FetchNamed, Busy, vars, Nothing
  <2> QED
    BY <1>u, <2>1, <2>3 DEF KInv
<1>4. ASSUME NEW w \in Slots, NEW t \in Tokens, ClaimFetched(w, t) PROVE KInv'
  <2>1. IInv'
    BY <1>4, FetchedClaimPreserves
  <2>2. fetch' = [fetch EXCEPT ![w] = Nothing]
    BY <1>4 DEF ClaimFetched, Forget
  <2>3. \A v \in Slots \ {w} : holder'[v] = holder[v]
    BY <1>4 DEF ClaimFetched, vars, KInv, IInv, RowsOK, Workers
  <2>4. FetchNamed'
    BY <2>2, <2>3 DEF KInv, FetchNamed, Busy, Nothing
  <2> QED
    BY <2>1, <2>4 DEF KInv
<1>5. CASE UNCHANGED kvars
  <2>1. UNCHANGED vars /\ UNCHANGED fetch
    BY <1>5 DEF kvars, vars
  <2>2. FetchNamed'
    BY <2>1 DEF KInv, FetchNamed, Busy, vars
  <2> QED
    BY <1>u, <2>1, <2>2 DEF KInv
<1> QED
  BY <1>1, <1>2, <1>3, <1>4, <1>5 DEF KafkaNext

-----------------------------------------------------------------------------
\* The invariant of the Postgres transport survives the Kafka one: late, repeated
\* and lost messages included.
THEOREM KafkaInvariance == KafkaSpec => []KInv
BY KafkaInitInv, KafkaNextInv, PTL DEF KafkaSpec

\* "the Postgres claim decides who executes" (internal/queue/kafka.go): whatever
\* the transport delivers, how often and how late, claims stay consistent.
THEOREM ClaimDecidesHolds == KafkaSpec => []ClaimDecides
<1>1. KInv => ClaimDecides
  BY DEF KInv, IInv, ClaimDecides, OneOwner, TokensDistinct, Owns
<1> QED
  BY <1>1, KafkaInvariance, PTL

-----------------------------------------------------------------------------
\* What MessagesDoNotSteal says of one step.
TokenKept(j) ==
  job[j].state = "RUNNING" /\ job'[j].state = "RUNNING" => job'[j].token = job[j].token

\* What BackoffHonored says of one step.
DueWhenClaimed(j) ==
  job[j].state = "PENDING" /\ job'[j].state = "RUNNING" => job[j].sched = "due"

\* A row that is written keeps the tokens if it was not RUNNING, is RUNNING no
\* longer, or has the token it had.
LEMMA OneRowWritten ==
  ASSUME IInv, NEW j \in Jobs, NEW n, job' = [job EXCEPT ![j] = n],
         job[j].state # "RUNNING" \/ n.state # "RUNNING" \/ n.token = job[j].token
  PROVE  \A k \in Jobs : TokenKept(k)
BY DEF IInv, RowsOK, TokenKept

\* And it starts nothing early if it was not PENDING, is not RUNNING, or was due.
LEMMA OneRowClaimed ==
  ASSUME IInv, NEW j \in Jobs, NEW n, job' = [job EXCEPT ![j] = n],
         job[j].state # "PENDING" \/ n.state # "RUNNING" \/ job[j].sched = "due"
  PROVE  \A k \in Jobs : DueWhenClaimed(k)
BY DEF IInv, RowsOK, DueWhenClaimed

\* The statements that end a claim leave no RUNNING row, and time changes no
\* token.
LEMMA EndsNotRunning ==
  ASSUME NEW r \in Row, NEW retry \in BOOLEAN, NEW max \in Nat
  PROVE  /\ CancelJob(r).state # "RUNNING"
         /\ RequeueDeadJob(r).state # "RUNNING"
         /\ RequeueExpiredRunning(r, max).state # "RUNNING"
         /\ ReleaseClaim(r).state # "RUNNING"
         /\ CompleteClaimedJob(r).state # "RUNNING"
         /\ FailClaimedJob(r, retry).state # "RUNNING"
         /\ RenewLease(r).token = r.token
<1>1. /\ CancelJob(r).state # "RUNNING"
      /\ RequeueDeadJob(r).state # "RUNNING"
      /\ ReleaseClaim(r).state # "RUNNING"
      /\ CompleteClaimedJob(r).state # "RUNNING"
  BY StatementFields DEF Ends
<1>2. FailClaimedJob(r, retry).state # "RUNNING"
  <2>1. /\ FailClaimedJob(r, TRUE).state # "RUNNING"
        /\ FailClaimedJob(r, FALSE).state # "RUNNING"
    BY StatementFields DEF Ends
  <2> QED
    BY <2>1
<1>3. RequeueExpiredRunning(r, max).state # "RUNNING"
  BY StatementFields DEF Ends
<1>4. RenewLease(r).token = r.token
  BY DEF RenewLease, Row
<1> QED
  BY <1>1, <1>2, <1>3, <1>4

\* No step of the core replaces the token of a RUNNING row or starts a job early.
LEMMA CoreWrites ==
  IInv /\ Next => \A k \in Jobs : TokenKept(k) /\ DueWhenClaimed(k)
<1> SUFFICES ASSUME IInv, Next PROVE \A k \in Jobs : TokenKept(k) /\ DueWhenClaimed(k)
  OBVIOUS
<1>t. \A j \in Jobs : job[j] \in Row /\ MaxRetries[j] \in Nat
  BY StoreAssumption DEF IInv, RowsOK
<1>u. UNCHANGED job => \A k \in Jobs : TokenKept(k) /\ DueWhenClaimed(k)
  BY DEF TokenKept, DueWhenClaimed
<1>1. ASSUME NEW j \in Jobs, ClientStep(j) \/ StoreStep(j)
      PROVE  \A k \in Jobs : TokenKept(k) /\ DueWhenClaimed(k)
  <2>1. \/ \E n : job' = [job EXCEPT ![j] = n] /\ job[j].state = "NEW"
        \/ job' = [job EXCEPT ![j] = CancelJob(job[j])]
        \/ job' = [job EXCEPT ![j] = RequeueDeadJob(job[j])]
        \/ job' = [job EXCEPT ![j] = RequeueExpiredRunning(job[j], MaxRetries[j])]
        \/ job' = [job EXCEPT ![j] = Deleted]
        \/ UNCHANGED job
    BY <1>1 DEF ClientStep, Enqueue, Cancel, RequeueJob, StoreStep, Reap, SweepPicks,
                SweepDeletes, SweepFails
  <2>2. /\ CancelJob(job[j]).state # "RUNNING"
        /\ RequeueDeadJob(job[j]).state # "RUNNING"
        /\ RequeueExpiredRunning(job[j], MaxRetries[j]).state # "RUNNING"
        /\ Deleted.state # "RUNNING"
    BY <1>t, EndsNotRunning DEF Deleted, Blank
  <2>3. ASSUME NEW n, job' = [job EXCEPT ![j] = n], job[j].state = "NEW" \/ n.state # "RUNNING"
        PROVE  \A k \in Jobs : TokenKept(k) /\ DueWhenClaimed(k)
    BY <2>3, OneRowWritten, OneRowClaimed
  <2> QED
    BY <1>u, <2>1, <2>2, <2>3
<1>2. ASSUME NEW j \in Jobs, ClaimStep(j)
      PROVE  \A k \in Jobs : TokenKept(k) /\ DueWhenClaimed(k)
  <2>1. PICK n : /\ job' = [job EXCEPT ![j] = n]
                 /\ job[j].state # "RUNNING" /\ job[j].sched = "due"
    BY <1>2 DEF ClaimStep, ReconcilerClaim, RemoteClaim, ClaimInto, Claimable
  <2> QED
    BY <2>1, OneRowWritten, OneRowClaimed
<1>3. ASSUME NEW j \in Jobs, TimeStep(j)
      PROVE  \A k \in Jobs : TokenKept(k) /\ DueWhenClaimed(k)
  <2>1. PICK n : /\ job' = [job EXCEPT ![j] = n]
                 /\ n.token = job[j].token /\ n.state = job[j].state
    BY <1>t, <1>3, SMT DEF TimeStep, LeaseExpires, BecomesDue, Ages, Row
  <2> QED
    BY <2>1, OneRowWritten, OneRowClaimed
<1>4. ASSUME NEW w \in Workers, WorkerStep(w)
      PROVE  \A k \in Jobs : TokenKept(k) /\ DueWhenClaimed(k)
  <2> DEFINE j == holder[w].job
  <2>1. CASE UNCHANGED job
    BY <2>1, <1>u
  <2>2. CASE ~UNCHANGED job
    <3>1. Busy(w) /\ holder[w].retry \in BOOLEAN
      BY <1>4 DEF WorkerStep, Refuse, Execute, Renew, RenewalStops, Crash, Complete,
                  FailWrite, FailRead, Busy, IInv, RowsOK, Claim
    <3>2. j \in Jobs
      BY <3>1 DEF IInv, ClaimsNamed
    <3>3. /\ \/ job' = [job EXCEPT ![j] = ReleaseClaim(job[j])]
             \/ job' = [job EXCEPT ![j] = CompleteClaimedJob(job[j])]
             \/ job' = [job EXCEPT ![j] = FailClaimedJob(job[j], holder[w].retry)]
             \/ job' = [job EXCEPT ![j] = RenewLease(job[j])]
          /\ job[j].state = "RUNNING"
      BY <1>4, <2>2 DEF WorkerStep, Refuse, Execute, Renew, RenewalStops, Crash, Complete,
                        FailWrite, FailRead, Fenced
    <3>4. PICK n : /\ job' = [job EXCEPT ![j] = n] /\ job[j].state = "RUNNING"
                   /\ n.state # "RUNNING" \/ n.token = job[j].token
      BY <1>t, <3>1, <3>2, <3>3, EndsNotRunning, SMT
    <3> QED
      BY <3>2, <3>4, OneRowWritten, OneRowClaimed
  <2> QED
    BY <2>1, <2>2
<1> QED
  BY <1>1, <1>2, <1>3, <1>4 DEF Next

\* A message replaces no token: UpdateJob's condition wants a PENDING row.
LEMMA KafkaKeepsTokens == KInv /\ [KafkaNext]_kvars => [\A j \in Jobs : TokenKept(j)]_kvars
<1> SUFFICES ASSUME KInv, KafkaNext PROVE \A j \in Jobs : TokenKept(j)
  OBVIOUS
<1>u. UNCHANGED job => \A k \in Jobs : TokenKept(k)
  BY DEF TokenKept
<1>1. CASE CoreStep
  BY <1>1, CoreWrites DEF CoreStep, KInv
<1>2. ASSUME NEW w \in Slots, NEW t \in Tokens, ClaimFetched(w, t)
      PROVE  \A j \in Jobs : TokenKept(j)
  <2> DEFINE j == fetch[w].job
  <2>1. CASE Updatable(job[j])
    <3>1. job' = [job EXCEPT ![j] = UpdateJob(job[j], t)] /\ job[j].state # "RUNNING"
      BY <1>2, <2>1 DEF ClaimFetched, Updatable
    <3>2. j \in Jobs
      BY <1>2 DEF ClaimFetched, KInv, FetchNamed
    <3> QED
      BY <3>1, <3>2, OneRowWritten DEF KInv
  <2>2. CASE ~Updatable(job[j])
    BY <1>2, <1>u, <2>2 DEF ClaimFetched, vars
  <2> QED
    BY <2>1, <2>2
<1>3. ASSUME NEW w \in Slots,
             \/ \E j \in Jobs : Handle(w, j)
             \/ RefuseFetched(w) \/ CheckTransition(w) \/ CrashFetched(w)
      PROVE  \A j \in Jobs : TokenKept(j)
  BY <1>3, <1>u DEF Handle, RefuseFetched, CheckTransition, CrashFetched, vars
<1> QED
  BY <1>1, <1>2, <1>3 DEF KafkaNext

\* A late or repeated message never touches a job somebody else holds, for any
\* number of deliveries, workers and jobs.
THEOREM MessagesSpareClaims == KafkaSpec => MessagesDoNotSteal
<1>1. [\A j \in Jobs : TokenKept(j)]_kvars =>
        [\A j \in Jobs : job[j].state = "RUNNING" /\ job'[j].state = "RUNNING" =>
                           job'[j].token = job[j].token]_kvars
  BY DEF TokenKept
<1> QED
  BY <1>1, KafkaInvariance, KafkaKeepsTokens, PTL DEF KafkaSpec, MessagesDoNotSteal

-----------------------------------------------------------------------------
(* What the Kafka transport does to the abstract promise.  It implements   *)
(* JobLifecycle except for one kind of step.                               *)

\* The claim of a message whose job has spent attempts already: the counter goes
\* back to the first one.
ForgetfulClaim(j) ==
  /\ job[j].state = "PENDING" /\ job[j].attempt > 0
  /\ Lifecycle!Move(j, "RUNNING", 1)
  /\ UNCHANGED sweep

\* What one step of the transport is to somebody who polls a job.
KafkaLifecycleNext == Lifecycle!Next \/ \E j \in Jobs : ForgetfulClaim(j)

\* A message claims a job as JobLifecycle does if it is the job's first attempt.
LEMMA MessageClaimStep ==
  ASSUME KInv, NEW w \in Slots, NEW t \in Tokens, ClaimFetched(w, t)
  PROVE  KafkaLifecycleNext \/ UNCHANGED Lifecycle!vars
<1>1. PICK j \in Jobs : j = fetch[w].job
  BY DEF ClaimFetched, KInv, FetchNamed
<1>2. CASE ~Updatable(job[j])
  BY <1>1, <1>2 DEF ClaimFetched, vars, Lifecycle!vars
<1>3. CASE Updatable(job[j])
  <2>1. /\ job \in [Jobs -> Row] /\ job[j] \in Row /\ job[j].attempt \in Nat
        /\ MaxRetries[j] \in Nat \ {0}
    BY <1>1, StoreAssumption DEF KInv, IInv, RowsOK, Row
  <2>2. job[j].state = "PENDING" /\ job' = [job EXCEPT ![j] = UpdateJob(job[j], t)]
    BY <1>1, <1>3 DEF Updatable, ClaimFetched
  <2>3. UpdateJob(job[j], t).state = "RUNNING" /\ UpdateJob(job[j], t).attempt = 1
    BY <2>1, UpdateFields
  <2>4. Lifecycle!Move(j, "RUNNING", 1)
    BY <1>1, <2>1, <2>2, <2>3 DEF Lifecycle!Move
  <2>s. UNCHANGED sweep
    BY <1>1, <1>3 DEF ClaimFetched
  <2>5. CASE job[j].attempt = 0
    <3>1. job[j].attempt < MaxRetries[j] /\ job[j].attempt + 1 = 1
      BY <2>1, <2>5, SMT
    <3>2. Lifecycle!Claim(j)
      BY <1>1, <2>2, <2>4, <3>1 DEF Lifecycle!Claim, Lifecycle!Move
    <3> QED
      BY <1>1, <2>s, <3>2 DEF KafkaLifecycleNext, Lifecycle!Next
  <2>6. CASE job[j].attempt # 0
    <3>1. job[j].attempt > 0
      BY <2>1, <2>6, SMT
    <3> QED
      BY <1>1, <2>s, <2>2, <2>4, <3>1 DEF KafkaLifecycleNext, ForgetfulClaim
  <2> QED
    BY <2>5, <2>6
<1> QED
  BY <1>2, <1>3

\* The other steps are the core's, or leave the table alone.
LEMMA KafkaLifecycleStep ==
  KInv /\ [KafkaNext]_kvars => [KafkaLifecycleNext]_(Lifecycle!vars)
<1> SUFFICES ASSUME KInv, [KafkaNext]_kvars
             PROVE  KafkaLifecycleNext \/ UNCHANGED Lifecycle!vars
  OBVIOUS
<1>u. UNCHANGED vars => UNCHANGED Lifecycle!vars
  BY DEF vars, Lifecycle!vars
<1>1. CASE CoreStep
  BY <1>1, LifecycleStep DEF CoreStep, KInv, KafkaLifecycleNext
<1>2. ASSUME NEW w \in Slots, NEW t \in Tokens, ClaimFetched(w, t)
      PROVE  KafkaLifecycleNext \/ UNCHANGED Lifecycle!vars
  BY <1>2, MessageClaimStep
<1>3. ASSUME NEW w \in Slots,
             \/ \E j \in Jobs : Handle(w, j)
             \/ RefuseFetched(w) \/ CheckTransition(w) \/ CrashFetched(w)
      PROVE  UNCHANGED vars
  BY <1>3 DEF Handle, RefuseFetched, CheckTransition, CrashFetched
<1>4. CASE UNCHANGED kvars
  BY <1>4, <1>u DEF kvars, vars
<1> QED
  BY <1>u, <1>1, <1>2, <1>3, <1>4 DEF KafkaNext

\* The counter a late message sets back is all the Kafka transport breaks of
\* JobLifecycle: every other step of it, whatever is delivered, lost or repeated,
\* is one of the lifecycle's, and a job on its first attempt is claimed as on the
\* Postgres transport.
THEOREM KafkaAlmostLifecycle ==
  KafkaSpec => Lifecycle!Init /\ [][KafkaLifecycleNext]_(Lifecycle!vars)
<1>1. KafkaInit => Lifecycle!Init
  BY LifecycleInit DEF KafkaInit
<1> QED
  BY <1>1, KafkaInvariance, KafkaLifecycleStep, PTL DEF KafkaSpec

-----------------------------------------------------------------------------
\* A claim takes a job that is due, or answers a message.
ClaimsWhenDue(j) ==
  \/ DueWhenClaimed(j)
  \/ \E w \in Slots : fetch[w] = [pc |-> "checked", job |-> j] /\ fetch'[w] = Nothing

\* On the Postgres transport no job starts before its scheduled_at.
THEOREM PostgresHonorsBackoff == Spec => [][\A j \in Jobs : DueWhenClaimed(j)]_vars
<1>1. IInv /\ [Next]_vars => [\A j \in Jobs : DueWhenClaimed(j)]_vars
  BY CoreWrites
<1> QED
  BY <1>1, Invariance, PTL DEF Spec

\* Backoff is honored by every claim but a message's: whoever starts a job before
\* its scheduled_at had a message of it in hand that passed UpdateJob's check.
THEOREM OnlyMessagesComeEarly ==
  KafkaSpec => [][\A j \in Jobs : ClaimsWhenDue(j)]_kvars
<1>1. KInv /\ [KafkaNext]_kvars => [\A j \in Jobs : ClaimsWhenDue(j)]_kvars
  <2> SUFFICES ASSUME KInv, KafkaNext PROVE \A j \in Jobs : ClaimsWhenDue(j)
    OBVIOUS
  <2>u. UNCHANGED job => \A k \in Jobs : ClaimsWhenDue(k)
    BY DEF ClaimsWhenDue, DueWhenClaimed
  <2>1. CASE CoreStep
    BY <2>1, CoreWrites DEF CoreStep, KInv, ClaimsWhenDue
  <2>2. ASSUME NEW w \in Slots, NEW t \in Tokens, ClaimFetched(w, t)
        PROVE  \A j \in Jobs : ClaimsWhenDue(j)
    <3>1. PICK i \in Jobs : /\ i = fetch[w].job
                            /\ fetch[w] = [pc |-> "checked", job |-> i] /\ fetch'[w] = Nothing
      BY <2>2 DEF ClaimFetched, Forget, KInv, FetchNamed
    <3>2. \A j \in Jobs : j # i => job'[j] = job[j]
      BY <2>2, <3>1 DEF ClaimFetched, vars, KInv, IInv, RowsOK
    <3> QED
      BY <3>1, <3>2 DEF ClaimsWhenDue, DueWhenClaimed
  <2>3. ASSUME NEW w \in Slots,
               \/ \E j \in Jobs : Handle(w, j)
               \/ RefuseFetched(w) \/ CheckTransition(w) \/ CrashFetched(w)
        PROVE  \A j \in Jobs : ClaimsWhenDue(j)
    BY <2>3, <2>u DEF Handle, RefuseFetched, CheckTransition, CrashFetched, vars
  <2> QED
    BY <2>1, <2>2, <2>3 DEF KafkaNext
<1> QED
  BY <1>1, KafkaInvariance, PTL DEF KafkaSpec
=============================================================================
