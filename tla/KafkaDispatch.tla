---------------------------- MODULE KafkaDispatch ----------------------------
(***************************************************************************)
(* The Kafka transport (internal/queue/kafka.go, kafkaJobHandler and the   *)
(* claim in jobWorker.Run) added to JobWorkers.  A message carries a copy  *)
(* of the job as Enqueue stored it.  It may arrive late, more than once or *)
(* never, and whoever takes it claims the job with UpdateJob: a SELECT, a  *)
(* check of the state machine, and a conditional UPDATE.                   *)
(***************************************************************************)
EXTENDS JobWorkers

CONSTANT MaxDeliveries    \* bound: times one message is delivered

ASSUME KafkaAssumption == MaxDeliveries \in Nat

VARIABLES
  topic,    \* deliveries each job's message has left
  fetch     \* a delivered message in hand of each pool slot

kvars == <<job, holder, started, sweep, topic, fetch>>

Nothing == [pc |-> "none", job |-> NoJob]

KafkaTypeOK ==
  /\ TypeOK
  /\ topic \in [Jobs -> 0..MaxDeliveries]
  /\ fetch \in [Slots -> [pc : {"none", "fetched", "checked"}, job : Jobs \cup {NoJob}]]

KafkaInit ==
  /\ Init
  /\ topic = [j \in Jobs |-> 0]
  /\ fetch = [w \in Slots |-> Nothing]

-----------------------------------------------------------------------------
\* Enqueue publishes a job that is due.  The goroutine that sends it, the
\* broker and the consumer's lag together are the wait before Handle.
Publish ==
  topic' = [j \in Jobs |->
              IF job[j].state = "NEW" /\ job'[j].state = "PENDING"
                 /\ job'[j].sched = "due"
              THEN MaxDeliveries ELSE topic[j]]

\* A step of JobWorkers.  A slot with a message in hand is not free for the
\* reconciler.
CoreStep ==
  /\ Next
  /\ \A w \in Slots : ~Busy(w) /\ Busy(w)' => fetch[w].pc = "none"
  /\ Publish
  /\ UNCHANGED fetch

Forget(w) == fetch' = [fetch EXCEPT ![w] = Nothing]

\* Handle submits the message to the pool, whether or not this delivery is the
\* first.  A full pool leaves the job to the reconciler, as a lost message.
Handle(w, j) ==
  /\ topic[j] > 0
  /\ ~Busy(w) /\ fetch[w].pc = "none"
  /\ topic' = [topic EXCEPT ![j] = @ - 1]
  /\ fetch' = [fetch EXCEPT ![w] = [pc |-> "fetched", job |-> j]]
  /\ UNCHANGED vars

\* The breaker or the lock refuses: there is no claim to release.
RefuseFetched(w) ==
  /\ fetch[w].pc = "fetched"
  /\ Forget(w)
  /\ UNCHANGED <<vars, topic>>

\* UpdateJob: GetJob and CanTransition.
CheckTransition(w) ==
  LET r == job[fetch[w].job] IN
  /\ fetch[w].pc = "fetched"
  /\ IF HasRow(r) /\ CanTransition(r.state, "RUNNING")
     THEN fetch' = [fetch EXCEPT ![w].pc = "checked"]
     ELSE Forget(w)
  /\ UNCHANGED <<vars, topic>>

\* UpdateJob: the conditional UPDATE, and on success the handler starts.
ClaimFetched(w, t) ==
  LET j == fetch[w].job IN
  /\ fetch[w].pc = "checked"
  /\ Fresh(t)
  /\ IF Updatable(job[j])
     THEN /\ job' = [job EXCEPT ![j] = UpdateJob(@, t)]
          /\ holder' = [holder EXCEPT
                          ![w] = [Idle EXCEPT !.pc = "running", !.job = j,
                                              !.token = t, !.renewing = TRUE]]
          /\ started' = [started EXCEPT ![j] = @ + 1]
          /\ UNCHANGED sweep
     ELSE UNCHANGED vars
  /\ Forget(w)
  /\ UNCHANGED topic

CrashFetched(w) ==
  /\ fetch[w].pc # "none"
  /\ Forget(w)
  /\ UNCHANGED <<vars, topic>>

KafkaNext ==
  \/ CoreStep
  \/ \E w \in Slots :
       \/ \E j \in Jobs : Handle(w, j)
       \/ \E t \in Tokens : ClaimFetched(w, t)
       \/ RefuseFetched(w) \/ CheckTransition(w) \/ CrashFetched(w)

KafkaSpec == KafkaInit /\ [][KafkaNext]_kvars

-----------------------------------------------------------------------------
\* The claim decides: whatever the transport delivers, the columns of a claim
\* stay consistent, the budget column stays within its bounds, one worker owns
\* the row and a retry it has decided on is still within the budget.
ClaimDecides == LeaseColumns /\ AttemptBudget /\ OneOwner /\ FailDecisionCurrent

\* A late or repeated message does not touch a job somebody else holds: the
\* token of a RUNNING row is only ever replaced by way of PENDING.
MessagesDoNotSteal ==
  [][\A j \in Jobs :
       job[j].state = "RUNNING" /\ job'[j].state = "RUNNING" =>
         job'[j].token = job[j].token]_kvars

\* Main.go's Run honors scheduled_at so that retry backoff delays execution: a
\* job is only claimed once it is due.
BackoffHonored ==
  [][\A j \in Jobs :
       job[j].state = "PENDING" /\ job'[j].state = "RUNNING" =>
         job[j].sched = "due"]_kvars
=============================================================================
