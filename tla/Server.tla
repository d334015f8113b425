------------------------------- MODULE Server -------------------------------
(***************************************************************************)
(* The life of an instance, cmd/server/main.go: a pod whose init container *)
(* migrates the database and whose server then runs, or a server started   *)
(* without migrating.  run opens one part after the other, defers what     *)
(* closes them, and may return at several points in between; what it has   *)
(* deferred is undone from the last to the first.  The orderly shutdown    *)
(* stops three parts before that.  A part is what run starts or opens, the *)
(* Kafka consumer and the goroutines that publish included.  The listener  *)
(* of the Postgres transport has a connection of its own and uses no part. *)
(***************************************************************************)
EXTENDS Migrate, Config

CONSTANTS
  Envs,       \* environments an instance may be started with
  KeysFile    \* the file that creates api_keys

VARIABLES
  env,        \* the environment, the same for every instance
  inits,      \* pods with an init container
  stage,      \* of each pod, where run is
  locker,     \* of each pod, the lock manager
  open,       \* of each pod, the parts that are running
  deferred    \* of each pod, the parts run has deferred the end of, last first

serverVars == <<env, inits, stage, locker, open, deferred>>

allVars == <<migVars, serverVars>>

\* "session" is a session of the advisory lock opened after its Close, "publish"
\* a goroutine of Enqueue.
Parts == {"pg", "locker", "session", "kafka", "workers", "reconciler", "consumer",
          "scheduler", "http", "publish"}

Cfg == LoadFromEnvironment(env)

ServerTypeOK ==
  /\ MigTypeOK
  /\ env \in Envs
  /\ inits \in (SUBSET Pods) \ {{}}
  /\ stage \in [Pods -> {"down", "lock", "transport", "workers", "reconciler",
                         "scheduler", "keys", "listen", "serving", "closing"}]
  /\ locker \in [Pods -> {"unset", "redlock", "advisory", "noop"}]
  /\ open \in [Pods -> SUBSET Parts]
  /\ \A p \in Pods : Range(deferred[p]) \subseteq Parts

ServerInit ==
  /\ MigInit
  /\ env \in Envs
  /\ inits \in (SUBSET Pods) \ {{}}
  /\ stage = [p \in Pods |-> "down"]
  /\ locker = [p \in Pods |-> "unset"]
  /\ open = [p \in Pods |-> {}]
  /\ deferred = [p \in Pods |-> <<>>]

-----------------------------------------------------------------------------
Reaches(p, s) == stage' = [stage EXCEPT ![p] = s]

\* Mutant: what was deferred first runs first.
PushFifo(stack, parts) == stack \o parts

Push(stack, parts) == parts \o stack

\* run opens parts and defers the end of some of them, the last first.
Opens(p, parts, ends) ==
  /\ open' = [open EXCEPT ![p] = @ \cup parts]
  /\ deferred' = [deferred EXCEPT ![p] = Push(@, ends)]

\* run returns an error: what it deferred is undone.
Returns(p) ==
  /\ Reaches(p, "closing")
  /\ UNCHANGED <<env, inits, locker, open, deferred>>

\* The logger and the connection pool can be built from it.
Boots == Validate(Cfg) /\ Cfg.UNCHECKED # "down"

\* bootstrap: a configuration it rejects ends the process here, the migration's
\* or the server's, with nothing opened and each time it is started.
Bootstrap(p) ==
  /\ stage[p] = "down"
  /\ Boots /\ p \in inits => step[p] = "done"
  /\ IF Boots
     THEN Opens(p, {"pg"}, <<"pg">>) /\ Reaches(p, "lock")
     ELSE UNCHANGED <<stage, open, deferred>>
  /\ UNCHANGED <<migVars, env, inits, locker>>

\* Where run may return an error before it serves.
Fallible(p) ==
  \/ stage[p] = "transport" /\ Cfg.TRANSPORT = "kafka"
  \/ stage[p] \in {"keys", "listen"}

\* It does so each time when its settings for that point are wrong.
Rejected(p) == Fallible(p) /\ Cfg.UNCHECKED = stage[p]

\* The switch on cfg.Lock.  The Redis clients and the advisory lock are closed
\* by a defer; NoOp has nothing to close.
ChooseLock(p) ==
  LET kind == IF Cfg.LOCK \in {"redlock", "advisory"} THEN Cfg.LOCK ELSE "noop" IN
  /\ stage[p] = "lock"
  /\ locker' = [locker EXCEPT ![p] = kind]
  /\ IF kind = "noop" THEN UNCHANGED <<open, deferred>>
                      ELSE Opens(p, {"locker"}, <<"locker">>)
  /\ Reaches(p, "transport")
  /\ UNCHANGED <<migVars, env, inits>>

\* The Kafka client is built, and must reach a broker, only when asked for.
ChooseTransport(p) ==
  /\ stage[p] = "transport" /\ ~Rejected(p)
  /\ IF Cfg.TRANSPORT = "kafka" THEN Opens(p, {"kafka"}, <<"kafka">>)
                                   ELSE UNCHANGED <<open, deferred>>
  /\ Reaches(p, "workers")
  /\ UNCHANGED <<migVars, env, inits, locker>>

\* The pool is started with no defer to stop it.
StartWorkers(p) ==
  /\ stage[p] = "workers"
  /\ Opens(p, {"workers"}, <<>>)
  /\ Reaches(p, "reconciler")
  /\ UNCHANGED <<migVars, env, inits, locker>>

\* The Kafka consumer is a goroutine that nothing stops.
StartReconciler(p) ==
  /\ stage[p] = "reconciler"
  /\ Opens(p, (IF Cfg.RECONCILER_ENABLED THEN {"reconciler"} ELSE {})
                 \cup (IF Cfg.TRANSPORT = "kafka" THEN {"consumer"} ELSE {}), <<"reconciler">>)
  /\ Reaches(p, "scheduler")
  /\ UNCHANGED <<migVars, env, inits, locker>>

StartScheduler(p) ==
  /\ stage[p] = "scheduler"
  /\ Opens(p, IF Cfg.SCHEDULER_ENABLED THEN {"scheduler"} ELSE {}, <<"scheduler">>)
  /\ Reaches(p, "keys")
  /\ UNCHANGED <<migVars, env, inits, locker>>

\* Mutant: an error of the check is only logged.
CheckKeysLenient(p) ==
  /\ stage[p] = "keys" /\ ~Rejected(p)
  /\ Reaches(p, "listen")
  /\ UNCHANGED <<migVars, env, inits, locker, open, deferred>>

\* Mutant: no key having been issued stops the server.
CheckKeysStrict(p) ==
  /\ stage[p] = "keys" /\ ~Rejected(p)
  /\ Returns(p)
  /\ UNCHANGED migVars

\* SetTrustedProxies, then HasActiveKeys, which reads api_keys: without the table
\* it is an error.
CheckKeys(p) ==
  /\ stage[p] = "keys" /\ ~Rejected(p)
  /\ IF KeysFile \in Range(applied)
     THEN Reaches(p, "listen") /\ UNCHANGED <<env, inits, locker, open, deferred>>
     ELSE Returns(p)
  /\ UNCHANGED migVars

Listen(p) ==
  /\ stage[p] = "listen" /\ ~Rejected(p)
  /\ Opens(p, {"http"}, <<>>)
  /\ Reaches(p, "serving")
  /\ UNCHANGED <<migVars, env, inits, locker>>

\* The settings of the client, SetTrustedProxies or the address are wrong; or, by
\* a fault that passes, no broker answers, the query fails, the port is taken, or
\* the signal comes while run waits for one of them.
StartFails(p) ==
  /\ Fallible(p)
  /\ IF Rejected(p) THEN UNCHANGED faults ELSE MigFault
  /\ Returns(p)
  /\ UNCHANGED <<lockedBy, recorded, applied, step, live, todo>>

OrderlyEnd == <<"http", "reconciler", "workers">>

\* SIGTERM, or an error of Serve: the orderly end comes before the defers.
Shutdown(p) ==
  /\ stage[p] = "serving"
  /\ Reaches(p, "closing")
  /\ deferred' = [deferred EXCEPT ![p] = OrderlyEnd \o @]
  /\ UNCHANGED <<migVars, env, inits, locker, open>>

\* pgPool.Close waits for a connection that nobody gives back.
Hangs(p) ==
  stage[p] = "closing" /\ deferred[p] # <<>> /\ Head(deferred[p]) = "pg" /\ "session" \in open[p]

\* The next part is ended; Stop of a part that is not running returns at once.
CloseNext(p) ==
  /\ stage[p] = "closing" /\ deferred[p] # <<>> /\ ~Hangs(p)
  /\ open' = [open EXCEPT ![p] = @ \ {Head(deferred[p])}]
  /\ deferred' = [deferred EXCEPT ![p] = Tail(@)]
  /\ UNCHANGED <<migVars, env, inits, stage, locker>>

\* shutCtx expires before the last request or the last job is done: the error is
\* logged, and what still runs is left behind.
StopTimesOut(p) ==
  /\ stage[p] = "closing" /\ deferred[p] # <<>>
  /\ Head(deferred[p]) \in open[p] \cap {"http", "workers"}
  /\ MigFault
  /\ deferred' = [deferred EXCEPT ![p] = Tail(@)]
  /\ UNCHANGED <<lockedBy, recorded, applied, step, live, todo, env, inits, stage, locker, open>>

\* A job left behind takes its lock after the advisory lock's Close: the lock
\* opens another session on the pool, and nobody closes that one.
Reopens(p) ==
  /\ stage[p] = "closing" /\ locker[p] = "advisory" /\ "locker" \notin open[p]
  /\ {"workers", "pg"} \subseteq open[p]
  /\ open' = [open EXCEPT ![p] = @ \cup {"session"}]
  /\ UNCHANGED <<migVars, env, inits, stage, locker, deferred>>

\* Enqueue publishes in a goroutine that nobody waits for.  Those that are done
\* before run returns have all they need and are left out.
Publishes(p) ==
  /\ stage[p] = "closing"
  /\ {"http", "scheduler"} \cap open[p] # {}
  /\ open' = [open EXCEPT ![p] = @ \cup {"publish"}]
  /\ UNCHANGED <<migVars, env, inits, stage, locker, deferred>>

Stragglers == {"workers", "http", "consumer", "publish"}

\* Left running: nothing that is still to come ends it.
Straggles(p, part) ==
  stage[p] = "closing" /\ part \in Stragglers \ Range(deferred[p])

\* What nobody waits for finishes by itself: the consumer by an error, the signal
\* or the client's Close, a session when a query on it fails, the last request.
\* The pool goes on with its queue.
Finishes(p) ==
  /\ stage[p] = "closing"
  /\ \E part \in open[p] :
       /\ part \in {"consumer", "publish", "session"} \/ (part = "http" /\ Straggles(p, part))
       /\ open' = [open EXCEPT ![p] = @ \ {part}]
  /\ UNCHANGED <<migVars, env, inits, stage, locker, deferred>>

\* The process is gone, and everything in it.
Gone(p) ==
  /\ Reaches(p, "down")
  /\ open' = [open EXCEPT ![p] = {}]
  /\ deferred' = [deferred EXCEPT ![p] = <<>>]
  /\ locker' = [locker EXCEPT ![p] = "unset"]
  /\ UNCHANGED <<env, inits>>

\* main exits; the pod is started again, its init container first.
Exit(p) ==
  /\ stage[p] = "closing" /\ deferred[p] = <<>>
  /\ Gone(p)
  /\ step' = [step EXCEPT ![p] = "start"]
  /\ UNCHANGED <<lockedBy, recorded, applied, live, todo, faults>>

Killed(p) ==
  /\ stage[p] # "down"
  /\ MigFault
  /\ Gone(p)
  /\ step' = [step EXCEPT ![p] = "start"]
  /\ UNCHANGED <<lockedBy, recorded, applied, live, todo>>

RunStep(p) ==
  \/ Bootstrap(p) \/ ChooseLock(p) \/ ChooseTransport(p) \/ StartWorkers(p)
  \/ StartReconciler(p) \/ StartScheduler(p) \/ CheckKeys(p) \/ Listen(p)
  \/ CloseNext(p) \/ Exit(p)

\* The init container goes on; the server ends the session of a dead one.
InitStep(p) ==
  /\ p \in inits /\ Boots
  /\ MigrateStep(p) \/ SessionReaped(p)
  /\ UNCHANGED serverVars

ServerNext ==
  \/ \E p \in Pods : InitStep(p)
  \/ \E p \in inits : (SessionLost(p) \/ MigrateKilled(p)) /\ UNCHANGED serverVars
  \/ \E p \in Pods : RunStep(p) \/ StartFails(p) \/ Shutdown(p) \/ Killed(p)
                    \/ StopTimesOut(p) \/ Reopens(p) \/ Publishes(p) \/ Finishes(p)

\* A process that can go on does, and the orchestrator restarts what has failed.
\* Postgres grants a lock in the order of the requests for it, so a pod that
\* waits gets its turn among others that come back again and again.  A Close
\* that has been called gives out no more connections, so it returns when those
\* that are out come back.
ServerSpec ==
  /\ ServerInit /\ [][ServerNext]_allVars
  /\ \A p \in Pods : WF_allVars(InitStep(p)) /\ SF_allVars(InitStep(p) /\ TakeLock(p))
  /\ \A p \in Pods : WF_allVars(RunStep(p)) /\ SF_allVars(CloseNext(p))

-----------------------------------------------------------------------------
Transport == IF Cfg.TRANSPORT = "kafka" THEN {"kafka"} ELSE {"pg"}

\* What a part uses while it runs, or starts something that does.
Uses(p, part) ==
  CASE part = "reconciler" -> {"pg", "workers"}
    [] part = "workers" ->
         {"pg"} \cup IF locker[p] \in {"redlock", "advisory"} THEN {"locker"} ELSE {}
    [] part = "consumer" -> {"kafka", "workers"}
    [] part \in {"scheduler", "http"} -> {"pg"} \cup Transport
    [] part = "publish" -> Transport
    [] part = "session" -> {"pg"}
    [] part = "locker" -> IF locker[p] = "advisory" THEN {"pg"} ELSE {}
    [] OTHER -> {}

\* A part has what it uses until it is ended, wherever run returns: the
\* reconciler never sends on the closed queue of the pool, and it, the scheduler
\* and the lock manager never meet a closed connection pool or producer.  So do
\* the jobs and the requests, when the orderly end is given the time to wait for
\* them.  What run leaves behind has no such promise: jobs and requests after an
\* early return or a timeout, the Kafka consumer, and Enqueue's goroutines.
UsersStopFirst ==
  \A p \in Pods : \A part \in open[p] :
    Uses(p, part) \subseteq open[p] \/ Straggles(p, part)

\* A server that serves has what it was started to rely on.  "an unmigrated
\* database stops it from starting" (docs/UPGRADING.md): it has the api_keys
\* table, and with an init container the whole schema of its release, whichever
\* pod applied it.  And it executes without a lock only when CONDUIT_LOCK says
\* none, not by a typo.
ServesMigrated ==
  \A p \in Pods : stage[p] = "serving" =>
    /\ KeysFile \in Range(applied)
    /\ p \in inits => Files[p] \subseteq Range(applied)
    /\ locker[p] = "noop" => env.LOCK = "none"

\* Every instance whose configuration passes Validate and can be run with serves
\* again and again, although migrations, servers and sessions fail on the way,
\* unless it hangs in pgPool.Close after it left a job behind and is not killed.
ServesInTheEnd ==
  Validate(Cfg) /\ Cfg.UNCHECKED = "none" =>
    \A p \in Pods : []<>(stage[p] = "serving") \/ <>[]Hangs(p)
=============================================================================
