----------------------------- MODULE WorkerPool -----------------------------
(***************************************************************************)
(* The in-process worker pool (internal/worker/pool.go) with those who feed *)
(* it, the reconciler and the Kafka consumer, and the shutdown of one       *)
(* server instance (the end of run in cmd/server/main.go).                  *)
(*                                                                         *)
(* A claim is a job whose row the reconciler has made RUNNING before it is *)
(* submitted, a message one that Run claims itself.  The pool, the         *)
(* reconciler and the jobs that run all work under the context the signal  *)
(* cancels, and no statement succeeds on a cancelled context.  What becomes *)
(* of a row whose lease runs out is module JobWorkers' subject.            *)
(***************************************************************************)
EXTENDS Naturals, Sequences, FiniteSets

CONSTANTS
  Claims,         \* jobs the reconciler claims
  Messages,       \* jobs the Kafka consumer submits
  NoItem,
  Concurrency,    \* Config.Concurrency
  QueueSize       \* Config.QueueSize

Items == Claims \cup Messages

ASSUME PoolAssumption ==
  /\ Claims \cap Messages = {} /\ NoItem \notin Items
  /\ Concurrency \in Nat \ {0} /\ QueueSize \in Nat

VARIABLES
  main,         \* run: "serving", waiting in Stop of one of the two, running
                \* its deferred calls once Pool.Stop is "drained" or
                \* "timedout", "closing" pgPool, "exit"
  signalled,    \* the context of run is cancelled
  row,          \* the job's row: "pending", "running", "settled" or "left":
                \* RUNNING although this process is done with it
  rec,          \* the reconciler and the claim in its hand
  consumer,     \* the Kafka consumer and the message it is submitting
  queue, closed,    \* p.jobs
  loop,         \* the pool's dispatch goroutine and the job in its hand
  running,      \* jobs in Runner.Run, one semaphore token each
  panicked,     \* a send on the closed channel
  reopened,     \* advisory.Close is over, and a Run has opened a new session
  fate          \* history: how far the item got since it was last claimed

vars == <<main, signalled, row, rec, consumer, queue, closed, loop, running,
          panicked, reopened, fate>>

At(pc, i) == [pc |-> pc, item |-> i]

TypeOK ==
  /\ main \in {"serving", "reconciler", "pool", "drained", "timedout", "closing", "exit"}
  /\ signalled \in BOOLEAN /\ closed \in BOOLEAN
  /\ panicked \in BOOLEAN /\ reopened \in BOOLEAN
  /\ row \in [Items -> {"pending", "running", "settled", "left"}]
  /\ rec \in [pc : {"idle", "holding", "stopped"}, item : Claims \cup {NoItem}]
  /\ consumer \in Messages \cup {NoItem}
  /\ queue \in Seq(Items) /\ Len(queue) <= QueueSize
  /\ loop \in [pc : {"select", "semaphore", "exited"}, item : Items \cup {NoItem}]
  /\ running \subseteq Items /\ Cardinality(running) <= Concurrency
  /\ fate \in [Items -> {"none", "rejected", "accepted", "finished", "dropped"}]

Init ==
  /\ main = "serving" /\ signalled = FALSE
  /\ row = [i \in Items |-> "pending"]
  /\ rec = At("idle", NoItem)
  /\ consumer = NoItem
  /\ queue = <<>> /\ closed = FALSE
  /\ loop = At("select", NoItem)
  /\ running = {} /\ panicked = FALSE /\ reopened = FALSE
  /\ fate = [i \in Items |-> "none"]

Exited == main = "exit" \/ panicked

\* No statement of a job succeeds any more.
Severed == signalled \/ main = "closing"

\* The reconciler's context: a child of run's that its own Stop cancels too.
RecCancelled == signalled \/ main # "serving"

-----------------------------------------------------------------------------
(* The reconciler's loop over ClaimNextJob.                                *)

ClaimNextJob(i) ==
  /\ ~Exited /\ ~RecCancelled
  /\ rec.pc = "idle" /\ row[i] = "pending"
  /\ rec' = At("holding", i)
  /\ row' = [row EXCEPT ![i] = "running"]
  /\ fate' = [fate EXCEPT ![i] = "none"]
  /\ UNCHANGED <<main, signalled, consumer, queue, closed, loop, running, panicked, reopened>>

\* A send on p.jobs: it panics when the channel is closed.
Send(i) ==
  IF closed
  THEN panicked' = TRUE /\ UNCHANGED <<queue, fate>>
  ELSE /\ Len(queue) < QueueSize
       /\ queue' = Append(queue, i)
       /\ fate' = [fate EXCEPT ![i] = "accepted"]
       /\ UNCHANGED panicked

\* Mutant: the reconciler submits without waiting for room.
SubmitOrDrop ==
  /\ ~Exited /\ rec.pc = "holding"
  /\ Send(rec.item) \/ (Len(queue) = QueueSize /\ UNCHANGED <<queue, fate, panicked>>)
  /\ rec' = At("idle", NoItem)
  /\ UNCHANGED <<main, signalled, row, consumer, closed, loop, running, reopened>>

\* SubmitBlocking waits for room in the queue.  Its select may take the send
\* although the context is done.
SubmitBlocking ==
  /\ ~Exited /\ rec.pc = "holding"
  /\ Send(rec.item)
  /\ rec' = At("idle", NoItem)
  /\ UNCHANGED <<main, signalled, row, consumer, closed, loop, running, reopened>>

\* The context is done, so the pool refuses the claim, and reconcile calls
\* ReleaseClaim with that same context.
Rejected ==
  /\ ~Exited /\ rec.pc = "holding" /\ RecCancelled
  /\ row' = [row EXCEPT ![rec.item] = IF RecCancelled THEN "left" ELSE "pending"]
  /\ fate' = [fate EXCEPT ![rec.item] = "rejected"]
  /\ rec' = At("idle", NoItem)
  /\ UNCHANGED <<main, signalled, consumer, queue, closed, loop, running, panicked, reopened>>

ReconcilerReturns ==
  /\ ~Exited /\ rec.pc = "idle" /\ RecCancelled
  /\ rec' = At("stopped", NoItem)
  /\ UNCHANGED <<main, signalled, row, consumer, queue, closed, loop, running, panicked, reopened, fate>>

-----------------------------------------------------------------------------
(* kafkaJobHandler.Handle.                                                 *)

Places(i) ==
  (IF rec.item = i THEN 1 ELSE 0) + (IF consumer = i THEN 1 ELSE 0)
  + Cardinality({n \in DOMAIN queue : queue[n] = i})
  + (IF loop.item = i THEN 1 ELSE 0) + (IF i \in running THEN 1 ELSE 0)

\* Submit has found the context alive; kafkaClient.Close comes before pgPool's.
Handle(i) ==
  /\ ~Exited /\ ~Severed
  /\ consumer = NoItem /\ row[i] = "pending" /\ Places(i) = 0
  /\ consumer' = i
  /\ UNCHANGED <<main, signalled, row, rec, queue, closed, loop, running, panicked, reopened, fate>>

\* Submit's select: room, a full queue or a cancelled context.
Submit ==
  /\ ~Exited /\ consumer # NoItem
  /\ \/ Send(consumer)
     \/ /\ signalled \/ (~closed /\ Len(queue) = QueueSize)
        /\ UNCHANGED <<queue, panicked, fate>>
  /\ consumer' = NoItem
  /\ UNCHANGED <<main, signalled, row, rec, closed, loop, running, reopened>>

-----------------------------------------------------------------------------
(* The pool.                                                               *)

Take ==
  /\ ~Exited /\ loop.pc = "select" /\ queue # <<>>
  /\ loop' = At("semaphore", Head(queue))
  /\ queue' = Tail(queue)
  /\ UNCHANGED <<main, signalled, row, rec, consumer, closed, running, panicked, reopened, fate>>

\* A semaphore token is free: Run starts, whether or not the context is alive.
\* It claims the job of a message, unless that statement fails.
StartRun ==
  /\ ~Exited /\ loop.pc = "semaphore" /\ Cardinality(running) < Concurrency
  /\ running' = running \cup {loop.item}
  /\ row' = [row EXCEPT ![loop.item] = IF Severed THEN @ ELSE "running"]
  /\ loop' = At("select", NoItem)
  /\ UNCHANGED <<main, signalled, rec, consumer, queue, closed, panicked, reopened, fate>>

\* Run returns.  Its outcome (or, when the breaker or the lock refused, its
\* release) is written under the pool's context.  "left" is the Run that writes
\* nothing although it could: Complete, Fail or ReleaseClaim fails and is only
\* logged, the handler panics and the pool recovers, or scheduled_at is too far
\* ahead.
RunReturns(i, outcome) ==
  /\ ~Exited /\ i \in running
  /\ running' = running \ {i}
  /\ row' = [row EXCEPT ![i] = IF row[i] # "running" THEN @
                               ELSE IF Severed THEN "left" ELSE outcome]
  /\ fate' = [fate EXCEPT ![i] = IF row[i] # "running" \/ outcome = "pending" THEN "none"
                                 ELSE IF outcome = "left" THEN "dropped" ELSE "finished"]
  /\ UNCHANGED <<main, signalled, rec, consumer, queue, closed, loop, panicked, reopened>>

\* Mutant: the goroutine leaves when the channel is closed, whatever is in it.
LoopExitsOnClose ==
  /\ ~Exited /\ loop.pc = "select"
  /\ signalled \/ closed
  /\ loop' = At("exited", NoItem)
  /\ UNCHANGED <<main, signalled, row, rec, consumer, queue, closed, running, panicked, reopened, fate>>

\* The dispatch goroutine leaves: the context is done, whatever is queued, or
\* the channel is closed and empty.
LoopExits ==
  /\ ~Exited /\ loop.pc = "select"
  /\ signalled \/ (closed /\ queue = <<>>)
  /\ loop' = At("exited", NoItem)
  /\ UNCHANGED <<main, signalled, row, rec, consumer, queue, closed, running, panicked, reopened, fate>>

-----------------------------------------------------------------------------
(* run: the signal or a server error, Reconciler.Stop, Pool.Stop.          *)

Signal ==
  /\ ~Exited /\ ~signalled
  /\ signalled' = TRUE
  /\ UNCHANGED <<main, row, rec, consumer, queue, closed, loop, running, panicked, reopened, fate>>

\* ctx.Done(), or Serve has returned an error and the context lives on.
ShutDown ==
  /\ ~Exited /\ main = "serving"
  /\ main' = "reconciler"
  /\ UNCHANGED <<signalled, row, rec, consumer, queue, closed, loop, running, panicked, reopened, fate>>

\* Reconciler.Stop has waited for its goroutine; Pool.Stop closes the channel.
StopPool ==
  /\ ~Exited /\ main = "reconciler" /\ rec.pc = "stopped"
  /\ main' = "pool" /\ closed' = TRUE
  /\ UNCHANGED <<signalled, row, rec, consumer, queue, loop, running, panicked, reopened, fate>>

\* Pool.Stop: the wait group is done, or shutCtx is.
Drained ==
  /\ ~Exited /\ main = "pool" /\ loop.pc = "exited" /\ running = {}
  /\ main' = "drained"
  /\ UNCHANGED <<signalled, row, rec, consumer, queue, closed, loop, running, panicked, reopened, fate>>

\* Mutant: Stop waits for running jobs whatever its context says.
DrainWaitsOn ==
  /\ ~Exited /\ main = "pool" /\ running = {}
  /\ main' = "timedout"
  /\ UNCHANGED <<signalled, row, rec, consumer, queue, closed, loop, running, panicked, reopened, fate>>

DrainTimesOut ==
  /\ ~Exited /\ main = "pool"
  /\ main' = "timedout"
  /\ UNCHANGED <<signalled, row, rec, consumer, queue, closed, loop, running, panicked, reopened, fate>>

\* A Run that the drain did not wait for takes its lock after advisory.Close,
\* which leaves nothing behind that says closed: session takes a connection of
\* pgPool again, and nobody gives it back.
ReopenSession ==
  /\ ~Exited /\ main = "timedout" /\ running # {}
  /\ reopened' = TRUE
  /\ UNCHANGED <<main, signalled, row, rec, consumer, queue, closed, loop, running, panicked, fate>>

\* The deferred calls get to pgPool.Close, which lets nobody acquire any more.
ClosePool ==
  /\ ~Exited /\ main \in {"drained", "timedout"}
  /\ main' = "closing"
  /\ UNCHANGED <<signalled, row, rec, consumer, queue, closed, loop, running, panicked, reopened, fate>>

\* pgPool.Close has every connection back, and the process ends with what it
\* holds; the rows stay RUNNING.  A Run may or may not have a connection out.
Exit ==
  /\ ~Exited /\ main = "closing" /\ ~reopened
  /\ main' = "exit"
  /\ row' = [i \in Items |-> IF row[i] = "running" THEN "left" ELSE row[i]]
  /\ UNCHANGED <<signalled, rec, consumer, queue, closed, loop, running, panicked, reopened, fate>>

-----------------------------------------------------------------------------
Next ==
  \/ \E i \in Claims : ClaimNextJob(i)
  \/ SubmitBlocking \/ Rejected \/ ReconcilerReturns
  \/ \E i \in Messages : Handle(i)
  \/ Submit
  \/ Take \/ StartRun \/ LoopExits
  \/ \E i \in Items, outcome \in {"settled", "pending", "left"} : RunReturns(i, outcome)
  \/ Signal \/ ShutDown \/ StopPool \/ Drained \/ DrainTimesOut
  \/ ReopenSession \/ ClosePool \/ Exit

Spec == Init /\ [][Next]_vars

-----------------------------------------------------------------------------
\* Nothing claimed is mislaid: until the process ends a job whose claim it
\* holds is in exactly one place, and while the reconciler's context is alive
\* nobody gives a claim up unsettled but the Run that executes it.
NoClaimMislaid ==
  \A i \in Claims :
    /\ ~Exited /\ row[i] = "running" => Places(i) = 1
    /\ row[i] = "left" => RecCancelled \/ fate[i] = "dropped"

\* Stop closes the queue and waits for in-flight work: when it returns nil after
\* a server error, not a signal, every job the pool accepted has been run.
DrainIsComplete ==
  main = "drained" /\ ~signalled =>
    \A i \in Claims : fate[i] = "accepted" => row[i] \notin {"running", "left"}

\* Submit and SubmitBlocking answer true or false: nobody sends on the channel
\* Stop has closed.
NoSendOnClosed == ~panicked

\* run stops the reconciler before the pool so that SubmitBlocking never meets
\* the closed channel: a send on it is never one of the reconciler's.
ReconcilerStopsFirst == [][panicked' # panicked => rec' = rec]_vars

\* Shutdown comes to an end, although no job that is running need ever return
\* and the reconciler may be waiting for room in the queue.  Only pgPool.Close,
\* after a drain that timed out, can wait for ever: for the statement of a job
\* whose context nobody has cancelled, or for the session of a lock manager that
\* a late Run has opened again.
ShutdownEnds ==
  \/ (signalled \/ main # "serving") ~> Exited
  \/ <>[](main = "closing" /\ (reopened \/ (~signalled /\ running # {})))

\* reconcile's comment on a claim the pool rejects: the job is going back for
\* whoever starts next.
RejectedGoBack == \A i \in Claims : fate[i] = "rejected" => row[i] # "left"

\* The server drains in-flight work before exit: what a job that ran to its end
\* achieved is recorded.
FinishedIsRecorded == \A i \in Items : fate[i] = "finished" => row[i] = "settled"
=============================================================================
