------------------------------- MODULE Wakeups -------------------------------
(***************************************************************************)
(* How a job that becomes available reaches somebody who claims it, on the *)
(* Postgres transport: the notification Enqueue sends (queue/postgres.go), *)
(* the listener's callback (cmd/server/main.go), the reconciler's loop and *)
(* its wake channel (reconciler.go), and the long-polling claims of remote *)
(* workers with their Waker (api/worker.go, queue/waker.go).               *)
(*                                                                         *)
(* One server instance.  A job is only here or not; module JobWorkers has  *)
(* its leases and attempts.                                                *)
(***************************************************************************)
EXTENDS Naturals, FiniteSets

CONSTANTS
  Jobs,
  Waiters,      \* long-polling claim requests
  BatchSize,    \* reconciler Config.BatchSize, at least 1
  MaxReturns    \* bound: claimed jobs that become PENDING again

VARIABLES
  job,         \* "new", "later" (scheduled ahead), "pending" or "claimed"
  notice,      \* jobs whose notification is on its way
  unnoticed,   \* history: jobs that became due without one, or lost theirs
  listener,    \* "down", "up", or "poked": between the callback's two calls
  wake,        \* the reconciler's wake channel holds a token
  rec,         \* the reconciler: its step, claims so far, hadWork (soon)
  waiter,      \* each claim request
  returns

vars == <<job, notice, unnoticed, listener, wake, rec, waiter, returns>>

Pending == {j \in Jobs : job[j] = "pending"}

\* pc "take" is before Wakes.C(), "check" before the claim, "empty" after one
\* that found nothing, "wait" in the select; woken says that the channel it took has been closed since.
Request == [pc : {"none", "take", "check", "empty", "wait"}, woken : BOOLEAN]

NoRequest == [pc |-> "none", woken |-> FALSE]

TypeOK ==
  /\ job \in [Jobs -> {"new", "later", "pending", "claimed"}]
  /\ notice \subseteq Jobs /\ unnoticed \subseteq Jobs
  /\ listener \in {"down", "up", "poked"}
  /\ wake \in BOOLEAN
  /\ rec \in [pc : {"sleep", "reap", "claim", "submit", "tidy"}, claimed : 0..BatchSize, soon : BOOLEAN]
  /\ waiter \in [Waiters -> Request]
  /\ returns \in 0..MaxReturns

Init ==
  /\ job = [j \in Jobs |-> "new"]
  /\ notice = {} /\ unnoticed = {}
  /\ listener = "down"
  /\ wake = FALSE
  /\ rec = [pc |-> "reap", claimed |-> 0, soon |-> FALSE]
  /\ waiter = [w \in Waiters |-> NoRequest]
  /\ returns = 0

-----------------------------------------------------------------------------
(* Jobs become available.                                                  *)

\* Enqueue: a job that is due is published after it is stored.
Enqueue(j) ==
  /\ job[j] = "new"
  /\ \/ job' = [job EXCEPT ![j] = "pending"] /\ notice' = notice \cup {j}
     \/ job' = [job EXCEPT ![j] = "later"] /\ UNCHANGED notice
  /\ UNCHANGED <<unnoticed, listener, wake, rec, waiter, returns>>

\* scheduled_at arrives: nobody notifies.
BecomesDue(j) ==
  /\ job[j] = "later"
  /\ job' = [job EXCEPT ![j] = "pending"]
  /\ unnoticed' = unnoticed \cup {j}
  /\ UNCHANGED <<notice, listener, wake, rec, waiter, returns>>

\* A claimed job is PENDING again; nobody notifies.
Requeued(j) ==
  /\ job[j] = "claimed" /\ returns < MaxReturns
  /\ returns' = returns + 1
  /\ job' = [job EXCEPT ![j] = "pending"]
  /\ unnoticed' = unnoticed \cup {j}

\* A claim fails or is released, or another instance reaps it.
Returns(j) ==
  /\ Requeued(j)
  /\ UNCHANGED <<notice, listener, wake, rec, waiter>>

-----------------------------------------------------------------------------
(* The transport.                                                          *)

\* Publish fails, or nobody is listening when pg_notify runs.
Lost(j) ==
  /\ j \in notice
  /\ notice' = notice \ {j}
  /\ unnoticed' = unnoticed \cup {j}
  /\ UNCHANGED <<job, listener, wake, rec, waiter, returns>>

\* listen connects; Run reconnects after listenerRetryDelay.
Listen ==
  /\ listener = "down"
  /\ listener' = "up"
  /\ UNCHANGED <<job, notice, unnoticed, wake, rec, waiter, returns>>

ListenerDrops ==
  /\ listener = "up"
  /\ listener' = "down"
  /\ UNCHANGED <<job, notice, unnoticed, wake, rec, waiter, returns>>

\* A notification arrives; the callback's first call is Reconciler.Wake, which
\* never blocks: a token already in the channel is enough.
Notified(j) ==
  /\ listener = "up" /\ j \in notice
  /\ notice' = notice \ {j}
  /\ wake' = TRUE
  /\ listener' = "poked"
  /\ UNCHANGED <<job, unnoticed, rec, waiter, returns>>

\* The callback's second call is Waker.Wake: everybody who holds the channel
\* is woken.
WakeWaiters ==
  /\ listener = "poked"
  /\ listener' = "up"
  /\ waiter' = [w \in Waiters |->
                  IF waiter[w].pc \in {"check", "empty", "wait"}
                  THEN [waiter[w] EXCEPT !.woken = TRUE] ELSE waiter[w]]
  /\ UNCHANGED <<job, notice, unnoticed, wake, rec, returns>>

-----------------------------------------------------------------------------
(* The claims.  Whoever claims a job takes it off everybody's hands.        *)

Claimed(j) ==
  /\ j \in Pending
  /\ job' = [job EXCEPT ![j] = "claimed"]
  /\ unnoticed' = unnoticed \ {j}

Set(w, pc, woken) == waiter' = [waiter EXCEPT ![w] = [pc |-> pc, woken |-> woken]]

ClaimJob(w) ==
  /\ waiter[w].pc = "none"
  /\ Set(w, "take", FALSE)
  /\ UNCHANGED <<job, notice, unnoticed, listener, wake, rec, returns>>

\* Wakes.C(): the channel returned is open.
Take(w) ==
  /\ waiter[w].pc = "take"
  /\ Set(w, "check", FALSE)
  /\ UNCHANGED <<job, notice, unnoticed, listener, wake, rec, returns>>

\* Queue.Claim answers with a job, or there is none.
Check(w) ==
  /\ waiter[w].pc = "check"
  /\ \/ \E j \in Jobs : Claimed(j) /\ waiter' = [waiter EXCEPT ![w] = NoRequest]
     \/ Pending = {} /\ Set(w, "empty", waiter[w].woken) /\ UNCHANGED <<job, unnoticed>>
  /\ UNCHANGED <<notice, listener, wake, rec, returns>>

\* Mutant: the channel is taken only now, after the claim found nothing.
WaitTakesLate(w) ==
  /\ waiter[w].pc = "empty"
  /\ Set(w, "wait", FALSE)
  /\ UNCHANGED <<job, notice, unnoticed, listener, wake, rec, returns>>

\* The select begins; a channel closed in the meantime is seen closed.
Wait(w) ==
  /\ waiter[w].pc = "empty"
  /\ Set(w, "wait", waiter[w].woken)
  /\ UNCHANGED <<job, notice, unnoticed, listener, wake, rec, returns>>

\* The channel is closed, or claimRetryEvery has passed: around the loop.
Retry(w) ==
  /\ waiter[w].pc = "wait"
  /\ Set(w, "take", FALSE)
  /\ UNCHANGED <<job, notice, unnoticed, listener, wake, rec, returns>>

\* The deadline has passed, the claim failed, or the client is gone.
GiveUp(w) ==
  /\ waiter[w].pc \in {"check", "empty", "wait"}
  /\ waiter' = [waiter EXCEPT ![w] = NoRequest]
  /\ UNCHANGED <<job, notice, unnoticed, listener, wake, rec, returns>>

-----------------------------------------------------------------------------
(* The reconciler.                                                         *)

Pass == rec' = [pc |-> "reap", claimed |-> 0, soon |-> FALSE]

\* Mutant: only the short interval has a timer.
TimerFiresSoon ==
  /\ rec.pc = "sleep" /\ rec.soon
  /\ Pass
  /\ UNCHANGED <<job, notice, unnoticed, listener, wake, waiter, returns>>

\* Interval or IdleInterval has passed.
TimerFires ==
  /\ rec.pc = "sleep"
  /\ Pass
  /\ UNCHANGED <<job, notice, unnoticed, listener, wake, waiter, returns>>

WakeReceived ==
  /\ rec.pc = "sleep" /\ wake
  /\ wake' = FALSE
  /\ Pass
  /\ UNCHANGED <<job, notice, unnoticed, listener, waiter, returns>>

\* RequeueExpiredRunning finds a job of a dead worker: hadWork.
Reap(j) ==
  /\ rec.pc = "reap"
  /\ Requeued(j)
  /\ rec' = [rec EXCEPT !.soon = TRUE]
  /\ UNCHANGED <<notice, listener, wake, waiter>>

\* It returns; when it failed that is hadWork too, and the pass goes on.
Reaped ==
  /\ rec.pc = "reap"
  /\ \E failed \in BOOLEAN :
       rec' = [rec EXCEPT !.pc = "claim", !.soon = @ \/ failed]
  /\ UNCHANGED <<job, notice, unnoticed, listener, wake, waiter, returns>>

ReconcilerClaim(j) ==
  /\ rec.pc = "claim" /\ rec.claimed < BatchSize
  /\ Claimed(j)
  /\ rec' = [rec EXCEPT !.pc = "submit", !.claimed = @ + 1]
  /\ UNCHANGED <<notice, listener, wake, waiter, returns>>

\* SubmitBlocking has found room in the pool's queue.
Submitted ==
  /\ rec.pc = "submit"
  /\ rec' = [rec EXCEPT !.pc = "claim"]
  /\ UNCHANGED <<job, notice, unnoticed, listener, wake, waiter, returns>>

\* Nothing is left, or the batch is full; sweepRetention and sampleBacklog
\* follow, and neither counts as work.
ClaimsEnd ==
  /\ rec.pc = "claim"
  /\ Pending = {} \/ rec.claimed = BatchSize
  /\ rec' = [pc |-> "tidy", claimed |-> 0, soon |-> rec.soon \/ rec.claimed > 0]
  /\ UNCHANGED <<job, notice, unnoticed, listener, wake, waiter, returns>>

\* reconcile returns hadWork, and nextInterval goes by that.
PassEnds ==
  /\ rec.pc = "tidy"
  /\ rec' = [rec EXCEPT !.pc = "sleep"]
  /\ UNCHANGED <<job, notice, unnoticed, listener, wake, waiter, returns>>

\* ClaimNextJob fails: reconcile returns true.
PassFails ==
  /\ rec.pc = "claim"
  /\ rec' = [pc |-> "sleep", claimed |-> 0, soon |-> TRUE]
  /\ UNCHANGED <<job, notice, unnoticed, listener, wake, waiter, returns>>

-----------------------------------------------------------------------------
Next ==
  \/ \E j \in Jobs :
       \/ Enqueue(j) \/ BecomesDue(j) \/ Returns(j)
       \/ Lost(j) \/ Notified(j) \/ Reap(j) \/ ReconcilerClaim(j)
  \/ Listen \/ ListenerDrops \/ WakeWaiters
  \/ \E w \in Waiters : ClaimJob(w) \/ Take(w) \/ Check(w) \/ Wait(w) \/ Retry(w) \/ GiveUp(w)
  \/ TimerFires \/ WakeReceived \/ Reaped \/ Submitted \/ ClaimsEnd \/ PassEnds \/ PassFails

Spec == Init /\ [][Next]_vars

-----------------------------------------------------------------------------
\* Waker's contract, C before the check: no request sleeps through a
\* notification.  While one waits unwoken, a job that is available was never
\* notified, or its notification has not been handled yet.
NoClaimSleepsThrough ==
  \A w \in Waiters : waiter[w].pc = "wait" /\ ~waiter[w].woken =>
    \A j \in Pending : j \in notice \cup unnoticed \/ listener = "poked"

\* The same of the reconciler: when it sleeps out the idle interval with no
\* wake to receive, there is nothing it was notified of.
ReconcilerNotAsleep ==
  rec.pc = "sleep" /\ ~rec.soon /\ ~wake => Pending \subseteq notice \cup unnoticed
=============================================================================
