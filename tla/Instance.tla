------------------------------ MODULE Instance ------------------------------
(***************************************************************************)
(* One server instance between the table and its handlers, in one run: how *)
(* it comes to claim what is available (Wakeups, facet "wake") and what    *)
(* its pool does with a claim until the process ends (WorkerPool, facet    *)
(* "pool").  They meet in the claim and in SubmitBlocking: Wakeups allows   *)
(* for any pool, one that never has room again included, and WorkerPool    *)
(* for any moment of a claim, so each is checked while the other stands    *)
(* still.                                                                  *)
(***************************************************************************)
EXTENDS WorkerPool

CONSTANTS Jobs, Waiters, BatchSize, MaxReturns

ASSUME InstanceAssumption == BatchSize \in Nat \ {0} /\ MaxReturns \in Nat

VARIABLES facet, job, notice, unnoticed, listener, wake, pass, waiter, returns

Wk == INSTANCE Wakeups WITH rec <- pass

wakeVars == <<job, notice, unnoticed, listener, wake, pass, waiter, returns>>

instanceVars == <<facet, vars, wakeVars>>

InstanceInit ==
  /\ facet \in {"wake", "pool"}
  /\ Init
  /\ Wk!Init

PoolStep == facet = "pool" /\ Next /\ UNCHANGED <<facet, wakeVars>>

WakeStep == facet = "wake" /\ Wk!Next /\ UNCHANGED <<facet, vars>>

\* The process is gone, or waits in pgPool.Close for the reopened session.
Ended ==
  /\ facet = "pool" /\ (Exited \/ (main = "closing" /\ reopened))
  /\ UNCHANGED instanceVars

InPool(step) == facet = "pool" /\ step /\ UNCHANGED <<facet, wakeVars>>

InWake(step) == facet = "wake" /\ step /\ UNCHANGED <<facet, vars>>

(* Fairness: goroutines take their next step, timers fire, and the         *)
(* database does not fail every claim.  A handler need not return, so the  *)
(* pool need not make room and a statement of it ends only when its        *)
(* context is cancelled; neither the listener nor a client owes anything.  *)
InstanceSpec ==
  /\ InstanceInit
  /\ [][PoolStep \/ WakeStep \/ Ended]_instanceVars
  /\ WF_instanceVars(InPool(SubmitBlocking \/ Rejected))
  /\ WF_instanceVars(InPool(ReconcilerReturns))
  /\ WF_instanceVars(InPool(signalled /\ ShutDown))
  /\ WF_instanceVars(InPool(StopPool))
  /\ WF_instanceVars(InPool(Drained \/ DrainTimesOut))
  /\ WF_instanceVars(InPool(ClosePool))
  /\ WF_instanceVars(InPool((signalled \/ running = {}) /\ Exit))
  /\ WF_instanceVars(InWake(Wk!TimerFires))
  /\ WF_instanceVars(InWake(Wk!Reaped))
  /\ WF_instanceVars(InWake(Wk!ClaimsEnd))
  /\ WF_instanceVars(InWake(Wk!PassEnds))
  /\ SF_instanceVars(InWake(\E j \in Jobs : Wk!ReconcilerClaim(j)))

-----------------------------------------------------------------------------
\* Nobody sleeps through a notification.  Waker's contract, C before the check:
\* no claim request waits unwoken for a job it was notified of.  Reconciler.Wake:
\* a reconciler that sleeps out the idle interval has not been notified of
\* anything it has not looked for.
NobodySleepsThrough == Wk!NoClaimSleepsThrough /\ Wk!ReconcilerNotAsleep

\* With every notification lost and the listener down for good, each available
\* job is claimed all the same, as long as the pool makes room: the one thing
\* that keeps the reconciler from its next pass is a claim in its hand for which
\* SubmitBlocking waits for ever.
EveryPendingClaimed ==
  \A j \in Jobs :
    (job[j] = "pending" ~> job[j] = "claimed") \/ <>[](pass.pc = "submit")
=============================================================================
