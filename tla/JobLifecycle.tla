---------------------------- MODULE JobLifecycle ----------------------------
(***************************************************************************)
(* What Conduit promises about a job, seen by somebody who polls           *)
(* GET /api/jobs/:id and knows nothing of leases, workers or reapers: the  *)
(* states it moves through, and the number of attempts it may spend.       *)
(* Only the deletion of finished jobs shows that it is not one moment: it  *)
(* chooses, and what it has chosen goes even when it has been requeued in  *)
(* the meantime.  JobWorkers implements this specification, and so do the  *)
(* calls of JobAPI.                                                        *)
(***************************************************************************)
EXTENDS Naturals

CONSTANTS Jobs, MaxRetries

VARIABLES
  state,     \* "NEW", "PENDING", "RUNNING", "COMPLETED", "DEAD" or "GONE"
  attempt,   \* claims spent since the job was enqueued or requeued
  doomed     \* jobs that a deletion has chosen and may yet take

vars == <<state, attempt, doomed>>

Init ==
  /\ state = [j \in Jobs |-> "NEW"]
  /\ attempt = [j \in Jobs |-> 0]
  /\ doomed = {}

Move(j, to, n) ==
  /\ state' = [state EXCEPT ![j] = to]
  /\ attempt' = [attempt EXCEPT ![j] = n]

Submit(j) ==
  /\ state[j] = "NEW"
  /\ Move(j, "PENDING", 0)

\* A claim is only ever made while the budget has an attempt left.
Claim(j) ==
  /\ state[j] = "PENDING"
  /\ attempt[j] < MaxRetries[j]
  /\ Move(j, "RUNNING", attempt[j] + 1)

\* A claim nothing was tried under is not an attempt.
GiveBack(j) ==
  /\ state[j] = "RUNNING"
  /\ attempt[j] > 0
  /\ Move(j, "PENDING", attempt[j] - 1)

\* A failed or lost attempt is repeated only within the budget.
Retry(j) ==
  /\ state[j] = "RUNNING"
  /\ attempt[j] < MaxRetries[j]
  /\ Move(j, "PENDING", attempt[j])

Complete(j) ==
  /\ state[j] = "RUNNING"
  /\ Move(j, "COMPLETED", attempt[j])

\* Cancelled, failed for good, or out of attempts.
Die(j) ==
  /\ state[j] \in {"PENDING", "RUNNING"}
  /\ Move(j, "DEAD", attempt[j])

\* The one way out of DEAD, and the only one that renews the budget.
Requeue(j) ==
  /\ state[j] = "DEAD"
  /\ Move(j, "PENDING", 0)

\* Only a finished job is ever chosen for deletion.
Choose ==
  /\ \E S \in SUBSET {j \in Jobs : state[j] \in {"COMPLETED", "DEAD"}} :
       doomed' = doomed \cup S
  /\ UNCHANGED <<state, attempt>>

\* A deletion takes jobs it has chosen, whatever they are by then, or gives
\* some of them up.  COMPLETED has no way out, so only a job chosen DEAD and
\* requeued since can be taken while it is PENDING or RUNNING.
Prune ==
  \E S \in SUBSET doomed :
    /\ state' = [j \in Jobs |-> IF j \in S THEN "GONE" ELSE state[j]]
    /\ attempt' = [j \in Jobs |-> IF j \in S THEN 0 ELSE attempt[j]]
    /\ doomed' \in SUBSET (doomed \ S)

Next ==
  \/ /\ \E j \in Jobs :
          \/ Submit(j) \/ Claim(j) \/ GiveBack(j) \/ Retry(j)
          \/ Complete(j) \/ Die(j) \/ Requeue(j)
     /\ UNCHANGED doomed
  \/ Choose
  \/ Prune

Spec == Init /\ [][Next]_vars
=============================================================================
