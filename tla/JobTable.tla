------------------------------ MODULE JobTable ------------------------------
(***************************************************************************)
(* The jobs table as the clients of the API see it: what a job was created *)
(* with, the state it is in, and whether it is still there.  Workers appear*)
(* as what JobWorkers is shown to implement, the steps of JobLifecycle.    *)
(*                                                                         *)
(* DeleteFinished takes a batch.  Its subselect reads a snapshot, and the  *)
(* DELETE, when it finds a row changed since, re-checks the id only.       *)
(***************************************************************************)
EXTENDS Naturals, FiniteSets, FiniteSetsExt

CONSTANTS
  Jobs,          \* job ids, ordered as Postgres orders them; newJobID is random
  MaxRetries,    \* task_max_retries of each job
  Tenants,       \* tenants Auth admits requests for
  Times,         \* values of created_at: the clocks of several servers
  IdemKeys,      \* idempotency keys
  NoIdemKey,     \* SQL NULL in idempotency_key
  NoTenant,      \* of a job that does not exist
  BatchSize      \* cfg.Retention.BatchSize

ASSUME TableAssumption ==
  /\ Jobs \subseteq Nat /\ IsFiniteSet(Jobs) /\ Times \subseteq Nat /\ Times # {}
  /\ NoIdemKey \notin IdemKeys /\ NoTenant \notin Tenants
  /\ BatchSize \in Nat \ {0}

VARIABLES
  state, attempt,  \* columns of the jobs table, as in JobLifecycle
  meta,            \* columns a job is created with
  sweep            \* DeleteFinished under way

jobVars == <<state, attempt>>

tableVars == <<state, attempt, meta, sweep>>

Life == INSTANCE JobLifecycle WITH doomed <- sweep.picked

MaybeKeys == IdemKeys \cup {NoIdemKey}

Meta == [tenant : Tenants \cup {NoTenant}, key : MaybeKeys, at : Times]

NoMeta == [tenant |-> NoTenant, key |-> NoIdemKey, at |-> Min(Times)]

NoSweep == [target |-> "none", picked |-> {}]

TableTypeOK ==
  /\ state \in [Jobs -> {"NEW", "PENDING", "RUNNING", "COMPLETED", "DEAD", "GONE"}]
  /\ attempt \in [Jobs -> Nat]
  /\ meta \in [Jobs -> Meta]
  /\ sweep \in [target : {"none", "COMPLETED", "DEAD"}, picked : SUBSET Jobs]

TableInit ==
  /\ sweep = NoSweep
  /\ Life!Init
  /\ meta = [j \in Jobs |-> NoMeta]

-----------------------------------------------------------------------------
HasRow(j) == state[j] \notin {"NEW", "GONE"}

\* WHERE id = $1 AND tenant_id = $2.
RowOf(t, j) == HasRow(j) /\ meta[j].tenant = t

\* GetJobByIdempotencyKey, and the rows the unique index compares.
Named(t, k) == {j \in Jobs : RowOf(t, j) /\ meta[j].key = k /\ k # NoIdemKey}

\* CreateJob's INSERT, with created_at by the server's clock.
Insert(j, t, k, at) ==
  /\ Life!Submit(j)
  /\ meta' = [meta EXCEPT ![j] = [tenant |-> t, key |-> k, at |-> at]]

\* Mutant: a COMPLETED job can be requeued too.
RequeuesFinished(t, j) == RowOf(t, j) /\ state[j] \in {"COMPLETED", "DEAD"}

\* RequeueDeadJob's WHERE clause.
Requeues(t, j) == RowOf(t, j) /\ state[j] = "DEAD"

-----------------------------------------------------------------------------
\* Claims, their return, their retries and their outcomes.
WorkerMoves(j) ==
  /\ Life!Claim(j) \/ Life!GiveBack(j) \/ Life!Retry(j)
     \/ Life!Complete(j) \/ Life!Die(j)
  /\ UNCHANGED <<meta, sweep>>

\* DeleteFinished's subselect.  Any finished job may be past its age.
SweepPicks(s) ==
  /\ sweep = NoSweep
  /\ \E S \in (SUBSET {j \in Jobs : state[j] = s}) \ {{}} :
       /\ Cardinality(S) <= BatchSize
       /\ sweep' = [target |-> s, picked |-> S]
  /\ UNCHANGED <<jobVars, meta>>

\* The rows the DELETE takes: those picked, whatever they are by now.  Of a row
\* that is gone, meta keeps the tenant and the key as history.
Swept == {j \in sweep.picked : HasRow(j)}

SweepDeletes ==
  /\ sweep # NoSweep
  /\ state' = [j \in Jobs |-> IF j \in Swept THEN "GONE" ELSE state[j]]
  /\ attempt' = [j \in Jobs |-> IF j \in Swept THEN 0 ELSE attempt[j]]
  /\ meta' = [j \in Jobs |-> IF j \in Swept THEN [meta[j] EXCEPT !.at = NoMeta.at]
                                           ELSE meta[j]]
  /\ sweep' = NoSweep

-----------------------------------------------------------------------------
\* Retention of COMPLETED jobs, the only one on by default, never deletes live
\* work, although the DELETE does not look at the state again.
CompletedSweepIsSafe ==
  [][\A j \in Jobs : state[j] \in {"PENDING", "RUNNING"} /\ state'[j] = "GONE"
       => sweep.target = "DEAD"]_tableVars

\* internal/store/store.go on DeleteFinished: it "returns an error rather than
\* deleting live work".
DeletesOnlyFinished ==
  [][\A j \in Jobs : state[j] \in {"PENDING", "RUNNING"} => state'[j] # "GONE"]_tableVars
=============================================================================
