------------------------------ MODULE APIProofs ------------------------------
(***************************************************************************)
(* Proofs about what a client of the API meets: the keys that admit its    *)
(* requests (Auth), the calls that change the jobs table (JobAPI) and the  *)
(* walks that read it (JobList).  They hold for any clients, keys, tenants *)
(* and jobs, any filters and limits, and for every order in which requests,*)
(* workers and retention take their steps.                                 *)
(***************************************************************************)
EXTENDS Auth, JobAPI, JobList, FiniteSetTheorems, WellFoundedInduction, TLAPS

\* Steps without arithmetic are left to Zenon; the others name their prover.
USE Zenon

-----------------------------------------------------------------------------
\* The history a request carries is true of the table it is checked against: a
\* key recorded as revoked is revoked, and while a request is recorded as
\* guarded there is a live key.  AdmittedRightly alone says nothing of a
\* request between the middleware's two questions.
HistoryTrue ==
  \A c \in Clients :
    /\ req[c].late => req[c].key \in Issued /\ keys[req[c].key] = "revoked"
    /\ req[c].guarded => HasActiveKeys

AuthInv == AuthTypeOK /\ HistoryTrue /\ AdmittedRightly

\* No key and no request satisfy the invariant.
LEMMA AuthInitial == AuthInit => AuthInv
<1> SUFFICES ASSUME AuthInit PROVE AuthInv
  OBVIOUS
<1>1. NoRequest \in Request
  BY DEF NoRequest, Request, Presentable, ActsFor
<1> QED
  BY <1>1 DEF AuthInit, AuthInv, AuthTypeOK, HistoryTrue, AdmittedRightly, NoRequest

\* Issuing a key makes no request better or worse.
LEMMA CreateKeyStep ==
  ASSUME AuthInv, NEW k \in Issued, CreateKey(k)
  PROVE  AuthInv'
<1>1. AuthTypeOK'
  BY DEF AuthInv, AuthTypeOK, CreateKey
<1>2. HistoryTrue'
  BY DEF AuthInv, AuthTypeOK, CreateKey, HistoryTrue, HasActiveKeys, Live
<1>3. AdmittedRightly'
  BY DEF AuthInv, CreateKey, AdmittedRightly
<1> QED
  BY <1>1, <1>2, <1>3 DEF AuthInv

\* Revoking one updates what the requests under way have lived through.
LEMMA RevokeKeyStep ==
  ASSUME AuthInv, NEW k \in Issued, RevokeKey(k)
  PROVE  AuthInv'
<1> DEFINE h == HasActiveKeys'
<1>0. h \in BOOLEAN
  BY DEF HasActiveKeys
<1>1. /\ keys' = [keys EXCEPT ![k] = "revoked"]
      /\ req' = [c \in Clients |-> [req[c] EXCEPT !.guarded = @ /\ h]]
      /\ static' = static
  BY DEF RevokeKey
<1>2. ASSUME NEW c \in Clients
      PROVE  /\ req'[c] \in Request
             /\ req'[c].pc = req[c].pc /\ req'[c].key = req[c].key
             /\ req'[c].tenant = req[c].tenant /\ req'[c].late = req[c].late
             /\ req'[c].guarded => req[c].guarded /\ h
  <2>1. req[c] \in Request /\ req'[c] = [req[c] EXCEPT !.guarded = @ /\ h]
    BY <1>1 DEF AuthInv, AuthTypeOK
  <2> HIDE DEF h
  <2> QED
    BY <2>1, <1>0 DEF Request
<1>3. AuthTypeOK'
  <2>1. req' \in [Clients -> Request]
    <3> HIDE DEF h
    <3> QED
      BY <1>1, <1>2
  <2> QED
    BY <2>1, <1>1 DEF AuthInv, AuthTypeOK
<1>4. HistoryTrue'
  BY <1>1, <1>2 DEF AuthInv, AuthTypeOK, HistoryTrue
<1>5. AdmittedRightly'
  BY <1>1, <1>2, SMT DEF AuthInv, AdmittedRightly
<1> QED
  BY <1>3, <1>4, <1>5 DEF AuthInv

\* A request that arrives records what is so.
LEMMA PresentStep ==
  ASSUME AuthInv, NEW c \in Clients, NEW k \in Presentable, Present(c, k)
  PROVE  AuthInv'
<1> DEFINE r == [pc |-> CASE k \in static -> "in" [] k = NoKey -> "open" [] OTHER -> "lookup",
                 key |-> k, tenant |-> Default, guarded |-> HasActiveKeys,
                 late |-> k \in Issued /\ keys[k] = "revoked"]
<1>1. req' = [req EXCEPT ![c] = r] /\ static' = static /\ keys' = keys
  BY DEF Present
<1>2. /\ r.pc \in {"in", "open", "lookup"} /\ (r.pc = "in" => k \in static)
      /\ r.key = k /\ r.tenant = Default
      /\ r.guarded = HasActiveKeys
      /\ r.late => k \in Issued /\ keys[k] = "revoked"
      /\ r \in Request
  <2>1. HasActiveKeys \in BOOLEAN /\ (k \in Issued /\ keys[k] = "revoked") \in BOOLEAN
    BY DEF HasActiveKeys
  <2>2. Default \in ActsFor
    BY DEF ActsFor
  <2> QED
    BY <2>1, <2>2 DEF Request
<1> HIDE DEF r
<1>3. AuthTypeOK'
  BY <1>1, <1>2 DEF AuthInv, AuthTypeOK
<1>4. HistoryTrue'
  BY <1>1, <1>2 DEF AuthInv, AuthTypeOK, HistoryTrue, HasActiveKeys, Live
<1>5. AdmittedRightly'
  BY <1>1, <1>2 DEF AuthInv, AuthTypeOK, AdmittedRightly
<1> QED
  BY <1>3, <1>4, <1>5 DEF AuthInv

\* A request that moves on keeps its key and its history, and is admitted only
\* where it may be.
LEMMA RequestStep ==
  ASSUME AuthInv, NEW c \in Clients, NEW p \in {"idle", "lookup", "open", "in"},
         NEW t \in ActsFor,
         req' = [req EXCEPT ![c].pc = p, ![c].tenant = t],
         keys' = keys, static' = static,
         p = "in" =>
           \/ req[c].key \in static /\ t = Default
           \/ req[c].key \in Issued /\ t = KeyTenant[req[c].key] /\ ~req[c].late
           \/ static = {} /\ t = Default /\ ~req[c].guarded
  PROVE  AuthInv'
<1>1. /\ req' \in [Clients -> Request]
      /\ req'[c].pc = p /\ req'[c].tenant = t /\ req'[c].key = req[c].key
      /\ req'[c].late = req[c].late /\ req'[c].guarded = req[c].guarded
      /\ \A d \in Clients \ {c} : req'[d] = req[d]
  BY DEF AuthInv, AuthTypeOK, Request
<1>2. AuthTypeOK'
  BY <1>1 DEF AuthInv, AuthTypeOK
<1>3. HistoryTrue'
  BY <1>1, SMT DEF AuthInv, HistoryTrue, HasActiveKeys, Live
<1>4. AdmittedRightly'
  BY <1>1, SMT DEF AuthInv, AdmittedRightly
<1> QED
  BY <1>2, <1>3, <1>4 DEF AuthInv

\* A request that is answered is none.
LEMMA RespondStep ==
  ASSUME AuthInv, NEW c \in Clients, Respond(c), keys' = keys, static' = static
  PROVE  AuthInv'
<1>1. NoRequest \in Request
  BY DEF NoRequest, Request, Presentable, ActsFor
<1>2. /\ req' \in [Clients -> Request] /\ req'[c] = NoRequest
      /\ \A d \in Clients \ {c} : req'[d] = req[d]
  BY <1>1 DEF AuthInv, AuthTypeOK, Respond
<1> QED
  BY <1>2, SMT DEF AuthInv, AuthTypeOK, HistoryTrue, AdmittedRightly, HasActiveKeys, Live,
              NoRequest

\* Every step preserves the invariant.
LEMMA AuthStepInv ==
  ASSUME AuthInv, [AuthStep]_authVars
  PROVE  AuthInv'
<1>1. CASE UNCHANGED authVars
  BY <1>1 DEF AuthInv, AuthTypeOK, HistoryTrue, AdmittedRightly, HasActiveKeys, Live,
              authVars
<1>2. ASSUME NEW k \in Issued, CreateKey(k) \/ RevokeKey(k) PROVE AuthInv'
  BY <1>2, CreateKeyStep, RevokeKeyStep
<1>3. ASSUME NEW c \in Clients, NEW k \in Presentable, Present(c, k) PROVE AuthInv'
  BY <1>3, PresentStep
<1>4. ASSUME NEW c \in Clients, TenantForKey(c) PROVE AuthInv'
  <2>0. req[c] \in Request /\ req \in [Clients -> Request]
    BY DEF AuthInv, AuthTypeOK
  <2>1. CASE Finds(req[c].key)
    <3>1. req[c].key \in Issued /\ ~req[c].late
      BY <2>1 DEF Finds, Live, AuthInv, HistoryTrue
    <3>2. KeyTenant[req[c].key] \in ActsFor
      BY <3>1 DEF ActsFor
    <3>3. req' = [req EXCEPT ![c].pc = "in", ![c].tenant = KeyTenant[req[c].key]]
          /\ keys' = keys /\ static' = static
      BY <1>4, <2>1 DEF TenantForKey, Enter
    <3> QED
      BY <3>1, <3>2, <3>3, RequestStep
  <2>2. CASE ~Finds(req[c].key)
    <3>1. req' = [req EXCEPT ![c].pc = "open"] /\ keys' = keys /\ static' = static
      BY <1>4, <2>2 DEF TenantForKey
    <3>2. req' = [req EXCEPT ![c].pc = "open", ![c].tenant = req[c].tenant]
          /\ req[c].tenant \in ActsFor
      BY <2>0, <3>1 DEF Request
    <3> QED
      BY <3>1, <3>2, RequestStep
  <2> QED
    BY <2>1, <2>2
<1>5. ASSUME NEW c \in Clients, Open(c) PROVE AuthInv'
  <2>1. CASE static = {} /\ ~HasActiveKeys
    <3>1. ~req[c].guarded
      BY <2>1 DEF AuthInv, HistoryTrue
    <3>2. Default \in ActsFor
      BY DEF ActsFor
    <3>3. req' = [req EXCEPT ![c].pc = "in", ![c].tenant = Default]
          /\ keys' = keys /\ static' = static
      BY <1>5, <2>1 DEF Open, Enter
    <3> QED
      BY <2>1, <3>1, <3>2, <3>3, RequestStep
  <2>2. CASE ~(static = {} /\ ~HasActiveKeys)
    BY <1>5, <2>2, RespondStep DEF Open
  <2> QED
    BY <2>1, <2>2
<1>6. ASSUME NEW c \in Clients, CheckFails(c) \/ Handled(c) PROVE AuthInv'
  BY <1>6, RespondStep DEF CheckFails, Handled
<1> QED
  BY <1>1, <1>2, <1>3, <1>4, <1>5, <1>6 DEF AuthStep

\* APIKeyAuth admits a request for a tenant only with a configured key, a key
\* of that tenant not revoked before the request, or on an instance that had no
\* key at some moment of it, however keys are issued and revoked between
\* TenantForKey and HasActiveKeys.
THEOREM AdmissionIsRight == AuthSpec => []AdmittedRightly
<1>1. AuthInit => AuthInv
  BY AuthInitial
<1>2. AuthInv /\ [AuthStep]_authVars => AuthInv'
  BY AuthStepInv
<1>3. AuthInv => AdmittedRightly
  BY DEF AuthInv
<1> QED
  BY <1>1, <1>2, <1>3, PTL DEF AuthSpec
-----------------------------------------------------------------------------
\* The unique index on (tenant_id, idempotency_key).
UniqueKeys ==
  \A i, j \in Jobs :
    /\ HasRow(i) /\ HasRow(j)
    /\ meta[i].tenant = meta[j].tenant
    /\ meta[i].key = meta[j].key /\ meta[i].key # NoIdemKey
    => i = j

\* What the sweep of COMPLETED jobs has picked stays COMPLETED, or goes.
PickedFinished ==
  /\ sweep.target = "none" => sweep.picked = {}
  /\ sweep.target = "COMPLETED" =>
       \A j \in sweep.picked : state[j] \in {"COMPLETED", "GONE"}

\* What a handler knows while it waits for its next statement, and after its
\* answer.  A duplicate it was told of is there until retention deletes it; a
\* job it was asked about was created once.
Told(c) ==
  /\ call[c].op = "created" =>
       /\ call[c].id \in Jobs /\ state[call[c].id] # "NEW"
       /\ meta[call[c].id].tenant = call[c].tenant
       /\ meta[call[c].id].key = call[c].key
  /\ call[c].op \in {"insert", "again"} => call[c].tenant \in Tenants
  /\ call[c].op = "again" => call[c].pruned \/ Named(call[c].tenant, call[c].key) # {}
  /\ call[c].op = "lost" => call[c].pruned
  /\ call[c].op \in {"cancel", "why", "absent"} =>
       call[c].id \in Jobs /\ state[call[c].id] # "NEW"
  /\ call[c].op = "absent" => ~RowOf(call[c].tenant, call[c].id)

CallInv ==
  /\ CallTypeOK /\ UniqueKeys /\ PickedFinished
  /\ \A c \in Callers : Told(c)

\* What no step does to a job: take back its creation, change the tenant and
\* the key it was created with, or bring a finished or deleted one back to life
\* other than by requeueing a DEAD one.
JobKept(j) ==
  /\ state[j] # "NEW" =>
       /\ state'[j] # "NEW"
       /\ meta'[j].tenant = meta[j].tenant /\ meta'[j].key = meta[j].key
  /\ state[j] = "GONE" => state'[j] = "GONE"
  /\ state[j] = "COMPLETED" => state'[j] \in {"COMPLETED", "GONE"}

\* The values of created_at have a least one, and NoMeta is of its type.
LEMMA LeastTime == Min(Times) \in Times
<1>1. PICK x \in Times : \A y \in Times : ~(<<y, x>> \in OpToRel(<, Nat))
  BY TableAssumption, NatLessThanWellFounded, WFMin
<1>2. \A y \in Times : ~(y < x)
  BY <1>1, TableAssumption DEF OpToRel
<1>3. \A y \in Times : x <= y
  BY <1>2, TableAssumption, SMT
<1> QED
  BY <1>3 DEF Min

\* An empty table has its types, and no key twice.
LEMMA TableInitial ==
  ASSUME TableInit
  PROVE  TableTypeOK /\ UniqueKeys /\ PickedFinished /\ \A j \in Jobs : state[j] = "NEW"
<1>1. NoMeta \in Meta
  BY LeastTime DEF NoMeta, Meta, MaybeKeys
<1>2. TableTypeOK
  BY <1>1 DEF TableInit, TableTypeOK, Life!Init, NoSweep
<1> QED
  BY <1>2 DEF TableInit, Life!Init, UniqueKeys, PickedFinished, HasRow, NoSweep

\* An INSERT adds the one row, which nothing was before.
LEMMA InsertStep ==
  ASSUME TableTypeOK, NEW j \in Jobs, NEW t \in Tenants, NEW k \in MaybeKeys,
         NEW at \in Times, Insert(j, t, k, at), sweep' = sweep
  PROVE  /\ TableTypeOK' /\ \A i \in Jobs : JobKept(i)
         /\ state[j] = "NEW" /\ state'[j] = "PENDING"
         /\ meta'[j].tenant = t /\ meta'[j].key = k
         /\ \A i \in Jobs \ {j} : state'[i] = state[i] /\ meta'[i] = meta[i]
<1>1. [tenant |-> t, key |-> k, at |-> at] \in Meta
  BY DEF Meta
<1> QED
  BY <1>1 DEF TableTypeOK, Insert, Life!Submit, Life!Move, JobKept

\* A job that is not finished, or DEAD, changes its state and keeps its row.
LEMMA MoveStep ==
  ASSUME TableTypeOK, NEW j \in Jobs, state[j] \in {"PENDING", "RUNNING", "DEAD"},
         NEW to \in {"PENDING", "RUNNING", "COMPLETED", "DEAD"}, NEW n \in Nat,
         Life!Move(j, to, n), meta' = meta, sweep' = sweep
  PROVE  /\ TableTypeOK' /\ \A i \in Jobs : JobKept(i)
         /\ \A i \in Jobs : HasRow(i)' <=> HasRow(i)
BY DEF TableTypeOK, Life!Move, JobKept, HasRow

\* The steps of workers are such moves.
LEMMA WorkerStep ==
  ASSUME TableTypeOK, NEW j \in Jobs, WorkerMoves(j)
  PROVE  /\ TableTypeOK' /\ \A i \in Jobs : JobKept(i)
         /\ \A i \in Jobs : HasRow(i)' <=> HasRow(i)
         /\ meta' = meta /\ sweep' = sweep
<1>1. meta' = meta /\ sweep' = sweep /\ attempt[j] \in Nat
  BY DEF WorkerMoves, TableTypeOK
<1>2. CASE Life!Claim(j)
  BY <1>1, <1>2, MoveStep, SMT DEF Life!Claim
<1>3. CASE Life!GiveBack(j)
  <2>1. attempt[j] - 1 \in Nat
    BY <1>1, <1>3, SMT DEF Life!GiveBack
  <2> QED
    BY <2>1, <1>1, <1>3, MoveStep DEF Life!GiveBack
<1>4. CASE Life!Retry(j)
  BY <1>1, <1>4, MoveStep DEF Life!Retry
<1>5. CASE Life!Complete(j)
  BY <1>1, <1>5, MoveStep DEF Life!Complete
<1>6. CASE Life!Die(j)
  BY <1>1, <1>6, MoveStep DEF Life!Die
<1> QED
  BY <1>2, <1>3, <1>4, <1>5, <1>6 DEF WorkerMoves

\* The subselect of a sweep changes no row.
LEMMA PickStep ==
  ASSUME TableTypeOK, NEW s \in {"COMPLETED", "DEAD"}, SweepPicks(s)
  PROVE  /\ TableTypeOK' /\ state' = state /\ meta' = meta
         /\ PickedFinished'
<1>1. PICK S \in SUBSET {j \in Jobs : state[j] = s} :
        sweep' = [target |-> s, picked |-> S]
  BY DEF SweepPicks
<1>2. state' = state /\ attempt' = attempt /\ meta' = meta
  BY DEF SweepPicks, jobVars
<1> QED
  BY <1>1, <1>2 DEF TableTypeOK, PickedFinished

\* Its DELETE removes rows that were picked, and touches no other.
LEMMA DeleteStep ==
  ASSUME TableTypeOK, SweepDeletes
  PROVE  /\ TableTypeOK' /\ \A i \in Jobs : JobKept(i)
         /\ PickedFinished'
         /\ \A i \in Jobs :
              IF i \in Swept THEN state'[i] = "GONE"
                             ELSE state'[i] = state[i] /\ meta'[i] = meta[i]
<1>1. \A i \in Jobs : meta[i] \in Meta
  BY DEF TableTypeOK
<1>2. NoMeta.at \in Times
  BY LeastTime DEF NoMeta
<1>3. ASSUME NEW i \in Jobs
      PROVE  /\ [meta[i] EXCEPT !.at = NoMeta.at] \in Meta
             /\ [meta[i] EXCEPT !.at = NoMeta.at].tenant = meta[i].tenant
             /\ [meta[i] EXCEPT !.at = NoMeta.at].key = meta[i].key
  BY <1>1, <1>2 DEF Meta
<1>4. meta' \in [Jobs -> Meta]
  BY <1>1, <1>3 DEF SweepDeletes
<1>5. TableTypeOK'
  BY <1>4 DEF TableTypeOK, SweepDeletes, NoSweep
<1>6. \A i \in Jobs : JobKept(i)
  BY <1>3 DEF TableTypeOK, SweepDeletes, JobKept
<1> QED
  BY <1>5, <1>6 DEF SweepDeletes, PickedFinished, NoSweep

\* A row keeps its tenant and key, so one that stays leaves the index as it is.
LEMMA UniqueStable ==
  ASSUME UniqueKeys, \A i \in Jobs : JobKept(i),
         \A i \in Jobs : HasRow(i)' => HasRow(i)
  PROVE  UniqueKeys'
BY SMT DEF UniqueKeys, JobKept, HasRow

\* A COMPLETED job cannot be requeued, so what was picked stays what it was.
LEMMA PickedStable ==
  ASSUME TableTypeOK, PickedFinished, \A i \in Jobs : JobKept(i), sweep' = sweep
  PROVE  PickedFinished'
BY DEF TableTypeOK, PickedFinished, JobKept

\* A handler's knowledge outlives every step but a deletion, which is not part
\* of a handler.
LEMMA ToldStable ==
  ASSUME CallInv, NEW d \in Callers, call'[d] = call[d],
         \A i \in Jobs : JobKept(i), \A i \in Jobs : HasRow(i) => HasRow(i)'
  PROVE  Told(d)'
<1>1. Told(d) /\ state \in [Jobs -> {"NEW", "PENDING", "RUNNING", "COMPLETED", "DEAD", "GONE"}]
  BY DEF CallInv, CallTypeOK, TableTypeOK
<1>2. ASSUME call[d].op \in {"cancel", "why", "absent"}
      PROVE  call[d].id \in Jobs /\ state'[call[d].id] # "NEW"
  BY <1>1, <1>2 DEF Told, JobKept
<1>3. ASSUME call[d].op = "absent" PROVE ~RowOf(call[d].tenant, call[d].id)'
  <2>1. PICK j \in Jobs : j = call[d].id
    BY <1>2, <1>3
  <2>2. state[j] # "NEW" /\ ~RowOf(call[d].tenant, j)
    BY <1>1, <1>3, <2>1 DEF Told
  <2>3. JobKept(j)
    OBVIOUS
  <2> QED
    BY <2>1, <2>2, <2>3 DEF JobKept, RowOf, HasRow
<1>4. ASSUME NEW t, NEW k, Named(t, k) # {} PROVE Named(t, k)' # {}
  <2>1. PICK j \in Jobs : j \in Named(t, k)
    BY <1>4 DEF Named
  <2>2. HasRow(j)' /\ JobKept(j) /\ state[j] # "NEW"
    BY <2>1 DEF Named, RowOf, HasRow
  <2>3. j \in Named(t, k)'
    BY <2>1, <2>2 DEF Named, RowOf, JobKept
  <2> QED
    BY <2>3
<1>5. call[d].op = "created" =>
        /\ call[d].id \in Jobs /\ state'[call[d].id] # "NEW"
        /\ meta'[call[d].id].tenant = call[d].tenant
        /\ meta'[call[d].id].key = call[d].key
  BY <1>1 DEF Told, JobKept
<1>6. call[d].op = "again" => call[d].pruned \/ (Named(call[d].tenant, call[d].key) # {})'
  BY <1>1, <1>4 DEF Told
<1> QED
  BY <1>1, <1>2, <1>3, <1>5, <1>6 DEF Told

\* A handler's step is right for the others when it keeps rows, and for its own
\* request when what it does next is true.
LEMMA HandlerKeeps ==
  ASSUME CallInv, NEW c \in Callers, NEW r \in Call, call' = [call EXCEPT ![c] = r],
         TableTypeOK', UniqueKeys', sweep' = sweep,
         \A i \in Jobs : JobKept(i), \A i \in Jobs : HasRow(i) => HasRow(i)',
         Told(c)'
  PROVE  CallInv'
<1>1. call' \in [Callers -> Call] /\ \A d \in Callers \ {c} : call'[d] = call[d]
  BY DEF CallInv, CallTypeOK
<1>2. CallTypeOK'
  BY <1>1 DEF CallTypeOK
<1>3. PickedFinished'
  BY PickedStable DEF CallInv, CallTypeOK
<1>4. \A d \in Callers : Told(d)'
  BY <1>1, ToldStable
<1> QED
  BY <1>2, <1>3, <1>4 DEF CallInv

\* A statement that only reads.
LEMMA ReadKeeps ==
  ASSUME CallInv, NEW c \in Callers, NEW r \in Call, call' = [call EXCEPT ![c] = r],
         UNCHANGED tableVars, Told(c)'
  PROVE  CallInv'
<1>1. state' = state /\ attempt' = attempt /\ meta' = meta /\ sweep' = sweep
  BY DEF tableVars
<1>2. TableTypeOK' /\ UniqueKeys'
  BY <1>1 DEF CallInv, CallTypeOK, TableTypeOK, UniqueKeys, HasRow
<1>3. \A i \in Jobs : JobKept(i) /\ (HasRow(i) => HasRow(i)')
  BY <1>1 DEF JobKept, HasRow
<1> QED
  BY <1>1, <1>2, <1>3, HandlerKeeps

\* A request that was answered with nothing a property looks at.
LEMMA NothingTold ==
  ASSUME NEW c \in Callers, call'[c] = NoCall PROVE Told(c)'
BY SMT DEF Told, NoCall

\* A record of call is changed as its handler changes it.
LEMMA CallRecords ==
  ASSUME CallInv, NEW c \in Callers,
         NEW op \in {"insert", "again", "cancel", "why", "created", "absent", "lost", "none"},
         NEW j \in Jobs \cup {0}, Continue(c, op, j)
  PROVE  \E r \in Call :
           /\ call' = [call EXCEPT ![c] = r] /\ call'[c] = r
           /\ r.op = op /\ r.tenant = call[c].tenant /\ r.key = call[c].key
           /\ r.id = j /\ r.pruned = call[c].pruned
<1>1. call \in [Callers -> Call] /\ call[c] \in Call
  BY DEF CallInv, CallTypeOK
<1> DEFINE r == [call[c] EXCEPT !.op = op, !.id = j]
<1>2. r \in Call /\ r.op = op /\ r.tenant = call[c].tenant /\ r.key = call[c].key
      /\ r.id = j /\ r.pruned = call[c].pruned
  BY <1>1 DEF Call
<1>3. call' = [call EXCEPT ![c] = r]
  BY <1>1 DEF Continue
<1> HIDE DEF r
<1>4. call'[c] = r
  BY <1>1, <1>3
<1> QED
  BY <1>2, <1>3, <1>4

\* A request that is answered with nothing leaves the table as it is.
LEMMA DoneReads ==
  ASSUME CallInv, NEW c \in Callers, Done(c), UNCHANGED tableVars
  PROVE  CallInv'
<1>1. NoCall \in Call
  BY DEF NoCall, Call, MaybeKeys
<1>2. call' = [call EXCEPT ![c] = NoCall] /\ call'[c] = NoCall
  BY DEF Done, CallInv, CallTypeOK
<1> QED
  BY <1>1, <1>2, NothingTold, ReadKeeps

\* Enqueue's first lookup answers with a job it has found.
LEMMA EnqueueStep ==
  ASSUME CallInv, NEW c \in Callers, NEW t \in Tenants, NEW k \in MaybeKeys,
         EnqueueJob(c, t, k)
  PROVE  CallInv'
<1> DEFINE r(op, j) == [op |-> op, tenant |-> t, key |-> k, id |-> j, pruned |-> FALSE]
<1>1. UNCHANGED tableVars /\ state' = state /\ meta' = meta
  BY DEF EnqueueJob, tableVars
<1>2. \A op \in {"insert", "created"}, j \in Jobs \cup {0} : r(op, j) \in Call
  BY DEF Call
<1>3. ASSUME NEW j \in Named(t, k), Begin(c, "created", t, k, j) PROVE CallInv'
  <2>1. j \in Jobs /\ HasRow(j) /\ meta[j].tenant = t /\ meta[j].key = k
    BY <1>3 DEF Named, RowOf
  <2>2. call' = [call EXCEPT ![c] = r("created", j)] /\ call'[c] = r("created", j)
    BY <1>3 DEF Begin, CallInv, CallTypeOK
  <2>3. Told(c)'
    BY <1>1, <2>1, <2>2, SMT DEF Told, HasRow
  <2> QED
    BY <1>1, <1>2, <2>1, <2>2, <2>3, ReadKeeps
<1>4. ASSUME Begin(c, "insert", t, k, 0) PROVE CallInv'
  <2>1. call' = [call EXCEPT ![c] = r("insert", 0)] /\ call'[c] = r("insert", 0)
    BY <1>4 DEF Begin, CallInv, CallTypeOK
  <2>2. Told(c)'
    BY <2>1, SMT DEF Told
  <2> QED
    BY <1>1, <1>2, <2>1, <2>2, ReadKeeps
<1> QED
  BY <1>3, <1>4 DEF EnqueueJob

\* CreateJob inserts a row whose key no row has, or the index refuses it.
LEMMA CreateStep ==
  ASSUME CallInv, NEW c \in Callers, NEW j \in Jobs, NEW at \in Times,
         NEW answered \in BOOLEAN, CreateJob(c, j, at, answered)
  PROVE  CallInv'
<1> DEFINE t == call[c].tenant
           k == call[c].key
<1>1. TableTypeOK /\ t \in Tenants /\ k \in MaybeKeys /\ call[c] \in Call
  BY DEF CreateJob, CallInv, CallTypeOK, Told, Call
<1>2. Insert(j, t, k, at) /\ sweep' = sweep
  BY DEF CreateJob
<1>3. /\ TableTypeOK' /\ \A i \in Jobs : JobKept(i)
      /\ state[j] = "NEW" /\ state'[j] = "PENDING"
      /\ meta'[j].tenant = t /\ meta'[j].key = k
      /\ \A i \in Jobs \ {j} : state'[i] = state[i] /\ meta'[i] = meta[i]
  <2> HIDE DEF t, k
  <2> QED
    BY <1>1, <1>2, InsertStep
<1>4. \A i \in Jobs : HasRow(i) => HasRow(i)'
  BY <1>3 DEF HasRow
<1>5. UniqueKeys'
  <2>1. \A i \in Jobs : HasRow(i) /\ meta[i].tenant = t /\ meta[i].key = k => k = NoIdemKey
    BY DEF CreateJob, Duplicate, Named, RowOf
  <2>2. \A i \in Jobs \ {j} : HasRow(i)' => HasRow(i)
    BY <1>3 DEF HasRow
  <2>3. UniqueKeys
    BY DEF CallInv
  <2> HIDE DEF t, k
  <2> QED
    BY <1>3, <2>1, <2>2, <2>3, SMT DEF UniqueKeys
<1>6. CASE answered
  <2>1. Continue(c, "created", j)
    BY <1>6 DEF CreateJob
  <2>2. PICK r \in Call :
          /\ call' = [call EXCEPT ![c] = r] /\ call'[c] = r
          /\ r.op = "created" /\ r.tenant = t /\ r.key = k
          /\ r.id = j /\ r.pruned = call[c].pruned
    BY <2>1, CallRecords, SMT
  <2> HIDE DEF t, k
  <2>3. Told(c)'
    BY <1>3, <2>2 DEF Told
  <2> QED
    BY <1>2, <1>3, <1>4, <1>5, <2>2, <2>3, HandlerKeeps
<1>7. CASE ~answered
  <2>1. NoCall \in Call
    BY DEF NoCall, Call, MaybeKeys
  <2>2. call' = [call EXCEPT ![c] = NoCall] /\ call'[c] = NoCall
    BY <1>7 DEF CreateJob, Done, CallInv, CallTypeOK
  <2>3. Told(c)'
    BY <2>2, NothingTold
  <2> QED
    BY <1>2, <1>3, <1>4, <1>5, <2>1, <2>2, <2>3, HandlerKeeps
<1> QED
  BY <1>6, <1>7

\* Of the duplicate's two steps, the first sees the row and the second does not
\* only when retention came between.
LEMMA DuplicateStep ==
  ASSUME CallInv, NEW c \in Callers, CreateDuplicate(c) \/ LookupAgain(c)
  PROVE  CallInv'
<1>1. UNCHANGED tableVars /\ state' = state /\ meta' = meta
  BY DEF CreateDuplicate, LookupAgain, tableVars
<1>2. Told(c) /\ call[c] \in Call
  BY DEF CallInv, CallTypeOK
<1>3. CASE CreateDuplicate(c)
  <2>1. Continue(c, "again", 0) /\ call[c].op = "insert"
        /\ Named(call[c].tenant, call[c].key) # {}
    BY <1>3 DEF CreateDuplicate, Duplicate
  <2>2. PICK r \in Call :
          /\ call' = [call EXCEPT ![c] = r] /\ call'[c] = r
          /\ r.op = "again" /\ r.tenant = call[c].tenant /\ r.key = call[c].key
    BY <2>1, CallRecords, SMT
  <2>3. Told(c)'
    BY <1>1, <1>2, <2>1, <2>2, SMT DEF Told, Named, RowOf, HasRow
  <2> QED
    BY <1>1, <2>2, <2>3, ReadKeeps
<1>4. ASSUME LookupAgain(c), NEW j \in Found(c), Continue(c, "created", j) PROVE CallInv'
  <2>1. j \in Jobs /\ HasRow(j) /\ meta[j].tenant = call[c].tenant
        /\ meta[j].key = call[c].key
    BY <1>4 DEF Found, Named, RowOf
  <2>2. PICK r \in Call :
          /\ call' = [call EXCEPT ![c] = r] /\ call'[c] = r
          /\ r.op = "created" /\ r.tenant = call[c].tenant /\ r.key = call[c].key /\ r.id = j
    BY <1>4, <2>1, CallRecords, SMT
  <2>3. Told(c)'
    BY <1>1, <2>1, <2>2 DEF Told, HasRow
  <2> QED
    BY <1>1, <2>2, <2>3, ReadKeeps
<1>5. ASSUME LookupAgain(c), Found(c) = {}, Continue(c, "lost", 0) PROVE CallInv'
  <2>1. call[c].pruned
    BY <1>2, <1>5 DEF LookupAgain, Found, Told
  <2>2. PICK r \in Call :
          /\ call' = [call EXCEPT ![c] = r] /\ call'[c] = r
          /\ r.op = "lost" /\ r.pruned = call[c].pruned
    BY <1>5, CallRecords, SMT
  <2>3. Told(c)'
    BY <2>1, <2>2 DEF Told
  <2> QED
    BY <1>1, <2>2, <2>3, ReadKeeps
<1> QED
  BY <1>3, <1>4, <1>5 DEF LookupAgain

\* A handler that moves a job keeps the others' knowledge true.
LEMMA MoveKeeps ==
  ASSUME CallInv, NEW c \in Callers, NEW j \in Jobs,
         state[j] \in {"PENDING", "RUNNING", "DEAD"}, NEW to \in {"PENDING", "DEAD"},
         NEW n \in Nat, Life!Move(j, to, n), meta' = meta, sweep' = sweep, Done(c)
  PROVE  CallInv'
<1>1. /\ TableTypeOK' /\ \A i \in Jobs : JobKept(i)
      /\ \A i \in Jobs : HasRow(i)' <=> HasRow(i)
  BY MoveStep DEF CallInv, CallTypeOK
<1>2. UniqueKeys'
  BY <1>1, UniqueStable DEF CallInv
<1>3. NoCall \in Call
  BY DEF NoCall, Call, MaybeKeys
<1>4. call' = [call EXCEPT ![c] = NoCall] /\ call'[c] = NoCall
  BY DEF Done, CallInv, CallTypeOK
<1>5. Told(c)'
  BY <1>4, NothingTold
<1> QED
  BY <1>1, <1>2, <1>3, <1>4, <1>5, HandlerKeeps

\* CancelJob reads the row before Cancel's fenced UPDATE; a row that is not
\* there was created once, and so stays away.
LEMMA CancelStep ==
  ASSUME CallInv, NEW c \in Callers, NEW t \in Tenants, NEW j \in Jobs,
         CancelJob(c, t, j)
  PROVE  CallInv'
<1> DEFINE op == IF RowOf(t, j) THEN "cancel" ELSE "absent"
           r  == [op |-> op, tenant |-> t, key |-> NoIdemKey, id |-> j, pruned |-> FALSE]
<1>1. UNCHANGED tableVars /\ state' = state /\ meta' = meta /\ state[j] # "NEW"
  BY DEF CancelJob, tableVars
<1>2. r \in Call
  BY DEF Call, MaybeKeys
<1>3. call' = [call EXCEPT ![c] = r] /\ call'[c] = r
  BY DEF CancelJob, Begin, CallInv, CallTypeOK
<1>4. Told(c)'
  BY <1>1, <1>3, SMT DEF Told, RowOf, HasRow
<1> QED
  BY <1>1, <1>2, <1>3, <1>4, ReadKeeps

\* A request that found no row to update asks why.
LEMMA CancelWriteStep ==
  ASSUME CallInv, NEW c \in Callers, CancelWrite(c)
  PROVE  CallInv'
<1>0. call[c].op = "cancel" /\ meta' = meta /\ sweep' = sweep /\ Told(c)
  BY DEF CancelWrite, CallInv
<1>1. PICK j \in Jobs : j = call[c].id /\ state[j] # "NEW"
  BY <1>0 DEF Told
<1>2. CASE RowOf(call[c].tenant, j) /\ state[j] \in {"PENDING", "RUNNING"}
  <2>1. Life!Die(j) /\ Done(c)
    BY <1>1, <1>2 DEF CancelWrite
  <2>2. Life!Move(j, "DEAD", attempt[j]) /\ attempt[j] \in Nat
    BY <2>1 DEF Life!Die, CallInv, CallTypeOK, TableTypeOK
  <2> QED
    BY <1>0, <1>2, <2>1, <2>2, MoveKeeps
<1>3. CASE ~(RowOf(call[c].tenant, j) /\ state[j] \in {"PENDING", "RUNNING"})
  <2>1. Continue(c, "why", j) /\ state' = state /\ attempt' = attempt
    BY <1>1, <1>3 DEF CancelWrite, jobVars
  <2>2. PICK r \in Call :
          /\ call' = [call EXCEPT ![c] = r] /\ call'[c] = r /\ r.op = "why" /\ r.id = j
    BY <2>1, CallRecords, SMT
  <2>3. Told(c)'
    BY <1>1, <2>1, <2>2 DEF Told
  <2>4. UNCHANGED tableVars
    BY <1>0, <2>1 DEF tableVars
  <2> QED
    BY <2>2, <2>3, <2>4, ReadKeeps
<1> QED
  BY <1>2, <1>3

\* RequeueDeadJob, or the read that tells 409 from 404 next.
LEMMA RequeueStep ==
  ASSUME CallInv, NEW c \in Callers, NEW t \in Tenants, NEW j \in Jobs,
         RequeueJob(c, t, j)
  PROVE  CallInv'
<1>0. meta' = meta /\ sweep' = sweep /\ state[j] # "NEW"
  BY DEF RequeueJob
<1>1. CASE Requeues(t, j)
  <2>1. Life!Move(j, "PENDING", 0) /\ Done(c) /\ state[j] = "DEAD"
    BY <1>1 DEF RequeueJob, Requeues
  <2> QED
    BY <1>0, <2>1, MoveKeeps
<1>2. CASE ~Requeues(t, j)
  <2> DEFINE r == [op |-> "why", tenant |-> t, key |-> NoIdemKey, id |-> j, pruned |-> FALSE]
  <2>1. Begin(c, "why", t, NoIdemKey, j) /\ state' = state /\ attempt' = attempt
    BY <1>2 DEF RequeueJob, jobVars
  <2>2. r \in Call
    BY DEF Call, MaybeKeys
  <2>3. call' = [call EXCEPT ![c] = r] /\ call'[c] = r
    BY <2>1 DEF Begin, CallInv, CallTypeOK
  <2>4. Told(c)'
    BY <1>0, <2>1, <2>3, SMT DEF Told
  <2>5. UNCHANGED tableVars
    BY <1>0, <2>1 DEF tableVars
  <2> QED
    BY <2>2, <2>3, <2>4, <2>5, ReadKeeps
<1> QED
  BY <1>1, <1>2

\* The second read: no row of the caller's own is there, and none will be.
LEMMA WhyNotStep ==
  ASSUME CallInv, NEW c \in Callers, WhyNot(c)
  PROVE  CallInv'
<1>1. UNCHANGED tableVars /\ state' = state /\ meta' = meta /\ Told(c)
  BY DEF WhyNot, tableVars, CallInv
<1>2. PICK j \in Jobs : j = call[c].id /\ state[j] # "NEW"
  BY <1>1 DEF WhyNot, Told
<1>3. CASE RowOf(call[c].tenant, j)
  BY <1>1, <1>2, <1>3, DoneReads DEF WhyNot
<1>4. CASE ~RowOf(call[c].tenant, j)
  <2>1. Continue(c, "absent", j)
    BY <1>2, <1>4 DEF WhyNot
  <2>2. PICK r \in Call :
          /\ call' = [call EXCEPT ![c] = r] /\ call'[c] = r
          /\ r.op = "absent" /\ r.tenant = call[c].tenant /\ r.id = j
    BY <2>1, CallRecords, SMT
  <2>3. Told(c)'
    BY <1>1, <1>2, <1>4, <2>2 DEF Told, RowOf, HasRow
  <2> QED
    BY <1>1, <2>2, <2>3, ReadKeeps
<1> QED
  BY <1>3, <1>4

\* What retention deletes is noted by the calls it may concern.
LEMMA PruneStep ==
  ASSUME CallInv, Prune
  PROVE  CallInv'
<1>1. /\ TableTypeOK' /\ \A i \in Jobs : JobKept(i)
      /\ PickedFinished'
      /\ \A i \in Jobs :
           IF i \in Swept THEN state'[i] = "GONE"
                          ELSE state'[i] = state[i] /\ meta'[i] = meta[i]
  BY DeleteStep DEF CallInv, CallTypeOK, Prune
<1>2. UniqueKeys'
  <2>1. \A i \in Jobs : HasRow(i)' => HasRow(i)
    BY <1>1 DEF HasRow
  <2> QED
    BY <1>1, <2>1, UniqueStable DEF CallInv
<1>3. ASSUME NEW c \in Callers
      PROVE  /\ call'[c] \in Call
             /\ call'[c].op = call[c].op /\ call'[c].tenant = call[c].tenant
             /\ call'[c].key = call[c].key /\ call'[c].id = call[c].id
             /\ call'[c].pruned =
                  (call[c].pruned \/ Named(call[c].tenant, call[c].key) \cap Swept # {})
  <2> DEFINE b == Named(call[c].tenant, call[c].key) \cap Swept # {}
  <2>1. call[c] \in Call /\ call'[c] = [call[c] EXCEPT !.pruned = @ \/ b]
    BY DEF CallInv, CallTypeOK, Prune
  <2>2. b \in BOOLEAN
    OBVIOUS
  <2> HIDE DEF b
  <2>3. /\ call'[c] \in Call
        /\ call'[c].op = call[c].op /\ call'[c].tenant = call[c].tenant
        /\ call'[c].key = call[c].key /\ call'[c].id = call[c].id
        /\ call'[c].pruned = (call[c].pruned \/ b)
    BY <2>1, <2>2 DEF Call
  <2> QED
    BY <2>3 DEF b
<1>4. CallTypeOK'
  <2>1. call' \in [Callers -> Call]
    BY <1>3 DEF Prune
  <2> QED
    BY <1>1, <2>1 DEF CallTypeOK
<1>5. ASSUME NEW c \in Callers PROVE Told(c)'
  <2>1. Told(c)
    BY DEF CallInv
  <2>2. \A j \in Jobs : state[j] # "NEW" => state'[j] # "NEW"
    BY <1>1 DEF JobKept
  <2>3. ASSUME call[c].op = "again" PROVE (call[c].pruned \/ Named(call[c].tenant, call[c].key) # {})'
    <3>1. CASE call[c].pruned
      BY <1>3, <3>1
    <3>2. CASE Named(call[c].tenant, call[c].key) \cap Swept # {}
      BY <1>3, <3>2
    <3>3. CASE ~call[c].pruned /\ Named(call[c].tenant, call[c].key) \cap Swept = {}
      <4>1. PICK j \in Jobs : j \in Named(call[c].tenant, call[c].key) \ Swept
        BY <2>1, <2>3, <3>3 DEF Told, Named
      <4>2. state'[j] = state[j] /\ meta'[j] = meta[j]
        BY <1>1, <4>1
      <4>3. (Named(call[c].tenant, call[c].key) # {})'
        BY <1>3, <4>1, <4>2 DEF Named, RowOf, HasRow
      <4> QED
        BY <4>3
    <3> QED
      BY <3>1, <3>2, <3>3
  <2>4. ASSUME call[c].op = "absent" PROVE ~RowOf(call[c].tenant, call[c].id)'
    <3>1. PICK j \in Jobs : j = call[c].id /\ state[j] # "NEW"
      BY <2>1, <2>4 DEF Told
    <3>2. ~RowOf(call[c].tenant, j)
      BY <2>1, <2>4, <3>1 DEF Told
    <3>3. ~RowOf(call[c].tenant, j)'
      BY <1>1, <1>3, <3>1, <3>2 DEF RowOf, HasRow
    <3> QED
      BY <1>3, <3>1, <3>3
  <2>5. (call[c].op = "created" =>
          /\ call[c].id \in Jobs /\ state[call[c].id] # "NEW"
          /\ meta[call[c].id].tenant = call[c].tenant
          /\ meta[call[c].id].key = call[c].key)'
    BY <1>1, <1>3, <2>1, SMT DEF Told, JobKept
  <2> QED
    BY <1>3, <2>1, <2>2, <2>3, <2>4, <2>5 DEF Told
<1> QED
  BY <1>1, <1>2, <1>4, <1>5 DEF CallInv

\* A table nobody has called about satisfies the invariant.
LEMMA CallInitial == TableInit /\ CallInit => CallInv
<1> SUFFICES ASSUME TableInit, CallInit PROVE CallInv
  OBVIOUS
<1>1. NoCall \in Call
  BY DEF NoCall, Call, MaybeKeys
<1>2. CallTypeOK
  BY <1>1, TableInitial DEF CallInit, CallTypeOK
<1>3. \A c \in Callers : Told(c)
  BY DEF CallInit, Told, NoCall
<1> QED
  BY <1>2, <1>3, TableInitial DEF CallInv

\* Steps that are no handler's and delete nothing.
LEMMA OthersKeep ==
  ASSUME CallInv, call' = call, TableTypeOK', PickedFinished',
         \A i \in Jobs : JobKept(i), \A i \in Jobs : HasRow(i)' <=> HasRow(i)
  PROVE  CallInv'
<1>1. CallTypeOK'
  BY DEF CallInv, CallTypeOK
<1>2. UniqueKeys'
  BY UniqueStable DEF CallInv
<1>3. \A d \in Callers : Told(d)'
  BY ToldStable
<1> QED
  BY <1>1, <1>2, <1>3 DEF CallInv

\* Every step preserves the invariant.
LEMMA CallStep ==
  ASSUME CallInv, [CallNext]_<<tableVars, call>>
  PROVE  CallInv'
<1>1. CASE UNCHANGED <<tableVars, call>>
  <2>1. state' = state /\ attempt' = attempt /\ meta' = meta /\ sweep' = sweep /\ call' = call
    BY <1>1 DEF tableVars
  <2>2. TableTypeOK' /\ PickedFinished'
    BY <2>1 DEF CallInv, CallTypeOK, TableTypeOK, PickedFinished
  <2>3. \A i \in Jobs : JobKept(i) /\ (HasRow(i)' <=> HasRow(i))
    BY <2>1 DEF JobKept, HasRow
  <2> QED
    BY <2>1, <2>2, <2>3, OthersKeep
<1>2. ASSUME NEW c \in Callers, HandlerStep(c) PROVE CallInv'
  <2>1. CASE \E t \in Tenants, k \in MaybeKeys : EnqueueJob(c, t, k)
    BY <2>1, EnqueueStep
  <2>2. CASE \E t \in Tenants, j \in Jobs : CancelJob(c, t, j)
    BY <2>2, CancelStep
  <2>3. CASE \E t \in Tenants, j \in Jobs : RequeueJob(c, t, j)
    BY <2>3, RequeueStep
  <2>4. CASE \E j \in Jobs, at \in Times, answered \in BOOLEAN : CreateJob(c, j, at, answered)
    BY <2>4, CreateStep
  <2>5. CASE CreateDuplicate(c) \/ LookupAgain(c)
    BY <2>5, DuplicateStep
  <2>6. CASE CancelWrite(c)
    BY <2>6, CancelWriteStep
  <2>7. CASE WhyNot(c)
    BY <2>7, WhyNotStep
  <2>8. CASE RequestFails(c)
    BY <2>8, DoneReads DEF RequestFails
  <2> QED
    BY <1>2, <2>1, <2>2, <2>3, <2>4, <2>5, <2>6, <2>7, <2>8 DEF HandlerStep
<1>3. ASSUME NEW j \in Jobs, WorkerMoves(j), call' = call PROVE CallInv'
  <2>1. /\ TableTypeOK' /\ \A i \in Jobs : JobKept(i)
        /\ \A i \in Jobs : HasRow(i)' <=> HasRow(i)
        /\ sweep' = sweep
    BY <1>3, WorkerStep DEF CallInv, CallTypeOK
  <2>2. PickedFinished'
    BY <2>1, PickedStable DEF CallInv, CallTypeOK
  <2> QED
    BY <1>3, <2>1, <2>2, OthersKeep
<1>4. ASSUME NEW s \in {"COMPLETED", "DEAD"}, SweepPicks(s), call' = call PROVE CallInv'
  <2>1. TableTypeOK' /\ state' = state /\ meta' = meta /\ PickedFinished'
    BY <1>4, PickStep DEF CallInv, CallTypeOK
  <2>2. \A i \in Jobs : JobKept(i) /\ (HasRow(i)' <=> HasRow(i))
    BY <2>1 DEF JobKept, HasRow
  <2> QED
    BY <1>4, <2>1, <2>2, OthersKeep
<1>5. CASE Prune
  BY <1>5, PruneStep
<1> QED
  BY <1>1, <1>2, <1>3, <1>4, <1>5 DEF CallNext

\* The invariant's three consequences for a client.
LEMMA CallInvSafe ==
  ASSUME CallInv
  PROVE  AnswersAgree /\ LostOnlyToRetention /\ AbsentIsFinal
<1>1. \A c \in Callers : Told(c)
  BY DEF CallInv
<1>2. UniqueKeys
  BY DEF CallInv
<1>3. AnswersAgree
  <2>1. \A c \in Callers : call[c].op = "created" =>
          /\ call[c].id \in Jobs /\ state[call[c].id] # "NEW"
          /\ meta[call[c].id].tenant = call[c].tenant
          /\ meta[call[c].id].key = call[c].key
    BY <1>1 DEF Told
  <2> QED
    BY <1>2, <2>1 DEF AnswersAgree, UniqueKeys
<1>4. LostOnlyToRetention
  BY <1>1 DEF Told, LostOnlyToRetention
<1>5. AbsentIsFinal
  BY <1>1 DEF Told, AbsentIsFinal
<1> QED
  BY <1>3, <1>4, <1>5

\* The invariant holds of every execution of the handlers, workers and
\* retention together.
LEMMA CallInvariant == CallSpec => []CallInv
<1>1. TableInit /\ CallInit => CallInv
  BY CallInitial
<1>2. CallInv /\ [CallNext]_<<tableVars, call>> => CallInv'
  BY CallStep
<1> QED
  BY <1>1, <1>2, PTL DEF CallSpec

\* Two enqueues with one idempotency key are answered with one job of their own
\* tenant, however Enqueue's lookup, INSERT and second lookup interleave.
THEOREM EnqueueIsIdempotent == CallSpec => []AnswersAgree
<1>1. CallInv => AnswersAgree
  BY CallInvSafe
<1> QED
  BY <1>1, CallInvariant, PTL

\* Enqueue's second lookup comes back empty only when retention has deleted the
\* duplicate between the INSERT and the lookup.
THEOREM DuplicateIsFound == CallSpec => []LostOnlyToRetention
<1>1. CallInv => LostOnlyToRetention
  BY CallInvSafe
<1> QED
  BY <1>1, CallInvariant, PTL

\* CancelJob's and RequeueJob's 404 stays true.
THEOREM NotFoundIsFinal == CallSpec => []AbsentIsFinal
<1>1. CallInv => AbsentIsFinal
  BY CallInvSafe
<1> QED
  BY <1>1, CallInvariant, PTL

\* Only DeleteFinished deletes rows.
LEMMA RowsStay ==
  ASSUME CallInv, CallNext, ~Prune, NEW i \in Jobs, HasRow(i)
  PROVE  HasRow(i)'
<1>0. TableTypeOK
  BY DEF CallInv, CallTypeOK
<1>1. ASSUME state' = state PROVE HasRow(i)'
  BY <1>1 DEF HasRow
<1>2. ASSUME NEW j \in Jobs, Life!Submit(j) PROVE HasRow(i)'
  BY <1>0, <1>2 DEF Life!Submit, Life!Move, HasRow, TableTypeOK
<1>3. ASSUME NEW j \in Jobs, NEW to \in {"PENDING", "DEAD"}, NEW n, Life!Move(j, to, n)
      PROVE  HasRow(i)'
  BY <1>0, <1>3 DEF Life!Move, HasRow, TableTypeOK
<1>4. ASSUME NEW j \in Jobs, WorkerMoves(j) PROVE HasRow(i)'
  BY <1>0, <1>4, WorkerStep
<1>5. ASSUME NEW c \in Callers, HandlerStep(c) PROVE HasRow(i)'
  <2>1. CASE UNCHANGED tableVars
    BY <1>1, <2>1 DEF tableVars
  <2>2. ASSUME NEW t \in Tenants, NEW j \in Jobs, RequeueJob(c, t, j) PROVE HasRow(i)'
    BY <1>1, <1>3, <2>2 DEF RequeueJob, jobVars
  <2>3. ASSUME NEW j \in Jobs, NEW at, NEW a, CreateJob(c, j, at, a) PROVE HasRow(i)'
    BY <1>2, <2>3 DEF CreateJob, Insert
  <2>4. ASSUME CancelWrite(c) PROVE HasRow(i)'
    <3>1. call[c].id \in Jobs
      BY <2>4 DEF CancelWrite, CallInv, Told
    <3> QED
      BY <1>1, <1>3, <2>4, <3>1 DEF CancelWrite, Life!Die, jobVars
  <2> QED
    BY <1>5, <2>1, <2>2, <2>3, <2>4
    DEF HandlerStep, EnqueueJob, CancelJob, CreateDuplicate, LookupAgain, WhyNot, RequestFails
<1>6. ASSUME NEW s, SweepPicks(s) PROVE HasRow(i)'
  BY <1>1, <1>6 DEF SweepPicks, jobVars
<1> QED
  BY <1>4, <1>5, <1>6 DEF CallNext

\* DeleteFinished's DELETE looks at no state, and yet a sweep of COMPLETED jobs
\* deletes no live one: nothing requeues a COMPLETED job.
THEOREM CompletedSweepDeletesNoWork == CallSpec => CompletedSweepIsSafe
<1>1. ASSUME CallInv, [CallNext]_<<tableVars, call>>,
             NEW j \in Jobs, state[j] \in {"PENDING", "RUNNING"}, state'[j] = "GONE"
      PROVE  sweep.target = "DEAD"
  <2>1. HasRow(j) /\ ~HasRow(j)'
    BY <1>1 DEF HasRow
  <2>2. Prune
    <3>1. CASE UNCHANGED <<tableVars, call>>
      BY <1>1, <3>1 DEF tableVars
    <3>2. CASE CallNext
      BY <1>1, <2>1, <3>2, RowsStay
    <3> QED
      BY <1>1, <3>1, <3>2
  <2>3. j \in sweep.picked
    BY <1>1, <2>1, <2>2 DEF Prune, SweepDeletes, Swept, HasRow
  <2>4. sweep.target \in {"none", "COMPLETED", "DEAD"} /\ PickedFinished
    BY <1>1 DEF CallInv, CallTypeOK, TableTypeOK
  <2> QED
    BY <1>1, <2>3, <2>4 DEF PickedFinished
<1>2. CallInv /\ [CallNext]_<<tableVars, call>> =>
        [\A j \in Jobs : state[j] \in {"PENDING", "RUNNING"} /\ state'[j] = "GONE"
           => sweep.target = "DEAD"]_tableVars
  BY <1>1
<1> QED
  BY <1>2, CallInvariant, PTL DEF CallSpec, CompletedSweepIsSafe
-----------------------------------------------------------------------------
\* What a walk has returned and what it has yet to return lie on either side of
\* its cursor, as long as the rows are there.
CursorDivides ==
  walk.pc = "more" =>
    /\ walk.cursor \in Times \X Jobs
    /\ \A j \in walk.seen : HasRow(j) => ~Past(walk.cursor, Place(j))
    /\ \A j \in steady \ walk.seen : Past(walk.cursor, Place(j))

\* Jobs do not come back, so a place stays a job's as long as its row is there.
WalkInv ==
  /\ TableTypeOK /\ ListTypeOK
  /\ CursorDivides
  /\ steady \subseteq Matching(walk)
  /\ \A j \in walk.seen : state[j] # "NEW"
  /\ PagesComplete

\* (created_at, id) is a strict total order of the places of jobs.
LEMMA BeforeIsOrder ==
  ASSUME NEW p \in Times \X Jobs, NEW q \in Times \X Jobs, NEW r \in Times \X Jobs
  PROVE  /\ ~Before(p, p)
         /\ Before(p, q) => ~Before(q, p)
         /\ Before(p, q) /\ Before(q, r) => Before(p, r)
         /\ p # q => Before(p, q) \/ Before(q, p)
<1>1. /\ p[1] \in Nat /\ q[1] \in Nat /\ r[1] \in Nat
      /\ p[2] \in Nat /\ q[2] \in Nat /\ r[2] \in Nat
  BY TableAssumption
<1>2. p # q => p[1] # q[1] \/ p[2] # q[2]
  BY SMT
<1> QED
  BY <1>1, <1>2, SMT DEF Before

\* A set of places that is not empty has a last one in the list's order.
LEMMA LastPlace ==
  ASSUME NEW S, S \subseteq Times \X Jobs, S # {}
  PROVE  \E p \in S : \A q \in S : ~Before(q, p)
<1> DEFINE T == {p[1] : p \in S}
<1>1. T \subseteq Nat /\ T # {}
  BY TableAssumption
<1>2. PICK t \in T : \A u \in T : ~(<<u, t>> \in OpToRel(<, Nat))
  <2> HIDE DEF T
  <2> QED
    BY <1>1, NatLessThanWellFounded, WFMin
<1>3. \A u \in T : ~(u < t)
  BY <1>1, <1>2 DEF OpToRel
<1> DEFINE I == {p[2] : p \in {q \in S : q[1] = t}}
<1>4. I \subseteq Nat /\ I # {}
  BY <1>2, TableAssumption
<1>5. PICK i \in I : \A k \in I : ~(<<k, i>> \in OpToRel(<, Nat))
  <2> HIDE DEF I
  <2> QED
    BY <1>4, NatLessThanWellFounded, WFMin
<1>6. \A k \in I : ~(k < i)
  BY <1>4, <1>5 DEF OpToRel
<1>7. PICK p \in S : p[1] = t /\ p[2] = i
  BY <1>5
<1>8. ASSUME NEW q \in S, Before(q, p) PROVE FALSE
  <2>1. q[1] \in T /\ (q[1] = t => q[2] \in I)
    OBVIOUS
  <2> QED
    BY <1>3, <1>6, <1>7, <1>8, <2>1 DEF Before
<1> QED
  BY <1>7, <1>8

\* Sets of jobs are finite, and what is counted below is a number.
LEMMA JobsFinite ==
  ASSUME NEW S \in SUBSET Jobs
  PROVE  IsFiniteSet(S) /\ Cardinality(S) \in Nat
BY TableAssumption, FS_Subset, FS_CardinalityType

\* PageLimit is a positive number whatever the client asks for.
LEMMA LimitPositive ==
  ASSUME NEW n \in Limits
  PROVE  PageLimit(n) \in Nat /\ PageLimit(n) > 0
<1>0. n \in Nat /\ MaxLimit \in Nat /\ DefaultLimit \in 1..MaxLimit
  BY ListAssumption
<1>1. n \in Nat /\ MaxLimit \in Nat /\ DefaultLimit \in Nat /\ DefaultLimit > 0 /\ MaxLimit > 0
  BY <1>0, SMT
<1>2. CASE n <= 0
  BY <1>1, <1>2 DEF PageLimit
<1>3. CASE n > 0
  <2>1. PICK x \in {n, MaxLimit} : \A y \in {n, MaxLimit} : x <= y
    BY <1>1, SMT
  <2>2. Min({n, MaxLimit}) \in {n, MaxLimit}
    BY <2>1 DEF Min
  <2> QED
    BY <1>1, <1>3, <2>2 DEF PageLimit
<1> QED
  BY <1>1, <1>2, <1>3, SMT

\* The places of jobs are in the list's order, one job each.
LEMMA PlacesOrdered ==
  ASSUME TableTypeOK, NEW i \in Jobs, NEW j \in Jobs
  PROVE  /\ Place(i) \in Times \X Jobs
         /\ i # j => Place(i) # Place(j)
BY DEF TableTypeOK, Meta, Place

\* ORDER BY created_at DESC, id DESC LIMIT n, of a set of rows: all of them when
\* they are no more than n, otherwise at least one, and what is left out comes
\* after what is returned.
LEMMA FirstIsPrefix ==
  ASSUME TableTypeOK, NEW S \in SUBSET Jobs, NEW n \in Nat, n > 0
  PROVE  /\ First(S, n) \subseteq S
         /\ Cardinality(S) <= n => First(S, n) = S
         /\ S # {} => First(S, n) # {}
         /\ \A i \in First(S, n), j \in S \ First(S, n) : Before(Place(j), Place(i))
<1> DEFINE Above(j) == {i \in S : Before(Place(j), Place(i))}
<1>1. \A j \in S : Above(j) \in SUBSET Jobs /\ j \notin Above(j)
  <2>1. \A j \in S : Place(j) \in Times \X Jobs
    BY PlacesOrdered
  <2> QED
    BY <2>1, BeforeIsOrder
<1>2. \A j \in S : IsFiniteSet(Above(j)) /\ Cardinality(Above(j)) \in Nat
  BY <1>1, JobsFinite
<1>3. First(S, n) = {j \in S : Cardinality(Above(j)) < n}
  BY DEF First
<1>4. ASSUME NEW i \in S, NEW j \in S, Before(Place(i), Place(j))
      PROVE  /\ Above(j) \subseteq Above(i) /\ j \in Above(i)
             /\ Cardinality(Above(j)) < Cardinality(Above(i))
  <2>1. /\ Place(i) \in Times \X Jobs /\ Place(j) \in Times \X Jobs
        /\ \A k \in S : Place(k) \in Times \X Jobs
    BY PlacesOrdered
  <2>2. Above(j) \subseteq Above(i) /\ j \in Above(i) /\ j \notin Above(j)
    BY <1>1, <1>4, <2>1, BeforeIsOrder
  <2> HIDE DEF Above
  <2>3. Cardinality(Above(j)) <= Cardinality(Above(i))
    BY <1>2, <2>2, FS_Subset
  <2>4. Cardinality(Above(j)) # Cardinality(Above(i))
    BY <1>2, <2>2, FS_Subset
  <2> QED
    BY <1>2, <2>2, <2>3, <2>4, SMT
<1>5. Cardinality(S) <= n => First(S, n) = S
  <2> SUFFICES ASSUME Cardinality(S) <= n, NEW j \in S PROVE Cardinality(Above(j)) < n
    BY <1>3
  <2>1. Above(j) \subseteq S /\ Above(j) # S /\ j \notin Above(j)
    BY <1>1
  <2>2. IsFiniteSet(S) /\ Cardinality(S) \in Nat
    BY JobsFinite
  <2> HIDE DEF Above
  <2>3. Cardinality(Above(j)) <= Cardinality(S) /\ Cardinality(Above(j)) # Cardinality(S)
    BY <2>1, <2>2, FS_Subset
  <2> QED
    BY <1>2, <2>2, <2>3, SMT
<1>6. S # {} => First(S, n) # {}
  <2> SUFFICES ASSUME S # {} PROVE \E j \in S : Cardinality(Above(j)) < n
    BY <1>3
  <2> DEFINE C == {Cardinality(Above(j)) : j \in S}
  <2>1. C \subseteq Nat /\ C # {}
    BY <1>2
  <2>2. PICK c \in C : \A d \in C : ~(<<d, c>> \in OpToRel(<, Nat))
    <3> HIDE DEF C
    <3> QED
      BY <2>1, NatLessThanWellFounded, WFMin
  <2>3. \A d \in C : ~(d < c)
    BY <2>1, <2>2 DEF OpToRel
  <2>4. PICK j \in S : c = Cardinality(Above(j))
    BY <2>2
  <2>5. Above(j) = {}
    <3> SUFFICES ASSUME NEW i \in Above(j) PROVE FALSE
      OBVIOUS
    <3>1. i \in S /\ Cardinality(Above(i)) < Cardinality(Above(j))
      BY <1>4
    <3>2. Cardinality(Above(i)) \in C
      BY <3>1
    <3> QED
      BY <2>3, <2>4, <3>1, <3>2
  <2>6. Cardinality(Above(j)) = 0
    BY <2>5, FS_EmptySet
  <2> QED
    BY <2>6
<1>7. ASSUME NEW i \in First(S, n), NEW j \in S \ First(S, n)
      PROVE  Before(Place(j), Place(i))
  <2>1. i \in S /\ i # j /\ Cardinality(Above(i)) < n /\ ~(Cardinality(Above(j)) < n)
    BY <1>3, <1>7
  <2>2. ~Before(Place(i), Place(j))
    <3> SUFFICES ASSUME Before(Place(i), Place(j)) PROVE FALSE
      OBVIOUS
    <3>1. Cardinality(Above(j)) < Cardinality(Above(i))
      BY <1>4, <2>1
    <3>2. Cardinality(Above(j)) \in Nat /\ Cardinality(Above(i)) \in Nat
      BY <1>2, <2>1
    <3> HIDE DEF Above
    <3> QED
      BY <2>1, <3>1, <3>2, SMT
  <2>3. Place(i) \in Times \X Jobs /\ Place(j) \in Times \X Jobs /\ Place(i) # Place(j)
    BY <2>1, PlacesOrdered
  <2> QED
    BY <2>2, <2>3, BeforeIsOrder
<1> QED
  BY <1>3, <1>5, <1>6, <1>7

\* A page takes, of the rows past the cursor, the first ones, and leaves its own
\* cursor behind them.  T is any set of rows the walk has yet to return in full.
LEMMA PageDivides ==
  ASSUME TableTypeOK, NEW w \in Walk, NEW n \in Limits, NEW T \in SUBSET Matching(w),
         ~w.twice,
         \A j \in w.seen : state[j] # "NEW" /\ meta[j].tenant = w.tenant,
         (w.cursor = <<>> /\ w.seen = {}) \/ w.cursor \in Times \X Jobs,
         \A j \in w.seen : HasRow(j) => ~Past(w.cursor, Place(j)),
         \A j \in T \ w.seen : Past(w.cursor, Place(j)),
         NEW p, p = Page(w, n)
  PROVE  /\ p \in Walk /\ p.pc \in {"more", "end"}
         /\ p.tenant = w.tenant /\ p.filter = w.filter /\ ~p.twice
         /\ \A j \in p.seen : state[j] # "NEW" /\ meta[j].tenant = w.tenant
         /\ p.pc = "more" =>
              /\ p.cursor \in Times \X Jobs
              /\ \A j \in p.seen : HasRow(j) => ~Past(p.cursor, Place(j))
              /\ \A j \in T \ p.seen : Past(p.cursor, Place(j))
         /\ p.pc = "end" => T \subseteq p.seen
<1> DEFINE found == {j \in Matching(w) : Past(w.cursor, Place(j))}
           m     == PageLimit(n)
           page  == First(found, m)
           last  == CHOOSE j \in page : \A i \in page : ~Before(Place(i), Place(j))
           more  == Cardinality(found) > m
           pc    == IF more THEN "more" ELSE "end"
           cur   == IF more THEN Place(last) ELSE <<>>
<1>1. p = [w EXCEPT !.pc = pc, !.cursor = cur,
                    !.twice = @ \/ page \cap w.seen # {}, !.seen = @ \cup page]
  BY DEF Page
<1>2. m \in Nat /\ m > 0
  BY LimitPositive
<1>3. /\ found \in SUBSET Jobs
      /\ \A j \in found : HasRow(j) /\ meta[j].tenant = w.tenant /\ Past(w.cursor, Place(j))
      /\ T \ w.seen \subseteq found
  BY DEF Matching, RowOf
<1>4. \A j \in Jobs : Place(j) \in Times \X Jobs
  BY PlacesOrdered
<1>5. Cardinality(found) \in Nat
  BY <1>3, JobsFinite
<1>6. more => found # {}
  <2>1. Cardinality({}) = 0
    BY FS_EmptySet
  <2> SUFFICES ASSUME more, found = {} PROVE FALSE
    OBVIOUS
  <2>2. Cardinality(found) = 0
    BY <2>1
  <2> HIDE DEF found, m
  <2> QED
    BY <1>2, <2>2, SMT
<1> HIDE DEF found, m
<1>7. /\ page \subseteq found
      /\ ~more => page = found
      /\ more => page # {}
      /\ \A i \in page, j \in found \ page : Before(Place(j), Place(i))
  BY <1>2, <1>3, <1>5, <1>6, FirstIsPrefix, SMT
<1> HIDE DEF page
<1>8. more => last \in page /\ \A i \in page : ~Before(Place(i), Place(last))
  <2> SUFFICES ASSUME page # {}
               PROVE  \E j \in page : \A i \in page : ~Before(Place(i), Place(j))
    BY <1>7
  <2> DEFINE S == {Place(j) : j \in page}
  <2>1. S \subseteq Times \X Jobs /\ S # {}
    BY <1>3, <1>4, <1>7, SMT
  <2>2. PICK q \in S : \A r \in S : ~Before(r, q)
    <3> HIDE DEF S
    <3> QED
      BY <2>1, LastPlace
  <2> QED
    BY <2>2
<1> HIDE DEF last
<1>9. page \cap w.seen = {}
  BY <1>3, <1>7
<1>10. pc \in {"more", "end"} /\ cur \in {<<>>} \cup (Times \X Jobs) /\ page \in SUBSET Jobs
  BY <1>3, <1>4, <1>7, <1>8
<1>11. /\ p \in Walk /\ p.pc = pc /\ p.cursor = cur
       /\ p.tenant = w.tenant /\ p.filter = w.filter
       /\ ~p.twice /\ p.seen = w.seen \cup page
  <2> HIDE DEF pc, cur, more
  <2>1. (w.twice \/ page \cap w.seen # {}) = FALSE
    BY <1>9
  <2>2. p = [w EXCEPT !.pc = pc, !.cursor = cur, !.twice = FALSE, !.seen = w.seen \cup page]
    BY <1>1, <2>1
  <2>3. w.seen \cup page \in SUBSET Jobs
    BY <1>10 DEF Walk
  <2> QED
    BY <1>10, <2>2, <2>3 DEF Walk
<1>12. \A j \in p.seen : state[j] # "NEW" /\ meta[j].tenant = w.tenant
  BY <1>3, <1>7, <1>11 DEF HasRow
<1>13. ASSUME more
       PROVE  /\ cur = Place(last) /\ cur \in Times \X Jobs
              /\ \A j \in p.seen : HasRow(j) => ~Past(cur, Place(j))
              /\ \A j \in T \ p.seen : Past(cur, Place(j))
  <2>1. cur = Place(last) /\ cur \in Times \X Jobs /\ last \in page /\ last \in Jobs
    BY <1>3, <1>4, <1>7, <1>8, <1>13
  <2>2. cur # <<>>
    BY <2>1, SMT
  <2>3. ASSUME NEW j \in T \ p.seen PROVE Past(cur, Place(j))
    BY <1>3, <1>7, <1>11, <2>1 DEF Past
  <2>4. ASSUME NEW j \in page PROVE ~Past(cur, Place(j))
    BY <1>8, <1>13, <2>1, <2>2 DEF Past
  <2>5. ASSUME NEW j \in w.seen, HasRow(j) PROVE ~Past(cur, Place(j))
    <3>1. w.cursor \in Times \X Jobs /\ w.cursor # <<>> /\ j \in Jobs
      BY SMT DEF Walk
    <3>2. ~Before(Place(j), w.cursor) /\ Before(Place(last), w.cursor)
      BY <1>3, <1>7, <2>1, <2>5, <3>1 DEF Past
    <3>3. ~Before(Place(j), Place(last))
      BY <1>4, <2>1, <3>1, <3>2, BeforeIsOrder
    <3> QED
      BY <2>1, <2>2, <3>3 DEF Past
  <2> QED
    BY <1>11, <2>1, <2>3, <2>4, <2>5, ZenonT(40)
<1>14. ASSUME ~more PROVE T \subseteq p.seen
  BY <1>3, <1>7, <1>11, <1>14
<1> QED
  BY <1>11, <1>12, <1>13, <1>14

\* Before the first page there is nothing to divide.
LEMMA WalkInitial == TableInit /\ ListInit => WalkInv
<1> SUFFICES ASSUME TableInit, ListInit PROVE WalkInv
  OBVIOUS
<1>1. "" \in Filters
  BY ListAssumption
<1>2. NewWalk(NoTenant, "") \in Walk
  BY <1>1 DEF NewWalk, Walk
<1>3. ListTypeOK
  BY <1>2 DEF ListInit, ListTypeOK
<1>4. walk.pc = "none" /\ walk.seen = {} /\ ~walk.twice /\ steady = {}
  BY DEF ListInit, NewWalk
<1> QED
  BY <1>3, <1>4, TableInitial DEF WalkInv, CursorDivides, PagesComplete

\* A row that stays keeps its place.
RowsKept ==
  \A i \in Jobs : JobKept(i) /\ (HasRow(i) /\ HasRow(i)' => meta'[i] = meta[i])

\* So it does in what others do between two pages.
LEMMA TableMovesKeep ==
  ASSUME TableTypeOK, TableMoves
  PROVE  TableTypeOK' /\ RowsKept
<1>1. ASSUME NEW j \in Jobs, NEW t \in Tenants, NEW at \in Times,
             Insert(j, t, NoIdemKey, at), sweep' = sweep
      PROVE  TableTypeOK' /\ RowsKept
  <2>1. NoIdemKey \in MaybeKeys
    BY DEF MaybeKeys
  <2> QED
    BY <1>1, <2>1, InsertStep DEF HasRow, RowsKept
<1>2. ASSUME NEW j \in Jobs, NEW t \in Tenants, Requeues(t, j),
             Life!Move(j, "PENDING", 0), meta' = meta, sweep' = sweep
      PROVE  TableTypeOK' /\ \A i \in Jobs : JobKept(i)
  BY <1>2, MoveStep DEF Requeues
<1>3. ASSUME NEW j \in Jobs, WorkerMoves(j)
      PROVE  TableTypeOK' /\ meta' = meta /\ \A i \in Jobs : JobKept(i)
  BY <1>3, WorkerStep
<1>4. ASSUME NEW s \in {"COMPLETED", "DEAD"}, SweepPicks(s)
      PROVE  TableTypeOK' /\ meta' = meta /\ \A i \in Jobs : JobKept(i)
  <2>1. TableTypeOK' /\ state' = state /\ meta' = meta
    BY <1>4, PickStep
  <2> QED
    BY <2>1 DEF JobKept
<1>5. CASE SweepDeletes
  BY <1>5, DeleteStep DEF HasRow, RowsKept
<1> QED
  BY <1>1, <1>2, <1>3, <1>4, <1>5 DEF TableMoves, RowsKept

\* So a walk and what it has to return stay divided by its cursor.
LEMMA WalkStands ==
  ASSUME WalkInv, TableTypeOK', RowsKept,
         walk' = walk, steady' = steady \cap Matching(walk)'
  PROVE  WalkInv'
<1>1. /\ TableTypeOK' /\ \A i \in Jobs : JobKept(i)
      /\ \A i \in Jobs : HasRow(i) /\ HasRow(i)' => meta'[i] = meta[i]
  BY DEF RowsKept
<1>2. walk' = walk /\ steady' = steady \cap Matching(walk)'
  OBVIOUS
<1>3. walk \in Walk /\ walk.seen \subseteq Jobs /\ steady \subseteq Matching(walk)
      /\ steady \in SUBSET Jobs
  BY DEF WalkInv, ListTypeOK, Walk
<1>4. ListTypeOK'
  BY <1>2, <1>3 DEF ListTypeOK
<1>5. \A j \in walk.seen : state'[j] # "NEW" /\ meta'[j].tenant = walk.tenant
  BY <1>1, <1>3 DEF WalkInv, PagesComplete, JobKept
<1>6. ASSUME NEW j \in walk.seen, HasRow(j)' PROVE meta'[j] = meta[j] /\ HasRow(j)
  <2>1. j \in Jobs /\ state[j] # "NEW"
    BY <1>3 DEF WalkInv
  <2>2. HasRow(j)
    BY <1>1, <1>6, <2>1 DEF JobKept, HasRow
  <2> QED
    BY <1>1, <1>6, <2>1, <2>2
<1>7. ASSUME NEW j \in steady' PROVE meta'[j] = meta[j] /\ j \in steady
  <2>1. j \in Matching(walk) /\ j \in Matching(walk)' /\ j \in steady /\ j \in Jobs
    BY <1>2, <1>3
  <2>2. HasRow(j) /\ HasRow(j)'
    BY <2>1 DEF Matching, RowOf
  <2> QED
    BY <1>1, <2>1, <2>2
<1>8. CursorDivides'
  <2> SUFFICES ASSUME walk.pc = "more"
               PROVE  /\ walk.cursor \in Times \X Jobs
                      /\ \A j \in walk.seen : HasRow(j)' => ~Past(walk.cursor, Place(j)')
                      /\ \A j \in steady' \ walk.seen : Past(walk.cursor, Place(j)')
    BY <1>2 DEF CursorDivides, Past, Before
  <2>1. /\ walk.cursor \in Times \X Jobs
        /\ \A j \in walk.seen : HasRow(j) => ~Past(walk.cursor, Place(j))
        /\ \A j \in steady \ walk.seen : Past(walk.cursor, Place(j))
    BY DEF WalkInv, CursorDivides
  <2>2. \A j \in walk.seen : HasRow(j)' => Place(j)' = Place(j) /\ HasRow(j)
    BY <1>6 DEF Place
  <2>3. \A j \in steady' : Place(j)' = Place(j) /\ j \in steady
    BY <1>7 DEF Place
  <2> QED
    BY <2>1, <2>2, <2>3
<1>9. PagesComplete'
  BY <1>2, <1>5 DEF WalkInv, PagesComplete
<1> QED
  BY <1>1, <1>2, <1>4, <1>5, <1>8, <1>9 DEF WalkInv

\* The first page and each next one.
LEMMA WalkPages ==
  ASSUME WalkInv, UNCHANGED tableVars, NEW n \in Limits, NEW w \in Walk,
         walk' = Page(w, n), steady' \in SUBSET Matching(w),
         ~w.twice,
         \A j \in w.seen : state[j] # "NEW" /\ meta[j].tenant = w.tenant,
         (w.cursor = <<>> /\ w.seen = {}) \/ w.cursor \in Times \X Jobs,
         \A j \in w.seen : HasRow(j) => ~Past(w.cursor, Place(j)),
         \A j \in steady' \ w.seen : Past(w.cursor, Place(j))
  PROVE  WalkInv'
<1>0. TableTypeOK
  BY DEF WalkInv
<1>1. state' = state /\ attempt' = attempt /\ meta' = meta /\ sweep' = sweep
  BY DEF tableVars
<1>2. PICK T \in SUBSET Matching(w) : T = steady'
  OBVIOUS
<1>3. PICK p : p = walk' /\ p = Page(w, n)
  OBVIOUS
<1>4. /\ p \in Walk /\ p.pc \in {"more", "end"}
      /\ p.tenant = w.tenant /\ p.filter = w.filter /\ ~p.twice
      /\ \A j \in p.seen : state[j] # "NEW" /\ meta[j].tenant = w.tenant
      /\ p.pc = "more" =>
           /\ p.cursor \in Times \X Jobs
           /\ \A j \in p.seen : HasRow(j) => ~Past(p.cursor, Place(j))
           /\ \A j \in T \ p.seen : Past(p.cursor, Place(j))
      /\ p.pc = "end" => T \subseteq p.seen
  <2>1. \A j \in T \ w.seen : Past(w.cursor, Place(j))
    BY <1>2
  <2> QED
    BY <1>0, <1>3, <2>1, PageDivides
<1>5. TableTypeOK'
  BY <1>0, <1>1 DEF TableTypeOK
<1>6. Matching(w) = Matching(p) /\ Matching(p) = Matching(walk)' /\ Matching(w) \subseteq Jobs
  BY <1>1, <1>3, <1>4, ZenonT(40) DEF Matching, RowOf, HasRow
<1>7. ListTypeOK'
  BY <1>2, <1>3, <1>4, <1>6 DEF ListTypeOK
<1>8. CursorDivides'
  BY <1>1, <1>2, <1>3, <1>4, SMT DEF CursorDivides, HasRow, Past, Before, Place
<1>9. PagesComplete'
  BY <1>1, <1>2, <1>3, <1>4 DEF PagesComplete
<1> QED
  BY <1>1, <1>2, <1>3, <1>4, <1>5, <1>6, <1>7, <1>8, <1>9 DEF WalkInv

\* Every step preserves the invariant.
LEMMA WalkStep ==
  ASSUME WalkInv, [ListNext]_<<tableVars, listVars>>
  PROVE  WalkInv'
<1>1. CASE UNCHANGED <<tableVars, listVars>>
  BY <1>1, ZenonT(40) DEF tableVars, listVars, WalkInv, TableTypeOK, ListTypeOK, CursorDivides,
              PagesComplete, Matching, RowOf, HasRow, Past, Before, Place
<1>2. ASSUME NEW t \in Tenants, NEW f \in Filters, NEW n \in Limits, ListJobs(t, f, n)
      PROVE  WalkInv'
  <2> DEFINE w == NewWalk(t, f)
  <2>1. w \in Walk /\ ~w.twice /\ w.cursor = <<>> /\ w.seen = {}
    BY DEF NewWalk, Walk
  <2>2. walk' = Page(w, n) /\ steady' = Matching(w) /\ UNCHANGED tableVars
    BY <1>2 DEF ListJobs
  <2>3. \A j \in steady' : Past(w.cursor, Place(j))
    BY <2>1 DEF Past
  <2> HIDE DEF w
  <2> QED
    BY <2>1, <2>2, <2>3, WalkPages
<1>3. ASSUME NEW n \in Limits, ListMore(n) PROVE WalkInv'
  <2>1. PICK w \in Walk : w = walk
    BY DEF WalkInv, ListTypeOK
  <2>2. w.pc = "more" /\ walk' = Page(w, n) /\ steady' = steady /\ UNCHANGED tableVars
    BY <1>3, <2>1 DEF ListMore
  <2>3. /\ w.cursor \in Times \X Jobs
        /\ \A j \in w.seen : HasRow(j) => ~Past(w.cursor, Place(j))
        /\ \A j \in steady' \ w.seen : Past(w.cursor, Place(j))
        /\ steady' \in SUBSET Matching(w) /\ ~w.twice
        /\ \A j \in w.seen : state[j] # "NEW" /\ meta[j].tenant = w.tenant
    BY <2>1, <2>2 DEF WalkInv, CursorDivides, PagesComplete
  <2> QED
    BY <2>2, <2>3, WalkPages, ZenonT(40)
<1>4. CASE TableMoves
  <2>1. TableTypeOK' /\ RowsKept
    BY <1>4, TableMovesKeep DEF WalkInv
  <2> QED
    BY <1>4, <2>1, WalkStands DEF TableMoves
<1> QED
  BY <1>1, <1>2, <1>3, <1>4 DEF ListNext

\* ListJobs' keyset pagination: whatever the limits of its pages, a walk that
\* has ended has returned every job that matched all the time, none of them
\* twice and none of another tenant, however rows are inserted, changed and
\* deleted between the pages.
THEOREM WalksAreComplete == ListSpec => []PagesComplete
<1>1. TableInit /\ ListInit => WalkInv
  BY WalkInitial
<1>2. WalkInv /\ [ListNext]_<<tableVars, listVars>> => WalkInv'
  BY WalkStep
<1>3. WalkInv => PagesComplete
  BY DEF WalkInv
<1> QED
  BY <1>1, <1>2, <1>3, PTL DEF ListSpec
-----------------------------------------------------------------------------
\* Clients that call and walk at a time, over one table.
ClientsNext ==
  \/ CallNext /\ UNCHANGED walk /\ steady' = steady \cap Matching(walk)'
  \/ /\ \/ \E t \in Tenants, f \in Filters, n \in Limits : ListJobs(t, f, n)
        \/ \E n \in Limits : ListMore(n)
     /\ UNCHANGED call

ClientsSpec ==
  /\ TableInit /\ CallInit /\ ListInit
  /\ [][ClientsNext]_<<tableVars, call, listVars>>

\* No statement of a handler, step of a worker or sweep moves a row that stays,
\* whatever its key.
LEMMA CallsKeepRows ==
  ASSUME CallInv, CallNext
  PROVE  RowsKept
<1>0. TableTypeOK
  BY DEF CallInv, CallTypeOK
<1>1. ASSUME state' = state, meta' = meta PROVE RowsKept
  BY <1>1 DEF RowsKept, JobKept
<1>2. ASSUME NEW c \in Callers, HandlerStep(c) PROVE RowsKept
  <2>1. CASE UNCHANGED tableVars
    BY <1>1, <2>1 DEF tableVars
  <2>2. ASSUME NEW t \in Tenants, NEW j \in Jobs, RequeueJob(c, t, j) PROVE RowsKept
    <3>1. CASE Requeues(t, j)
      <4>1. /\ Life!Move(j, "PENDING", 0) /\ meta' = meta /\ sweep' = sweep
            /\ state[j] = "DEAD"
        BY <2>2, <3>1 DEF RequeueJob, Requeues
      <4> QED
        BY <1>0, <4>1, MoveStep DEF RowsKept
    <3>2. CASE ~Requeues(t, j)
      BY <1>1, <2>2, <3>2 DEF RequeueJob, jobVars
    <3> QED
      BY <3>1, <3>2
  <2>3. ASSUME NEW j \in Jobs, NEW at \in Times, NEW a, CreateJob(c, j, at, a) PROVE RowsKept
    <3>1. PICK t \in Tenants : t = call[c].tenant
      BY <2>3 DEF CreateJob, CallInv, Told
    <3>2. PICK k \in MaybeKeys : k = call[c].key
      BY DEF CallInv, CallTypeOK, Call
    <3>3. Insert(j, t, k, at) /\ sweep' = sweep
      BY <2>3, <3>1, <3>2 DEF CreateJob
    <3> QED
      BY <1>0, <3>3, InsertStep DEF RowsKept, HasRow
  <2>4. ASSUME CancelWrite(c) PROVE RowsKept
    <3>1. PICK j \in Jobs : j = call[c].id
      BY <2>4 DEF CancelWrite, CallInv, Told
    <3>2. CASE RowOf(call[c].tenant, j) /\ state[j] \in {"PENDING", "RUNNING"}
      <4>1. WorkerMoves(j) /\ meta' = meta
        BY <2>4, <3>1, <3>2 DEF CancelWrite, WorkerMoves
      <4> QED
        BY <1>0, <4>1, WorkerStep DEF RowsKept
    <3>3. CASE ~(RowOf(call[c].tenant, j) /\ state[j] \in {"PENDING", "RUNNING"})
      BY <1>1, <2>4, <3>1, <3>3 DEF CancelWrite, jobVars
    <3> QED
      BY <3>2, <3>3
  <2> QED
    BY <1>2, <2>1, <2>2, <2>3, <2>4
    DEF HandlerStep, EnqueueJob, CancelJob, CreateDuplicate, LookupAgain, WhyNot, RequestFails
<1>3. ASSUME NEW j \in Jobs, WorkerMoves(j) PROVE RowsKept
  BY <1>0, <1>3, WorkerStep DEF RowsKept
<1>4. ASSUME NEW s \in {"COMPLETED", "DEAD"}, SweepPicks(s) PROVE RowsKept
  BY <1>0, <1>1, <1>4, PickStep
<1>5. CASE Prune
  BY <1>0, <1>5, DeleteStep DEF Prune, RowsKept, HasRow
<1> QED
  BY <1>2, <1>3, <1>4, <1>5 DEF CallNext

\* Whatever is shown of the calls holds while others walk: a walk reads.
THEOREM ClientsImplementCalls == ClientsSpec => CallSpec
<1>1. [ClientsNext]_<<tableVars, call, listVars>> => [CallNext]_<<tableVars, call>>
  BY DEF ClientsNext, ListJobs, ListMore
<1> QED
  BY <1>1, PTL DEF ClientsSpec, CallSpec

\* And a walk is complete whatever statements of Enqueue, CancelJob, RequeueJob
\* and of the workers, and whatever sweeps, run between its pages.
THEOREM WalksStandCalls == ClientsSpec => []PagesComplete
<1>1. TableInit /\ ListInit => WalkInv
  BY WalkInitial
<1>2. ASSUME CallInv, CallInv', WalkInv, [ClientsNext]_<<tableVars, call, listVars>>
      PROVE  WalkInv'
  <2>1. CASE CallNext /\ UNCHANGED walk /\ steady' = steady \cap Matching(walk)'
    <3>1. TableTypeOK'
      BY <1>2 DEF CallInv, CallTypeOK
    <3>2. RowsKept
      BY <1>2, <2>1, CallsKeepRows
    <3> QED
      BY <1>2, <2>1, <3>1, <3>2, WalkStands
  <2>2. CASE [ListNext]_<<tableVars, listVars>>
    BY <1>2, <2>2, WalkStep
  <2> QED
    BY <1>2, <2>1, <2>2 DEF ClientsNext, ListNext
<1>3. CallInv /\ CallInv' /\ WalkInv /\ [ClientsNext]_<<tableVars, call, listVars>> => WalkInv'
  BY <1>2
<1>4. WalkInv => PagesComplete
  BY DEF WalkInv
<1> QED
  BY <1>1, <1>3, <1>4, ClientsImplementCalls, CallInvariant, PTL DEF ClientsSpec
-----------------------------------------------------------------------------
\* Every statement of a handler that writes is a step of the lifecycle.
LEMMA HandlerLives ==
  ASSUME CallInv, NEW c \in Callers, HandlerStep(c)
  PROVE  [Life!Next]_(Life!vars)
<1>1. CASE UNCHANGED tableVars
  BY <1>1 DEF tableVars, Life!vars
<1>2. ASSUME NEW t \in Tenants, NEW j \in Jobs, RequeueJob(c, t, j)
      PROVE  [Life!Next]_(Life!vars)
  <2>1. CASE Requeues(t, j)
    <3>1. Life!Requeue(j) /\ sweep' = sweep
      BY <1>2, <2>1 DEF RequeueJob, Requeues, Life!Requeue
    <3> QED
      BY <3>1 DEF Life!Next
  <2>2. CASE ~Requeues(t, j)
    BY <1>2, <2>2 DEF RequeueJob, jobVars, Life!vars
  <2> QED
    BY <2>1, <2>2
<1>3. ASSUME NEW j \in Jobs, NEW at, NEW a, CreateJob(c, j, at, a) PROVE Life!Next
  <2>1. Life!Submit(j) /\ sweep' = sweep
    BY <1>3 DEF CreateJob, Insert
  <2> QED
    BY <2>1 DEF Life!Next
<1>4. ASSUME CancelWrite(c) PROVE [Life!Next]_(Life!vars)
  <2>1. PICK j \in Jobs : j = call[c].id
    BY <1>4 DEF CancelWrite, CallInv, Told
  <2>2. (Life!Die(j) \/ UNCHANGED jobVars) /\ sweep' = sweep
    BY <1>4, <2>1 DEF CancelWrite
  <2> QED
    BY <2>2 DEF Life!Next, Life!vars, jobVars
<1> QED
  BY <1>1, <1>2, <1>3, <1>4
  DEF HandlerStep, EnqueueJob, CancelJob, CreateDuplicate, LookupAgain, WhyNot, RequestFails

\* What a client who polls a job is promised survives the API: calls, workers and
\* sweeps together take the job through JobLifecycle, and a batch that a sweep
\* deletes was chosen while its jobs were finished.
THEOREM CallsKeepLifecycle == CallSpec => Life!Spec
<1>1. TableInit => Life!Init
  BY DEF TableInit
<1>2. ASSUME CallInv, [CallNext]_<<tableVars, call>>
      PROVE  [Life!Next]_(Life!vars)
  <2>1. CASE UNCHANGED <<tableVars, call>>
    BY <2>1 DEF tableVars, Life!vars
  <2>2. ASSUME NEW c \in Callers, HandlerStep(c) PROVE [Life!Next]_(Life!vars)
    BY <1>2, <2>2, HandlerLives
  <2>3. ASSUME NEW j \in Jobs, WorkerMoves(j) PROVE Life!Next
    <3>1. sweep' = sweep
      BY <2>3 DEF WorkerMoves
    <3> QED
      BY <2>3, <3>1 DEF WorkerMoves, Life!Next
  <2>4. ASSUME NEW s \in {"COMPLETED", "DEAD"}, SweepPicks(s) PROVE Life!Next
    <3>1. PICK S \in SUBSET {j \in Jobs : state[j] = s} : sweep' = [target |-> s, picked |-> S]
      BY <2>4 DEF SweepPicks
    <3>2. sweep.picked = {} /\ sweep'.picked = S
      BY <2>4, <3>1 DEF SweepPicks, NoSweep
    <3>3. S \in SUBSET {j \in Jobs : state[j] \in {"COMPLETED", "DEAD"}}
      BY <3>1
    <3>4. sweep'.picked = sweep.picked \cup S
      BY <3>2
    <3>5. Life!Choose
      BY <2>4, <3>3, <3>4 DEF Life!Choose, SweepPicks, jobVars
    <3> QED
      BY <3>5 DEF Life!Next
  <2>5. CASE Prune
    <3>1. Swept \in SUBSET sweep.picked
      BY DEF Swept
    <3>2. sweep'.picked = {}
      BY <2>5 DEF Prune, SweepDeletes, NoSweep
    <3>3. sweep'.picked \in SUBSET (sweep.picked \ Swept)
      BY <3>2
    <3>4. Life!Prune
      BY <2>5, <3>1, <3>3 DEF Prune, SweepDeletes, Life!Prune
    <3> QED
      BY <3>4 DEF Life!Next
  <2> QED
    BY <1>2, <2>1, <2>2, <2>3, <2>4, <2>5 DEF CallNext
<1>3. CallInv /\ [CallNext]_<<tableVars, call>> => [Life!Next]_(Life!vars)
  BY <1>2
<1> QED
  BY <1>1, <1>3, CallInvariant, PTL DEF CallSpec, Life!Spec
=============================================================================
