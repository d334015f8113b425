------------------------------- MODULE JobAPI -------------------------------
(***************************************************************************)
(* POST /api/jobs, /cancel and /requeue as several clients call them at a  *)
(* time (internal/api/handler.go, internal/service/job_service.go), while  *)
(* workers run the jobs and retention deletes them.  A handler is one step *)
(* per statement.  A request acts for the tenant Auth has admitted it for, *)
(* so for any.                                                             *)
(***************************************************************************)
EXTENDS JobTable

CONSTANT Callers   \* clients of the API, each with one request at a time

VARIABLE call      \* what each one's handler has in hand, or its last answer

\* The first four wait for a statement, the others are answers: 201 with an id,
\* 404, and 500 because the duplicate an INSERT met was not found.  Answers no
\* property looks at are "none".  pruned is history: the call's tenant and key
\* had a job that was deleted during the call.
Call == [op     : {"insert", "again", "cancel", "why", "created", "absent", "lost", "none"},
         tenant : Tenants \cup {NoTenant},
         key    : MaybeKeys,
         id     : Jobs \cup {0},
         pruned : BOOLEAN]

NoCall == [op |-> "none", tenant |-> NoTenant, key |-> NoIdemKey, id |-> 0, pruned |-> FALSE]

CallTypeOK == TableTypeOK /\ call \in [Callers -> Call]

CallInit == call = [c \in Callers |-> NoCall]

-----------------------------------------------------------------------------
Waiting == {"insert", "again", "cancel", "why"}

\* A request arrives at its handler.
Arrives(c) == call[c].op \notin Waiting

\* The handler of a new request waits for its next statement, or answers.
Begin(c, op, t, k, j) ==
  call' = [call EXCEPT ![c] = [op |-> op, tenant |-> t, key |-> k, id |-> j, pruned |-> FALSE]]

Continue(c, op, j) == call' = [call EXCEPT ![c].op = op, ![c].id = j]

Done(c) == call' = [call EXCEPT ![c] = NoCall]

-----------------------------------------------------------------------------
\* EnqueueJob and Enqueue's first lookup; a job without a key is not looked up.
EnqueueJob(c, t, k) ==
  /\ Arrives(c)
  /\ IF Named(t, k) # {}
     THEN \E j \in Named(t, k) : Begin(c, "created", t, k, j)
     ELSE Begin(c, "insert", t, k, 0)
  /\ UNCHANGED tableVars

\* Mutant: nothing is a duplicate.
DuplicateNever(c) == FALSE

\* isIdempotencyUniqueViolation.
Duplicate(c) == Named(call[c].tenant, call[c].key) # {}

\* CreateJob.  When its answer is lost the client gets an error, and the row is
\* there.
CreateJob(c, j, at, answered) ==
  /\ call[c].op = "insert" /\ ~Duplicate(c)
  /\ Insert(j, call[c].tenant, call[c].key, at)
  /\ IF answered THEN Continue(c, "created", j) ELSE Done(c)
  /\ UNCHANGED sweep

CreateDuplicate(c) ==
  /\ call[c].op = "insert" /\ Duplicate(c)
  /\ Continue(c, "again", 0)
  /\ UNCHANGED tableVars

\* Mutant: the second lookup wants a job that is still to run.
FoundLive(c) ==
  {j \in Named(call[c].tenant, call[c].key) : state[j] \in {"PENDING", "RUNNING"}}

\* The second lookup, after a duplicate.
Found(c) == Named(call[c].tenant, call[c].key)

LookupAgain(c) ==
  /\ call[c].op = "again"
  /\ IF Found(c) # {} THEN \E j \in Found(c) : Continue(c, "created", j)
                      ELSE Continue(c, "lost", 0)
  /\ UNCHANGED tableVars

-----------------------------------------------------------------------------
\* CancelJob reads the job first.  A client names a job that was created once.
CancelJob(c, t, j) ==
  /\ Arrives(c) /\ state[j] # "NEW"
  /\ Begin(c, IF RowOf(t, j) THEN "cancel" ELSE "absent", t, NoIdemKey, j)
  /\ UNCHANGED tableVars

\* The fenced UPDATE of Cancel.
CancelWrite(c) ==
  LET j == call[c].id IN
  /\ call[c].op = "cancel"
  /\ IF RowOf(call[c].tenant, j) /\ state[j] \in {"PENDING", "RUNNING"}
     THEN Life!Die(j) /\ Done(c)
     ELSE Continue(c, "why", j) /\ UNCHANGED jobVars
  /\ UNCHANGED <<meta, sweep>>

RequeueJob(c, t, j) ==
  /\ Arrives(c) /\ state[j] # "NEW"
  /\ IF Requeues(t, j)
     THEN Life!Move(j, "PENDING", 0) /\ Done(c)
     ELSE Begin(c, "why", t, NoIdemKey, j) /\ UNCHANGED jobVars
  /\ UNCHANGED <<meta, sweep>>

\* Mutant: an UPDATE of no row means there is no such job.
WhyNotAbsent(c) ==
  /\ call[c].op = "why"
  /\ Continue(c, "absent", call[c].id)
  /\ UNCHANGED tableVars

\* No row was updated: a second read tells 409 from 404.
WhyNot(c) ==
  /\ call[c].op = "why"
  /\ IF RowOf(call[c].tenant, call[c].id) THEN Done(c)
                                          ELSE Continue(c, "absent", call[c].id)
  /\ UNCHANGED tableVars

\* A statement fails: an error, and nothing changes.
RequestFails(c) ==
  /\ ~Arrives(c)
  /\ Done(c)
  /\ UNCHANGED tableVars

\* Retention, and the history of the calls it crosses.
Prune ==
  /\ SweepDeletes
  /\ call' = [c \in Callers |->
       [call[c] EXCEPT !.pruned = @ \/ Named(call[c].tenant, call[c].key) \cap Swept # {}]]

-----------------------------------------------------------------------------
HandlerStep(c) ==
  \/ \E t \in Tenants :
       \/ \E k \in MaybeKeys : EnqueueJob(c, t, k)
       \/ \E j \in Jobs : CancelJob(c, t, j) \/ RequeueJob(c, t, j)
  \/ \E j \in Jobs, at \in Times, answered \in BOOLEAN : CreateJob(c, j, at, answered)
  \/ CreateDuplicate(c) \/ LookupAgain(c)
  \/ CancelWrite(c) \/ WhyNot(c) \/ RequestFails(c)

CallNext ==
  \/ \E c \in Callers : HandlerStep(c)
  \/ \E j \in Jobs : WorkerMoves(j) /\ UNCHANGED call
  \/ \E s \in {"COMPLETED", "DEAD"} : SweepPicks(s) /\ UNCHANGED call
  \/ Prune

CallSpec == TableInit /\ CallInit /\ [][CallNext]_<<tableVars, call>>

-----------------------------------------------------------------------------
\* A key names one job.  An enqueue is answered with a job of the caller's own
\* tenant and key, whichever of the lookups or the INSERT found or made it, and
\* two enqueues of one tenant and key with the same job, unless the job of one
\* of them has been deleted since.
AnswersAgree ==
  /\ \A c \in Callers : call[c].op = "created" =>
       /\ state[call[c].id] # "NEW"
       /\ meta[call[c].id].tenant = call[c].tenant
       /\ meta[call[c].id].key = call[c].key
  /\ \A c, d \in Callers :
       /\ call[c].op = "created" /\ call[d].op = "created"
       /\ call[c].tenant = call[d].tenant
       /\ call[c].key = call[d].key /\ call[c].key # NoIdemKey
       /\ HasRow(call[c].id) /\ HasRow(call[d].id)
       => call[c].id = call[d].id

\* Enqueue fails to find the duplicate it was told of only when retention has
\* deleted that very job between the INSERT and the second lookup.
LostOnlyToRetention ==
  \A c \in Callers : call[c].op = "lost" => call[c].pruned

\* 404 is final: a job a client is told is not there is deleted or another
\* tenant's, and not one that changed state between the UPDATE and the read.
AbsentIsFinal ==
  \A c \in Callers : call[c].op = "absent" => ~RowOf(call[c].tenant, call[c].id)
=============================================================================
