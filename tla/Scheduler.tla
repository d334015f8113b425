------------------------------ MODULE Scheduler ------------------------------
(***************************************************************************)
(* The cron scheduler of every server instance (internal/scheduler), the   *)
(* schedules table (internal/store/schedules.go) and JobService.Enqueue as *)
(* fire calls it.  Every instance polls the same rows; nothing is locked.  *)
(* A fire is a lookup of the idempotency key, an INSERT, a second lookup   *)
(* if the INSERT hit the unique index, and the conditional UPDATE that     *)
(* advances the schedule, and instances interleave between any two.        *)
(*                                                                         *)
(* A cron expression is abstracted to one that occurs at every multiple of *)
(* Every[s] minutes; module Cron has the expressions themselves.           *)
(***************************************************************************)
EXTENDS Integers, Sequences, FiniteSets, Functions

CONSTANTS
  Schedules,    \* schedule ids; CreateSchedule never repeats one
  Replicas,     \* instances with the scheduler enabled
  Every,        \* minutes between the occurrences of each schedule
  Lookahead,    \* how far cron.Next searches (four years of 365 days)
  CfgBudget,    \* Config.FireBudget
  Horizon,      \* bound: the clock stops here
  MaxFaults     \* bound: crashes and failed statements

FireBudget == IF CfgBudget <= 0 THEN 5 ELSE CfgBudget

Zero == 0       \* the zero time

ASSUME SchedulerAssumption ==
  /\ Every \in [Schedules -> Nat \ {0}]
  /\ Lookahead \in Nat /\ Horizon \in Nat /\ MaxFaults \in Nat /\ CfgBudget \in Int

VARIABLES
  now,        \* wall clock, in minutes
  next,       \* next_run_at of each schedule; Zero when there is no such row
  ids,        \* schedules created so far
  keys,       \* the unique index: idempotency keys of the jobs that exist
  replica,    \* what each instance's dispatch is doing
  faults,
  made,       \* history: jobs inserted for each schedule and fire instant
  passed      \* history: instants each schedule was advanced from

vars == <<now, next, ids, keys, replica, faults, made, passed>>

Table == <<next, ids>>
History == <<made, passed>>

\* dispatch: pc is the statement to run next for the head of todo, the rows
\* DueSchedules returned; clock is the time dispatch read before asking.
Dispatch == [pc : {"sleep", "lookup", "create", "again", "advance"},
             clock : 0..Horizon,
             todo : Seq([id : Schedules, next : 1..Horizon])]

Asleep == [pc |-> "sleep", clock |-> 0, todo |-> <<>>]

TypeOK ==
  /\ now \in 0..Horizon
  /\ next \in [Schedules -> Nat]
  /\ ids \subseteq Schedules
  /\ \A k \in keys : k[1] \in Schedules /\ k[2] \in 0..Horizon
  /\ replica \in [Replicas -> Dispatch]
  /\ \A r \in Replicas : Len(replica[r].todo) <= FireBudget
  /\ faults \in 0..MaxFaults
  /\ made \in [Schedules -> [0..Horizon -> Nat]]
  /\ passed \in [Schedules -> SUBSET (0..Horizon)]

Init ==
  /\ now = 0
  /\ next = [s \in Schedules |-> Zero]
  /\ ids = {} /\ keys = {} /\ faults = 0
  /\ replica = [r \in Replicas |-> Asleep]
  /\ made = [s \in Schedules |-> [t \in 0..Horizon |-> 0]]
  /\ passed = [s \in Schedules |-> {}]

-----------------------------------------------------------------------------
\* cron.Next: the first occurrence strictly after t and within the lookahead.
Next1(s, t) ==
  LET n == (t \div Every[s] + 1) * Every[s]
  IN  IF n >= t + Lookahead THEN Zero ELSE n

\* nextAfter: step from occurrence to occurrence until one is after clock.
NextAfter(s, from, clock) ==
  LET step[t \in 0..Horizon] ==
        LET n == Next1(s, t)
        IN  IF n = Zero \/ n > clock THEN n ELSE step[n]
  IN  step[from]

\* Mutant: the key is minted from the wall clock.
KeyFromClock(item, clock) == <<item.id, clock>>

\* The idempotency key of a fire.
Key(item, clock) == <<item.id, item.next>>

-----------------------------------------------------------------------------
(* The API.                                                                *)

\* The handler's checks; the one that matters here refuses an expression
\* without an occurrence.
HasOccurrence(s) == Next1(s, now) # Zero

CreateSchedule(s) ==
  /\ s \notin ids
  /\ HasOccurrence(s)
  /\ next' = [next EXCEPT ![s] = Next1(s, now)]
  /\ ids' = ids \cup {s}
  /\ UNCHANGED <<now, keys, replica, faults, History>>

DeleteSchedule(s) ==
  /\ next[s] # Zero
  /\ next' = [next EXCEPT ![s] = Zero]
  /\ UNCHANGED <<now, ids, keys, replica, faults, History>>

-----------------------------------------------------------------------------
(* dispatch and fire.                                                      *)

Due == {s \in Schedules : next[s] \in 1..now}

\* The answers DueSchedules may give: at most FireBudget due rows, oldest
\* first, ties in any order.
DueSchedules ==
  {q \in UNION {[1..n -> Due] : n \in 0..FireBudget} :
     /\ IsInjective(q)
     /\ Len(q) = FireBudget \/ Len(q) = Cardinality(Due)
     /\ \A i, j \in 1..Len(q) : i < j => next[q[i]] <= next[q[j]]
     /\ \A s \in Due \ {q[i] : i \in 1..Len(q)} :
          \A i \in 1..Len(q) : next[q[i]] <= next[s]}

\* The batch dispatch goes through, if there is one.
Begin(todo) ==
  IF todo = <<>> THEN Asleep ELSE [pc |-> "lookup", clock |-> now, todo |-> todo]

Tick(r) ==
  /\ replica[r].pc = "sleep"
  /\ \E q \in DueSchedules :
       replica' = [replica EXCEPT
         ![r] = Begin([i \in 1..Len(q) |-> [id |-> q[i], next |-> next[q[i]]]])]
  /\ UNCHANGED <<now, Table, keys, faults, History>>

Goto(r, pc) == replica' = [replica EXCEPT ![r].pc = pc]

\* The loop of dispatch moves on to the next row it read.
Continue(r) ==
  replica' = [replica EXCEPT
                ![r] = IF Len(@.todo) = 1 THEN Asleep
                       ELSE [pc |-> "lookup", clock |-> @.clock, todo |-> Tail(@.todo)]]

HeadKey(r) == Key(Head(replica[r].todo), replica[r].clock)

\* Mutant: the schedule is advanced before its job is enqueued.
LookupAdvancesFirst(r) ==
  LET item == Head(replica[r].todo) IN
  /\ replica[r].pc = "lookup"
  /\ Goto(r, IF HeadKey(r) \in keys THEN "advance" ELSE "create")
  /\ next' = [next EXCEPT
                ![item.id] = NextAfter(item.id, item.next, replica[r].clock)]
  /\ passed' = [passed EXCEPT ![item.id] = @ \cup {item.next}]
  /\ UNCHANGED <<now, ids, keys, faults, made>>

\* A schedule without a next occurrence is not fired, and stays as it is.
Fires(item, clock) == NextAfter(item.id, item.next, clock) # Zero

\* fire, as far as Enqueue's GetJobByIdempotencyKey.
Lookup(r) ==
  /\ replica[r].pc = "lookup"
  /\ IF Fires(Head(replica[r].todo), replica[r].clock)
     THEN Goto(r, IF HeadKey(r) \in keys THEN "advance" ELSE "create")
     ELSE Continue(r)
  /\ UNCHANGED <<now, Table, keys, faults, History>>

\* Enqueue: CreateJob, or ErrDuplicateIdempotencyKey.
CreateJob(r) ==
  LET item == Head(replica[r].todo) IN
  /\ replica[r].pc = "create"
  /\ IF HeadKey(r) \in keys
     THEN Goto(r, "again") /\ UNCHANGED <<keys, made>>
     ELSE /\ Goto(r, "advance")
          /\ keys' = keys \cup {HeadKey(r)}
          /\ made' = [made EXCEPT ![item.id][item.next] = @ + 1]
  /\ UNCHANGED <<now, Table, faults, passed>>

\* Enqueue: the lookup after a duplicate.  An error leaves the schedule due.
LookupAgain(r) ==
  /\ replica[r].pc = "again"
  /\ IF HeadKey(r) \in keys THEN Goto(r, "advance") ELSE Continue(r)
  /\ UNCHANGED <<now, Table, keys, faults, History>>

\* Mutant: the UPDATE is not conditional on the observed next_run_at.
AdvanceAlways(item) == next[item.id] # Zero

\* Mutant: the UPDATE compares with the next instant instead.
AdvanceNever(item) == next[item.id] = Next1(item.id, item.next)

\* AdvanceSchedule's WHERE clause.
Observed(item) == next[item.id] = item.next

AdvanceSchedule(r) ==
  LET item == Head(replica[r].todo) IN
  /\ replica[r].pc = "advance"
  /\ IF Observed(item)
     THEN /\ next' = [next EXCEPT
                        ![item.id] = NextAfter(item.id, item.next, replica[r].clock)]
          /\ passed' = [passed EXCEPT ![item.id] = @ \cup {item.next}]
     ELSE UNCHANGED <<next, passed>>
  /\ Continue(r)
  /\ UNCHANGED <<now, ids, keys, faults, made>>

\* A statement of fire fails, or its answer is lost: the schedule is not
\* advanced, and dispatch goes on with the next one.
StatementFails(r) ==
  /\ replica[r].pc # "sleep"
  /\ faults < MaxFaults
  /\ faults' = faults + 1
  /\ Continue(r)
  /\ UNCHANGED <<now, Table, keys, History>>

\* The instance dies between two statements and starts again.
Crash(r) ==
  /\ replica[r].pc # "sleep"
  /\ faults < MaxFaults
  /\ faults' = faults + 1
  /\ replica' = [replica EXCEPT ![r] = Asleep]
  /\ UNCHANGED <<now, Table, keys, History>>

ClockTicks ==
  /\ now < Horizon
  /\ now' = now + 1
  /\ UNCHANGED <<Table, keys, replica, faults, History>>

\* Retention deletes the job of a fire, and its key with it.
SweepRetention(k) ==
  /\ k \in keys
  /\ keys' = keys \ {k}
  /\ UNCHANGED <<now, Table, replica, faults, History>>

ReplicaStep(r) ==
  \/ Tick(r) \/ Lookup(r) \/ CreateJob(r) \/ LookupAgain(r) \/ AdvanceSchedule(r)
  \/ StatementFails(r) \/ Crash(r)

Next ==
  \/ \E s \in Schedules : CreateSchedule(s) \/ DeleteSchedule(s)
  \/ \E r \in Replicas : ReplicaStep(r)
  \/ ClockTicks

Spec == Init /\ [][Next]_vars

-----------------------------------------------------------------------------
\* However many instances see a schedule due, and whatever they crash between,
\* one fire instant yields one job (docs/SCHEDULES.md, "Exactly one job comes
\* out").
ExactlyOneJob ==
  \A s \in Schedules, t \in 0..Horizon : made[s][t] <= 1

\* Enqueue before advance: an instant a schedule has moved past has its job.
NoLostFire ==
  \A s \in Schedules : \A t \in passed[s] : made[s][t] >= 1

\* A schedule never moves backwards and never replays what it missed: it
\* advances past the clock of the instance that advances it, and an instance
\* acting on a stale read cannot undo another's advance.
AdvancesOnlyForward ==
  [][\A s \in Schedules :
       next[s] # Zero /\ next'[s] # next[s] /\ next'[s] # Zero =>
         /\ next'[s] > next[s]
         /\ \A r \in Replicas :
              replica'[r] # replica[r] => next'[s] > replica[r].clock]_vars

\* A due schedule fires and moves on (docs/SCHEDULES.md: late by at most one
\* tick), unless it is deleted.
DueSchedulesFire ==
  \A s \in Schedules : s \in Due ~> s \notin Due
=============================================================================
