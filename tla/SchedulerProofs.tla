-------------------------- MODULE SchedulerProofs ---------------------------
(***************************************************************************)
(* Proofs about Scheduler, Cron and CronSchedules, for any number of       *)
(* schedules and instances, any periods, lookahead, fire budget, faults    *)
(* and length of day: one job per fire, as long as retention keeps the     *)
(* jobs of fires; none lost, and schedules that only move forward, with or *)
(* without it; a parser and a search that are right about every expression.*)
(***************************************************************************)
EXTENDS CronSchedules, WellFoundedInduction, TLAPS

\* Steps without arithmetic are left to Zenon; the others name their prover.
USE Zenon

\* Only the empty sequence has no length.
LEMMA NoLength ==
  ASSUME NEW S, NEW seq \in Seq(S) PROVE Len(seq) \in Nat /\ (Len(seq) = 0 <=> seq = <<>>)
BY SMT

\* A row as dispatch read it.
Item == [id : Schedules, next : 1..Horizon]

Fire == Schedules \X (0..Horizon)

\* The unique index and the history agree: a job was made for the keys in it,
\* and for each one once.
KeysAreJobs ==
  /\ keys \subseteq Fire
  /\ made \in [Schedules -> [0..Horizon -> Nat]]
  /\ \A s \in Schedules, at \in 0..Horizon :
       IF <<s, at>> \in keys THEN made[s][at] = 1 ELSE made[s][at] = 0

\* Schedules are advanced only from instants whose key is taken.
PassedHaveKeys ==
  /\ passed \in [Schedules -> SUBSET (0..Horizon)]
  /\ \A s \in Schedules : \A at \in passed[s] : <<s, at>> \in keys

DispatchOK(d) ==
  /\ d \in Dispatch
  /\ d.pc # "sleep" => d.todo # <<>>

\* An instance that is not asleep has a row to fire.
BatchesOK ==
  /\ now \in 0..Horizon
  /\ replica \in [Replicas -> Dispatch]
  /\ \A r \in Replicas : DispatchOK(replica[r])

\* What an instance does with the rows it read: one about to advance a schedule
\* has seen, or made, the job of the instant it advances from.
AdvanceAfterEnqueue ==
  \A r \in Replicas : replica[r].pc = "advance" => HeadKey(r) \in keys

SInv ==
  /\ BatchesOK
  /\ KeysAreJobs
  /\ PassedHaveKeys
  /\ AdvanceAfterEnqueue

-----------------------------------------------------------------------------
\* An instance may sleep.
LEMMA AsleepOK == Asleep \in Dispatch /\ DispatchOK(Asleep) /\ Asleep.pc # "advance"
BY SchedulerAssumption, SMT DEF Asleep, Dispatch, DispatchOK

\* Before the first schedule there are no keys and no jobs.
LEMMA SchedInit == Init => SInv
BY AsleepOK, SchedulerAssumption, SMT
   DEF Init, SInv, BatchesOK, KeysAreJobs, PassedHaveKeys, AdvanceAfterEnqueue, Fire

\* The head of a batch is a row, and its key a fire.
LEMMA HeadFacts ==
  ASSUME BatchesOK, NEW r \in Replicas, replica[r].pc # "sleep"
  PROVE  /\ Head(replica[r].todo) \in Item
         /\ HeadKey(r) = <<Head(replica[r].todo).id, Head(replica[r].todo).next>>
         /\ HeadKey(r) \in Fire
<1>1. /\ replica[r].todo \in Seq(Item)
      /\ replica[r].todo # <<>>
  BY DEF BatchesOK, DispatchOK, Dispatch, Item
<1>2. Head(replica[r].todo) \in Item
  BY <1>1, SMT
<1>3. Head(replica[r].todo).next \in 0..Horizon
  BY <1>2, SchedulerAssumption, SMT DEF Item
<1> QED
  BY <1>2, <1>3 DEF HeadKey, Key, Fire, Item

\* The loop of dispatch leaves a batch it can go on with.
LEMMA ContinueFacts ==
  ASSUME BatchesOK, NEW r \in Replicas, replica[r].pc # "sleep", Continue(r)
  PROVE  /\ replica' \in [Replicas -> Dispatch]
         /\ \A q \in Replicas : q # r => replica'[q] = replica[q]
         /\ DispatchOK(replica'[r])
         /\ replica'[r].pc # "advance"
<1> DEFINE d == replica[r]
           e == [pc |-> "lookup", clock |-> d.clock, todo |-> Tail(d.todo)]
<1>1. /\ d \in Dispatch /\ d.todo # <<>>
      /\ replica \in [Replicas -> Dispatch]
  BY DEF BatchesOK, DispatchOK
<1>2. d.todo \in Seq(Item)
  BY <1>1 DEF Dispatch, Item
<1>3. CASE Len(d.todo) = 1
  BY <1>1, <1>3, AsleepOK DEF Continue
<1>4. CASE Len(d.todo) # 1
  <2>1. Tail(d.todo) \in Seq(Item) /\ Tail(d.todo) # <<>>
    <3>1. Len(d.todo) \in Nat /\ Len(d.todo) # 0
      BY <1>1, <1>2, SMT
    <3>2. Len(Tail(d.todo)) = Len(d.todo) - 1 /\ Tail(d.todo) \in Seq(Item)
      BY <1>1, <1>2, SMT
    <3>3. Len(Tail(d.todo)) # 0
      BY <1>4, <3>1, <3>2, SMT
    <3> QED
      BY <3>2, <3>3, NoLength
  <2>2. e \in Dispatch /\ e.pc = "lookup" /\ e.todo # <<>>
    BY <1>1, <2>1 DEF Dispatch, Item
  <2>3. replica' = [replica EXCEPT ![r] = e]
    BY <1>4 DEF Continue
  <2> QED
    BY <1>1, <2>2, <2>3 DEF DispatchOK
<1> QED
  BY <1>3, <1>4

\* Another statement for the same row.
LEMMA GotoFacts ==
  ASSUME BatchesOK, NEW r \in Replicas, replica[r].pc # "sleep",
         NEW step \in {"lookup", "create", "again", "advance"}, Goto(r, step)
  PROVE  /\ replica' \in [Replicas -> Dispatch]
         /\ \A q \in Replicas : q # r => replica'[q] = replica[q]
         /\ DispatchOK(replica'[r])
         /\ replica'[r].pc = step
         /\ HeadKey(r)' = HeadKey(r)
<1>1. /\ replica[r] \in Dispatch /\ replica[r].todo # <<>>
      /\ replica \in [Replicas -> Dispatch]
  BY DEF BatchesOK, DispatchOK
<1>2. replica' = [replica EXCEPT ![r] = [replica[r] EXCEPT !.pc = step]]
  BY DEF Goto
<1>3. /\ replica'[r] \in Dispatch
      /\ replica'[r].pc = step
      /\ replica'[r].todo = replica[r].todo
      /\ replica'[r].clock = replica[r].clock
  BY <1>1, <1>2 DEF Dispatch
<1> QED
  BY <1>1, <1>2, <1>3 DEF DispatchOK, HeadKey

\* The rows DueSchedules returns make a batch.
LEMMA TickFacts ==
  ASSUME BatchesOK, NEW r \in Replicas, Tick(r)
  PROVE  /\ replica' \in [Replicas -> Dispatch]
         /\ \A q \in Replicas : q # r => replica'[q] = replica[q]
         /\ DispatchOK(replica'[r])
         /\ replica'[r].pc # "advance"
<1>1. PICK q \in DueSchedules :
        replica' = [replica EXCEPT
          ![r] = Begin([i \in 1..Len(q) |-> [id |-> q[i], next |-> next[q[i]]]])]
  BY DEF Tick
<1> DEFINE todo == [i \in 1..Len(q) |-> [id |-> q[i], next |-> next[q[i]]]]
<1>2. PICK n \in 0..FireBudget : q \in [1..n -> Due]
  BY DEF DueSchedules
<1>3. n \in Nat
  BY <1>2, SchedulerAssumption, SMT DEF FireBudget
<1>4. q \in Seq(Due) /\ Len(q) = n
  BY <1>2, <1>3, SMT
<1>5. \A s \in Due : s \in Schedules /\ next[s] \in 1..Horizon
  BY SchedulerAssumption, SMT DEF Due, BatchesOK
<1>6. todo \in Seq(Item)
  <2>1. \A i \in 1..n : [id |-> q[i], next |-> next[q[i]]] \in Item
    BY <1>2, <1>5 DEF Item
  <2>2. todo \in [1..n -> Item]
    BY <1>4, <2>1
  <2> QED
    BY <1>3, <2>2, SMT
<1>7. Begin(todo) \in Dispatch /\ DispatchOK(Begin(todo)) /\ Begin(todo).pc # "advance"
  <2>1. CASE todo = <<>>
    BY <2>1, AsleepOK DEF Begin
  <2>2. CASE todo # <<>>
    <3> HIDE DEF todo
    <3> QED
      BY <1>6, <2>2 DEF Begin, Dispatch, DispatchOK, Item, BatchesOK
  <2> QED
    BY <2>1, <2>2
<1> QED
  <2> HIDE DEF todo
  <2>1. replica' = [replica EXCEPT ![r] = Begin(todo)]
    BY <1>1 DEF todo
  <2>2. replica \in [Replicas -> Dispatch]
    BY DEF BatchesOK
  <2> QED
    BY <1>7, <2>1, <2>2

-----------------------------------------------------------------------------
\* A step of one instance that takes no key back keeps what the others have.
LEMMA OneReplica ==
  ASSUME SInv, NEW r \in Replicas, keys \subseteq keys', now' = now,
         replica' \in [Replicas -> Dispatch],
         \A q \in Replicas : q # r => replica'[q] = replica[q],
         DispatchOK(replica'[r]),
         replica'[r].pc = "advance" => HeadKey(r)' \in keys'
  PROVE  BatchesOK' /\ AdvanceAfterEnqueue'
<1>1. ASSUME NEW q \in Replicas, q # r
      PROVE  /\ DispatchOK(replica'[q])
             /\ replica'[q].pc = "advance" => HeadKey(q)' \in keys'
  <2>1. replica'[q] = replica[q] /\ HeadKey(q)' = HeadKey(q)
    BY <1>1 DEF HeadKey
  <2> QED
    BY <2>1 DEF SInv, BatchesOK, AdvanceAfterEnqueue
<1> QED
  BY <1>1 DEF SInv, BatchesOK, AdvanceAfterEnqueue

\* Steps that neither make a job nor advance a schedule.
LEMMA TablesKept ==
  ASSUME SInv, UNCHANGED <<keys, made, passed>>
  PROVE  KeysAreJobs' /\ PassedHaveKeys' /\ keys \subseteq keys'
BY DEF SInv, KeysAreJobs, PassedHaveKeys

\* Lookup sends an instance to advance only if it found the key.
LEMMA LookupInv == ASSUME SInv, NEW r \in Replicas, Lookup(r) PROVE SInv'
<1>1. replica[r].pc # "sleep" /\ UNCHANGED <<now, keys, made, passed>>
  BY DEF Lookup, History
<1>2. CASE Continue(r)
  BY <1>1, <1>2, ContinueFacts, OneReplica, TablesKept DEF SInv
<1>3. CASE Goto(r, "advance") /\ HeadKey(r) \in keys
  BY <1>1, <1>3, GotoFacts, OneReplica, TablesKept DEF SInv
<1>4. CASE Goto(r, "create")
  BY <1>1, <1>4, GotoFacts, OneReplica, TablesKept DEF SInv
<1> QED
  BY <1>2, <1>3, <1>4 DEF Lookup

\* So does the lookup after a duplicate.
LEMMA LookupAgainInv == ASSUME SInv, NEW r \in Replicas, LookupAgain(r) PROVE SInv'
<1>1. replica[r].pc # "sleep" /\ UNCHANGED <<now, keys, made, passed>>
  BY DEF LookupAgain, History
<1>2. CASE Continue(r)
  BY <1>1, <1>2, ContinueFacts, OneReplica, TablesKept DEF SInv
<1>3. CASE Goto(r, "advance") /\ HeadKey(r) \in keys
  BY <1>1, <1>3, GotoFacts, OneReplica, TablesKept DEF SInv
<1> QED
  BY <1>2, <1>3 DEF LookupAgain

\* One more in a table of counts.
LEMMA CountOne ==
  ASSUME NEW S, NEW f \in [S -> Nat], NEW at \in S
  PROVE  /\ [f EXCEPT ![at] = f[at] + 1] \in [S -> Nat]
         /\ [f EXCEPT ![at] = f[at] + 1][at] = f[at] + 1
BY SMT

\* CreateJob: the key that is free is taken together with the job it stands for.
LEMMA CreateJobInv == ASSUME SInv, NEW r \in Replicas, CreateJob(r) PROVE SInv'
<1> DEFINE item == Head(replica[r].todo)
<1>1. replica[r].pc # "sleep" /\ UNCHANGED <<now, passed>>
  BY DEF CreateJob
<1>2. CASE HeadKey(r) \in keys
  <2>1. Goto(r, "again") /\ UNCHANGED <<keys, made>>
    BY <1>2 DEF CreateJob
  <2> QED
    BY <1>1, <2>1, GotoFacts, OneReplica, TablesKept DEF SInv
<1>3. CASE HeadKey(r) \notin keys
  <2>1. /\ Goto(r, "advance")
        /\ keys' = keys \cup {HeadKey(r)}
        /\ made' = [made EXCEPT ![item.id][item.next] = @ + 1]
    BY <1>3 DEF CreateJob
  <2>2. /\ HeadKey(r) = <<item.id, item.next>> /\ HeadKey(r) \in Fire
        /\ item.id \in Schedules /\ item.next \in 0..Horizon
    BY <1>1, HeadFacts, SMT DEF Fire, SInv
  <2>3. made[item.id][item.next] = 0
    BY <1>3, <2>2 DEF SInv, KeysAreJobs
  <2>4. KeysAreJobs'
    <3> DEFINE row == [made[item.id] EXCEPT ![item.next] = made[item.id][item.next] + 1]
    <3>0. /\ made \in [Schedules -> [0..Horizon -> Nat]]
          /\ row \in [0..Horizon -> Nat]
          /\ row[item.next] = 1
          /\ made' = [made EXCEPT ![item.id] = row]
      <4>1. made \in [Schedules -> [0..Horizon -> Nat]]
        BY DEF SInv, KeysAreJobs
      <4>2. made[item.id] \in [0..Horizon -> Nat]
        BY <2>2, <4>1
      <4>3. made' = [made EXCEPT ![item.id] = row]
        BY <2>1
      <4>4. row \in [0..Horizon -> Nat] /\ row[item.next] = made[item.id][item.next] + 1
        BY <2>2, <4>2, CountOne
      <4>5. row[item.next] = 1
        BY <2>3, <4>4, SMT
      <4> QED
        BY <4>1, <4>3, <4>4, <4>5
    <3>1. keys' \subseteq Fire
      BY <2>1, <2>2 DEF SInv, KeysAreJobs
    <3>2. made' \in [Schedules -> [0..Horizon -> Nat]]
      BY <2>2, <3>0
    <3>3. ASSUME NEW s \in Schedules, NEW at \in 0..Horizon
          PROVE  IF <<s, at>> \in keys' THEN made'[s][at] = 1 ELSE made'[s][at] = 0
      <4>1. CASE s = item.id /\ at = item.next
        BY <2>1, <2>2, <3>0, <4>1
      <4>2. CASE ~(s = item.id /\ at = item.next)
        <5>1. made'[s][at] = made[s][at]
          BY <2>2, <3>0, <4>2, ZenonT(40)
        <5>2. <<s, at>> \in keys' <=> <<s, at>> \in keys
          BY <2>1, <2>2, <4>2, SMT
        <5> QED
          BY <5>1, <5>2 DEF SInv, KeysAreJobs
      <4> QED
        BY <4>1, <4>2
    <3> QED
      BY <3>1, <3>2, <3>3 DEF KeysAreJobs
  <2>5. keys \subseteq keys' /\ PassedHaveKeys'
    BY <1>1, <2>1 DEF SInv, PassedHaveKeys
  <2>6. HeadKey(r)' \in keys'
    BY <1>1, <2>1, GotoFacts DEF SInv
  <2>7. BatchesOK' /\ AdvanceAfterEnqueue'
    BY <1>1, <2>1, <2>5, <2>6, GotoFacts, OneReplica DEF SInv
  <2> QED
    BY <1>1, <2>4, <2>5, <2>7 DEF SInv
<1> QED
  BY <1>2, <1>3

\* AdvanceSchedule: what is passed is the head's instant, whose key is taken.
LEMMA AdvanceInv == ASSUME SInv, NEW r \in Replicas, AdvanceSchedule(r) PROVE SInv'
<1> DEFINE item == Head(replica[r].todo)
<1>1. /\ replica[r].pc = "advance" /\ Continue(r)
      /\ UNCHANGED <<now, keys, made>>
  BY DEF AdvanceSchedule
<1>2. /\ item.id \in Schedules /\ item.next \in 0..Horizon
      /\ <<item.id, item.next>> \in keys
  BY <1>1, HeadFacts, SMT DEF Fire, SInv, AdvanceAfterEnqueue
<1>3. \/ passed' = [passed EXCEPT ![item.id] = @ \cup {item.next}]
      \/ passed' = passed
  BY DEF AdvanceSchedule
<1>4. PassedHaveKeys'
  BY <1>1, <1>2, <1>3, SMT DEF SInv, PassedHaveKeys
<1>5. KeysAreJobs' /\ keys \subseteq keys'
  BY <1>1 DEF SInv, KeysAreJobs
<1>6. BatchesOK' /\ AdvanceAfterEnqueue'
  BY <1>1, <1>5, ContinueFacts, OneReplica DEF SInv
<1> QED
  BY <1>1, <1>4, <1>5, <1>6 DEF SInv

\* Every step of instances, clients and the clock preserves the invariant.
LEMMA SchedNext == SInv /\ [Next]_vars => SInv'
<1> SUFFICES ASSUME SInv, [Next]_vars PROVE SInv'
  OBVIOUS
<1>1. CASE /\ now' \in 0..Horizon
           /\ UNCHANGED <<keys, made, passed, replica>>
  BY <1>1 DEF SInv, BatchesOK, KeysAreJobs, PassedHaveKeys, AdvanceAfterEnqueue, HeadKey
<1>2. ASSUME NEW r \in Replicas, ReplicaStep(r) PROVE SInv'
  <2>1. CASE Tick(r)
    <3>1. UNCHANGED <<now, keys, made, passed>>
      BY <2>1 DEF Tick, History
    <3> QED
      BY <2>1, <3>1, TickFacts, OneReplica, TablesKept DEF SInv
  <2>2. CASE StatementFails(r)
    <3>1. replica[r].pc # "sleep" /\ Continue(r) /\ UNCHANGED <<now, keys, made, passed>>
      BY <2>2 DEF StatementFails, History
    <3> QED
      BY <3>1, ContinueFacts, OneReplica, TablesKept DEF SInv
  <2>3. CASE Crash(r)
    <3>1. replica' = [replica EXCEPT ![r] = Asleep] /\ UNCHANGED <<now, keys, made, passed>>
      BY <2>3 DEF Crash, History
    <3>2. replica \in [Replicas -> Dispatch]
      BY DEF SInv, BatchesOK
    <3>3. BatchesOK' /\ AdvanceAfterEnqueue'
      BY <3>1, <3>2, AsleepOK, OneReplica
    <3> QED
      BY <3>1, <3>3, TablesKept DEF SInv
  <2> QED
    BY <1>2, <2>1, <2>2, <2>3, LookupInv, LookupAgainInv, CreateJobInv, AdvanceInv
       DEF ReplicaStep
<1>3. ASSUME NEW s \in Schedules, CreateSchedule(s) \/ DeleteSchedule(s)
      PROVE  SInv'
  BY <1>1, <1>3 DEF CreateSchedule, DeleteSchedule, History, SInv, BatchesOK
<1>4. CASE ClockTicks
  BY <1>1, <1>4, SchedulerAssumption, SMT DEF ClockTicks, History, SInv, BatchesOK
<1>5. CASE UNCHANGED vars
  BY <1>1, <1>5 DEF vars, SInv, BatchesOK
<1> QED
  BY <1>2, <1>3, <1>4, <1>5 DEF Next

\* The inductive invariant: jobs and keys agree, and a schedule is passed, or
\* about to be, only from an instant whose key is taken.
THEOREM SchedInvariance == Spec => []SInv
BY SchedInit, SchedNext, PTL DEF Spec

\* Exactly one job per fire: however many instances fire and crash, the key
\* minted from next_run_at admits one job.
THEOREM OneJobPerFire == Spec => []ExactlyOneJob
<1>1. SInv => ExactlyOneJob
  <2> SUFFICES ASSUME SInv, NEW s \in Schedules, NEW at \in 0..Horizon
               PROVE  made[s][at] <= 1
    BY DEF ExactlyOneJob
  <2>1. made[s][at] = 1 \/ made[s][at] = 0
    BY DEF SInv, KeysAreJobs
  <2> QED
    BY <2>1, SMT
<1> QED
  BY <1>1, SchedInvariance, PTL

\* Enqueue before advance: no fire is passed without its job.
THEOREM NoFireIsLost == Spec => []NoLostFire
<1>1. SInv => NoLostFire
  <2> SUFFICES ASSUME SInv, NEW s \in Schedules, NEW at \in passed[s]
               PROVE  made[s][at] >= 1
    BY DEF NoLostFire
  <2>1. at \in 0..Horizon /\ <<s, at>> \in keys
    BY DEF SInv, PassedHaveKeys
  <2>2. made[s][at] = 1
    BY <2>1 DEF SInv, KeysAreJobs
  <2> QED
    BY <2>2, SMT
<1> QED
  BY <1>1, SchedInvariance, PTL

-----------------------------------------------------------------------------
(* Parsing.                                                                *)

\* A part the parser accepts stands for some values, all inside the bounds.
LEMMA PartInBounds ==
  ASSUME NEW min \in Int, NEW max \in Int, min <= max,
         NEW p \in Search!Part, Search!PartValid(p, min, max)
  PROVE  /\ Search!PartValues(p, min, max) # {}
         /\ Search!PartValues(p, min, max) \subseteq min..max
<1>1. CASE p.k = "star"
  <2>1. Search!PartValues(p, min, max) = min..max
    BY <1>1 DEF Search!PartValues
  <2> QED
    BY <2>1, SMT
<1>2. CASE p.k = "step"
  <2>1. p.n \in Int /\ p.n > 0
    BY <1>2 DEF Search!Part, Search!PartValid
  <2>2. Search!PartValues(p, min, max) = {v \in min..max : (v - min) % p.n = 0}
    BY <1>2 DEF Search!PartValues
  <2>3. min \in min..max /\ (min - min) % p.n = 0
    BY <2>1, SMT
  <2>4. min \in Search!PartValues(p, min, max)
    BY <2>2, <2>3
  <2> QED
    BY <2>2, <2>4
<1>3. CASE p.k = "range"
  <2>1. p.lo \in Int /\ p.hi \in Int /\ min <= p.lo /\ p.hi <= max /\ p.lo <= p.hi
    BY <1>3 DEF Search!Part, Search!PartValid
  <2>2. Search!PartValues(p, min, max) = p.lo..p.hi
    BY <1>3 DEF Search!PartValues
  <2> QED
    BY <2>1, <2>2, SMT
<1>4. CASE p.k = "value"
  <2>1. p.n \in Int /\ min <= p.n /\ p.n <= max
    BY <1>4 DEF Search!Part, Search!PartValid
  <2>2. Search!PartValues(p, min, max) = {p.n}
    BY <1>4 DEF Search!PartValues
  <2> QED
    BY <2>1, <2>2, SMT
<1>5. p.k # "bad"
  BY DEF Search!PartValid
<1> QED
  BY <1>1, <1>2, <1>3, <1>4, <1>5 DEF Search!Part

\* So does a field, as it has a part.
LEMMA FieldInBounds ==
  ASSUME NEW min \in Int, NEW max \in Int, min <= max,
         NEW f \in Seq(Search!Part), Len(f) > 0, Search!FieldValid(f, min, max)
  PROVE  /\ Search!parseField(f, min, max) # {}
         /\ Search!parseField(f, min, max) \subseteq min..max
<1>1. \A i \in 1..Len(f) :
        /\ Search!PartValues(f[i], min, max) # {}
        /\ Search!PartValues(f[i], min, max) \subseteq min..max
  BY PartInBounds, SMT DEF Search!FieldValid
<1>2. 1 \in 1..Len(f)
  BY SMT
<1> QED
  BY <1>1, <1>2 DEF Search!parseField

\* No field of the expression has empty bounds.
LEMMA BoundsOK ==
  \A i \in 1..5 : /\ Search!Bounds[i].min \in Int /\ Search!Bounds[i].max \in Int
                  /\ Search!Bounds[i].min <= Search!Bounds[i].max
BY CronAssumption, SMT DEF Search!Bounds

\* Parse: so do all five.
LEMMA ParsesInBounds ==
  ASSUME NEW e \in Expressions, Search!Parses(e), NEW i \in 1..5
  PROVE  /\ Search!Parse(e)[i] # {}
         /\ Search!Parse(e)[i] \subseteq Search!Bounds[i].min..Search!Bounds[i].max
<1> DEFINE b == Search!Bounds[i]
<1>1. /\ e[i] \in Seq(Search!Part) /\ Len(e[i]) > 0
      /\ Search!FieldValid(e[i], b.min, b.max)
  <2>1. e \in Seq(Seq(Search!Part)) /\ \A j \in 1..Len(e) : Len(e[j]) > 0
    BY CronAssumption DEF Search!Expression
  <2>2. i \in 1..Len(e)
    BY DEF Search!Parses
  <2>3. e[i] \in Seq(Search!Part) /\ Len(e[i]) > 0
    BY <2>1, <2>2, SMT
  <2> QED
    BY <2>3 DEF Search!Parses
<1>2. Search!Parse(e)[i] = Search!parseField(e[i], b.min, b.max)
  BY DEF Search!Parse
<1>3. b.min \in Int /\ b.max \in Int /\ b.min <= b.max
  BY BoundsOK
<1> HIDE DEF b
<1>4. /\ Search!parseField(e[i], b.min, b.max) # {}
      /\ Search!parseField(e[i], b.min, b.max) \subseteq b.min..b.max
  BY <1>1, <1>3, FieldInBounds
<1> QED
  BY <1>2, <1>4 DEF b

-----------------------------------------------------------------------------
(* The calendar.                                                           *)

\* package time: the lengths of months.
LEMMA MonthLengths ==
  \A y \in Nat, m \in 1..12 : Search!DaysIn(y, m) \in 28..31
BY SMT DEF Search!DaysIn

\* Weekdays are counted modulo seven.
LEMMA Weekdays == \A w \in Int : w % 7 \in 0..6 /\ (w \in 0..6 => w % 7 = w)
BY SMT

\* A date made of fields in range.
LEMMA DateIsInstant ==
  ASSUME NEW y \in Nat, NEW m \in 1..12, NEW d \in 1..31, NEW w \in 0..6,
         NEW h \in 0..HoursPerDay - 1, NEW n \in 0..MinutesPerHour - 1,
         d <= Search!DaysIn(y, m)
  PROVE  Search!Instant(Search!Date(y, m, d, w, h, n))
BY DEF Search!Instant, Search!Date

\* The fields of an instant.
LEMMA InstantFacts ==
  ASSUME NEW a, Search!Instant(a)
  PROVE  /\ a.y \in Nat /\ a.m \in 1..12 /\ a.d \in 1..31 /\ a.w \in 0..6
         /\ a.h \in 0..HoursPerDay - 1 /\ a.n \in 0..MinutesPerHour - 1
         /\ a.d <= Search!DaysIn(a.y, a.m)
         /\ Search!DaysIn(a.y, a.m) \in 28..31
         /\ HoursPerDay \in Nat \ {0} /\ MinutesPerHour \in Nat \ {0}
BY MonthLengths, CronAssumption DEF Search!Instant

\* time.Date: the start of the day is an instant,
LEMMA MidnightIsInstant ==
  ASSUME NEW a, Search!Instant(a) PROVE Search!Instant(Search!Midnight(a))
<1>1. 0 \in 0..HoursPerDay - 1 /\ 0 \in 0..MinutesPerHour - 1
  BY CronAssumption, SMT
<1> QED
  BY <1>1, InstantFacts, DateIsInstant DEF Search!Midnight

\* and the first of the next month,
LEMMA MonthIsInstant ==
  ASSUME NEW a, Search!Instant(a) PROVE Search!Instant(Search!NextMonth(a))
<1> DEFINE y == IF a.m = 12 THEN a.y + 1 ELSE a.y
           m == IF a.m = 12 THEN 1 ELSE a.m + 1
           w == (a.w + Search!DaysIn(a.y, a.m) - a.d + 1) % 7
<1>1. w \in 0..6 /\ y \in Nat /\ m \in 1..12 /\ 1 \in 1..31
  BY InstantFacts, Weekdays, SMT
<1>2. Search!NextMonth(a) = Search!Date(y, m, 1, w, a.h, a.n)
  BY DEF Search!NextMonth
<1> HIDE DEF y, m, w
<1>3. 1 <= Search!DaysIn(y, m)
  BY <1>1, MonthLengths, SMT
<1> QED
  BY <1>1, <1>2, <1>3, InstantFacts, DateIsInstant

\* the next day,
LEMMA DayIsInstant ==
  ASSUME NEW a, Search!Instant(a) PROVE Search!Instant(Search!NextDay(a))
<1>1. CASE a.d = Search!DaysIn(a.y, a.m)
  BY <1>1, MonthIsInstant DEF Search!NextDay
<1>2. CASE a.d # Search!DaysIn(a.y, a.m)
  <2>1. a.d + 1 \in 1..31 /\ (a.w + 1) % 7 \in 0..6 /\ a.d + 1 <= Search!DaysIn(a.y, a.m)
    BY <1>2, InstantFacts, SMT
  <2> QED
    BY <1>2, <2>1, InstantFacts, DateIsInstant DEF Search!NextDay
<1> QED
  BY <1>1, <1>2

\* the next hour
LEMMA HourIsInstant ==
  ASSUME NEW a, Search!Instant(a) PROVE Search!Instant(Search!NextHour(a))
<1>1. CASE a.h = HoursPerDay - 1
  BY <1>1, DayIsInstant, MidnightIsInstant DEF Search!NextHour
<1>2. CASE a.h # HoursPerDay - 1
  <2>1. a.h + 1 \in 0..HoursPerDay - 1 /\ 0 \in 0..MinutesPerHour - 1
    BY <1>2, InstantFacts, SMT
  <2> QED
    BY <1>2, <2>1, InstantFacts, DateIsInstant DEF Search!NextHour
<1> QED
  BY <1>1, <1>2

\* and the next minute.
LEMMA MinuteIsInstant ==
  ASSUME NEW a, Search!Instant(a) PROVE Search!Instant(Search!NextMinute(a))
<1>1. CASE a.n = MinutesPerHour - 1
  BY <1>1, HourIsInstant DEF Search!NextMinute
<1>2. CASE a.n # MinutesPerHour - 1
  <2>1. a.n + 1 \in 0..MinutesPerHour - 1
    BY <1>2, InstantFacts, SMT
  <2> QED
    BY <1>2, <2>1, InstantFacts, DateIsInstant DEF Search!NextMinute
<1> QED
  BY <1>1, <1>2

\* Integer division.
LEMMA Division ==
  ASSUME NEW x \in Int, NEW m \in Int, m > 0
  PROVE  /\ x \div m \in Int /\ x % m \in 0..m - 1
         /\ x = m * (x \div m) + (x % m)
<1>1. x \div m \in Int
  BY SMT
<1>2. x % m \in 0..m - 1
  BY SMT
<1>3. x = m * (x \div m) + (x % m)
  BY SMT
<1> QED
  BY <1>1, <1>2, <1>3

\* A multiple of m and less than m more.
LEMMA Quotient ==
  ASSUME NEW m \in Nat \ {0}, NEW q \in Int, NEW r \in 0..m - 1
  PROVE  (q * m + r) \div m = q /\ (q * m + r) % m = r
<1> DEFINE x == q * m + r
           p == x \div m
           s == x % m
<1>1. x \in Int /\ p \in Int /\ s \in 0..m - 1 /\ x = (m * p) + s
  BY Division, SMT
<1>2. x = q * m + r
  OBVIOUS
<1> HIDE DEF x, p, s
<1>3. p = q
  <2>1. CASE p > q
    <3>1. (p - q - 1) * m >= 0
      BY <1>1, <2>1, SMT
    <3>2. m * p >= q * m + m
      BY <1>1, <3>1, SMT
    <3> QED
      BY <1>1, <1>2, <3>2, SMT
  <2>2. CASE p < q
    <3>1. (q - p - 1) * m >= 0
      BY <1>1, <2>2, SMT
    <3>2. q * m >= m * p + m
      BY <1>1, <3>1, SMT
    <3> QED
      BY <1>1, <1>2, <3>2, SMT
  <2> QED
    BY <1>1, <2>1, <2>2, SMT
<1>4. s = r
  BY <1>1, <1>2, <1>3, SMT
<1> QED
  BY <1>3, <1>4 DEF x, p, s

\* k hours of m minutes, and an instant into them.
LEMMA DayMinutes ==
  ASSUME NEW k \in Nat \ {0}, NEW m \in Nat \ {0}, NEW h \in 0..k - 1, NEW n \in 0..m - 1
  PROVE  /\ k * m \in Nat \ {0}
         /\ h * m + n \in 0..(k * m) - 1
<1>1. k * m \in Int /\ h * m \in Int /\ h * m >= 0
  BY SMT
<1>2. (k - 1 - h) * m >= 0
  BY SMT
<1>3. k * m >= h * m + m
  BY <1>2, SMT
<1> QED
  BY <1>1, <1>3, SMT

\* A day has minutes, and an instant is one of them.
LEMMA IntoDayFacts ==
  ASSUME NEW a, Search!Instant(a)
  PROVE  /\ Search!MinutesPerDay \in Nat \ {0}
         /\ Search!IntoDay(a) \in 0..Search!MinutesPerDay - 1
BY InstantFacts, DayMinutes DEF Search!MinutesPerDay, Search!IntoDay

\* What Later leaves alone: the month always,
LEMMA LaterInMonth == ASSUME NEW a, NEW i PROVE Search!Later(a, i).m = a.m
BY DEF Search!Later, Search!Date

\* the date while the day lasts,
LEMMA LaterInDay ==
  ASSUME NEW a, Search!Instant(a), NEW i \in Nat,
         Search!IntoDay(a) + i < Search!MinutesPerDay
  PROVE  Search!Later(a, i).d = a.d /\ Search!Later(a, i).w = a.w
<1> DEFINE total == Search!IntoDay(a) + i
           days == total \div Search!MinutesPerDay
<1>1. Search!MinutesPerDay \in Nat \ {0} /\ total \in 0..Search!MinutesPerDay - 1
  BY IntoDayFacts, SMT
<1>2. days = 0
  <2> HIDE DEF total
  <2>1. (0 * Search!MinutesPerDay + total) \div Search!MinutesPerDay = 0
    BY <1>1, Quotient, SMT
  <2> QED
    BY <1>1, <2>1, SMT
<1>3. Search!Later(a, i).d = a.d + days /\ Search!Later(a, i).w = (a.w + days) % 7
  BY DEF Search!Later, Search!Date
<1> HIDE DEF days
<1> QED
  BY <1>2, <1>3, InstantFacts, SMT

\* the hour while it lasts,
LEMMA LaterInHour ==
  ASSUME NEW a, Search!Instant(a), NEW i \in Nat, a.n + i < MinutesPerHour
  PROVE  /\ Search!IntoDay(a) + i < Search!MinutesPerDay
         /\ Search!Later(a, i).h = a.h
         /\ Search!Later(a, i).n = a.n + i
<1> DEFINE total == Search!IntoDay(a) + i
           into == total % Search!MinutesPerDay
<1>1. /\ a.h \in 0..HoursPerDay - 1 /\ a.n + i \in 0..MinutesPerHour - 1
      /\ HoursPerDay \in Nat \ {0} /\ MinutesPerHour \in Nat \ {0}
  BY InstantFacts, SMT
<1>2. total = a.h * MinutesPerHour + (a.n + i)
  BY InstantFacts, SMT DEF Search!IntoDay
<1>3. Search!MinutesPerDay \in Nat \ {0} /\ total \in 0..Search!MinutesPerDay - 1
  BY <1>1, <1>2, DayMinutes DEF Search!MinutesPerDay
<1>4. into = total
  <2> HIDE DEF total
  <2>1. (0 * Search!MinutesPerDay + total) % Search!MinutesPerDay = total
    BY <1>3, Quotient, SMT
  <2> QED
    BY <1>3, <2>1, SMT
<1>5. Search!Later(a, i).h = into \div MinutesPerHour
      /\ Search!Later(a, i).n = total % MinutesPerHour
  BY DEF Search!Later, Search!Date
<1>6. total \div MinutesPerHour = a.h /\ total % MinutesPerHour = a.n + i
  <2>1. a.h \in Int
    BY <1>1, SMT
  <2>2. /\ (a.h * MinutesPerHour + (a.n + i)) \div MinutesPerHour = a.h
        /\ (a.h * MinutesPerHour + (a.n + i)) % MinutesPerHour = a.n + i
    BY <1>1, <2>1, Quotient
  <2> HIDE DEF total
  <2> QED
    BY <1>2, <2>2
<1> HIDE DEF into
<1> QED
  BY <1>3, <1>4, <1>5, <1>6, SMT

-----------------------------------------------------------------------------
(* The search.                                                             *)

\* Next works on a parsed expression, and its candidate is an instant.
CronInv ==
  /\ expr \in Expressions /\ Search!Parses(expr)
  /\ Search!Instant(t)
  /\ gone \in Nat

\* What a round of the loop may do, as SkipsOnlyMisses has it.
SkipsMisses ==
  /\ \A i \in 0..(gone' - gone - 1) :
       ~Search!Matches(Search!Parse(expr), Search!Later(t, i))
  /\ pc' = "found" => Search!Matches(Search!Parse(expr), t')
  /\ pc' = "search" => gone' > gone

\* The loop starts one minute on.
LEMMA SearchInit == Search!Init => CronInv
BY CronAssumption, MinuteIsInstant, SMT DEF Search!Init, CronInv

\* The month is wrong, and stays so to its end.
LEMMA SkipMonthStep ==
  ASSUME CronInv, Search!SkipMonth PROVE CronInv' /\ SkipsMisses
<1> DEFINE rest == Search!DaysIn(t.y, t.m) - t.d + 1
           minutes == rest * Search!MinutesPerDay - Search!IntoDay(t)
<1>1. /\ t' = Search!Midnight(Search!NextMonth(t)) /\ gone' = gone + minutes
      /\ UNCHANGED <<expr, pc>> /\ pc = "search" /\ ~Search!InMonth(Search!Parse(expr), t)
  BY DEF Search!SkipMonth, Search!Skip, Search!Searching
<1>2. minutes \in Nat \ {0}
  <2>1. rest \in Nat \ {0}
    BY InstantFacts, SMT DEF CronInv
  <2>2. /\ Search!MinutesPerDay \in Nat \ {0}
        /\ Search!IntoDay(t) \in 0..Search!MinutesPerDay - 1
    BY IntoDayFacts DEF CronInv
  <2> HIDE DEF rest
  <2>3. (rest - 1) * Search!MinutesPerDay >= 0
    BY <2>1, <2>2, SMT
  <2>4. rest * Search!MinutesPerDay >= Search!MinutesPerDay
    BY <2>1, <2>2, <2>3, SMT
  <2> QED
    BY <2>1, <2>2, <2>4, SMT
<1> HIDE DEF minutes
<1>3. CronInv'
  BY <1>1, <1>2, MonthIsInstant, MidnightIsInstant, SMT DEF CronInv
<1>4. \A i : ~Search!Matches(Search!Parse(expr), Search!Later(t, i))
  BY <1>1, LaterInMonth DEF Search!Matches, Search!InMonth
<1> QED
  BY <1>1, <1>2, <1>3, <1>4, SMT DEF SkipsMisses, CronInv

\* The day is wrong, and stays so to midnight.
LEMMA SkipDayStep ==
  ASSUME CronInv, Search!SkipDay PROVE CronInv' /\ SkipsMisses
<1> DEFINE minutes == Search!MinutesPerDay - Search!IntoDay(t)
<1>1. /\ t' = Search!Midnight(Search!NextDay(t)) /\ gone' = gone + minutes
      /\ UNCHANGED <<expr, pc>> /\ pc = "search" /\ ~Search!InDay(Search!Parse(expr), t)
  BY DEF Search!SkipDay, Search!Skip, Search!Searching
<1>2. /\ minutes \in Nat \ {0} /\ gone \in Nat
      /\ Search!IntoDay(t) \in Int /\ Search!MinutesPerDay \in Int
  BY IntoDayFacts, SMT DEF CronInv
<1>3. CronInv'
  BY <1>1, <1>2, DayIsInstant, MidnightIsInstant, SMT DEF CronInv
<1>4. ASSUME NEW i \in 0..(gone' - gone - 1)
      PROVE  ~Search!Matches(Search!Parse(expr), Search!Later(t, i))
  <2>1. i \in Nat /\ Search!IntoDay(t) + i < Search!MinutesPerDay
    BY <1>1, <1>2, SMT
  <2>2. Search!Later(t, i).d = t.d /\ Search!Later(t, i).w = t.w
    BY <2>1, LaterInDay DEF CronInv
  <2> QED
    BY <1>1, <2>2 DEF Search!Matches, Search!InDay
<1> QED
  BY <1>1, <1>2, <1>3, <1>4, SMT DEF SkipsMisses

\* The hour is wrong, and stays so to its end.
LEMMA SkipHourStep ==
  ASSUME CronInv, Search!SkipHour PROVE CronInv' /\ SkipsMisses
<1>1. /\ t' = Search!NextHour(t) /\ gone' = gone + (MinutesPerHour - t.n)
      /\ UNCHANGED <<expr, pc>> /\ pc = "search" /\ ~Search!InHour(Search!Parse(expr), t)
  BY DEF Search!SkipHour, Search!Skip, Search!Searching
<1>2. MinutesPerHour - t.n \in Nat \ {0} /\ gone \in Nat /\ t.n \in Nat
      /\ MinutesPerHour \in Nat
  BY InstantFacts, SMT DEF CronInv
<1>3. CronInv'
  BY <1>1, <1>2, HourIsInstant, SMT DEF CronInv
<1>4. ASSUME NEW i \in 0..(gone' - gone - 1)
      PROVE  ~Search!Matches(Search!Parse(expr), Search!Later(t, i))
  <2>1. i \in Nat /\ t.n + i < MinutesPerHour
    BY <1>1, <1>2, SMT
  <2>2. Search!Later(t, i).h = t.h
    BY <2>1, LaterInHour DEF CronInv
  <2> QED
    BY <1>1, <2>2 DEF Search!Matches, Search!InHour
<1> QED
  BY <1>1, <1>2, <1>3, <1>4, SMT DEF SkipsMisses

\* The minute is wrong.
LEMMA SkipMinuteStep ==
  ASSUME CronInv, Search!SkipMinute PROVE CronInv' /\ SkipsMisses
<1>1. /\ t' = Search!NextMinute(t) /\ gone' = gone + 1
      /\ UNCHANGED <<expr, pc>> /\ pc = "search" /\ ~Search!InMinute(Search!Parse(expr), t)
  BY DEF Search!SkipMinute, Search!Skip, Search!Searching
<1>2. gone \in Nat /\ t.n \in Nat /\ t.n + 0 < MinutesPerHour
  BY InstantFacts, SMT DEF CronInv
<1>3. CronInv'
  BY <1>1, <1>2, MinuteIsInstant, SMT DEF CronInv
<1>4. ASSUME NEW i \in 0..(gone' - gone - 1)
      PROVE  ~Search!Matches(Search!Parse(expr), Search!Later(t, i))
  <2>1. i = 0
    BY <1>1, <1>2, SMT
  <2>2. Search!Later(t, 0).n = t.n
    <3>1. Search!Later(t, 0).n = t.n + 0
      BY <1>2, LaterInHour DEF CronInv
    <3> QED
      BY <1>2, <3>1, SMT
  <2> QED
    BY <1>1, <2>1, <2>2 DEF Search!Matches, Search!InMinute
<1> QED
  BY <1>1, <1>2, <1>3, <1>4, SMT DEF SkipsMisses

\* The search ends where it is, on a match or at the limit.
LEMMA ReturnsStep ==
  ASSUME CronInv, Search!Found \/ Search!GiveUp PROVE CronInv' /\ SkipsMisses
<1>1. /\ UNCHANGED <<expr, t, gone>>
      /\ pc' = "zero" \/ (pc' = "found" /\ Search!Matches(Search!Parse(expr), t))
  BY DEF Search!Found, Search!GiveUp
<1>2. gone' - gone - 1 = -1
  BY <1>1, SMT DEF CronInv
<1>3. 0..(gone' - gone - 1) = {}
  BY <1>2, SMT
<1> QED
  BY <1>1, <1>3 DEF CronInv, SkipsMisses

\* Every step of the search.
LEMMA SearchStep ==
  ASSUME CronInv, [Searches]_schedVars
  PROVE  CronInv' /\ [SkipsMisses]_<<facet, cronVars>>
<1>1. CASE Search!Next
  BY <1>1, SkipMonthStep, SkipDayStep, SkipHourStep, SkipMinuteStep, ReturnsStep
  DEF Search!Next, Search!Done, Search!vars, cronVars, CronInv, Searches, schedVars
<1>2. CASE UNCHANGED schedVars
  BY <1>2 DEF schedVars, cronVars, CronInv
<1> QED
  BY <1>1, <1>2 DEF Searches


\* A step of the composition searches, or leaves the search alone.
LEMMA SchedulesStep ==
  ASSUME CronInv, [SchedulesNext]_schedVars
  PROVE  CronInv' /\ [facet = "expression" => SkipsMisses]_<<facet, cronVars>>
<1>1. CASE Searches
  BY <1>1, SearchStep
<1>2. CASE UNCHANGED <<facet, cronVars>>
  BY <1>2 DEF cronVars, CronInv
<1> QED
  BY <1>1, <1>2 DEF SchedulesNext, schedVars

\* The invariant of the search.
THEOREM SearchInvariance == SchedulesSpec => []CronInv
<1>1. SchedulesInit => CronInv
  BY SearchInit DEF SchedulesInit
<1>2. CronInv /\ [SchedulesNext]_schedVars => CronInv'
  BY SchedulesStep
<1> QED
  BY <1>1, <1>2, PTL DEF SchedulesSpec

\* Parse: for every expression it accepts and every length of day and hour, each
\* field is a non-empty set of values in bounds.
THEOREM FieldsAreInBounds == SchedulesSpec => []FieldsInBounds
<1>1. CronInv => FieldsInBounds
  BY ParsesInBounds DEF CronInv, FieldsInBounds, Search!FieldsInBounds
<1> QED
  BY <1>1, SearchInvariance, PTL

\* cronSchedule.Next passes over no match.
THEOREM NextIsEarliest == SchedulesSpec => SkipsOnlyMisses
<1>1. CronInv /\ [SchedulesNext]_schedVars =>
        [facet = "expression" =>
           /\ \A i \in 0..(gone' - gone - 1) :
                ~Search!Matches(Search!Parse(expr), Search!Later(t, i))
           /\ pc' = "found" => Search!Matches(Search!Parse(expr), t')
           /\ pc' = "search" => gone' > gone]_<<facet, cronVars>>
  BY SchedulesStep DEF SkipsMisses
<1> QED
  BY <1>1, SearchInvariance, PTL DEF SchedulesSpec, SkipsOnlyMisses

\* The instances are those of Scheduler, whatever is being searched.
THEOREM SchedulesImplement == SchedulesSpec => Spec
<1>1. SchedulesInit => Init
  BY DEF SchedulesInit
<1>2. [SchedulesNext]_schedVars => [Next]_vars
  BY DEF SchedulesNext, Searches, schedVars
<1> QED
  BY <1>1, <1>2, PTL DEF SchedulesSpec, Spec

-----------------------------------------------------------------------------
(* Schedules move forward.  An expression is abstracted to a period; the   *)
(* loop of nextAfter computes what its comment says for every period.      *)

\* The first occurrence of s after x.
Occ(s, x) == (x \div Every[s] + 1) * Every[s]

\* Occurrences are a period apart.
LEMMA OccFacts ==
  ASSUME NEW s \in Schedules, NEW x \in Nat
  PROVE  /\ Occ(s, x) \in Nat /\ x < Occ(s, x)
         /\ \A y \in Nat : Occ(s, x) <= y /\ y < Occ(s, x) + Every[s]
                             => Occ(s, y) = Occ(s, x) + Every[s]
<1> DEFINE e == Every[s]
           q == x \div e
           r == x % e
<1>1. e \in Int /\ e > 0 /\ x \in Int
  BY SchedulerAssumption, SMT
<1>2. q \in Int /\ r \in 0..e - 1 /\ x = (e * q) + r
  BY <1>1, Division
<1>3. q >= 0
  BY <1>1, SMT
<1> HIDE DEF e, q, r
<1>4. Occ(s, x) = (q + 1) * e
  BY DEF Occ, e, q
<1>5. (q + 1) * e \in Nat
  BY <1>1, <1>2, <1>3, SMT
<1>6. (q + 1) * e = (e * q) + e
  BY <1>1, <1>2, SMT
<1>7. x < (q + 1) * e
  BY <1>1, <1>2, <1>6, SMT
<1>8. ASSUME NEW y \in Nat, (q + 1) * e <= y, y < (q + 1) * e + e
      PROVE  Occ(s, y) = (q + 1) * e + e
  <2> DEFINE d == y - (q + 1) * e
  <2>1. d \in 0..e - 1 /\ y = (q + 1) * e + d
    BY <1>1, <1>5, <1>8, SMT
  <2> HIDE DEF d
  <2>2. ((q + 1) * e + d) \div e = q + 1
    BY <1>1, <1>2, <2>1, Quotient, SMT
  <2>3. y \div e = q + 1
    BY <2>1, <2>2
  <2>4. Occ(s, y) = (q + 1 + 1) * e
    BY <2>3 DEF Occ, e
  <2>5. (q + 1 + 1) * e = (q + 1) * e + e
    BY <1>1, <1>2, SMT
  <2> QED
    BY <2>4, <2>5
<1> QED
  BY <1>4, <1>5, <1>7, <1>8 DEF e

\* What nextAfter returns.
Reached(s, clock, x) ==
  IF Next1(s, x) = Zero \/ Next1(s, x) > clock THEN Next1(s, x)
  ELSE IF Every[s] >= Lookahead THEN Zero ELSE Occ(s, clock)

\* cron.Next returns an occurrence after its argument, or the zero time.
LEMMA Next1Facts ==
  ASSUME NEW s \in Schedules, NEW x \in Nat
  PROVE  /\ Next1(s, x) = IF Occ(s, x) >= x + Lookahead THEN Zero ELSE Occ(s, x)
         /\ Next1(s, x) \in Nat
         /\ Next1(s, x) # Zero => Next1(s, x) > x
BY OccFacts, SchedulerAssumption DEF Next1, Occ, Zero

\* One more round of its loop comes to the same.
LEMMA ReachedAgain ==
  ASSUME NEW s \in Schedules, NEW clock \in 0..Horizon, NEW x \in 0..Horizon,
         Next1(s, x) # Zero, ~(Next1(s, x) > clock)
  PROVE  /\ Next1(s, x) \in 0..Horizon /\ Next1(s, x) > x
         /\ Reached(s, clock, Next1(s, x)) = Reached(s, clock, x)
<1> DEFINE n == Next1(s, x)
<1>0. /\ x \in Nat /\ clock \in Nat /\ Horizon \in Nat /\ Lookahead \in Nat
      /\ Every[s] \in Nat \ {0}
  BY SchedulerAssumption, SMT
<1>1. n \in Nat /\ n > x /\ n <= clock /\ n = Occ(s, x)
  BY <1>0, Next1Facts, SMT
<1>2. Reached(s, clock, x) = IF Every[s] >= Lookahead THEN Zero ELSE Occ(s, clock)
  BY DEF Reached
<1> HIDE DEF n
<1>3. Occ(s, n) = n + Every[s]
  BY <1>0, <1>1, OccFacts, SMT
<1>4. Next1(s, n) = IF Every[s] >= Lookahead THEN Zero ELSE n + Every[s]
  BY <1>0, <1>1, <1>3, Next1Facts, SMT
<1>5. Reached(s, clock, n) = Reached(s, clock, x)
  <2>1. CASE Every[s] >= Lookahead
    BY <1>2, <1>4, <2>1 DEF Reached
  <2>2. CASE ~(Every[s] >= Lookahead) /\ n + Every[s] > clock
    <3>1. Occ(s, clock) = n + Every[s]
      BY <1>0, <1>1, <2>2, OccFacts
    <3> QED
      BY <1>2, <1>4, <2>2, <3>1 DEF Reached
  <2>3. CASE ~(Every[s] >= Lookahead) /\ ~(n + Every[s] > clock)
    <3>1. Next1(s, n) = n + Every[s] /\ Next1(s, n) # Zero
      BY <1>0, <1>1, <1>4, <2>3, SMT DEF Zero
    <3> QED
      BY <1>2, <2>3, <3>1 DEF Reached
  <2> QED
    BY <2>1, <2>2, <2>3
<1>6. n \in 0..Horizon
  BY <1>0, <1>1, SMT
<1> QED
  BY <1>1, <1>5, <1>6 DEF n

\* A set of numbers that is not empty has a least one.
LEMMA LeastNumber ==
  ASSUME NEW S, S \subseteq Nat, S # {}
  PROVE  \E x \in S : \A y \in S : x <= y
<1>1. PICK x \in S : \A y \in S : ~(<<y, x>> \in OpToRel(<, Nat))
  BY NatLessThanWellFounded, WFMin
<1>2. \A y \in S : ~(y < x)
  BY <1>1 DEF OpToRel
<1> QED
  BY <1>2, SMT

\* One round of the loop of nextAfter, with g for the rounds after it.
Round(s, clock, g) ==
  [x \in 0..Horizon |->
     LET n == Next1(s, x)
     IN  IF n = Zero \/ n > clock THEN n ELSE g[n]]

\* Only one function is what its loop computes.
LEMMA LoopComputes ==
  ASSUME NEW s \in Schedules, NEW clock \in 0..Horizon, NEW g, g = Round(s, clock, g),
         NEW x \in 0..Horizon
  PROVE  g[x] = Reached(s, clock, x)
<1> SUFFICES ASSUME g[x] # Reached(s, clock, x) PROVE FALSE
  OBVIOUS
<1> DEFINE wrong == {k \in Nat : k <= Horizon /\ g[Horizon - k] # Reached(s, clock, Horizon - k)}
<1>1. Horizon \in Nat
  BY SchedulerAssumption
<1>2. wrong \subseteq Nat /\ Horizon - x \in wrong
  <2>1. Horizon - (Horizon - x) = x /\ Horizon - x \in Nat /\ Horizon - x <= Horizon
    BY <1>1, SMT
  <2> QED
    BY <2>1
<1> HIDE DEF wrong
<1>3. PICK k \in wrong : \A j \in wrong : k <= j
  BY <1>2, LeastNumber
<1> DEFINE y == Horizon - k
           n == Next1(s, y)
<1>4. y \in 0..Horizon /\ g[y] # Reached(s, clock, y)
  BY <1>1, <1>3, SMT DEF wrong
<1>5. g[y] = IF n = Zero \/ n > clock THEN n ELSE g[n]
  BY <1>4 DEF Round
<1>6. n # Zero /\ ~(n > clock)
  BY <1>4, <1>5 DEF Reached
<1>7. n \in 0..Horizon /\ n > y /\ Reached(s, clock, n) = Reached(s, clock, y)
  BY <1>4, <1>6, ReachedAgain
<1> HIDE DEF n
<1>8. g[n] # Reached(s, clock, n)
  BY <1>4, <1>5, <1>6, <1>7
<1>9. Horizon - n \in Nat /\ Horizon - n < k /\ Horizon - n <= Horizon
      /\ Horizon - (Horizon - n) = n
  BY <1>1, <1>2, <1>3, <1>7, SMT
<1>10. Horizon - n \in wrong
  BY <1>8, <1>9 DEF wrong
<1> QED
  BY <1>2, <1>3, <1>9, <1>10, SMT

\* And there is one.
LEMMA LoopReturns ==
  ASSUME NEW s \in Schedules, NEW clock \in 0..Horizon
  PROVE  \E g : g = Round(s, clock, g)
<1> DEFINE g == [x \in 0..Horizon |-> Reached(s, clock, x)]
<1>1. ASSUME NEW x \in 0..Horizon
      PROVE  g[x] = LET n == Next1(s, x)
                    IN  IF n = Zero \/ n > clock THEN n ELSE g[n]
  <2>1. CASE Next1(s, x) = Zero \/ Next1(s, x) > clock
    BY <2>1 DEF Reached
  <2>2. CASE ~(Next1(s, x) = Zero \/ Next1(s, x) > clock)
    BY <2>2, ReachedAgain
  <2> QED
    BY <2>1, <2>2
<1>2. g = Round(s, clock, g)
  BY <1>1 DEF Round
<1> QED
  BY <1>2

\* nextAfter's value.
LEMMA NextAfterIs ==
  ASSUME NEW s \in Schedules, NEW clock \in 0..Horizon, NEW x \in 0..Horizon
  PROVE  NextAfter(s, x, clock) = Reached(s, clock, x)
<1> DEFINE g == CHOOSE f : f = Round(s, clock, f)
<1>1. g = Round(s, clock, g)
  BY LoopReturns
<1>2. NextAfter(s, x, clock) = g[x]
  BY DEF NextAfter, Round
<1> HIDE DEF g
<1> QED
  BY <1>1, <1>2, LoopComputes

\* nextAfter returns an occurrence after both its arguments, or the zero time.
LEMMA NextAfterIsLater ==
  ASSUME NEW s \in Schedules, NEW clock \in 0..Horizon, NEW x \in 0..Horizon
  PROVE  /\ NextAfter(s, x, clock) \in Nat
         /\ NextAfter(s, x, clock) # Zero =>
              NextAfter(s, x, clock) > x /\ NextAfter(s, x, clock) > clock
<1>1. /\ x \in Nat /\ clock \in Nat
  BY SchedulerAssumption, SMT
<1>2. /\ Next1(s, x) \in Nat
      /\ Next1(s, x) # Zero => Next1(s, x) > x
      /\ Occ(s, clock) \in Nat /\ Occ(s, clock) > clock
  BY <1>1, Next1Facts, OccFacts
<1>3. /\ Reached(s, clock, x) \in Nat
      /\ Reached(s, clock, x) # Zero =>
           Reached(s, clock, x) > x /\ Reached(s, clock, x) > clock
  BY <1>1, <1>2, SMT DEF Reached, Zero
<1> QED
  BY <1>3, NextAfterIs

\* A row belongs to a schedule that was created.
RowsCreated == next \in [Schedules -> Nat] /\ \A s \in Schedules : next[s] # Zero => s \in ids

\* What a step may do to next_run_at, as AdvancesOnlyForward has it.
MovesForward ==
  \A s \in Schedules :
    next[s] # Zero /\ next'[s] # next[s] /\ next'[s] # Zero =>
      /\ next'[s] > next[s]
      /\ \A r \in Replicas :
           replica'[r] # replica[r] => next'[s] > replica[r].clock

\* The conditional UPDATE moves the row it matched from where it was.
LEMMA AdvanceForward ==
  ASSUME BatchesOK, RowsCreated, NEW r \in Replicas, AdvanceSchedule(r)
  PROVE  RowsCreated' /\ MovesForward
<1> DEFINE item == Head(replica[r].todo)
           after == NextAfter(item.id, item.next, replica[r].clock)
<1>1. replica[r].pc = "advance" /\ Continue(r) /\ ids' = ids
  BY DEF AdvanceSchedule
<1>2. item.id \in Schedules /\ item.next \in 1..Horizon
  BY <1>1, HeadFacts DEF Item
<1>3. replica[r].clock \in 0..Horizon
  BY DEF BatchesOK, Dispatch
<1>4. item.next \in 0..Horizon /\ Horizon \in Nat
  BY <1>2, SchedulerAssumption, SMT
<1>5. after \in Nat /\ (after # Zero => after > item.next /\ after > replica[r].clock)
  BY <1>2, <1>3, <1>4, NextAfterIsLater
<1>6. \A q \in Replicas : q # r => replica'[q] = replica[q]
  BY <1>1, ContinueFacts
<1>7. CASE next' = next
  BY <1>1, <1>7 DEF RowsCreated, MovesForward
<1>8. CASE Observed(item) /\ next' = [next EXCEPT ![item.id] = after]
  <2>1. next[item.id] = item.next /\ item.next # Zero
    BY <1>2, <1>8, SMT DEF Observed, Zero
  <2> HIDE DEF item, after
  <2>2. RowsCreated'
    BY <1>1, <1>2, <1>5, <1>8, <2>1 DEF RowsCreated
  <2>3. MovesForward
    BY <1>2, <1>5, <1>6, <1>8, <2>1 DEF RowsCreated, MovesForward
  <2> QED
    BY <2>2, <2>3
<1> QED
  BY <1>7, <1>8 DEF AdvanceSchedule

\* No other step moves a row: one is created where there was none, or deleted.
LEMMA ForwardStep ==
  ASSUME BatchesOK, RowsCreated, [Next]_vars
  PROVE  RowsCreated' /\ MovesForward
<1>1. CASE UNCHANGED <<next, ids>>
  BY <1>1 DEF RowsCreated, MovesForward
<1>2. ASSUME NEW s \in Schedules, CreateSchedule(s) PROVE RowsCreated' /\ MovesForward
  <2>1. /\ s \notin ids /\ ids' = ids \cup {s}
        /\ next' = [next EXCEPT ![s] = Next1(s, now)]
    BY <1>2 DEF CreateSchedule
  <2>2. Next1(s, now) \in Nat
    <3>1. now \in Nat
      BY SchedulerAssumption, SMT DEF BatchesOK
    <3> QED
      BY <3>1, Next1Facts
  <2>3. next[s] = Zero
    BY <2>1 DEF RowsCreated
  <2>4. RowsCreated'
    BY <2>1, <2>2 DEF RowsCreated
  <2>5. MovesForward
    BY <2>1, <2>3 DEF RowsCreated, MovesForward
  <2> QED
    BY <2>4, <2>5
<1>3. ASSUME NEW s \in Schedules, DeleteSchedule(s) PROVE RowsCreated' /\ MovesForward
  <2>1. ids' = ids /\ next' = [next EXCEPT ![s] = Zero] /\ Zero \in Nat
    BY <1>3 DEF DeleteSchedule, Zero
  <2>2. RowsCreated'
    BY <2>1 DEF RowsCreated
  <2>3. MovesForward
    BY <2>1 DEF RowsCreated, MovesForward
  <2> QED
    BY <2>2, <2>3
<1>4. ASSUME NEW r \in Replicas, ReplicaStep(r), ~AdvanceSchedule(r)
      PROVE  UNCHANGED <<next, ids>>
  BY <1>4
  DEF ReplicaStep, Tick, Lookup, CreateJob, LookupAgain, StatementFails, Crash, Table
<1> QED
  BY <1>1, <1>2, <1>3, <1>4, AdvanceForward DEF Next, ClockTicks, Table, vars

\* A schedule never moves backwards or replays what it missed, for any schedules,
\* instances, periods and lookahead, and however stale what an instance read is.
THEOREM SchedulesMoveForward == SchedulesSpec => AdvancesOnlyForward
<1>1. Init => RowsCreated
  BY SMT DEF Init, RowsCreated, Zero
<1>2. SInv /\ RowsCreated /\ [Next]_vars => RowsCreated'
  BY ForwardStep DEF SInv
<1>3. SInv /\ RowsCreated /\ [Next]_vars =>
        [\A s \in Schedules :
           next[s] # Zero /\ next'[s] # next[s] /\ next'[s] # Zero =>
             /\ next'[s] > next[s]
             /\ \A r \in Replicas :
                  replica'[r] # replica[r] => next'[s] > replica[r].clock]_vars
  BY ForwardStep DEF SInv, MovesForward
<1> QED
  BY <1>1, <1>2, <1>3, SchedInvariance, SchedulesImplement, PTL
     DEF Spec, AdvancesOnlyForward
-----------------------------------------------------------------------------
\* Retention may delete the job of a fire, and its key with it, at any moment;
\* then the key admits another (the finding of Scheduler_retention.cfg).  What
\* does not rest on the key's staying still holds.
RetentionSpec == Init /\ [][Next \/ \E k \in keys : SweepRetention(k)]_vars

\* The instants a job was ever made for.
Fired == {k \in Fire : made[k[1]][k[2]] >= 1}

\* Keys come and go, but what was fired stays fired: whatever is passed, or about
\* to be, is.
FiredInv ==
  /\ BatchesOK
  /\ made \in [Schedules -> [0..Horizon -> Nat]]
  /\ passed \in [Schedules -> SUBSET (0..Horizon)]
  /\ keys \subseteq Fired
  /\ \A s \in Schedules : \A at \in passed[s] : <<s, at>> \in Fired
  /\ \A r \in Replicas : replica[r].pc = "advance" => HeadKey(r) \in Fired

\* Before the first schedule nothing is fired.
LEMMA FiredInit == Init => FiredInv
<1> SUFFICES ASSUME Init PROVE FiredInv
  OBVIOUS
<1>1. SInv
  BY SchedInit
<1> QED
  BY <1>1, SMT DEF Init, SInv, KeysAreJobs, PassedHaveKeys, FiredInv, Asleep

\* A step of one instance that makes no job undone keeps what the others have.
LEMMA OneReplicaFires ==
  ASSUME FiredInv, NEW r \in Replicas, now' = now, Fired \subseteq Fired',
         made' \in [Schedules -> [0..Horizon -> Nat]], keys' \subseteq Fired',
         passed' \in [Schedules -> SUBSET (0..Horizon)],
         \A s \in Schedules : \A at \in passed'[s] : at \in passed[s] \/ <<s, at>> \in Fired,
         replica' \in [Replicas -> Dispatch],
         \A q \in Replicas : q # r => replica'[q] = replica[q],
         DispatchOK(replica'[r]),
         replica'[r].pc = "advance" => HeadKey(r)' \in Fired'
  PROVE  FiredInv'
<1>1. ASSUME NEW q \in Replicas, q # r
      PROVE  /\ DispatchOK(replica'[q])
             /\ replica'[q].pc = "advance" => HeadKey(q)' \in Fired'
  <2>1. replica'[q] = replica[q] /\ HeadKey(q)' = HeadKey(q)
    BY <1>1 DEF HeadKey
  <2> QED
    BY <2>1 DEF FiredInv, BatchesOK
<1>2. BatchesOK'
  BY <1>1 DEF FiredInv, BatchesOK
<1>3. \A s \in Schedules : \A at \in passed'[s] : <<s, at>> \in Fired'
  BY DEF FiredInv
<1> QED
  BY <1>1, <1>2, <1>3 DEF FiredInv

\* Steps that make no job and pass no instant.
LEMMA HistoryKept ==
  ASSUME FiredInv, UNCHANGED <<keys, made, passed>>
  PROVE  /\ Fired' = Fired /\ keys' \subseteq Fired'
         /\ made' \in [Schedules -> [0..Horizon -> Nat]]
         /\ passed' \in [Schedules -> SUBSET (0..Horizon)]
         /\ \A s \in Schedules : \A at \in passed'[s] : at \in passed[s]
BY DEF FiredInv, Fired

\* CreateJob: the head's instant is fired, or the key says that it was.
LEMMA CreateFires ==
  ASSUME FiredInv, NEW r \in Replicas, CreateJob(r), HeadKey(r) \notin keys
  PROVE  /\ made' \in [Schedules -> [0..Horizon -> Nat]]
         /\ Fired \subseteq Fired' /\ HeadKey(r) \in Fired'
<1>1. PICK s \in Schedules, at \in 0..Horizon :
        s = Head(replica[r].todo).id /\ at = Head(replica[r].todo).next
  BY HeadFacts, SMT DEF Fire, FiredInv, CreateJob
<1>2. HeadKey(r) = <<s, at>> /\ HeadKey(r) \in Fire
  BY <1>1, HeadFacts DEF FiredInv, CreateJob
<1>3. made \in [Schedules -> [0..Horizon -> Nat]]
  BY DEF FiredInv
<1>4. PICK old \in [0..Horizon -> Nat] : old = made[s]
  BY <1>3
<1>5. PICK row \in [0..Horizon -> Nat] :
        row = [old EXCEPT ![at] = old[at] + 1] /\ row[at] = old[at] + 1
  <2>1. /\ [old EXCEPT ![at] = old[at] + 1] \in [0..Horizon -> Nat]
        /\ [old EXCEPT ![at] = old[at] + 1][at] = old[at] + 1
    BY CountOne
  <2> QED
    BY <2>1
<1>6. made' = [made EXCEPT ![s] = row]
  <2> DEFINE item == Head(replica[r].todo)
  <2>1. made' = [made EXCEPT ![item.id] =
                   [made[item.id] EXCEPT ![item.next] = made[item.id][item.next] + 1]]
    BY DEF CreateJob
  <2> HIDE DEF item
  <2>2. item.id = s /\ item.next = at
    BY <1>1 DEF item
  <2> QED
    BY <1>4, <1>5, <2>1, <2>2
<1>7. made' \in [Schedules -> [0..Horizon -> Nat]] /\ made'[s] = row
  BY <1>3, <1>6
<1>8. made'[s][at] >= 1
  <2>1. old[at] \in Nat
    OBVIOUS
  <2> QED
    BY <1>5, <1>7, <2>1, SMT
<1>9. ASSUME NEW k \in Fired PROVE made'[k[1]][k[2]] >= 1
  <2>1. PICK i \in Schedules, u \in 0..Horizon : k = <<i, u>>
    BY SMT DEF Fired, Fire
  <2>2. CASE i = s /\ u = at
    BY <1>8, <2>1, <2>2
  <2>3. CASE ~(i = s /\ u = at)
    <3>1. made'[i][u] = made[i][u]
      BY <1>3, <1>4, <1>5, <1>6, <2>3
    <3> QED
      BY <2>1, <3>1 DEF Fired
  <2> QED
    BY <2>2, <2>3
<1>10. HeadKey(r) \in Fired'
  <2>1. <<s, at>>[1] = s /\ <<s, at>>[2] = at
    OBVIOUS
  <2> QED
    BY <1>2, <1>8, <2>1 DEF Fired
<1>11. Fired \subseteq Fired'
  BY <1>9 DEF Fired
<1> QED
  BY <1>7, <1>10, <1>11

\* What the statements of fire and the loop of dispatch keep.
LEMMA ReplicaFires ==
  ASSUME FiredInv, NEW r \in Replicas, ReplicaStep(r)
  PROVE  FiredInv'
<1>0. BatchesOK
  BY DEF FiredInv
<1>1. ASSUME replica[r].pc # "sleep", Continue(r), UNCHANGED <<now, keys, made, passed>>
      PROVE  FiredInv'
  BY <1>0, <1>1, ContinueFacts, HistoryKept, OneReplicaFires
<1>2. ASSUME NEW step \in {"create", "again", "advance"}, replica[r].pc # "sleep",
             Goto(r, step), step = "advance" => HeadKey(r) \in keys,
             UNCHANGED <<now, keys, made, passed>>
      PROVE  FiredInv'
  <2>1. /\ replica' \in [Replicas -> Dispatch]
        /\ \A q \in Replicas : q # r => replica'[q] = replica[q]
        /\ DispatchOK(replica'[r]) /\ replica'[r].pc = step /\ HeadKey(r)' = HeadKey(r)
    BY <1>0, <1>2, GotoFacts
  <2>2. replica'[r].pc = "advance" => HeadKey(r)' \in Fired'
    BY <1>2, <2>1, HistoryKept DEF FiredInv
  <2> QED
    BY <1>2, <2>1, <2>2, HistoryKept, OneReplicaFires
<1>3. CASE Tick(r)
  <2>1. UNCHANGED <<now, keys, made, passed>>
    BY <1>3 DEF Tick, History
  <2> QED
    BY <1>0, <1>3, <2>1, TickFacts, HistoryKept, OneReplicaFires
<1>4. CASE Lookup(r) \/ LookupAgain(r)
  BY <1>1, <1>2, <1>4 DEF Lookup, LookupAgain, History
<1>5. CASE CreateJob(r)
  <2>1. CASE HeadKey(r) \in keys
    BY <1>2, <1>5, <2>1 DEF CreateJob
  <2>2. CASE HeadKey(r) \notin keys
    <3>1. /\ replica[r].pc # "sleep" /\ Goto(r, "advance") /\ keys' = keys \cup {HeadKey(r)}
          /\ UNCHANGED <<now, passed>>
      BY <1>5, <2>2 DEF CreateJob
    <3>2. /\ made' \in [Schedules -> [0..Horizon -> Nat]]
          /\ Fired \subseteq Fired' /\ HeadKey(r) \in Fired'
      BY <1>5, <2>2, CreateFires
    <3>3. /\ replica' \in [Replicas -> Dispatch]
          /\ \A q \in Replicas : q # r => replica'[q] = replica[q]
          /\ DispatchOK(replica'[r]) /\ HeadKey(r)' = HeadKey(r)
      BY <1>0, <3>1, GotoFacts
    <3>4. keys' \subseteq Fired' /\ passed' \in [Schedules -> SUBSET (0..Horizon)]
      BY <3>1, <3>2 DEF FiredInv
    <3> QED
      BY <3>1, <3>2, <3>3, <3>4, OneReplicaFires
  <2> QED
    BY <2>1, <2>2
<1>6. CASE AdvanceSchedule(r)
  <2> DEFINE item == Head(replica[r].todo)
  <2>1. /\ replica[r].pc = "advance" /\ Continue(r) /\ UNCHANGED <<now, keys, made>>
        /\ passed' = [passed EXCEPT ![item.id] = @ \cup {item.next}] \/ passed' = passed
    BY <1>6 DEF AdvanceSchedule
  <2>2. /\ item.id \in Schedules /\ item.next \in 0..Horizon
        /\ <<item.id, item.next>> \in Fired
    <3>1. item.id \in Schedules /\ item.next \in 0..Horizon
      BY <1>0, <2>1, HeadFacts, SMT DEF Fire
    <3>2. HeadKey(r) = <<item.id, item.next>>
      BY <1>0, <2>1, HeadFacts
    <3> QED
      BY <2>1, <3>1, <3>2 DEF FiredInv
  <2>3. /\ passed' \in [Schedules -> SUBSET (0..Horizon)]
        /\ \A s \in Schedules : \A at \in passed'[s] : at \in passed[s] \/ <<s, at>> \in Fired
    <3> HIDE DEF item
    <3>1. passed \in [Schedules -> SUBSET (0..Horizon)]
      BY DEF FiredInv
    <3> QED
      BY <2>1, <2>2, <3>1
  <2>4. Fired' = Fired /\ keys' \subseteq Fired' /\ made' \in [Schedules -> [0..Horizon -> Nat]]
    BY <2>1 DEF FiredInv, Fired
  <2> QED
    BY <1>0, <2>1, <2>3, <2>4, ContinueFacts, OneReplicaFires
<1>7. CASE StatementFails(r)
  BY <1>1, <1>7 DEF StatementFails, History
<1>8. CASE Crash(r)
  <2>1. replica' = [replica EXCEPT ![r] = Asleep] /\ UNCHANGED <<now, keys, made, passed>>
    BY <1>8 DEF Crash, History
  <2>2. replica \in [Replicas -> Dispatch]
    BY <1>0 DEF BatchesOK
  <2> QED
    BY <2>1, <2>2, AsleepOK, HistoryKept, OneReplicaFires
<1> QED
  BY <1>3, <1>4, <1>5, <1>6, <1>7, <1>8 DEF ReplicaStep

\* Every step keeps the invariant, the deletion of a key included.
LEMMA FiredNext ==
  ASSUME FiredInv, [Next \/ \E k \in keys : SweepRetention(k)]_vars
  PROVE  FiredInv'
<1>1. CASE now' \in 0..Horizon /\ UNCHANGED <<made, passed, replica>> /\ keys' \subseteq keys
  BY <1>1 DEF FiredInv, BatchesOK, Fired, HeadKey
<1>2. now \in 0..Horizon
  BY DEF FiredInv, BatchesOK
<1>3. ASSUME NEW s \in Schedules, CreateSchedule(s) \/ DeleteSchedule(s)
      PROVE  FiredInv'
  BY <1>1, <1>2, <1>3 DEF CreateSchedule, DeleteSchedule, History
<1>4. CASE ClockTicks
  <2>1. now' \in 0..Horizon
    BY <1>2, <1>4, SchedulerAssumption, SMT DEF ClockTicks
  <2> QED
    BY <1>1, <1>4, <2>1 DEF ClockTicks, History
<1>5. CASE (\E k \in keys : SweepRetention(k)) \/ UNCHANGED vars
  BY <1>1, <1>2, <1>5 DEF SweepRetention, History, vars
<1> QED
  BY <1>3, <1>4, <1>5, ReplicaFires DEF Next

\* Deleting jobs loses no fire: an instant a schedule has moved past had its job,
\* whatever retention deletes and whenever.
THEOREM RetentionLosesNoFire == RetentionSpec => []NoLostFire
<1>1. FiredInv => NoLostFire
  BY DEF FiredInv, Fired, NoLostFire
<1>2. FiredInv /\ [Next \/ \E k \in keys : SweepRetention(k)]_vars => FiredInv'
  BY FiredNext
<1> QED
  BY <1>1, <1>2, FiredInit, PTL DEF RetentionSpec

\* Nor does it move a schedule back: AdvanceSchedule's condition is on the row, not
\* on the job, so making a job a second time advances nothing twice.
THEOREM RetentionMovesForward == RetentionSpec => AdvancesOnlyForward
<1>1. Init => RowsCreated
  BY SMT DEF Init, RowsCreated, Zero
<1>2. ASSUME FiredInv, RowsCreated, [Next \/ \E k \in keys : SweepRetention(k)]_vars
      PROVE  RowsCreated' /\ [MovesForward]_vars
  <2>1. CASE [Next]_vars
    BY <1>2, <2>1, ForwardStep DEF FiredInv
  <2>2. CASE \E k \in keys : SweepRetention(k)
    <3>1. UNCHANGED <<next, ids>>
      BY <2>2 DEF SweepRetention, Table
    <3> QED
      BY <1>2, <3>1 DEF RowsCreated, MovesForward
  <2> QED
    BY <1>2, <2>1, <2>2
<1>3. FiredInv /\ RowsCreated /\ [Next \/ \E k \in keys : SweepRetention(k)]_vars
        => RowsCreated'
  BY <1>2
<1>4. FiredInv /\ RowsCreated /\ [Next \/ \E k \in keys : SweepRetention(k)]_vars =>
        [\A s \in Schedules :
           next[s] # Zero /\ next'[s] # next[s] /\ next'[s] # Zero =>
             /\ next'[s] > next[s]
             /\ \A r \in Replicas :
                  replica'[r] # replica[r] => next'[s] > replica[r].clock]_vars
  BY <1>2 DEF MovesForward
<1>5. FiredInv /\ [Next \/ \E k \in keys : SweepRetention(k)]_vars => FiredInv'
  BY FiredNext
<1> QED
  BY <1>1, <1>3, <1>4, <1>5, FiredInit, PTL DEF RetentionSpec, AdvancesOnlyForward
=============================================================================
