--------------------------- MODULE InstanceProofs ---------------------------
(***************************************************************************)
(* Proofs about one server instance: that nobody sleeps through a          *)
(* notification (Wakeups), that the worker pool mislays no claim and that  *)
(* a drain is complete (WorkerPool), for any jobs, claims, messages and    *)
(* requests, any queue size, concurrency and batch size.                   *)
(***************************************************************************)
EXTENDS Instance, FiniteSetTheorems, TLAPS

\* Steps without arithmetic are left to Zenon; the others name their prover.
USE Zenon

\* Only the empty sequence has no length.
LEMMA NoLength ==
  ASSUME NEW S, NEW seq \in Seq(S) PROVE Len(seq) \in Nat /\ (Len(seq) = 0 <=> seq = <<>>)
BY SMT

-----------------------------------------------------------------------------
\* What a waiter and the reconciler rely on from the moment they looked for a
\* job, not only while they sleep: whoever has found nothing is told of what is
\* notified from then on.
LookedIsTold ==
  /\ \A w \in Waiters : waiter[w].pc \in {"empty", "wait"} /\ ~waiter[w].woken =>
       \A j \in Wk!Pending : j \in notice \cup unnoticed \/ listener = "poked"
  /\ pass.pc \in {"tidy", "sleep"} /\ ~pass.soon /\ ~wake =>
       Wk!Pending \subseteq notice \cup unnoticed

WakeInv == Wk!TypeOK /\ LookedIsTold

\* Nobody has looked yet.
LEMMA WakeInitial == Wk!Init => WakeInv
<1> SUFFICES ASSUME Wk!Init PROVE WakeInv
  OBVIOUS
<1>1. 0 \in 0..BatchSize /\ 0 \in 0..MaxReturns
  BY InstanceAssumption, SMT
<1>2. Wk!NoRequest \in Wk!Request
  BY DEF Wk!Request, Wk!NoRequest
<1>3. Wk!TypeOK
  BY <1>1, <1>2 DEF Wk!Init, Wk!TypeOK
<1>4. LookedIsTold
  BY DEF Wk!Init, LookedIsTold, Wk!NoRequest
<1> QED
  BY <1>3, <1>4 DEF WakeInv

\* A request that goes on, for the others and for the reconciler, changes
\* nothing; only when it finds the table empty does it start to rely on being
\* told.
LEMMA RequestMoves ==
  ASSUME WakeInv, NEW w \in Waiters, NEW r \in Wk!Request,
         waiter' = [waiter EXCEPT ![w] = r],
         UNCHANGED <<job, notice, unnoticed, listener, wake, pass, returns>>,
         r.pc \in {"empty", "wait"} /\ ~r.woken =>
           \/ Wk!Pending = {}
           \/ waiter[w].pc \in {"empty", "wait"} /\ ~waiter[w].woken
  PROVE  WakeInv'
<1>1. Wk!TypeOK'
  BY DEF WakeInv, Wk!TypeOK
<1>2. /\ waiter'[w] = r /\ \A v \in Waiters \ {w} : waiter'[v] = waiter[v]
      /\ Wk!Pending' = Wk!Pending
  BY DEF WakeInv, Wk!TypeOK, Wk!Pending
<1>3. LookedIsTold'
  BY <1>2 DEF WakeInv, LookedIsTold
<1> QED
  BY <1>1, <1>3 DEF WakeInv

\* A claim takes a job off everybody's hands.
LEMMA ClaimTakes ==
  ASSUME WakeInv, NEW j \in Jobs, Wk!Claimed(j)
  PROVE  /\ job' \in [Jobs -> {"new", "later", "pending", "claimed"}]
         /\ unnoticed' \subseteq Jobs
         /\ Wk!Pending' = Wk!Pending \ {j}
         /\ \A i \in Wk!Pending' : i \in unnoticed => i \in unnoticed'
BY DEF WakeInv, Wk!TypeOK, Wk!Claimed, Wk!Pending

\* Jobs that become available are notified, or noted as unnoticed.
LEMMA AvailableStep ==
  ASSUME WakeInv, NEW j \in Jobs, Wk!Enqueue(j) \/ Wk!BecomesDue(j) \/ Wk!Returns(j)
  PROVE  WakeInv'
<1>1. Wk!TypeOK'
  BY InstanceAssumption, SMT DEF WakeInv, Wk!TypeOK, Wk!Enqueue, Wk!BecomesDue, Wk!Returns, Wk!Requeued
<1>2. /\ waiter' = waiter /\ listener' = listener /\ wake' = wake /\ pass' = pass
      /\ notice \subseteq notice' /\ unnoticed \subseteq unnoticed'
      /\ Wk!Pending' \subseteq Wk!Pending \cup notice' \cup unnoticed'
  BY DEF WakeInv, Wk!TypeOK, Wk!Enqueue, Wk!BecomesDue, Wk!Returns, Wk!Requeued, Wk!Pending
<1>3. LookedIsTold'
  BY <1>2 DEF WakeInv, LookedIsTold
<1> QED
  BY <1>1, <1>3 DEF WakeInv

\* The transport: a notification is lost and noted, or handled in two calls.
LEMMA TransportStep ==
  ASSUME WakeInv,
         \/ \E j \in Jobs : Wk!Lost(j) \/ Wk!Notified(j)
         \/ Wk!Listen \/ Wk!ListenerDrops \/ Wk!WakeWaiters
  PROVE  WakeInv'
<1>0. waiter \in [Waiters -> Wk!Request]
  BY DEF WakeInv, Wk!TypeOK
<1>1. ASSUME NEW j \in Jobs, Wk!Lost(j) PROVE WakeInv'
  BY <1>1 DEF WakeInv, Wk!TypeOK, LookedIsTold, Wk!Lost, Wk!Pending
<1>2. ASSUME NEW j \in Jobs, Wk!Notified(j) PROVE WakeInv'
  BY <1>2 DEF WakeInv, Wk!TypeOK, LookedIsTold, Wk!Notified, Wk!Pending
<1>3. CASE Wk!Listen \/ Wk!ListenerDrops
  BY <1>3 DEF WakeInv, Wk!TypeOK, LookedIsTold, Wk!Listen, Wk!ListenerDrops, Wk!Pending
<1>4. CASE Wk!WakeWaiters
  <2>1. \A w \in Waiters :
          /\ waiter'[w] \in Wk!Request /\ waiter'[w].pc = waiter[w].pc
          /\ waiter'[w].pc \in {"empty", "wait"} => waiter'[w].woken
    BY <1>0, <1>4 DEF Wk!WakeWaiters, Wk!Request
  <2>2. waiter' \in [Waiters -> Wk!Request]
    BY <2>1, <1>4 DEF Wk!WakeWaiters
  <2> QED
    BY <1>4, <2>1, <2>2 DEF WakeInv, Wk!TypeOK, LookedIsTold, Wk!WakeWaiters, Wk!Pending
<1> QED
  BY <1>1, <1>2, <1>3, <1>4

\* The long-polling claims.
LEMMA WaiterStep ==
  ASSUME WakeInv, NEW w \in Waiters,
         \/ Wk!ClaimJob(w) \/ Wk!Take(w) \/ Wk!Check(w)
         \/ Wk!Wait(w) \/ Wk!Retry(w) \/ Wk!GiveUp(w)
  PROVE  WakeInv'
<1>0. waiter[w] \in Wk!Request /\ waiter[w].woken \in BOOLEAN
  BY DEF WakeInv, Wk!TypeOK, Wk!Request
<1>1. \A pc \in {"none", "take", "check", "empty", "wait"}, b \in BOOLEAN :
        [pc |-> pc, woken |-> b] \in Wk!Request
  BY DEF Wk!Request
<1>2. CASE Wk!ClaimJob(w) \/ Wk!Take(w) \/ Wk!Retry(w)
  <2>1. PICK pc \in {"take", "check"} : waiter' = [waiter EXCEPT ![w] = [pc |-> pc, woken |-> FALSE]]
    BY <1>2 DEF Wk!ClaimJob, Wk!Take, Wk!Retry, Wk!Set
  <2>2. UNCHANGED <<job, notice, unnoticed, listener, wake, pass, returns>>
    BY <1>2 DEF Wk!ClaimJob, Wk!Take, Wk!Retry
  <2> QED
    BY <1>1, <2>1, <2>2, RequestMoves
<1>3. CASE Wk!Wait(w)
  <2>1. waiter' = [waiter EXCEPT ![w] = [pc |-> "wait", woken |-> waiter[w].woken]]
        /\ waiter[w].pc = "empty"
        /\ UNCHANGED <<job, notice, unnoticed, listener, wake, pass, returns>>
    BY <1>3 DEF Wk!Wait, Wk!Set
  <2> QED
    BY <1>0, <1>1, <2>1, RequestMoves
<1>4. CASE Wk!GiveUp(w)
  <2>1. waiter' = [waiter EXCEPT ![w] = [pc |-> "none", woken |-> FALSE]]
        /\ UNCHANGED <<job, notice, unnoticed, listener, wake, pass, returns>>
    BY <1>4 DEF Wk!GiveUp, Wk!NoRequest
  <2> QED
    BY <1>1, <2>1, RequestMoves
<1>5. ASSUME Wk!Check(w), Wk!Pending = {}, Wk!Set(w, "empty", waiter[w].woken),
             UNCHANGED <<job, unnoticed>>
      PROVE  WakeInv'
  <2>1. waiter' = [waiter EXCEPT ![w] = [pc |-> "empty", woken |-> waiter[w].woken]]
        /\ UNCHANGED <<job, notice, unnoticed, listener, wake, pass, returns>>
    BY <1>5 DEF Wk!Check, Wk!Set
  <2> QED
    BY <1>0, <1>1, <1>5, <2>1, RequestMoves
<1>6. ASSUME Wk!Check(w), NEW j \in Jobs, Wk!Claimed(j),
             waiter' = [waiter EXCEPT ![w] = Wk!NoRequest]
      PROVE  WakeInv'
  <2>1. UNCHANGED <<notice, listener, wake, pass, returns>>
    BY <1>6 DEF Wk!Check
  <2>2. /\ waiter' \in [Waiters -> Wk!Request] /\ waiter'[w].pc = "none"
        /\ \A v \in Waiters \ {w} : waiter'[v] = waiter[v]
    BY <1>1, <1>6 DEF WakeInv, Wk!TypeOK, Wk!NoRequest
  <2>3. /\ job' \in [Jobs -> {"new", "later", "pending", "claimed"}]
        /\ unnoticed' \subseteq Jobs
        /\ Wk!Pending' = Wk!Pending \ {j}
        /\ \A i \in Wk!Pending' : i \in unnoticed => i \in unnoticed'
    BY <1>6, ClaimTakes
  <2>4. Wk!TypeOK'
    BY <2>1, <2>2, <2>3 DEF WakeInv, Wk!TypeOK
  <2>5. LookedIsTold'
    BY <2>1, <2>2, <2>3 DEF WakeInv, LookedIsTold
  <2> QED
    BY <2>4, <2>5 DEF WakeInv
<1> QED
  BY <1>2, <1>3, <1>4, <1>5, <1>6 DEF Wk!Check

\* The reconciler: it ends its claims having found nothing, or with work done,
\* which makes it sleep the short interval.
LEMMA ReconcilerStep ==
  ASSUME WakeInv,
         \/ \E j \in Jobs : Wk!Reap(j) \/ Wk!ReconcilerClaim(j)
         \/ Wk!TimerFires \/ Wk!WakeReceived \/ Wk!Reaped
         \/ Wk!Submitted \/ Wk!ClaimsEnd \/ Wk!PassEnds \/ Wk!PassFails
  PROVE  WakeInv'
<1>0. /\ pass.pc \in {"sleep", "reap", "claim", "submit", "tidy"} /\ pass.claimed \in 0..BatchSize
      /\ pass.soon \in BOOLEAN
      /\ pass \in [pc : {"sleep", "reap", "claim", "submit", "tidy"}, claimed : 0..BatchSize, soon : BOOLEAN]
  BY DEF WakeInv, Wk!TypeOK
<1>1. ASSUME NEW j \in Jobs, Wk!Reap(j) PROVE WakeInv'
  <2>1. /\ pass' = [pass EXCEPT !.soon = TRUE] /\ pass.pc = "reap"
        /\ job' = [job EXCEPT ![j] = "pending"] /\ unnoticed' = unnoticed \cup {j}
        /\ UNCHANGED <<notice, listener, wake, waiter>>
        /\ returns' = returns + 1 /\ returns < MaxReturns
    BY <1>1 DEF Wk!Reap, Wk!Requeued
  <2>2. /\ pass' \in [pc : {"sleep", "reap", "claim", "submit", "tidy"}, claimed : 0..BatchSize, soon : BOOLEAN]
        /\ pass'.pc = "reap"
    BY <1>0, <2>1
  <2>3. Wk!TypeOK'
    BY <2>1, <2>2, InstanceAssumption, SMT DEF WakeInv, Wk!TypeOK
  <2>4. Wk!Pending' = Wk!Pending \cup {j}
    BY <2>1 DEF WakeInv, Wk!TypeOK, Wk!Pending
  <2>5. LookedIsTold'
    BY <2>1, <2>2, <2>4 DEF WakeInv, LookedIsTold
  <2> QED
    BY <2>3, <2>5 DEF WakeInv
<1>2. ASSUME NEW j \in Jobs, Wk!ReconcilerClaim(j) PROVE WakeInv'
  <2>1. /\ pass' = [pass EXCEPT !.pc = "submit", !.claimed = pass.claimed + 1]
        /\ pass.claimed < BatchSize
        /\ UNCHANGED <<notice, listener, wake, waiter, returns>> /\ Wk!Claimed(j)
    BY <1>2 DEF Wk!ReconcilerClaim
  <2>2. /\ pass' \in [pc : {"sleep", "reap", "claim", "submit", "tidy"}, claimed : 0..BatchSize, soon : BOOLEAN]
        /\ pass'.pc = "submit"
    <3>1. pass.claimed + 1 \in 0..BatchSize
      BY <1>0, <2>1, InstanceAssumption, SMT
    <3> QED
      BY <1>0, <2>1, <3>1
  <2>3. /\ job' \in [Jobs -> {"new", "later", "pending", "claimed"}]
        /\ unnoticed' \subseteq Jobs
        /\ Wk!Pending' = Wk!Pending \ {j}
        /\ \A i \in Wk!Pending' : i \in unnoticed => i \in unnoticed'
    BY <2>1, ClaimTakes
  <2>4. Wk!TypeOK'
    BY <2>1, <2>2, <2>3 DEF WakeInv, Wk!TypeOK
  <2>5. LookedIsTold'
    BY <2>1, <2>2, <2>3 DEF WakeInv, LookedIsTold
  <2> QED
    BY <2>4, <2>5 DEF WakeInv
<1>3. ASSUME UNCHANGED <<job, notice, unnoticed, listener, waiter, returns>>, wake' \in BOOLEAN,
             pass' \in [pc : {"sleep", "reap", "claim", "submit", "tidy"}, claimed : 0..BatchSize, soon : BOOLEAN],
             pass'.pc \in {"tidy", "sleep"} /\ ~pass'.soon =>
               /\ wake' = wake
               /\ Wk!Pending = {} \/ (pass.pc = "tidy" /\ ~pass.soon)
      PROVE  WakeInv'
  BY <1>3, SMT DEF WakeInv, Wk!TypeOK, LookedIsTold, Wk!Pending
<1>4. CASE Wk!TimerFires \/ Wk!WakeReceived
  <2>1. pass' = [pc |-> "reap", claimed |-> 0, soon |-> FALSE] /\ wake' \in BOOLEAN
        /\ UNCHANGED <<job, notice, unnoticed, listener, waiter, returns>>
    BY <1>4, ZenonT(40) DEF Wk!TimerFires, Wk!WakeReceived, Wk!Pass, WakeInv, Wk!TypeOK
  <2> QED
    BY <1>3, <2>1, InstanceAssumption, SMT
<1>5. CASE Wk!Reaped
  <2>1. PICK failed \in BOOLEAN : pass' = [pass EXCEPT !.pc = "claim", !.soon = @ \/ failed]
    BY <1>5 DEF Wk!Reaped
  <2>2. UNCHANGED <<job, notice, unnoticed, listener, waiter, returns>> /\ wake' \in BOOLEAN
    BY <1>5 DEF Wk!Reaped, WakeInv, Wk!TypeOK
  <2>3. /\ pass' \in [pc : {"sleep", "reap", "claim", "submit", "tidy"}, claimed : 0..BatchSize, soon : BOOLEAN]
        /\ pass'.pc = "claim"
    BY <1>0, <2>1
  <2> QED
    BY <1>3, <2>2, <2>3
<1>9. CASE Wk!Submitted
  <2>1. /\ pass' = [pass EXCEPT !.pc = "claim"]
        /\ UNCHANGED <<job, notice, unnoticed, listener, waiter, returns>> /\ wake' \in BOOLEAN
    BY <1>9 DEF Wk!Submitted, WakeInv, Wk!TypeOK
  <2>2. /\ pass' \in [pc : {"sleep", "reap", "claim", "submit", "tidy"}, claimed : 0..BatchSize, soon : BOOLEAN]
        /\ pass'.pc = "claim"
    BY <1>0, <2>1
  <2> QED
    BY <1>3, <2>1, <2>2
<1>6. CASE Wk!ClaimsEnd
  <2>0. (pass.soon \/ pass.claimed > 0) \in BOOLEAN /\ 0 \in 0..BatchSize
    BY InstanceAssumption, SMT
  <2>1. /\ pass' = [pc |-> "tidy", claimed |-> 0, soon |-> pass.soon \/ pass.claimed > 0]
        /\ UNCHANGED <<job, notice, unnoticed, listener, waiter, returns>> /\ wake' = wake
        /\ wake \in BOOLEAN
        /\ Wk!Pending = {} \/ pass.claimed = BatchSize
    BY <1>6 DEF Wk!ClaimsEnd, WakeInv, Wk!TypeOK
  <2>2. pass' \in [pc : {"sleep", "reap", "claim", "submit", "tidy"}, claimed : 0..BatchSize, soon : BOOLEAN]
    BY <2>0, <2>1
  <2>3. ~pass'.soon => Wk!Pending = {}
    <3>1. pass'.soon = (pass.soon \/ pass.claimed > 0)
      BY <2>1
    <3>2. pass.claimed = BatchSize => pass.claimed > 0
      BY InstanceAssumption, SMT
    <3> QED
      BY <2>1, <3>1, <3>2
  <2> QED
    BY <1>3, <2>1, <2>2, <2>3
<1>7. CASE Wk!PassEnds
  <2>1. /\ pass' = [pass EXCEPT !.pc = "sleep"] /\ pass.pc = "tidy"
        /\ UNCHANGED <<job, notice, unnoticed, listener, waiter, returns>> /\ wake' = wake
        /\ wake \in BOOLEAN
    BY <1>7 DEF Wk!PassEnds, WakeInv, Wk!TypeOK
  <2>2. /\ pass' \in [pc : {"sleep", "reap", "claim", "submit", "tidy"}, claimed : 0..BatchSize, soon : BOOLEAN]
        /\ pass'.soon = pass.soon
    BY <1>0, <2>1
  <2> QED
    BY <1>3, <2>1, <2>2
<1>8. CASE Wk!PassFails
  <2>1. /\ pass' = [pc |-> "sleep", claimed |-> 0, soon |-> TRUE]
        /\ UNCHANGED <<job, notice, unnoticed, listener, waiter, returns>> /\ wake' = wake
        /\ wake \in BOOLEAN
    BY <1>8 DEF Wk!PassFails, WakeInv, Wk!TypeOK
  <2> QED
    BY <1>3, <2>1, InstanceAssumption, SMT
<1> QED
  BY <1>1, <1>2, <1>4, <1>5, <1>6, <1>7, <1>8, <1>9

\* Every step preserves the invariant.
LEMMA WakeStepInv ==
  ASSUME WakeInv, Wk!Next \/ UNCHANGED wakeVars
  PROVE  WakeInv'
<1>1. CASE UNCHANGED wakeVars
  BY <1>1 DEF wakeVars, WakeInv, Wk!TypeOK, LookedIsTold, Wk!Pending
<1>2. CASE Wk!Next
  BY <1>2, AvailableStep, TransportStep, WaiterStep, ReconcilerStep DEF Wk!Next
<1> QED
  BY <1>1, <1>2
-----------------------------------------------------------------------------
\* Where a job can be between its claim and its end.
Queued(i) == \E n \in 1..Len(queue) : queue[n] = i

Somewhere(i) == rec.item = i \/ Queued(i) \/ loop.item = i \/ i \in running

\* It is in one of the places, and there once.
InOnePlace(i) ==
  /\ rec.item = i => ~Queued(i) /\ loop.item # i /\ i \notin running
  /\ Queued(i) => loop.item # i /\ i \notin running
  /\ loop.item = i => i \notin running
  /\ \A m, n \in 1..Len(queue) : queue[m] = i /\ queue[n] = i => m = n

\* Until the process ends, the claims it holds are those that are somewhere.
Tracked ==
  main # "exit" => \A i \in Claims : InOnePlace(i) /\ (Somewhere(i) <=> row[i] = "running")

\* A hand is empty unless its goroutine is at the step that fills it.
HandsEmpty ==
  /\ (rec.pc = "holding") <=> (rec.item # NoItem)
  /\ (loop.pc = "semaphore") <=> (loop.item # NoItem)
  /\ IsFiniteSet(running)

\* run from Pool.Stop on.
Stopping == {"pool", "drained", "timedout", "closing", "exit"}

\* run stops the reconciler, then closes the channel, then waits; and the
\* dispatch goroutine leaves an alive context only with nothing queued.
StopsInOrder ==
  /\ main \in Stopping => rec.pc = "stopped"
  /\ closed <=> main \in Stopping
  /\ loop.pc = "exited" /\ ~signalled => closed /\ queue = <<>>
  /\ main = "drained" => loop.pc = "exited" /\ running = {}

\* While the reconciler's context is alive a claim is left behind only by its own
\* Run; and until the process ends never by the queue.
LeftOnlyRejected ==
  \A i \in Claims :
    /\ row[i] = "left" => RecCancelled \/ fate[i] = "dropped"
    /\ row[i] = "left" /\ main # "exit" => fate[i] # "accepted"

PoolInv ==
  /\ TypeOK /\ HandsEmpty /\ StopsInOrder /\ Tracked /\ LeftOnlyRejected

\* An idle pool satisfies the invariant.
LEMMA PoolInitial == Init => PoolInv
<1> SUFFICES ASSUME Init PROVE PoolInv
  OBVIOUS
<1>1. IsFiniteSet({}) /\ Cardinality({}) = 0
  BY FS_EmptySet
<1>2. rec.pc = "idle" /\ rec.item = NoItem /\ loop.pc = "select" /\ loop.item = NoItem
  BY DEF Init, At
<1>3. TypeOK
  <2>1. /\ main = "serving" /\ signalled \in BOOLEAN /\ closed \in BOOLEAN
        /\ panicked \in BOOLEAN /\ reopened \in BOOLEAN /\ consumer = NoItem /\ queue = <<>> /\ running = {}
        /\ row \in [Items -> {"pending", "running", "settled", "left"}]
        /\ fate \in [Items -> {"none", "rejected", "accepted", "finished", "dropped"}]
        /\ rec \in [pc : {"idle", "holding", "stopped"}, item : Claims \cup {NoItem}]
        /\ loop \in [pc : {"select", "semaphore", "exited"}, item : Items \cup {NoItem}]
    BY DEF Init, At
  <2>2. queue \in Seq(Items) /\ Len(queue) <= QueueSize /\ Cardinality(running) <= Concurrency
    BY <1>1, <2>1, PoolAssumption, SMT
  <2> QED
    BY <2>1, <2>2 DEF TypeOK
<1>4. Len(queue) = 0 /\ queue = <<>> /\ running = {}
  BY DEF Init
<1>5. /\ main = "serving" /\ ~closed /\ ~panicked /\ \A i \in Claims : row[i] = "pending"
  BY DEF Init, Items
<1>7. HandsEmpty /\ StopsInOrder /\ LeftOnlyRejected
  BY <1>1, <1>2, <1>4, <1>5 DEF HandsEmpty, StopsInOrder, Stopping, LeftOnlyRejected, RecCancelled
<1>6. Tracked
  BY <1>2, <1>4, PoolAssumption, SMT
  DEF Init, Tracked, InOnePlace, Somewhere, Queued, Items
<1> QED
  BY <1>3, <1>6, <1>7 DEF PoolInv

\* The queue after a send.
LEMMA QueueSend ==
  ASSUME queue \in Seq(Items), NEW x \in Items, queue' = Append(queue, x)
  PROVE  /\ queue' \in Seq(Items) /\ Len(queue') = Len(queue) + 1 /\ Len(queue) \in Nat
         /\ \A i : Queued(i)' <=> Queued(i) \/ i = x
         /\ \A i : ~Queued(i) \/ i # x =>
              ((\A m, n \in 1..Len(queue) : queue[m] = i /\ queue[n] = i => m = n) =>
               (\A m, n \in 1..Len(queue') : queue'[m] = i /\ queue'[n] = i => m = n))
<1>1. /\ queue' \in Seq(Items) /\ Len(queue) \in Nat /\ Len(queue') = Len(queue) + 1
      /\ \A n \in 1..Len(queue) : queue'[n] = queue[n]
      /\ queue'[Len(queue) + 1] = x
  BY SMT
<1>2. ASSUME NEW i PROVE Queued(i)' <=> Queued(i) \/ i = x
  BY <1>1, SMT DEF Queued
<1>3. ASSUME NEW i, ~Queued(i) \/ i # x,
             \A m, n \in 1..Len(queue) : queue[m] = i /\ queue[n] = i => m = n,
             NEW m \in 1..Len(queue'), NEW n \in 1..Len(queue'),
             queue'[m] = i, queue'[n] = i
      PROVE  m = n
  BY <1>1, <1>3, SMT DEF Queued
<1> QED
  BY <1>1, <1>2, <1>3, SMT

\* The queue after a receive.
LEMMA QueueTake ==
  ASSUME queue \in Seq(Items), queue # <<>>, queue' = Tail(queue)
  PROVE  /\ queue' \in Seq(Items) /\ Len(queue') = Len(queue) - 1
         /\ Len(queue) \in Nat \ {0} /\ Head(queue) \in Items
         /\ \A i : Queued(i) <=> Queued(i)' \/ i = Head(queue)
         /\ \A i : (\A m, n \in 1..Len(queue) : queue[m] = i /\ queue[n] = i => m = n) =>
              /\ \A m, n \in 1..Len(queue') : queue'[m] = i /\ queue'[n] = i => m = n
              /\ i = Head(queue) => ~Queued(i)'
<1>1. /\ queue' \in Seq(Items) /\ Len(queue) \in Nat \ {0} /\ Len(queue') = Len(queue) - 1
      /\ \A n \in 1..Len(queue') : queue'[n] = queue[n + 1]
      /\ Head(queue) = queue[1] /\ Head(queue) \in Items
  BY NoLength, SMT
<1>2. ASSUME NEW i PROVE Queued(i) <=> Queued(i)' \/ i = Head(queue)
  <2>1. ASSUME NEW n \in 1..Len(queue), queue[n] = i PROVE Queued(i)' \/ i = Head(queue)
    <3>1. CASE n = 1
      BY <1>1, <2>1, <3>1
    <3>2. CASE n # 1
      <4>1. n - 1 \in 1..Len(queue') /\ queue'[n - 1] = i
        BY <1>1, <2>1, <3>2, SMT
      <4> QED
        BY <4>1 DEF Queued
    <3> QED
      BY <3>1, <3>2
  <2>2. ASSUME NEW n \in 1..Len(queue'), queue'[n] = i PROVE Queued(i)
    <3>1. n + 1 \in 1..Len(queue) /\ queue[n + 1] = i
      BY <1>1, <2>2, SMT
    <3> QED
      BY <3>1 DEF Queued
  <2>3. i = Head(queue) => Queued(i)
    BY <1>1, SMT DEF Queued
  <2> QED
    BY <2>1, <2>2, <2>3 DEF Queued
<1>3. ASSUME NEW i, \A m, n \in 1..Len(queue) : queue[m] = i /\ queue[n] = i => m = n
      PROVE  /\ \A m, n \in 1..Len(queue') : queue'[m] = i /\ queue'[n] = i => m = n
             /\ i = Head(queue) => ~Queued(i)'
  <2>1. ASSUME NEW m \in 1..Len(queue'), NEW n \in 1..Len(queue'), queue'[m] = i, queue'[n] = i
        PROVE  m = n
    <3>1. /\ m + 1 \in 1..Len(queue) /\ n + 1 \in 1..Len(queue)
          /\ queue[m + 1] = i /\ queue[n + 1] = i
      BY <1>1, <2>1, SMT
    <3>2. m + 1 = n + 1
      BY <1>3, <3>1
    <3> QED
      BY <3>2, SMT
  <2>2. ASSUME i = Head(queue), NEW n \in 1..Len(queue'), queue'[n] = i PROVE FALSE
    <3>1. /\ n + 1 \in 1..Len(queue) /\ queue[n + 1] = i
          /\ 1 \in 1..Len(queue) /\ queue[1] = i
      BY <1>1, <2>2, SMT
    <3>2. n + 1 = 1
      BY <1>3, <3>1
    <3> QED
      BY <3>2, SMT
  <2> QED
    BY <2>1, <2>2 DEF Queued
<1> QED
  BY <1>1, <1>2, <1>3

\* A claim, in the reconciler's hand.
LEMMA ClaimStep ==
  ASSUME PoolInv, NEW c \in Claims, ClaimNextJob(c)
  PROVE  PoolInv'
<1>1. /\ rec.pc = "idle" /\ row[c] = "pending" /\ ~Exited /\ ~RecCancelled
      /\ rec' = [pc |-> "holding", item |-> c]
      /\ row' = [row EXCEPT ![c] = "running"]
      /\ fate' = [fate EXCEPT ![c] = "none"]
      /\ UNCHANGED <<main, signalled, consumer, queue, closed, loop, running, panicked, reopened>>
  BY DEF ClaimNextJob, At
<1>2. c \in Items /\ c # NoItem /\ rec.item = NoItem
  BY <1>1, PoolAssumption DEF Items, PoolInv, HandsEmpty
<1>3. /\ row \in [Items -> {"pending", "running", "settled", "left"}]
      /\ fate \in [Items -> {"none", "rejected", "accepted", "finished", "dropped"}]
  BY DEF PoolInv, TypeOK
<1>4. TypeOK'
  BY <1>1, <1>2 DEF PoolInv, TypeOK
<1>5. HandsEmpty' /\ StopsInOrder'
  BY <1>1, <1>2 DEF PoolInv, HandsEmpty, StopsInOrder, Stopping, Exited, RecCancelled
<1>6. ASSUME NEW i \in Claims PROVE InOnePlace(i)' /\ (Somewhere(i) <=> row[i] = "running")'
  <2>1. InOnePlace(i) /\ (Somewhere(i) <=> row[i] = "running") /\ i \in Items /\ i # NoItem
    BY <1>1, PoolAssumption DEF PoolInv, Exited, Tracked, Items
  <2>2. CASE i = c
    BY <1>1, <1>2, <1>3, <2>1, <2>2 DEF InOnePlace, Somewhere, Queued
  <2>3. CASE i # c
    BY <1>1, <1>2, <1>3, <2>1, <2>3 DEF InOnePlace, Somewhere, Queued
  <2> QED
    BY <2>2, <2>3
<1>7. Tracked'
  BY <1>6 DEF Tracked
<1>8. LeftOnlyRejected'
  BY <1>1, <1>2, <1>3 DEF PoolInv, LeftOnlyRejected, RecCancelled, Items
<1> QED
  BY <1>4, <1>5, <1>7, <1>8 DEF PoolInv

\* What a send does to what is tracked: it puts the item in the queue.
LEMMA SendStep ==
  ASSUME PoolInv, NEW x \in Items, Send(x), UNCHANGED <<main, signalled, closed>>
  PROVE  /\ closed => panicked' = TRUE /\ queue' = queue /\ fate' = fate
         /\ ~closed =>
              /\ panicked' = panicked
              /\ fate' = [fate EXCEPT ![x] = "accepted"]
              /\ queue' \in Seq(Items) /\ Len(queue') <= QueueSize
              /\ \A i : Queued(i)' <=> Queued(i) \/ i = x
              /\ \A i : ~Queued(i) \/ i # x =>
                   ((\A m, n \in 1..Len(queue) : queue[m] = i /\ queue[n] = i => m = n) =>
                    (\A m, n \in 1..Len(queue') : queue'[m] = i /\ queue'[n] = i => m = n))
<1>1. CASE closed
  BY <1>1 DEF Send
<1>2. CASE ~closed
  <2>1. /\ Len(queue) < QueueSize /\ queue' = Append(queue, x)
        /\ fate' = [fate EXCEPT ![x] = "accepted"] /\ panicked' = panicked
    BY <1>2 DEF Send
  <2>2. queue \in Seq(Items)
    BY DEF PoolInv, TypeOK
  <2>3. /\ queue' \in Seq(Items) /\ Len(queue') = Len(queue) + 1 /\ Len(queue) \in Nat
        /\ \A i : Queued(i)' <=> Queued(i) \/ i = x
        /\ \A i : ~Queued(i) \/ i # x =>
             ((\A m, n \in 1..Len(queue) : queue[m] = i /\ queue[n] = i => m = n) =>
              (\A m, n \in 1..Len(queue') : queue'[m] = i /\ queue'[n] = i => m = n))
    BY <2>1, <2>2, QueueSend
  <2>4. Len(queue') <= QueueSize
    BY <2>1, <2>3, PoolAssumption, SMT
  <2> QED
    BY <1>2, <2>1, <2>3, <2>4
<1> QED
  BY <1>1, <1>2

\* SubmitBlocking moves the claim from the reconciler's hand into the queue, and
\* never meets the closed channel.
LEMMA SubmitBlockingStep ==
  ASSUME PoolInv, SubmitBlocking
  PROVE  PoolInv' /\ panicked' = panicked
<1>1. /\ ~Exited /\ rec.pc = "holding" /\ Send(rec.item)
      /\ rec' = [pc |-> "idle", item |-> NoItem]
      /\ UNCHANGED <<main, signalled, row, consumer, closed, loop, running, reopened>>
  BY DEF SubmitBlocking, At
<1>2. PICK c \in Claims : c = rec.item
  BY <1>1 DEF PoolInv, TypeOK, HandsEmpty
<1>3. c \in Items /\ c # NoItem /\ ~closed
  BY <1>1, <1>2, PoolAssumption DEF Items, PoolInv, StopsInOrder, Stopping
<1>4. /\ panicked' = panicked
      /\ fate' = [fate EXCEPT ![c] = "accepted"]
      /\ queue' \in Seq(Items) /\ Len(queue') <= QueueSize
      /\ \A i : Queued(i)' <=> Queued(i) \/ i = c
      /\ \A i : ~Queued(i) \/ i # c =>
           ((\A m, n \in 1..Len(queue) : queue[m] = i /\ queue[n] = i => m = n) =>
            (\A m, n \in 1..Len(queue') : queue'[m] = i /\ queue'[n] = i => m = n))
  BY <1>1, <1>2, <1>3, SendStep
<1>5. TypeOK'
  BY <1>1, <1>3, <1>4 DEF PoolInv, TypeOK
<1>6. HandsEmpty' /\ StopsInOrder'
  BY <1>1, <1>3, <1>4 DEF PoolInv, HandsEmpty, StopsInOrder, Stopping, Exited
<1>7. row[c] = "running" /\ InOnePlace(c)
  BY <1>1, <1>2 DEF PoolInv, Exited, Tracked, Somewhere
<1>8. ASSUME NEW i \in Claims PROVE InOnePlace(i)' /\ (Somewhere(i) <=> row[i] = "running")'
  <2>1. InOnePlace(i) /\ (Somewhere(i) <=> row[i] = "running") /\ i # NoItem
    BY <1>1, PoolAssumption DEF PoolInv, Exited, Tracked, Items
  <2>2. \A m, n \in 1..Len(queue') : queue'[m] = i /\ queue'[n] = i => m = n
    BY <1>2, <1>4, <2>1 DEF InOnePlace
  <2>3. (Queued(i)' <=> Queued(i) \/ i = c) /\ rec'.item # i /\ (rec.item = i <=> i = c)
    BY <1>1, <1>2, <1>4, <2>1
  <2>4. InOnePlace(i)'
    BY <1>1, <2>1, <2>2, <2>3 DEF InOnePlace
  <2>5. (Somewhere(i) <=> row[i] = "running")'
    BY <1>1, <2>1, <2>3 DEF Somewhere
  <2> QED
    BY <2>4, <2>5
<1>9. Tracked'
  BY <1>8 DEF Tracked
<1>10. LeftOnlyRejected'
  <2>1. fate \in [Items -> {"none", "rejected", "accepted", "finished", "dropped"}]
    BY DEF PoolInv, TypeOK
  <2> QED
    BY <1>1, <1>3, <1>4, <1>7, <2>1 DEF PoolInv, LeftOnlyRejected, RecCancelled, Items
<1> QED
  BY <1>4, <1>5, <1>6, <1>9, <1>10 DEF PoolInv

\* A claim the pool has refused is left behind.
LEMMA RejectedStep ==
  ASSUME PoolInv, Rejected
  PROVE  PoolInv'
<1>1. /\ ~Exited /\ rec.pc = "holding" /\ RecCancelled
      /\ row' = [row EXCEPT ![rec.item] = "left"]
      /\ fate' = [fate EXCEPT ![rec.item] = "rejected"]
      /\ rec' = [pc |-> "idle", item |-> NoItem]
      /\ UNCHANGED <<main, signalled, consumer, queue, closed, loop, running, panicked, reopened>>
  BY DEF Rejected, At
<1>2. PICK c \in Claims : c = rec.item
  BY <1>1 DEF PoolInv, TypeOK, HandsEmpty
<1>3. /\ c \in Items /\ c # NoItem
      /\ row \in [Items -> {"pending", "running", "settled", "left"}]
      /\ fate \in [Items -> {"none", "rejected", "accepted", "finished", "dropped"}]
  BY PoolAssumption DEF Items, PoolInv, TypeOK
<1>4. TypeOK'
  BY <1>1, <1>2, <1>3 DEF PoolInv, TypeOK
<1>5. HandsEmpty' /\ StopsInOrder'
  BY <1>1, <1>3 DEF PoolInv, HandsEmpty, StopsInOrder, Stopping, Exited
<1>6. ASSUME NEW i \in Claims PROVE InOnePlace(i)' /\ (Somewhere(i) <=> row[i] = "running")'
  <2>1. InOnePlace(i) /\ (Somewhere(i) <=> row[i] = "running") /\ i \in Items /\ i # NoItem
    BY <1>1, PoolAssumption DEF PoolInv, Exited, Tracked, Items
  <2>2. CASE i = c
    BY <1>1, <1>2, <1>3, <2>1, <2>2 DEF InOnePlace, Somewhere, Queued
  <2>3. CASE i # c
    BY <1>1, <1>2, <1>3, <2>1, <2>3 DEF InOnePlace, Somewhere, Queued
  <2> QED
    BY <2>2, <2>3
<1>7. Tracked'
  BY <1>6 DEF Tracked
<1>8. LeftOnlyRejected'
  BY <1>1, <1>2, <1>3 DEF PoolInv, LeftOnlyRejected, RecCancelled, Items
<1> QED
  BY <1>4, <1>5, <1>7, <1>8 DEF PoolInv

\* Steps that move no item and write no row.
LEMMA NothingMoves ==
  ASSUME PoolInv, ~Exited, UNCHANGED <<row, queue, running, panicked, fate>>,
         rec'.item = rec.item, loop'.item = loop.item,
         signalled => signalled', main # "serving" => main' # "serving",
         main' # "exit",
         TypeOK', HandsEmpty', StopsInOrder'
  PROVE  PoolInv'
<1>1. Tracked'
  BY SMT DEF PoolInv, Exited, Tracked, InOnePlace, Somewhere, Queued
<1>2. LeftOnlyRejected'
  BY DEF PoolInv, LeftOnlyRejected, RecCancelled, Exited
<1> QED
  BY <1>1, <1>2 DEF PoolInv

\* The signal, the reconciler's return, the dispatch goroutine's, and run's own
\* steps up to pgPool.Close.
LEMMA StoppingSteps ==
  ASSUME PoolInv,
         \/ ReconcilerReturns \/ LoopExits \/ Signal \/ ShutDown \/ StopPool
         \/ Drained \/ DrainTimesOut \/ ReopenSession \/ ClosePool
  PROVE  PoolInv'
<1>0. /\ rec \in [pc : {"idle", "holding", "stopped"}, item : Claims \cup {NoItem}]
      /\ loop \in [pc : {"select", "semaphore", "exited"}, item : Items \cup {NoItem}]
      /\ ~Exited
  BY DEF PoolInv, TypeOK, ReconcilerReturns, LoopExits, Signal, ShutDown, StopPool,
         Drained, DrainTimesOut, ReopenSession, ClosePool
<1>1. CASE ReconcilerReturns
  <2>1. /\ rec' = [pc |-> "stopped", item |-> NoItem] /\ rec.pc = "idle"
        /\ UNCHANGED <<main, signalled, row, consumer, queue, closed, loop, running, panicked, reopened, fate>>
    BY <1>1 DEF ReconcilerReturns, At
  <2>2. rec.item = NoItem
    BY <2>1 DEF PoolInv, HandsEmpty
  <2>3. TypeOK'
    BY <2>1 DEF PoolInv, TypeOK
  <2>4. HandsEmpty' /\ StopsInOrder'
    BY <2>1, <2>2 DEF PoolInv, HandsEmpty, StopsInOrder, Stopping
  <2> QED
    BY <1>0, <2>1, <2>2, <2>3, <2>4, NothingMoves DEF Exited
<1>2. CASE LoopExits
  <2>1. /\ loop' = [pc |-> "exited", item |-> NoItem] /\ loop.pc = "select"
        /\ signalled \/ (closed /\ queue = <<>>)
        /\ UNCHANGED <<main, signalled, row, rec, consumer, queue, closed, running, panicked, reopened, fate>>
    BY <1>2 DEF LoopExits, At
  <2>2. loop.item = NoItem
    BY <2>1 DEF PoolInv, HandsEmpty
  <2>3. TypeOK'
    BY <2>1 DEF PoolInv, TypeOK
  <2>4. HandsEmpty' /\ StopsInOrder'
    BY <2>1, <2>2 DEF PoolInv, HandsEmpty, StopsInOrder, Stopping
  <2> QED
    BY <1>0, <2>1, <2>2, <2>3, <2>4, NothingMoves DEF Exited
<1>3. CASE Signal
  <2>1. /\ signalled' = TRUE
        /\ UNCHANGED <<main, row, rec, consumer, queue, closed, loop, running, panicked, reopened, fate>>
    BY <1>3 DEF Signal
  <2>2. TypeOK' /\ HandsEmpty' /\ StopsInOrder'
    BY <2>1 DEF PoolInv, TypeOK, HandsEmpty, StopsInOrder, Stopping
  <2> QED
    BY <1>0, <2>1, <2>2, NothingMoves DEF Exited
<1>4. CASE ShutDown
  <2>1. /\ main' = "reconciler" /\ main = "serving"
        /\ UNCHANGED <<signalled, row, rec, consumer, queue, closed, loop, running, panicked, reopened, fate>>
    BY <1>4 DEF ShutDown
  <2>2. TypeOK' /\ HandsEmpty' /\ StopsInOrder'
    BY <2>1 DEF PoolInv, TypeOK, HandsEmpty, StopsInOrder, Stopping
  <2> QED
    BY <1>0, <2>1, <2>2, NothingMoves
<1>5. CASE StopPool
  <2>1. /\ main' = "pool" /\ main = "reconciler" /\ closed' = TRUE /\ rec.pc = "stopped"
        /\ UNCHANGED <<signalled, row, rec, consumer, queue, loop, running, panicked, reopened, fate>>
    BY <1>5 DEF StopPool
  <2>2. TypeOK' /\ HandsEmpty' /\ StopsInOrder'
    BY <2>1 DEF PoolInv, TypeOK, HandsEmpty, StopsInOrder, Stopping
  <2> QED
    BY <1>0, <2>1, <2>2, NothingMoves
<1>6. CASE Drained \/ DrainTimesOut \/ ClosePool
  <2>1. /\ main \in {"pool", "drained", "timedout"} /\ main' \in {"drained", "timedout", "closing"}
        /\ main' = "drained" => loop.pc = "exited" /\ running = {}
        /\ UNCHANGED <<signalled, row, rec, consumer, queue, closed, loop, running, panicked, reopened, fate>>
    BY <1>6 DEF Drained, DrainTimesOut, ClosePool
  <2>2. TypeOK' /\ HandsEmpty' /\ StopsInOrder'
    BY <2>1 DEF PoolInv, TypeOK, HandsEmpty, StopsInOrder, Stopping
  <2> QED
    BY <1>0, <2>1, <2>2, NothingMoves
<1>7. CASE ReopenSession
  <2>1. /\ reopened' = TRUE
        /\ UNCHANGED <<main, signalled, row, rec, consumer, queue, closed, loop, running, panicked, fate>>
    BY <1>7 DEF ReopenSession
  <2>2. TypeOK' /\ HandsEmpty' /\ StopsInOrder'
    BY <2>1 DEF PoolInv, TypeOK, HandsEmpty, StopsInOrder, Stopping
  <2> QED
    BY <1>0, <2>1, <2>2, NothingMoves DEF Exited
<1> QED
  BY <1>1, <1>2, <1>3, <1>4, <1>5, <1>6, <1>7

\* A message in the consumer's hand is no claim.
LEMMA HandleStep ==
  ASSUME PoolInv, NEW m \in Messages, Handle(m)
  PROVE  PoolInv'
<1>1. /\ ~Exited /\ consumer' = m
      /\ UNCHANGED <<main, signalled, row, rec, queue, closed, loop, running, panicked, reopened, fate>>
  BY DEF Handle
<1>2. TypeOK' /\ HandsEmpty' /\ StopsInOrder'
  BY <1>1 DEF PoolInv, TypeOK, HandsEmpty, StopsInOrder, Stopping
<1> QED
  BY <1>1, <1>2, NothingMoves DEF Exited

\* Submit puts it in the queue, drops it, or panics and ends the process.
LEMMA SubmitStep ==
  ASSUME PoolInv, Submit
  PROVE  PoolInv'
<1>1. /\ ~Exited /\ consumer # NoItem /\ consumer' = NoItem
      /\ UNCHANGED <<main, signalled, row, rec, closed, loop, running, reopened>>
      /\ Send(consumer) \/ UNCHANGED <<queue, panicked, fate>>
  BY DEF Submit
<1>2. PICK x \in Messages : x = consumer
  BY <1>1 DEF PoolInv, TypeOK
<1>3. x \in Items /\ x \notin Claims
  BY PoolAssumption DEF Items
<1>4. CASE UNCHANGED <<queue, panicked, fate>>
  <2>1. TypeOK' /\ HandsEmpty' /\ StopsInOrder'
    BY <1>1, <1>4 DEF PoolInv, TypeOK, HandsEmpty, StopsInOrder, Stopping
  <2> QED
    BY <1>1, <1>4, <2>1, NothingMoves DEF Exited
<1>5. CASE Send(consumer) /\ closed
  <2>1. panicked' = TRUE /\ queue' = queue /\ fate' = fate
    BY <1>5 DEF Send
  <2>2. TypeOK' /\ HandsEmpty' /\ StopsInOrder'
    BY <1>1, <1>5, <2>1 DEF PoolInv, TypeOK, HandsEmpty, StopsInOrder, Stopping, Exited
  <2>3. Tracked' /\ LeftOnlyRejected'
    BY <1>1, <2>1, SMTT(30) DEF PoolInv, Tracked, LeftOnlyRejected, RecCancelled,
                           InOnePlace, Somewhere, Queued
  <2> QED
    BY <2>2, <2>3 DEF PoolInv
<1>6. CASE Send(consumer) /\ ~closed
  <2>1. /\ panicked' = panicked
        /\ fate' = [fate EXCEPT ![x] = "accepted"]
        /\ queue' \in Seq(Items) /\ Len(queue') <= QueueSize
        /\ \A i : Queued(i)' <=> Queued(i) \/ i = x
        /\ \A i : ~Queued(i) \/ i # x =>
             ((\A m, n \in 1..Len(queue) : queue[m] = i /\ queue[n] = i => m = n) =>
              (\A m, n \in 1..Len(queue') : queue'[m] = i /\ queue'[n] = i => m = n))
    BY <1>1, <1>2, <1>3, <1>6, SendStep, ZenonT(40)
  <2>2. TypeOK'
    BY <1>1, <1>3, <2>1, SMT DEF PoolInv, TypeOK
  <2>3. HandsEmpty' /\ StopsInOrder'
    BY <1>1, <1>6, <2>1 DEF PoolInv, HandsEmpty, StopsInOrder, Stopping
  <2>4. ASSUME NEW i \in Claims
        PROVE  InOnePlace(i)' /\ (Somewhere(i) <=> row[i] = "running")' /\ fate'[i] = fate[i]
    <3>1. InOnePlace(i) /\ (Somewhere(i) <=> row[i] = "running") /\ i # x /\ i \in Items
      BY <1>1, <1>3 DEF PoolInv, Exited, Tracked, Items
    <3>2. \A m, n \in 1..Len(queue') : queue'[m] = i /\ queue'[n] = i => m = n
      BY <2>1, <3>1 DEF InOnePlace
    <3>3. Queued(i)' <=> Queued(i)
      BY <2>1, <3>1
    <3>4. fate'[i] = fate[i]
      BY <2>1, <3>1 DEF PoolInv, TypeOK
    <3> QED
      BY <1>1, <3>1, <3>2, <3>3, <3>4 DEF InOnePlace, Somewhere
  <2>5. Tracked'
    BY <2>4 DEF Tracked
  <2>6. LeftOnlyRejected'
    BY <1>1, <2>1, <2>4 DEF PoolInv, LeftOnlyRejected, RecCancelled
  <2> QED
    BY <2>2, <2>3, <2>5, <2>6 DEF PoolInv
<1> QED
  BY <1>1, <1>4, <1>5, <1>6

\* The dispatch goroutine takes a job off the queue.
LEMMA TakeStep ==
  ASSUME PoolInv, Take
  PROVE  PoolInv'
<1>1. /\ ~Exited /\ loop.pc = "select" /\ queue # <<>>
      /\ loop' = [pc |-> "semaphore", item |-> Head(queue)] /\ queue' = Tail(queue)
      /\ UNCHANGED <<main, signalled, row, rec, consumer, closed, running, panicked, reopened, fate>>
  BY DEF Take, At
<1>2. queue \in Seq(Items) /\ Len(queue) <= QueueSize /\ loop.item = NoItem
  BY <1>1 DEF PoolInv, TypeOK, HandsEmpty
<1>3. /\ queue' \in Seq(Items) /\ Len(queue') = Len(queue) - 1
      /\ Len(queue) \in Nat \ {0} /\ Head(queue) \in Items
      /\ \A i : Queued(i) <=> Queued(i)' \/ i = Head(queue)
      /\ \A i : (\A m, n \in 1..Len(queue) : queue[m] = i /\ queue[n] = i => m = n) =>
           /\ \A m, n \in 1..Len(queue') : queue'[m] = i /\ queue'[n] = i => m = n
           /\ i = Head(queue) => ~Queued(i)'
  BY <1>1, <1>2, QueueTake
<1>4. PICK x \in Items : x = Head(queue) /\ x # NoItem
  BY <1>3, PoolAssumption
<1>5. TypeOK'
  <2>1. Len(queue') <= QueueSize
    BY <1>2, <1>3, PoolAssumption, SMT
  <2>2. loop' \in [pc : {"select", "semaphore", "exited"}, item : Items \cup {NoItem}]
    BY <1>1, <1>3
  <2> QED
    BY <1>1, <1>3, <2>1, <2>2 DEF PoolInv, TypeOK
<1>6. HandsEmpty' /\ StopsInOrder'
  BY <1>1, <1>4 DEF PoolInv, HandsEmpty, StopsInOrder, Stopping
<1>7. ASSUME NEW i \in Claims PROVE InOnePlace(i)' /\ (Somewhere(i) <=> row[i] = "running")'
  <2>1. InOnePlace(i) /\ (Somewhere(i) <=> row[i] = "running") /\ i # NoItem
    BY <1>1, PoolAssumption DEF PoolInv, Exited, Tracked, Items
  <2>2. /\ \A m, n \in 1..Len(queue') : queue'[m] = i /\ queue'[n] = i => m = n
        /\ i = x => ~Queued(i)'
        /\ Queued(i) <=> Queued(i)' \/ i = x
    BY <1>3, <1>4, <2>1 DEF InOnePlace
  <2>3. loop'.item = x /\ loop.item # i
    BY <1>1, <1>2, <1>4, <2>1
  <2>4. InOnePlace(i)'
    BY <1>1, <2>1, <2>2, <2>3 DEF InOnePlace
  <2>5. (Somewhere(i) <=> row[i] = "running")'
    BY <1>1, <2>1, <2>2, <2>3 DEF Somewhere
  <2> QED
    BY <2>4, <2>5
<1>8. Tracked'
  BY <1>7 DEF Tracked
<1>9. LeftOnlyRejected'
  BY <1>1 DEF PoolInv, LeftOnlyRejected, RecCancelled
<1> QED
  BY <1>5, <1>6, <1>8, <1>9 DEF PoolInv

\* Run starts: the job leaves the goroutine's hand, and of a claim the row is
\* RUNNING already.
LEMMA StartStep ==
  ASSUME PoolInv, StartRun
  PROVE  PoolInv'
<1>1. /\ ~Exited /\ loop.pc = "semaphore" /\ Cardinality(running) < Concurrency
      /\ running' = running \cup {loop.item}
      /\ row' = [row EXCEPT ![loop.item] = IF Severed THEN row[loop.item] ELSE "running"]
      /\ loop' = [pc |-> "select", item |-> NoItem]
      /\ UNCHANGED <<main, signalled, rec, consumer, queue, closed, panicked, reopened, fate>>
  BY DEF StartRun, At
<1>2. PICK x \in Items : x = loop.item /\ x # NoItem
  BY <1>1, PoolAssumption DEF PoolInv, TypeOK, HandsEmpty
<1>3. row \in [Items -> {"pending", "running", "settled", "left"}] /\ running \subseteq Items
  BY DEF PoolInv, TypeOK
<1>4. /\ IsFiniteSet(running') /\ Cardinality(running') <= Concurrency
  <2>1. IsFiniteSet(running) /\ Cardinality(running) \in Nat
    BY FS_CardinalityType DEF PoolInv, HandsEmpty
  <2>2. /\ IsFiniteSet(running')
        /\ Cardinality(running') = IF x \in running THEN Cardinality(running)
                                   ELSE Cardinality(running) + 1
    BY <1>1, <1>2, <2>1, FS_AddElement
  <2> QED
    BY <1>1, <2>1, <2>2, PoolAssumption, SMT
<1>5. TypeOK'
  <2>1. row' \in [Items -> {"pending", "running", "settled", "left"}]
    BY <1>1, <1>2, <1>3
  <2>2. running' \subseteq Items
    BY <1>1, <1>2, <1>3
  <2> QED
    BY <1>1, <1>4, <2>1, <2>2 DEF PoolInv, TypeOK
<1>6. HandsEmpty' /\ StopsInOrder'
  BY <1>1, <1>4 DEF PoolInv, HandsEmpty, StopsInOrder, Stopping
<1>7. ASSUME NEW i \in Claims
      PROVE  InOnePlace(i)' /\ (Somewhere(i) <=> row[i] = "running")' /\ row'[i] = row[i]
  <2>1. InOnePlace(i) /\ (Somewhere(i) <=> row[i] = "running") /\ i # NoItem /\ i \in Items
    BY <1>1, PoolAssumption DEF PoolInv, Exited, Tracked, Items
  <2>2. row'[i] = row[i]
    <3>1. CASE i = x
      BY <1>1, <1>2, <1>3, <2>1, <3>1 DEF Somewhere
    <3>2. CASE i # x
      BY <1>1, <1>2, <1>3, <2>1, <3>2
    <3> QED
      BY <3>1, <3>2
  <2>3. /\ loop'.item # i /\ (i \in running' <=> i \in running \/ loop.item = i)
        /\ (Queued(i)' <=> Queued(i)) /\ rec' = rec /\ queue' = queue
    BY <1>1, <1>2, <2>1 DEF Queued
  <2>4. InOnePlace(i)'
    BY <2>1, <2>3 DEF InOnePlace
  <2>5. (Somewhere(i) <=> row[i] = "running")'
    BY <2>1, <2>2, <2>3 DEF Somewhere
  <2> QED
    BY <2>2, <2>4, <2>5
<1>8. Tracked'
  BY <1>7 DEF Tracked
<1>9. LeftOnlyRejected'
  BY <1>1, <1>7 DEF PoolInv, LeftOnlyRejected, RecCancelled
<1> QED
  BY <1>5, <1>6, <1>8, <1>9 DEF PoolInv

\* Run returns: the job is nowhere, and its row is not RUNNING.
LEMMA ReturnStep ==
  ASSUME PoolInv, NEW x \in Items, NEW outcome \in {"settled", "pending", "left"},
         RunReturns(x, outcome)
  PROVE  PoolInv'
<1> DEFINE r == IF row[x] # "running" THEN row[x]
                ELSE IF Severed THEN "left" ELSE outcome
           f == IF row[x] # "running" \/ outcome = "pending" THEN "none"
                ELSE IF outcome = "left" THEN "dropped" ELSE "finished"
<1>1. /\ ~Exited /\ x \in running /\ running' = running \ {x}
      /\ row' = [row EXCEPT ![x] = r]
      /\ fate' = [fate EXCEPT ![x] = f]
      /\ UNCHANGED <<main, signalled, rec, consumer, queue, closed, loop, panicked, reopened>>
  BY DEF RunReturns
<1>2. /\ row \in [Items -> {"pending", "running", "settled", "left"}]
      /\ fate \in [Items -> {"none", "rejected", "accepted", "finished", "dropped"}]
      /\ running \subseteq Items
  BY DEF PoolInv, TypeOK
<1>3. /\ r \in {"pending", "settled", "left"} /\ f \in {"finished", "none", "dropped"}
      /\ r = "left" => RecCancelled \/ row[x] = "left" \/ f = "dropped"
  BY <1>2 DEF Severed, RecCancelled
<1>0. x \in Claims => row[x] = "running"
  BY <1>1 DEF PoolInv, Exited, Tracked, Somewhere
<1> HIDE DEF r, f
<1>4. IsFiniteSet(running') /\ Cardinality(running') <= Concurrency
  <2>1. IsFiniteSet(running) /\ Cardinality(running) \in Nat /\ Cardinality(running) <= Concurrency
    BY FS_CardinalityType DEF PoolInv, HandsEmpty, TypeOK
  <2>2. IsFiniteSet(running') /\ Cardinality(running') = Cardinality(running) - 1
    BY <1>1, <2>1, FS_RemoveElement
  <2> QED
    BY <2>1, <2>2, PoolAssumption, SMT
<1>5. TypeOK'
  <2>1. /\ row' \in [Items -> {"pending", "running", "settled", "left"}]
        /\ fate' \in [Items -> {"none", "rejected", "accepted", "finished", "dropped"}]
        /\ running' \subseteq Items
    BY <1>1, <1>2, <1>3
  <2> QED
    BY <1>1, <1>4, <2>1, SMT DEF PoolInv, TypeOK
<1>6. HandsEmpty' /\ StopsInOrder'
  BY <1>1, <1>4 DEF PoolInv, HandsEmpty, StopsInOrder, Stopping
<1>7. ASSUME NEW i \in Claims PROVE InOnePlace(i)' /\ (Somewhere(i) <=> row[i] = "running")'
  <2>1. InOnePlace(i) /\ (Somewhere(i) <=> row[i] = "running") /\ i \in Items
    BY <1>1 DEF PoolInv, Exited, Tracked, Items
  <2>2. (Queued(i)' <=> Queued(i)) /\ rec' = rec /\ queue' = queue /\ loop' = loop
    BY <1>1 DEF Queued
  <2>3. CASE i = x
    <3>1. i \notin running' /\ row'[i] # "running" /\ i \in running
      BY <1>1, <1>2, <1>3, <2>1, <2>3
    <3> QED
      BY <2>1, <2>2, <3>1 DEF InOnePlace, Somewhere
  <2>4. CASE i # x
    <3>1. (i \in running' <=> i \in running) /\ row'[i] = row[i]
      BY <1>1, <1>2, <2>1, <2>4
    <3> QED
      BY <2>1, <2>2, <3>1 DEF InOnePlace, Somewhere
  <2> QED
    BY <2>3, <2>4
<1>8. Tracked'
  BY <1>7 DEF Tracked
<1>9. LeftOnlyRejected'
  <2> SUFFICES ASSUME NEW i \in Claims, row'[i] = "left"
               PROVE  /\ RecCancelled' \/ fate'[i] = "dropped"
                      /\ main # "exit" => fate'[i] # "accepted"
    BY <1>1 DEF LeftOnlyRejected
  <2>1. i \in Items /\ RecCancelled' = RecCancelled
    BY <1>1 DEF Items, RecCancelled
  <2>2. CASE i = x
    BY <1>0, <1>1, <1>2, <1>3, <2>1, <2>2
  <2>3. CASE i # x
    <3>1. row[i] = "left" /\ fate'[i] = fate[i]
      BY <1>1, <1>2, <2>1, <2>3
    <3> QED
      BY <2>1, <3>1 DEF PoolInv, LeftOnlyRejected
  <2> QED
    BY <2>2, <2>3
<1> QED
  BY <1>5, <1>6, <1>8, <1>9 DEF PoolInv

\* The process ends, and what it held is left behind.
LEMMA ExitStep ==
  ASSUME PoolInv, Exit
  PROVE  PoolInv'
<1>1. /\ main = "closing" /\ main' = "exit"
      /\ row' = [i \in Items |-> IF row[i] = "running" THEN "left" ELSE row[i]]
      /\ UNCHANGED <<signalled, rec, consumer, queue, closed, loop, running, panicked, reopened, fate>>
  BY DEF Exit
<1>2. row \in [Items -> {"pending", "running", "settled", "left"}]
  BY DEF PoolInv, TypeOK
<1>3. TypeOK'
  BY <1>1, <1>2 DEF PoolInv, TypeOK
<1>4. HandsEmpty' /\ StopsInOrder'
  BY <1>1 DEF PoolInv, HandsEmpty, StopsInOrder, Stopping
<1>5. Tracked' /\ LeftOnlyRejected'
  BY <1>1 DEF Tracked, Exited, LeftOnlyRejected, RecCancelled
<1> QED
  BY <1>3, <1>4, <1>5 DEF PoolInv

\* Every step preserves the invariant.
LEMMA PoolStepInv ==
  ASSUME PoolInv, [Next]_vars
  PROVE  PoolInv'
<1>1. CASE UNCHANGED vars
  BY <1>1, SMT DEF vars, PoolInv, TypeOK, HandsEmpty, StopsInOrder, Stopping, Tracked, LeftOnlyRejected,
              Exited, RecCancelled, InOnePlace, Somewhere, Queued
<1>2. CASE Next
  BY <1>2, ClaimStep, SubmitBlockingStep, RejectedStep, StoppingSteps, HandleStep,
     SubmitStep, TakeStep, StartStep, ReturnStep, ExitStep DEF Next
<1> QED
  BY <1>1, <1>2

\* A claim that is in one place is counted once.
LEMMA OneIsOne ==
  ASSUME PoolInv, ~Exited, NEW i \in Claims, row[i] = "running"
  PROVE  Places(i) = 1
<1> DEFINE Q == {n \in DOMAIN queue : queue[n] = i}
<1>1. InOnePlace(i) /\ Somewhere(i) /\ consumer # i
  BY PoolAssumption DEF PoolInv, Exited, Tracked, TypeOK, Items
<1>2. DOMAIN queue = 1..Len(queue)
  BY SMT DEF PoolInv, TypeOK
<1>3. Cardinality(Q) = IF Queued(i) THEN 1 ELSE 0
  <2>1. CASE Queued(i)
    <3>1. PICK n \in 1..Len(queue) : queue[n] = i
      BY <2>1 DEF Queued
    <3>2. Q = {n}
      BY <1>1, <1>2, <3>1 DEF InOnePlace
    <3> QED
      BY <2>1, <3>2, FS_Singleton
  <2>2. CASE ~Queued(i)
    <3>1. Q = {}
      BY <1>2, <2>2 DEF Queued
    <3> QED
      BY <2>2, <3>1, FS_EmptySet
  <2> QED
    BY <2>1, <2>2
<1>4. Places(i) = (IF rec.item = i THEN 1 ELSE 0) + 0 + Cardinality(Q)
                  + (IF loop.item = i THEN 1 ELSE 0) + (IF i \in running THEN 1 ELSE 0)
  BY <1>1 DEF Places
<1> HIDE DEF Q
<1> QED
  BY <1>1, <1>3, <1>4, SMT DEF InOnePlace, Somewhere

\* The invariant's consequences.
LEMMA PoolInvSafe ==
  ASSUME PoolInv
  PROVE  NoClaimMislaid /\ DrainIsComplete
<1>1. NoClaimMislaid
  BY OneIsOne DEF PoolInv, LeftOnlyRejected, NoClaimMislaid
<1>2. DrainIsComplete
  <2> SUFFICES ASSUME main = "drained", ~signalled, NEW i \in Claims, fate[i] = "accepted"
               PROVE  row[i] \notin {"running", "left"}
    BY DEF DrainIsComplete
  <2>1. queue = <<>> /\ rec.pc = "stopped" /\ loop.pc = "exited" /\ running = {}
    BY DEF PoolInv, StopsInOrder, Stopping
  <2>2. rec.item = NoItem /\ loop.item = NoItem /\ i # NoItem /\ Len(queue) = 0
    BY <2>1, PoolAssumption DEF PoolInv, HandsEmpty, Items
  <2>3. ~Somewhere(i)
    BY <2>1, <2>2, SMT DEF Somewhere, Queued
  <2> QED
    BY <2>3 DEF PoolInv, Tracked, LeftOnlyRejected
<1> QED
  BY <1>1, <1>2

-----------------------------------------------------------------------------
InstanceInv == PoolInv /\ WakeInv

\* One step of the instance is a step of its pool or of its wake-ups, while the
\* other stands still.
LEMMA InstanceInvariant == InstanceSpec => []InstanceInv
<1>1. InstanceInit => InstanceInv
  BY PoolInitial, WakeInitial DEF InstanceInit, InstanceInv
<1>2. InstanceInv /\ [PoolStep \/ WakeStep \/ Ended]_instanceVars => InstanceInv'
  <2> SUFFICES ASSUME InstanceInv, [PoolStep \/ WakeStep \/ Ended]_instanceVars
               PROVE  InstanceInv'
    OBVIOUS
  <2>1. [Next]_vars /\ (Wk!Next \/ UNCHANGED wakeVars)
    BY DEF PoolStep, WakeStep, Ended, instanceVars
  <2>2. PoolInv'
    BY <2>1, PoolStepInv DEF InstanceInv
  <2>3. WakeInv'
    BY <2>1, WakeStepInv DEF InstanceInv
  <2> QED
    BY <2>2, <2>3 DEF InstanceInv
<1> QED
  BY <1>1, <1>2, PTL DEF InstanceSpec

\* The pool and those who feed it mislay no claim: from ClaimNextJob to the end
\* of Run it is in one place, and it is given up unsettled only when the
\* reconciler's context is cancelled.
THEOREM ClaimsAreKept == InstanceSpec => []NoClaimMislaid
<1>1. InstanceInv => NoClaimMislaid
  BY PoolInvSafe DEF InstanceInv
<1> QED
  BY <1>1, InstanceInvariant, PTL

\* Pool.Stop that returns nil without a signal has seen every accepted job to
\* its end.
THEOREM DrainsAreComplete == InstanceSpec => []DrainIsComplete
<1>1. InstanceInv => DrainIsComplete
  BY PoolInvSafe DEF InstanceInv
<1> QED
  BY <1>1, InstanceInvariant, PTL

\* ClaimJob takes the Waker's channel before it looks, and the reconciler's wake
\* token outlives its pass: neither sleeps through a notification.
THEOREM WakeupsAreSeen == InstanceSpec => []NobodySleepsThrough
<1>1. InstanceInv => NobodySleepsThrough
  BY DEF InstanceInv, WakeInv, LookedIsTold, NobodySleepsThrough,
         Wk!NoClaimSleepsThrough, Wk!ReconcilerNotAsleep
<1> QED
  BY <1>1, InstanceInvariant, PTL

\* run stops the reconciler before Pool.Stop closes the channel: the send that
\* panics is never SubmitBlocking's.
THEOREM ReconcilerNeverPanics == Spec => ReconcilerStopsFirst
<1>1. Init => PoolInv
  BY PoolInitial
<1>2. PoolInv /\ [Next]_vars => PoolInv'
  BY PoolStepInv
<1>3. PoolInv /\ [Next]_vars => [panicked' # panicked => rec' = rec]_vars
  <2> SUFFICES ASSUME PoolInv, Next, panicked' # panicked PROVE rec' = rec
    BY DEF vars
  <2>1. ~SubmitBlocking
    BY SubmitBlockingStep
  <2>2. Submit
    BY <2>1 DEF Next, ClaimNextJob, Rejected, ReconcilerReturns, Handle, Take, StartRun,
       LoopExits, RunReturns, Signal, ShutDown, StopPool, Drained, DrainTimesOut,
       ReopenSession, ClosePool, Exit
  <2> QED
    BY <2>2 DEF Submit
<1> QED
  BY <1>1, <1>2, <1>3, PTL DEF Spec, ReconcilerStopsFirst

\* What is shown of WorkerPool and of Wakeups holds of the instance: its steps are
\* theirs.
THEOREM InstanceImplements == InstanceSpec => Spec /\ Wk!Spec
<1>1. InstanceInit => Init /\ Wk!Init
  BY DEF InstanceInit
<1>2. [PoolStep \/ WakeStep \/ Ended]_instanceVars => [Next]_vars /\ [Wk!Next]_(Wk!vars)
  BY DEF PoolStep, WakeStep, Ended, instanceVars, wakeVars, Wk!vars
<1> QED
  BY <1>1, <1>2, PTL DEF InstanceSpec, Spec, Wk!Spec
=============================================================================
