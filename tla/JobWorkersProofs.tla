-------------------------- MODULE JobWorkersProofs --------------------------
(***************************************************************************)
(* Proofs about JobWorkers, for every set of jobs, slots, remote workers   *)
(* and tokens and every retry budget.                                      *)
(***************************************************************************)
EXTENDS JobWorkers, FiniteSetTheorems, TLAPS

\* Steps without arithmetic are left to Zenon; the others name their prover.
USE Zenon

\* A busy worker's copy of a claim names a job and a token; an idle one's
\* names neither.
ClaimsNamed ==
  \A w \in Workers :
    IF Busy(w) THEN holder[w].job \in Jobs /\ holder[w].token \in Tokens
               ELSE holder[w] = Idle

\* No two workers hold the same token: it was fresh when it was drawn.
TokensDistinct ==
  \A v, w \in Workers :
    Busy(v) /\ Busy(w) /\ holder[v].token = holder[w].token => v = w

\* FAILED is never written.
FailedUnused == \A j \in Jobs : job[j].state # "FAILED"

\* The types of the rows, of the claims and of the history.
RowsOK ==
  /\ job \in [Jobs -> Row]
  /\ holder \in [Workers -> Claim]
  /\ started \in [Jobs -> Nat]

IInv ==
  /\ RowsOK
  /\ FailedUnused
  /\ LeaseColumns
  /\ AttemptBudget
  /\ ClaimsNamed
  /\ TokensDistinct
  /\ FailDecisionCurrent

-----------------------------------------------------------------------------
(* Every statement of the store maps a row to a row.                       *)

\* Each statement of store.go turns a row into a row.
LEMMA RowTypes ==
  ASSUME NEW r \in Row
  PROVE  /\ Unsubmitted \in Row
         /\ Deleted \in Row
         /\ \A s \in {"due", "future"} : CreateJob(s) \in Row
         /\ \A t \in Tokens : ClaimNextJob(r, t) \in Row
         /\ RenewLease(r) \in Row
         /\ CancelJob(r) \in Row
         /\ \A max \in Nat : RequeueExpiredRunning(r, max) \in Row
         /\ RequeueDeadJob(r) \in Row
         /\ ReleaseClaim(r) \in Row
         /\ CompleteClaimedJob(r) \in Row
         /\ \A retry \in BOOLEAN : FailClaimedJob(r, retry) \in Row
<1>1. WithoutLease(r) \in Row
  BY DEF Row, WithoutLease
<1>2. Unsubmitted \in Row /\ Deleted \in Row
  BY DEF Unsubmitted, Deleted, Blank, Row, States
<1>3. \A s \in {"due", "future"} : CreateJob(s) \in Row
  BY DEF CreateJob, Blank, Row, States
<1>4. ASSUME NEW t \in Tokens PROVE ClaimNextJob(r, t) \in Row
  <2>1. r.attempt + 1 \in Nat
    BY SMT DEF Row
  <2> QED
    BY <2>1 DEF ClaimNextJob, Row, States
<1>5. RenewLease(r) \in Row
  BY DEF RenewLease, Row
<1>6. CancelJob(r) \in Row /\ CompleteClaimedJob(r) \in Row
  BY <1>1 DEF CancelJob, CompleteClaimedJob, Row, States
<1>7. \A max \in Nat : RequeueExpiredRunning(r, max) \in Row
  BY <1>1 DEF RequeueExpiredRunning, Row, States
<1>8. RequeueDeadJob(r) \in Row /\ ReleaseClaim(r) \in Row
  <2>1. RequeueDeadJob(r) \in Row
    BY <1>1 DEF RequeueDeadJob, Row, States
  <2>2. (IF WithoutLease(r).attempt > 0 THEN WithoutLease(r).attempt - 1 ELSE 0) \in Nat
    BY <1>1, SMT DEF Row
  <2>3. ReleaseClaim(r) \in Row
    BY <1>1, <2>2 DEF ReleaseClaim, Row, States
  <2> QED
    BY <2>1, <2>3
<1>9. \A retry \in BOOLEAN : FailClaimedJob(r, retry) \in Row
  BY <1>1 DEF FailClaimedJob, Row, States
<1> QED
  BY <1>2, <1>3, <1>4, <1>5, <1>6, <1>7, <1>8, <1>9

\* The empty table and idle workers satisfy the invariant.
LEMMA InitInv == Init => IInv
<1> SUFFICES ASSUME Init PROVE IInv
  OBVIOUS
<1> USE DEF Init
<1>1. RowsOK
  BY StoreAssumption, WorkersAssumption
  DEF RowsOK, Row, Unsubmitted, Blank, States, Claim, Idle
<1>2. LeaseColumns /\ AttemptBudget
  BY StoreAssumption, SMT
  DEF LeaseColumns, AttemptBudget, Unsubmitted, Blank, Finished
<1>f. FailedUnused
  BY DEF FailedUnused, Unsubmitted, Blank
<1>3. ClaimsNamed /\ TokensDistinct /\ FailDecisionCurrent
  BY DEF ClaimsNamed, TokensDistinct, FailDecisionCurrent, Busy, Idle
<1> QED
  BY <1>1, <1>2, <1>3, <1>f DEF IInv

-----------------------------------------------------------------------------
(* Every step but a claim rewrites at most one row, to a row that keeps    *)
(* the token only together with the attempt, and gives no worker a claim   *)
(* it did not have.                                                        *)

GoodRow(j, r, n) ==
  /\ n \in Row /\ n.state # "FAILED"
  /\ (n.state = "RUNNING") <=> (n.token # NoToken)
  /\ (n.state = "RUNNING") <=> (n.lease # "none")
  /\ Finished(n) <=> (n.done # "none")
  /\ n.attempt <= MaxRetries[j]
  /\ n.state = "PENDING" => n.attempt < MaxRetries[j]
  /\ n.state = "RUNNING" => n.attempt > 0
  /\ n.token = NoToken \/ (n.token = r.token /\ n.attempt = r.attempt)

\* c is what a worker holding b may hold next; a retry decision is one it had
\* already or one the row allows.
GoodClaim(b, c) ==
  /\ c \in Claim
  /\ \/ c = Idle
     \/ /\ b.pc # "idle" /\ c.pc # "idle"
        /\ c.job = b.job /\ c.token = b.token
        /\ c.pc = "failing" /\ c.retry =>
             \/ b.pc = "failing" /\ b.retry
             \/ job[b.job].attempt < MaxRetries[b.job]

\* A row that is left alone is good.
LEMMA KeepRow ==
  ASSUME IInv, NEW j \in Jobs
  PROVE  GoodRow(j, job[j], job[j])
BY DEF IInv, RowsOK, FailedUnused, LeaseColumns, AttemptBudget, GoodRow

\* A claim that is left alone is good.
LEMMA KeepClaim ==
  ASSUME IInv, NEW w \in Workers
  PROVE  GoodClaim(holder[w], holder[w])
BY DEF IInv, RowsOK, ClaimsNamed, Busy, GoodClaim

\* A step that makes good rows and good claims preserves the invariant.
LEMMA Step ==
  ASSUME IInv, NEW j \in Jobs, NEW n,
         GoodRow(j, job[j], n),
         job' = [job EXCEPT ![j] = n],
         holder' = [w \in Workers |-> holder'[w]],
         \A w \in Workers : GoodClaim(holder[w], holder'[w]),
         started' \in [Jobs -> Nat]
  PROVE  IInv'
<1> USE DEF IInv
<1>1. RowsOK'
  BY DEF RowsOK, GoodRow, GoodClaim
<1>2. FailedUnused' /\ LeaseColumns' /\ AttemptBudget'
  BY DEF FailedUnused, LeaseColumns, AttemptBudget, GoodRow, RowsOK
<1>3. ASSUME NEW w \in Workers, Busy(w)'
      PROVE  /\ Busy(w)
             /\ holder'[w].job = holder[w].job
             /\ holder'[w].token = holder[w].token
  BY <1>3, SMT DEF GoodClaim, Busy, Idle
<1>4. ClaimsNamed'
  BY <1>3 DEF ClaimsNamed, Busy, GoodClaim, Idle
<1>5. TokensDistinct'
  BY <1>3 DEF TokensDistinct
<1>6. FailDecisionCurrent'
  <2> SUFFICES ASSUME NEW w \in Workers,
                      (holder[w].pc = "failing" /\ Owns(w) /\ holder[w].retry)'
               PROVE  (job[holder[w].job].attempt < MaxRetries[holder[w].job])'
    BY DEF FailDecisionCurrent
  <2> DEFINE k == holder[w].job
  <2>1. Busy(w) /\ holder'[w].job = k /\ holder'[w].token = holder[w].token
    BY <1>3 DEF Busy
  <2>2. k \in Jobs /\ holder[w].token \in Tokens
    BY <2>1 DEF ClaimsNamed
  <2>3. job'[k].token = holder[w].token
    BY <2>1 DEF Owns
  <2>4. job[k].token = holder[w].token /\ job'[k].attempt = job[k].attempt
    BY <2>2, <2>3, StoreAssumption DEF GoodRow, RowsOK
  <2>5. \/ holder[w].pc = "failing" /\ holder[w].retry
        \/ job[k].attempt < MaxRetries[k]
    BY SMT DEF GoodClaim, Idle
  <2>6. job[k].attempt < MaxRetries[k]
    BY <2>1, <2>4, <2>5 DEF FailDecisionCurrent, Owns
  <2> QED
    BY <2>1, <2>4, <2>6
<1> QED
  BY <1>1, <1>2, <1>4, <1>5, <1>6

\* The same with the claims left alone.
LEMMA StoreOnlyStep ==
  ASSUME IInv, NEW j \in Jobs, NEW n,
         GoodRow(j, job[j], n),
         job' = [job EXCEPT ![j] = n],
         UNCHANGED <<holder, started>>
  PROVE  IInv'
<1>1. holder' = [w \in Workers |-> holder'[w]] /\ started' \in [Jobs -> Nat]
  BY DEF IInv, RowsOK
<1>2. \A w \in Workers : GoodClaim(holder[w], holder'[w])
  BY KeepClaim
<1> QED
  BY <1>1, <1>2, Step

\* The same with one worker's claim changed too.
LEMMA WorkerOnlyStep ==
  ASSUME IInv, NEW w \in Workers, NEW c, NEW j \in Jobs, NEW n,
         GoodRow(j, job[j], n),
         job' = [job EXCEPT ![j] = n],
         GoodClaim(holder[w], c),
         holder' = [holder EXCEPT ![w] = c],
         started' \in [Jobs -> Nat]
  PROVE  IInv'
<1>1. holder' = [v \in Workers |-> holder'[v]]
  BY DEF IInv, RowsOK
<1>2. \A v \in Workers : GoodClaim(holder[v], holder'[v])
  BY KeepClaim DEF IInv, RowsOK
<1> QED
  BY <1>1, <1>2, Step

-----------------------------------------------------------------------------
(* The rows the statements write are good ones.                            *)

\* n ends a claim on r: it has no lease and the given state, attempt and
\* completed_at.
Ends(n, state, attempt, done) ==
  /\ n.lease = "none" /\ n.token = NoToken
  /\ n.state = state /\ n.attempt = attempt /\ n.done = done

\* The columns each statement that ends a claim writes.
LEMMA StatementFields ==
  ASSUME NEW r \in Row
  PROVE  /\ Ends(CancelJob(r), "DEAD", r.attempt, "recent")
         /\ Ends(RequeueDeadJob(r), "PENDING", 0, "none")
         /\ Ends(ReleaseClaim(r), "PENDING",
                 IF r.attempt > 0 THEN r.attempt - 1 ELSE 0, r.done)
         /\ Ends(CompleteClaimedJob(r), "COMPLETED", r.attempt, "recent")
         /\ Ends(FailClaimedJob(r, TRUE), "PENDING", r.attempt, r.done)
         /\ Ends(FailClaimedJob(r, FALSE), "DEAD", r.attempt, "recent")
         /\ \A max \in Nat :
              IF Exhausted(r, max)
              THEN Ends(RequeueExpiredRunning(r, max), "DEAD", r.attempt, "recent")
              ELSE Ends(RequeueExpiredRunning(r, max), "PENDING", r.attempt, r.done)
<1>1. /\ WithoutLease(r) \in Row
      /\ WithoutLease(r).lease = "none" /\ WithoutLease(r).token = NoToken
      /\ WithoutLease(r).attempt = r.attempt /\ WithoutLease(r).done = r.done
  BY DEF WithoutLease, Row
<1>2. Ends(CancelJob(r), "DEAD", r.attempt, "recent")
  BY <1>1 DEF CancelJob, Row, Ends
<1>3. Ends(RequeueDeadJob(r), "PENDING", 0, "none")
  BY <1>1 DEF RequeueDeadJob, Row, Ends
<1>4. Ends(ReleaseClaim(r), "PENDING",
           IF r.attempt > 0 THEN r.attempt - 1 ELSE 0, r.done)
  BY <1>1 DEF ReleaseClaim, Row, Ends
<1>5. Ends(CompleteClaimedJob(r), "COMPLETED", r.attempt, "recent")
  BY <1>1 DEF CompleteClaimedJob, Row, Ends
<1>6. /\ Ends(FailClaimedJob(r, TRUE), "PENDING", r.attempt, r.done)
      /\ Ends(FailClaimedJob(r, FALSE), "DEAD", r.attempt, "recent")
  BY <1>1 DEF FailClaimedJob, Row, Ends
<1>7. ASSUME NEW max \in Nat
      PROVE  IF Exhausted(r, max)
             THEN Ends(RequeueExpiredRunning(r, max), "DEAD", r.attempt, "recent")
             ELSE Ends(RequeueExpiredRunning(r, max), "PENDING", r.attempt, r.done)
  BY <1>1 DEF RequeueExpiredRunning, Row, Ends
<1> QED
  BY <1>2, <1>3, <1>4, <1>5, <1>6, <1>7

\* A row whose claim has ended within the budget is good.
LEMMA EndsGood ==
  ASSUME NEW j \in Jobs, NEW r, NEW n \in Row, NEW st, NEW a \in 0..MaxRetries[j],
         NEW d, Ends(n, st, a, d),
         \/ st \in {"COMPLETED", "DEAD"} /\ d = "recent"
         \/ st = "PENDING" /\ d = "none" /\ a < MaxRetries[j]
  PROVE  GoodRow(j, r, n)
BY StoreAssumption, SMT DEF Ends, GoodRow, Finished

\* Each statement makes a good row of a row its WHERE clause selects.
LEMMA GoodStatements ==
  ASSUME IInv, NEW j \in Jobs
  PROVE  /\ Cancellable(job[j]) => GoodRow(j, job[j], CancelJob(job[j]))
         /\ Requeueable(job[j]) => GoodRow(j, job[j], RequeueDeadJob(job[j]))
         /\ Expired(job[j]) =>
              GoodRow(j, job[j], RequeueExpiredRunning(job[j], MaxRetries[j]))
         /\ GoodRow(j, job[j], Deleted)
         /\ \A s \in {"due", "future"} : GoodRow(j, job[j], CreateJob(s))
         /\ job[j].state = "RUNNING" =>
              /\ GoodRow(j, job[j], RenewLease(job[j]))
              /\ GoodRow(j, job[j], ReleaseClaim(job[j]))
              /\ GoodRow(j, job[j], CompleteClaimedJob(job[j]))
              /\ GoodRow(j, job[j], FailClaimedJob(job[j], FALSE))
              /\ job[j].attempt < MaxRetries[j] =>
                   GoodRow(j, job[j], FailClaimedJob(job[j], TRUE))
<1> DEFINE r == job[j]
           max == MaxRetries[j]
<1>1. r \in Row /\ max \in Nat /\ 0 < max /\ r.attempt \in Nat
  BY StoreAssumption, SMT DEF IInv, RowsOK, Row
<1>2. r.attempt <= max
  BY DEF IInv, AttemptBudget
<1>3. GoodRow(j, r, r)
  BY KeepRow
<1>r. r.state = "RUNNING" => r.attempt > 0 /\ r.done = "none"
  BY <1>3 DEF GoodRow, Finished
<1>4. GoodRow(j, r, Deleted)
  BY <1>1, RowTypes, SMT DEF Deleted, Blank, GoodRow, Finished
<1>5. \A s \in {"due", "future"} : GoodRow(j, r, CreateJob(s))
  BY <1>1, RowTypes, SMT DEF CreateJob, Blank, GoodRow, Finished
<1>6. r.state = "RUNNING" => GoodRow(j, r, RenewLease(r))
  BY <1>1, <1>3, RowTypes, SMT DEF RenewLease, GoodRow, Row, Finished
<1> HIDE DEF r
<1>7. /\ Cancellable(r) => GoodRow(j, r, CancelJob(r))
      /\ Requeueable(r) => GoodRow(j, r, RequeueDeadJob(r))
  <2>1. r.attempt \in 0..max /\ 0 \in 0..max
    BY <1>1, <1>2, SMT
  <2>2. CancelJob(r) \in Row /\ RequeueDeadJob(r) \in Row
    BY <1>1, RowTypes
  <2>3. /\ Ends(CancelJob(r), "DEAD", r.attempt, "recent")
        /\ Ends(RequeueDeadJob(r), "PENDING", 0, "none")
    BY <1>1, StatementFields
  <2> QED
    BY <2>1, <2>2, <2>3, <1>1, EndsGood
<1>8. Expired(r) => GoodRow(j, r, RequeueExpiredRunning(r, max))
  <2> SUFFICES ASSUME Expired(r) PROVE GoodRow(j, r, RequeueExpiredRunning(r, max))
    OBVIOUS
  <2>1. RequeueExpiredRunning(r, max) \in Row /\ r.attempt \in 0..max
    BY <1>1, <1>2, RowTypes, SMT
  <2>2. CASE Exhausted(r, max)
    <3>1. Ends(RequeueExpiredRunning(r, max), "DEAD", r.attempt, "recent")
      BY <1>1, <2>2, StatementFields
    <3> QED
      BY <2>1, <3>1, EndsGood
  <2>3. CASE ~Exhausted(r, max)
    <3>1. Ends(RequeueExpiredRunning(r, max), "PENDING", r.attempt, "none")
      BY <1>1, <1>r, <2>3, StatementFields DEF Expired
    <3>2. r.attempt < max
      BY <1>1, <2>3, SMT DEF Exhausted
    <3> QED
      BY <2>1, <3>1, <3>2, EndsGood
  <2> QED
    BY <2>2, <2>3
<1>9. ASSUME r.state = "RUNNING"
      PROVE  /\ GoodRow(j, r, ReleaseClaim(r))
             /\ GoodRow(j, r, CompleteClaimedJob(r))
             /\ GoodRow(j, r, FailClaimedJob(r, FALSE))
             /\ r.attempt < max => GoodRow(j, r, FailClaimedJob(r, TRUE))
  <2>1. r.attempt \in 0..max /\ r.attempt - 1 \in 0..max /\ r.attempt - 1 < max
    BY <1>1, <1>2, <1>r, <1>9, SMT
  <2>2. /\ ReleaseClaim(r) \in Row /\ CompleteClaimedJob(r) \in Row
        /\ FailClaimedJob(r, FALSE) \in Row /\ FailClaimedJob(r, TRUE) \in Row
    BY <1>1, RowTypes
  <2>3. /\ Ends(ReleaseClaim(r), "PENDING", r.attempt - 1, "none")
        /\ Ends(CompleteClaimedJob(r), "COMPLETED", r.attempt, "recent")
        /\ Ends(FailClaimedJob(r, TRUE), "PENDING", r.attempt, "none")
        /\ Ends(FailClaimedJob(r, FALSE), "DEAD", r.attempt, "recent")
    BY <1>1, <1>r, <1>9, StatementFields
  <2> QED
    BY <2>1, <2>2, <2>3, EndsGood
<1> QED
  BY <1>4, <1>5, <1>6, <1>7, <1>8, <1>9 DEF r

-----------------------------------------------------------------------------
(* A claim: the token is fresh, so nobody owned the row by it before.      *)

\* A claim that takes a PENDING row with a fresh token, and leaves it RUNNING
\* with an attempt of its budget, preserves the invariant.
LEMMA NewClaimPreserves ==
  ASSUME IInv, NEW w \in Workers, NEW j \in Jobs, NEW t \in Tokens,
         NEW n \in Row, NEW c \in Claim,
         job[j].state = "PENDING", Fresh(t), ~Busy(w),
         n.state = "RUNNING", n.lease = "live", n.token = t, n.done = "none",
         n.attempt > 0, n.attempt <= MaxRetries[j],
         c.pc \in {"queued", "running"}, c.job = j, c.token = t,
         job' = [job EXCEPT ![j] = n],
         holder' = [holder EXCEPT ![w] = c],
         started' \in [Jobs -> Nat]
  PROVE  IInv'
<1> USE DEF IInv
<1>1. RowsOK'
  BY DEF RowsOK
<1>2. FailedUnused' /\ LeaseColumns'
  BY StoreAssumption DEF FailedUnused, LeaseColumns, RowsOK, Finished
<1>3. AttemptBudget'
  BY DEF AttemptBudget, RowsOK
<1>4. ClaimsNamed'
  BY DEF ClaimsNamed, RowsOK, Busy
<1>5. TokensDistinct'
  BY DEF TokensDistinct, RowsOK, Busy, Fresh
<1>6. FailDecisionCurrent'
  <2> SUFFICES ASSUME NEW v \in Workers,
                      (holder[v].pc = "failing" /\ Owns(v) /\ holder[v].retry)'
               PROVE  (job[holder[v].job].attempt < MaxRetries[holder[v].job])'
    BY DEF FailDecisionCurrent
  <2>1. v # w
    BY DEF RowsOK
  <2>2. holder'[v] = holder[v] /\ Busy(v) /\ holder[v].job \in Jobs
    BY <2>1 DEF RowsOK, Busy, ClaimsNamed
  <2>3. holder[v].job # j
    BY <2>2 DEF Owns, RowsOK, Fresh
  <2> QED
    BY <2>2, <2>3 DEF FailDecisionCurrent, Owns, RowsOK
<1> QED
  BY <1>1, <1>2, <1>3, <1>4, <1>5, <1>6

\* ClaimNextJob, for the reconciler or a remote worker, preserves the
\* invariant: its token is fresh.
LEMMA ClaimPreserves ==
  ASSUME IInv, NEW w \in Workers, NEW j \in Jobs, NEW t \in Tokens,
         NEW pc \in {"queued", "running"}, NEW renewing \in BOOLEAN,
         ClaimInto(w, j, t, pc, renewing), started' \in [Jobs -> Nat]
  PROVE  IInv'
<1> DEFINE n == ClaimNextJob(job[j], t)
           c == [Idle EXCEPT !.pc = pc, !.job = j, !.token = t, !.renewing = renewing]
<1>1. /\ job[j].state = "PENDING" /\ Fresh(t) /\ ~Busy(w)
      /\ job' = [job EXCEPT ![j] = n] /\ holder' = [holder EXCEPT ![w] = c]
  BY DEF ClaimInto, Claimable
<1>2. job[j] \in Row /\ n \in Row
  BY RowTypes DEF IInv, RowsOK
<1>3. /\ n.state = "RUNNING" /\ n.attempt = job[j].attempt + 1
      /\ n.lease = "live" /\ n.token = t /\ n.done = job[j].done
  BY <1>2 DEF ClaimNextJob, Row
<1>4. c \in Claim /\ c.pc = pc /\ c.job = j /\ c.token = t
  BY StoreAssumption DEF Claim, Idle
<1>5. job[j].done = "none"
  BY <1>1 DEF IInv, LeaseColumns, Finished
<1>6. job[j].attempt \in Nat /\ MaxRetries[j] \in Nat /\ job[j].attempt < MaxRetries[j]
  BY <1>1, <1>2, StoreAssumption DEF IInv, AttemptBudget, Row
<1> HIDE DEF n, c
<1>7. n.attempt > 0 /\ n.attempt <= MaxRetries[j]
  BY <1>3, <1>6, SMT
<1> QED
  BY <1>1, <1>2, <1>3, <1>4, <1>5, <1>7, NewClaimPreserves

\* A step that only the sweeps notice.
LEMMA SameRows == ASSUME IInv, UNCHANGED <<job, holder, started>> PROVE IInv'
BY DEF IInv, RowsOK, FailedUnused, LeaseColumns, AttemptBudget, ClaimsNamed, TokensDistinct,
       FailDecisionCurrent, Busy, Owns

-----------------------------------------------------------------------------
\* Every step of clients, reconciler, workers and time preserves the invariant.
LEMMA NextInv == IInv /\ [Next]_vars => IInv'
<1> SUFFICES ASSUME IInv, [Next]_vars PROVE IInv'
  OBVIOUS
<1>t. job \in [Jobs -> Row] /\ holder \in [Workers -> Claim] /\ started \in [Jobs -> Nat]
  BY DEF IInv, RowsOK
<1>1. ASSUME NEW j \in Jobs, ClientStep(j) PROVE IInv'
  <2>1. ASSUME NEW s \in {"due", "future"}, Enqueue(j, s) PROVE IInv'
    BY <2>1, GoodStatements, StoreOnlyStep DEF Enqueue
  <2>2. CASE Cancel(j)
    BY <2>2, GoodStatements, StoreOnlyStep DEF Cancel
  <2>3. CASE RequeueJob(j)
    <3>1. /\ GoodRow(j, job[j], RequeueDeadJob(job[j]))
          /\ job' = [job EXCEPT ![j] = RequeueDeadJob(job[j])]
      BY <2>3, GoodStatements DEF RequeueJob
    <3>2. holder' = [w \in Workers |-> holder'[w]]
      BY <2>3 DEF RequeueJob
    <3>3. ASSUME NEW w \in Workers PROVE GoodClaim(holder[w], holder'[w])
      <4>1. CASE holder[w].job = j
        <5>1. holder[w].pc # "idle" /\ holder[w] \in Claim
          BY <1>t, <4>1, WorkersAssumption, SMT DEF IInv, ClaimsNamed, Busy, Idle
        <5>2. holder'[w] = [holder[w] EXCEPT !.earlier = TRUE]
          BY <2>3, <4>1 DEF RequeueJob
        <5> QED
          BY <5>1, <5>2 DEF GoodClaim, Claim
      <4>2. CASE holder[w].job # j
        BY <2>3, <4>2, KeepClaim DEF RequeueJob
      <4> QED
        BY <4>1, <4>2
    <3>4. started' \in [Jobs -> Nat]
      BY <1>t, <2>3 DEF RequeueJob
    <3> QED
      BY <3>1, <3>2, <3>3, <3>4, Step
  <2> QED
    BY <1>1, <2>1, <2>2, <2>3 DEF ClientStep
<1>2. ASSUME NEW j \in Jobs, StoreStep(j) PROVE IInv'
  <2>1. CASE Reap(j)
    BY <2>1, GoodStatements, StoreOnlyStep DEF Reap
  <2>2. CASE SweepDeletes(j)
    BY <2>2, GoodStatements, StoreOnlyStep DEF SweepDeletes
  <2>3. CASE SweepPicks(j) \/ SweepFails(j)
    BY <2>3, SameRows DEF SweepPicks, SweepFails
  <2> QED
    BY <1>2, <2>1, <2>2, <2>3 DEF StoreStep
<1>3. ASSUME NEW j \in Jobs, ClaimStep(j) PROVE IInv'
  <2> PICK w \in Workers, t \in Tokens : ReconcilerClaim(w, j, t) \/ RemoteClaim(w, j, t)
    BY <1>3 DEF ClaimStep
  <2>1. CASE ReconcilerClaim(w, j, t)
    BY <1>t, <2>1, ClaimPreserves DEF ReconcilerClaim
  <2>2. CASE RemoteClaim(w, j, t)
    <3>1. ClaimInto(w, j, t, "running", TRUE) /\ started' = [started EXCEPT ![j] = @ + 1]
      BY <2>2 DEF RemoteClaim
    <3>2. started' \in [Jobs -> Nat]
      BY <1>t, <3>1, SMT
    <3> QED
      BY <3>1, <3>2, ClaimPreserves
  <2> QED
    BY <2>1, <2>2
<1>4. ASSUME NEW j \in Jobs, TimeStep(j) PROVE IInv'
  <2>0. GoodRow(j, job[j], job[j]) /\ job[j] \in Row
    BY <1>t, KeepRow
  <2>1. CASE LeaseExpires(j)
    <3>1. GoodRow(j, job[j], [job[j] EXCEPT !.lease = "expired"])
      BY <2>0, <2>1 DEF LeaseExpires, GoodRow, Row, Finished
    <3> QED
      BY <2>1, <3>1, StoreOnlyStep DEF LeaseExpires
  <2>2. CASE BecomesDue(j)
    <3>1. GoodRow(j, job[j], [job[j] EXCEPT !.sched = "due"])
      BY <2>0, <2>2 DEF BecomesDue, GoodRow, Row, Finished
    <3> QED
      BY <2>2, <3>1, StoreOnlyStep DEF BecomesDue
  <2>3. CASE Ages(j)
    <3>1. GoodRow(j, job[j], [job[j] EXCEPT !.done = "old"])
      BY <2>0, <2>3 DEF Ages, GoodRow, Row, Finished
    <3> QED
      BY <2>3, <3>1, StoreOnlyStep DEF Ages
  <2> QED
    BY <1>4, <2>1, <2>2, <2>3 DEF TimeStep
<1>5. ASSUME NEW w \in Workers, WorkerStep(w) PROVE IInv'
  <2> DEFINE j == holder[w].job
             r == job[j]
  <2>0. ASSUME Busy(w)
        PROVE  /\ j \in Jobs /\ holder[w].token \in Tokens /\ holder[w].pc # "idle"
               /\ holder[w] \in Claim /\ r \in Row
               /\ GoodRow(j, r, r) /\ job = [job EXCEPT ![j] = r]
               /\ GoodClaim(holder[w], Idle)
    BY <1>t, <2>0, KeepRow, StoreAssumption
    DEF IInv, ClaimsNamed, Busy, GoodClaim, Idle, Claim
  <2>1. CASE Refuse(w)
    <3>1. Busy(w)
      BY <2>1 DEF Refuse, Busy
    <3>2. PICK n : GoodRow(j, r, n) /\ job' = [job EXCEPT ![j] = n]
      BY <2>0, <2>1, <3>1, GoodStatements DEF Refuse, Fenced
    <3> QED
      BY <1>t, <2>0, <2>1, <3>1, <3>2, WorkerOnlyStep DEF Refuse, Drop
  <2>2. CASE Execute(w)
    <3>1. Busy(w)
      BY <2>2 DEF Execute, Busy
    <3> DEFINE c == [holder[w] EXCEPT !.pc = "running", !.renewing = TRUE]
    <3>2. GoodClaim(holder[w], c)
      BY <2>0, <3>1 DEF GoodClaim, Claim
    <3>3. holder' = [holder EXCEPT ![w] = c]
      BY <1>t, <2>2 DEF Execute
    <3>4. started' \in [Jobs -> Nat]
      <4>1. started[j] + 1 \in Nat
        BY <1>t, <2>0, <3>1, SMT
      <4> QED
        BY <1>t, <2>2, <4>1 DEF Execute, CountStart
    <3> QED
      BY <2>0, <2>2, <3>1, <3>2, <3>3, <3>4, WorkerOnlyStep DEF Execute
  <2>3. ASSUME NEW c \in Claim, Busy(w), UNCHANGED <<job, started>>,
               holder' = [holder EXCEPT ![w] = c],
               c.pc = holder[w].pc, c.job = j, c.token = holder[w].token,
               c.retry = holder[w].retry
        PROVE  IInv'
    <3>1. GoodClaim(holder[w], c)
      BY <2>0, <2>3 DEF GoodClaim
    <3> QED
      BY <1>t, <2>0, <2>3, <3>1, WorkerOnlyStep
  <2>4. ASSUME holder[w].pc \in {"running", "failing"},
               holder' = [holder EXCEPT ![w].renewing = FALSE],
               UNCHANGED <<job, started>>
        PROVE  IInv'
    <3> DEFINE c == [holder[w] EXCEPT !.renewing = FALSE]
    <3>1. Busy(w)
      BY <2>4 DEF Busy
    <3>2. /\ c \in Claim /\ c.pc = holder[w].pc /\ c.job = j
          /\ c.token = holder[w].token /\ c.retry = holder[w].retry
      BY <2>0, <3>1 DEF Claim
    <3>3. holder' = [holder EXCEPT ![w] = c]
      BY <1>t, <2>4
    <3> QED
      BY <2>3, <2>4, <3>1, <3>2, <3>3
  <2>5. CASE Renew(w)
    <3>1. Busy(w)
      BY <2>5 DEF Renew, Busy
    <3>2. CASE Fenced(r, holder[w].token)
      BY <2>0, <2>5, <3>1, <3>2, GoodStatements, StoreOnlyStep DEF Renew, Fenced
    <3>3. CASE ~Fenced(r, holder[w].token)
      BY <2>4, <2>5, <3>3 DEF Renew
    <3> QED
      BY <3>2, <3>3
  <2>6. CASE RenewalStops(w)
    BY <2>4, <2>6 DEF RenewalStops
  <2>7. CASE Crash(w)
    BY <1>t, <2>0, <2>7, WorkerOnlyStep DEF Crash, Drop
  <2>8. ASSUME NEW answered \in BOOLEAN, Busy(w), Reported(w, answered),
               NEW n, GoodRow(j, r, n), job' = [job EXCEPT ![j] = n], UNCHANGED started
        PROVE  IInv'
    <3> DEFINE c == IF answered THEN Idle
                    ELSE [holder[w] EXCEPT !.pc = "unsure", !.renewing = FALSE]
    <3>1. GoodClaim(holder[w], c)
      BY <2>0, <2>8 DEF GoodClaim, Claim
    <3>2. holder' = [holder EXCEPT ![w] = c]
      BY <1>t, <2>8 DEF Reported, Drop
    <3> QED
      BY <1>t, <2>0, <2>8, <3>1, <3>2, WorkerOnlyStep
  <2>9. ASSUME NEW answered \in BOOLEAN, Complete(w, answered) PROVE IInv'
    <3>1. Busy(w)
      BY <2>9 DEF Complete, Busy
    <3>2. PICK n : GoodRow(j, r, n) /\ job' = [job EXCEPT ![j] = n]
      BY <2>0, <2>9, <3>1, GoodStatements DEF Complete, Fenced
    <3> QED
      BY <2>8, <2>9, <3>1, <3>2 DEF Complete
  <2>10. ASSUME NEW answered \in BOOLEAN, FailWrite(w, answered) PROVE IInv'
    <3>1. Busy(w) /\ holder[w].pc = "failing" /\ holder[w].retry \in BOOLEAN
      BY <1>t, <2>10 DEF FailWrite, Busy, Claim
    <3>2. ASSUME Fenced(r, holder[w].token)
          PROVE  GoodRow(j, r, FailClaimedJob(r, holder[w].retry))
      <4>1. holder[w].retry => r.attempt < MaxRetries[j]
        BY <3>1, <3>2 DEF IInv, FailDecisionCurrent, Fenced, Owns
      <4> QED
        BY <2>0, <3>1, <3>2, <4>1, GoodStatements DEF Fenced
    <3>3. PICK n : GoodRow(j, r, n) /\ job' = [job EXCEPT ![j] = n]
      BY <2>0, <2>10, <3>1, <3>2 DEF FailWrite
    <3> QED
      BY <2>8, <2>10, <3>1, <3>3 DEF FailWrite
  <2>11. ASSUME NEW permanent \in BOOLEAN, FailRead(w, permanent) PROVE IInv'
    <3>1. Busy(w)
      BY <2>11 DEF FailRead, Busy
    <3>2. CASE ~HasRow(r)
      BY <1>t, <2>0, <2>11, <3>1, <3>2, WorkerOnlyStep DEF FailRead, Drop
    <3>3. CASE HasRow(r)
      <4> DEFINE again == ~permanent /\ ShouldRetry(r, MaxRetries[j])
                 c == [holder[w] EXCEPT !.pc = "failing", !.retry = again]
      <4>1. again \in BOOLEAN /\ (again => r.attempt < MaxRetries[j])
        BY DEF ShouldRetry
      <4>2. holder' = [holder EXCEPT ![w] = c]
        BY <1>t, <2>11, <3>3 DEF FailRead
      <4> HIDE DEF again
      <4>3. GoodClaim(holder[w], c)
        BY <2>0, <3>1, <4>1 DEF GoodClaim, Claim
      <4> QED
        BY <1>t, <2>0, <2>11, <3>1, <4>2, <4>3, WorkerOnlyStep DEF FailRead
    <3> QED
      BY <3>2, <3>3
  <2> QED
    BY <1>5, <2>1, <2>2, <2>5, <2>6, <2>7, <2>9, <2>10, <2>11 DEF WorkerStep
<1>6. CASE UNCHANGED vars
  BY <1>6, SameRows DEF vars
<1> QED
  BY <1>1, <1>2, <1>3, <1>4, <1>5, <1>6 DEF Next

\* The inductive invariant holds in every reachable state of the table and its
\* workers, whatever the interleaving of their statements.
THEOREM Invariance == Spec => []IInv
BY InitInv, NextInv, PTL DEF Spec

\* No worker takes part in a sweep, and neither does any other step but one.
LEMMA WorkersDoNotSweep == ASSUME NEW w \in Workers, WorkerStep(w) PROVE UNCHANGED sweep
BY DEF WorkerStep, Refuse, Execute, Renew, RenewalStops, Crash, Complete, FailWrite, FailRead

LEMMA OnlySweepsSweep ==
  Next => (\E j \in Jobs : StoreStep(j)) \/ UNCHANGED sweep
<1>1. ASSUME NEW j \in Jobs, ClientStep(j) \/ ClaimStep(j) \/ TimeStep(j) PROVE UNCHANGED sweep
  BY <1>1 DEF ClientStep, Enqueue, Cancel, RequeueJob, ClaimStep, ReconcilerClaim,
              RemoteClaim, TimeStep, LeaseExpires, BecomesDue, Ages
<1> QED
  BY <1>1, WorkersDoNotSweep DEF Next

\* Type correctness of the rows, the claims, the history and the sweeps.
THEOREM TypeCorrect == Spec => []TypeOK
<1> DEFINE S == sweep \in SUBSET Jobs
<1>1. Init => S
  BY DEF Init
<1>2. S /\ [Next]_vars => S'
  <2> SUFFICES ASSUME S, [Next]_vars PROVE S'
    OBVIOUS
  <2>1. ASSUME NEW j \in Jobs, StoreStep(j) PROVE S'
    BY <2>1 DEF StoreStep, Reap, SweepPicks, SweepDeletes, SweepFails
  <2>2. CASE UNCHANGED sweep
    BY <2>2
  <2> QED
    BY <2>1, <2>2, OnlySweepsSweep DEF vars
<1>3. IInv /\ S => TypeOK
  BY DEF IInv, RowsOK, TypeOK
<1> QED
  BY <1>1, <1>2, <1>3, Invariance, PTL DEF Spec

\* The lease columns are set exactly while a job is RUNNING and completed_at
\* exactly while it is finished, for any number of jobs and workers.
THEOREM LeaseColumnsHold == Spec => []LeaseColumns
<1>1. IInv => LeaseColumns
  BY DEF IInv
<1> QED
  BY <1>1, Invariance, PTL

\* No interleaving of claims, reaps, releases, failures and requeues exceeds a
\* job's retry budget or leaves a PENDING row without an attempt.
THEOREM AttemptBudgetHolds == Spec => []AttemptBudget
<1>1. IInv => AttemptBudget
  BY DEF IInv
<1> QED
  BY <1>1, Invariance, PTL

\* At most one worker can ever pass the fence of a job's row.
THEOREM OneOwnerHolds == Spec => []OneOwner
<1>1. IInv => OneOwner
  BY DEF IInv, OneOwner, TokensDistinct, Owns
<1> QED
  BY <1>1, Invariance, PTL

\* The attempt Fail read is current whenever its UPDATE takes effect.
THEOREM FailDecisionHolds == Spec => []FailDecisionCurrent
<1>1. IInv => FailDecisionCurrent
  BY DEF IInv
<1> QED
  BY <1>1, Invariance, PTL

-----------------------------------------------------------------------------
(* Fencing.                                                                *)

\* One step of a worker that has lost its claim leaves the row alone.
LEMMA FencingStep == IInv /\ [Next]_vars => [ZombieStepsHarmless]_vars
<1> SUFFICES ASSUME IInv, Next, NEW w \in Workers, Busy(w), ~Owns(w), Acts(w)
             PROVE  job'[holder[w].job] = job[holder[w].job]
  BY DEF ZombieStepsHarmless
<1>t. holder \in [Workers -> Claim]
  BY DEF IInv, RowsOK
<1>0. holder'[w] # holder[w] /\ holder'[w] # [holder[w] EXCEPT !.earlier = TRUE]
  BY DEF Acts
<1>1. ASSUME NEW j \in Jobs, ClientStep(j) PROVE FALSE
  BY <1>0, <1>1 DEF ClientStep, Enqueue, Cancel, RequeueJob
<1>2. ASSUME NEW j \in Jobs, StoreStep(j) \/ TimeStep(j) PROVE FALSE
  BY <1>0, <1>2 DEF StoreStep, TimeStep, Reap, SweepPicks, SweepDeletes, SweepFails,
                     LeaseExpires, BecomesDue, Ages
<1>3. ASSUME NEW j \in Jobs, ClaimStep(j) PROVE FALSE
  <2> PICK v \in Workers, t \in Tokens : ReconcilerClaim(v, j, t) \/ RemoteClaim(v, j, t)
    BY <1>3 DEF ClaimStep
  <2>1. ~Busy(v) /\ \A u \in Workers \ {v} : holder'[u] = holder[u]
    BY <1>t DEF ReconcilerClaim, RemoteClaim, ClaimInto
  <2> QED
    BY <1>0, <2>1
<1>4. ASSUME NEW v \in Workers, WorkerStep(v) PROVE job'[holder[w].job] = job[holder[w].job]
  <2>1. v = w
    <3>1. \A u \in Workers \ {v} : holder'[u] = holder[u]
      BY <1>t, <1>4
      DEF WorkerStep, Refuse, Execute, Renew, RenewalStops, Crash, Complete, FailWrite,
          FailRead, Drop, Reported
    <3> QED
      BY <1>0, <3>1
  <2>2. ~Fenced(job[holder[w].job], holder[w].token)
    BY DEF Owns, Fenced
  <2> QED
    BY <1>4, <2>1, <2>2
    DEF WorkerStep, Refuse, Execute, Renew, RenewalStops, Crash, Complete, FailWrite, FailRead
<1> QED
  BY <1>1, <1>2, <1>3, <1>4 DEF Next

\* A worker that lost its lease can report whatever it likes, however late:
\* no call of its own changes the row.
THEOREM ZombiesFenced == Spec => ZombiesAreFenced
BY FencingStep, Invariance, PTL DEF Spec, ZombiesAreFenced

-----------------------------------------------------------------------------
(* JobWorkers implements JobLifecycle.                                     *)

\* The pairs of rows that the abstract steps allow: what a statement must have
\* done to job j's row to be one of them.
Advances(j, r, n) ==
  \/ r.state = "NEW" /\ n.state = "PENDING" /\ n.attempt = 0
  \/ /\ r.state = "PENDING" /\ r.attempt < MaxRetries[j]
     /\ n.state = "RUNNING" /\ n.attempt = r.attempt + 1
  \/ /\ r.state = "RUNNING" /\ r.attempt > 0
     /\ n.state = "PENDING" /\ n.attempt = r.attempt - 1
  \/ /\ r.state = "RUNNING" /\ r.attempt < MaxRetries[j]
     /\ n.state = "PENDING" /\ n.attempt = r.attempt
  \/ r.state = "RUNNING" /\ n.state = "COMPLETED" /\ n.attempt = r.attempt
  \/ /\ r.state \in {"PENDING", "RUNNING"}
     /\ n.state = "DEAD" /\ n.attempt = r.attempt
  \/ r.state = "DEAD" /\ n.state = "PENDING" /\ n.attempt = 0

\* A row that advances is a step of JobLifecycle.
LEMMA AbstractStep ==
  ASSUME IInv, NEW j \in Jobs, NEW n, job' = [job EXCEPT ![j] = n],
         Advances(j, job[j], n), UNCHANGED sweep
  PROVE  Lifecycle!Next
<1>1. /\ [k \in Jobs |-> job'[k].state]
           = [[k \in Jobs |-> job[k].state] EXCEPT ![j] = n.state]
      /\ [k \in Jobs |-> job'[k].attempt]
           = [[k \in Jobs |-> job[k].attempt] EXCEPT ![j] = n.attempt]
  BY DEF IInv, RowsOK
<1>2. \/ Lifecycle!Submit(j) \/ Lifecycle!Claim(j) \/ Lifecycle!GiveBack(j)
      \/ Lifecycle!Retry(j) \/ Lifecycle!Complete(j) \/ Lifecycle!Die(j)
      \/ Lifecycle!Requeue(j)
  BY <1>1
  DEF Advances, Lifecycle!Move, Lifecycle!Submit, Lifecycle!Claim,
      Lifecycle!GiveBack, Lifecycle!Retry, Lifecycle!Complete, Lifecycle!Die,
      Lifecycle!Requeue
<1> QED
  BY <1>2 DEF Lifecycle!Next

\* A rewritten row with the same state and attempt is a stutter of JobLifecycle.
LEMMA StutterRow ==
  ASSUME IInv, NEW j \in Jobs, NEW n, job' = [job EXCEPT ![j] = n],
         n.state = job[j].state, n.attempt = job[j].attempt, UNCHANGED sweep
  PROVE  UNCHANGED Lifecycle!vars
BY DEF IInv, RowsOK, Lifecycle!vars

\* Every statement of the store advances the row it is guarded for.
LEMMA StatementsAdvance ==
  ASSUME NEW j \in Jobs, NEW r \in Row, r.state # "FAILED",
         r.state = "PENDING" => r.attempt < MaxRetries[j],
         r.state = "RUNNING" => r.attempt > 0
  PROVE  /\ \A s \in {"due", "future"} :
              r.state = "NEW" => Advances(j, r, CreateJob(s))
         /\ Cancellable(r) => Advances(j, r, CancelJob(r))
         /\ Requeueable(r) => Advances(j, r, RequeueDeadJob(r))
         /\ Expired(r) => Advances(j, r, RequeueExpiredRunning(r, MaxRetries[j]))
         /\ \A t \in Tokens : Claimable(r) => Advances(j, r, ClaimNextJob(r, t))
         /\ r.state = "RUNNING" =>
              /\ Advances(j, r, ReleaseClaim(r))
              /\ Advances(j, r, CompleteClaimedJob(r))
              /\ Advances(j, r, FailClaimedJob(r, FALSE))
              /\ r.attempt < MaxRetries[j] => Advances(j, r, FailClaimedJob(r, TRUE))
<1>1. r.attempt \in Nat /\ MaxRetries[j] \in Nat
  BY StoreAssumption DEF Row
<1>2. ASSUME NEW s \in {"due", "future"}, r.state = "NEW"
      PROVE  Advances(j, r, CreateJob(s))
  BY <1>2 DEF CreateJob, Blank, Advances
<1>3. ASSUME Cancellable(r) PROVE Advances(j, r, CancelJob(r))
  <2>1. Ends(CancelJob(r), "DEAD", r.attempt, "recent")
    BY StatementFields
  <2> QED
    BY <1>3, <2>1 DEF Cancellable, Ends, Advances
<1>4. ASSUME Requeueable(r) PROVE Advances(j, r, RequeueDeadJob(r))
  <2>1. Ends(RequeueDeadJob(r), "PENDING", 0, "none")
    BY StatementFields
  <2> QED
    BY <1>4, <2>1 DEF Requeueable, Ends, Advances
<1>5. ASSUME Expired(r)
      PROVE  Advances(j, r, RequeueExpiredRunning(r, MaxRetries[j]))
  <2>1. CASE Exhausted(r, MaxRetries[j])
    <3>1. Ends(RequeueExpiredRunning(r, MaxRetries[j]), "DEAD", r.attempt, "recent")
      BY <1>1, <2>1, StatementFields
    <3> QED
      BY <1>5, <3>1 DEF Expired, Ends, Advances
  <2>2. CASE ~Exhausted(r, MaxRetries[j])
    <3>1. Ends(RequeueExpiredRunning(r, MaxRetries[j]), "PENDING", r.attempt, r.done)
      BY <1>1, <2>2, StatementFields
    <3>2. r.attempt < MaxRetries[j]
      BY <1>1, <2>2, SMT DEF Exhausted
    <3> QED
      BY <1>5, <3>1, <3>2 DEF Expired, Ends, Advances
  <2> QED
    BY <2>1, <2>2
<1>7. ASSUME NEW t \in Tokens, Claimable(r) PROVE Advances(j, r, ClaimNextJob(r, t))
  <2>1. /\ ClaimNextJob(r, t).state = "RUNNING"
        /\ ClaimNextJob(r, t).attempt = r.attempt + 1
    BY DEF ClaimNextJob, Row
  <2> QED
    BY <1>7, <2>1 DEF Claimable, Advances
<1>8. ASSUME r.state = "RUNNING"
      PROVE  /\ Advances(j, r, ReleaseClaim(r))
             /\ Advances(j, r, CompleteClaimedJob(r))
             /\ Advances(j, r, FailClaimedJob(r, FALSE))
             /\ r.attempt < MaxRetries[j] => Advances(j, r, FailClaimedJob(r, TRUE))
  <2>1. /\ Ends(ReleaseClaim(r), "PENDING", r.attempt - 1, r.done)
        /\ Ends(CompleteClaimedJob(r), "COMPLETED", r.attempt, "recent")
        /\ Ends(FailClaimedJob(r, FALSE), "DEAD", r.attempt, "recent")
        /\ Ends(FailClaimedJob(r, TRUE), "PENDING", r.attempt, r.done)
    BY <1>1, <1>8, StatementFields
  <2> QED
    BY <1>8, <2>1 DEF Ends, Advances
<1> QED
  BY <1>2, <1>3, <1>4, <1>5, <1>7, <1>8

\* The empty table is an initial state of JobLifecycle.
LEMMA LifecycleInit == Init => Lifecycle!Init
BY SMT DEF Init, Unsubmitted, Blank, Lifecycle!Init

\* A sweep chooses, takes or gives up a job as JobLifecycle does.
LEMMA SweepStep ==
  ASSUME IInv, NEW j \in Jobs, SweepPicks(j) \/ SweepDeletes(j) \/ SweepFails(j)
  PROVE  Lifecycle!Next
<1>1. CASE SweepPicks(j)
  <2>1. {j} \in SUBSET {k \in Jobs : [i \in Jobs |-> job[i].state][k] \in {"COMPLETED", "DEAD"}}
    BY <1>1 DEF SweepPicks, Prunable, Finished
  <2>2. sweep' = sweep \cup {j} /\ UNCHANGED job
    BY <1>1 DEF SweepPicks
  <2>3. Lifecycle!Choose
    BY <2>1, <2>2 DEF Lifecycle!Choose
  <2> QED
    BY <2>3 DEF Lifecycle!Next
<1>2. CASE SweepDeletes(j)
  <2>1. /\ job' = [job EXCEPT ![j] = Deleted] /\ sweep' = sweep \ {j} /\ {j} \in SUBSET sweep
        /\ Deleted.state = "GONE" /\ Deleted.attempt = 0
    BY <1>2 DEF SweepDeletes, Deleted, Blank
  <2>2. \A k \in Jobs : /\ job'[k].state = IF k \in {j} THEN "GONE" ELSE job[k].state
                        /\ job'[k].attempt = IF k \in {j} THEN 0 ELSE job[k].attempt
    BY <2>1 DEF IInv, RowsOK
  <2>3. /\ [k \in Jobs |-> job'[k].state]
             = [k \in Jobs |-> IF k \in {j} THEN "GONE" ELSE [i \in Jobs |-> job[i].state][k]]
        /\ [k \in Jobs |-> job'[k].attempt]
             = [k \in Jobs |-> IF k \in {j} THEN 0 ELSE [i \in Jobs |-> job[i].attempt][k]]
    BY <2>2
  <2>4. sweep' \in SUBSET (sweep \ {j})
    BY <2>1
  <2>5. Lifecycle!Prune
    BY <2>1, <2>3, <2>4 DEF Lifecycle!Prune
  <2> QED
    BY <2>5 DEF Lifecycle!Next
<1>3. CASE SweepFails(j)
  <2>1. UNCHANGED job /\ sweep' = sweep \ {j}
    BY <1>3 DEF SweepFails
  <2>2. /\ [k \in Jobs |-> job'[k].state]
             = [k \in Jobs |-> IF k \in {} THEN "GONE" ELSE [i \in Jobs |-> job[i].state][k]]
        /\ [k \in Jobs |-> job'[k].attempt]
             = [k \in Jobs |-> IF k \in {} THEN 0 ELSE [i \in Jobs |-> job[i].attempt][k]]
    BY <2>1
  <2>3. {} \in SUBSET sweep /\ sweep' \in SUBSET (sweep \ {})
    BY <2>1
  <2>4. Lifecycle!Prune
    BY <2>2, <2>3 DEF Lifecycle!Prune
  <2> QED
    BY <2>4 DEF Lifecycle!Next
<1> QED
  BY <1>1, <1>2, <1>3

\* Every step is a step of JobLifecycle or a stutter.
LEMMA LifecycleStep == IInv /\ [Next]_vars => [Lifecycle!Next]_(Lifecycle!vars)
<1> SUFFICES ASSUME IInv, [Next]_vars
             PROVE  Lifecycle!Next \/ UNCHANGED Lifecycle!vars
  OBVIOUS
<1>t. /\ job \in [Jobs -> Row]
      /\ \A j \in Jobs : /\ job[j] \in Row /\ job[j].state # "FAILED"
                         /\ job[j].state = "PENDING" => job[j].attempt < MaxRetries[j]
                         /\ job[j].state = "RUNNING" => job[j].attempt > 0
  BY DEF IInv, RowsOK, FailedUnused, AttemptBudget
<1>u. UNCHANGED <<job, sweep>> => UNCHANGED Lifecycle!vars
  BY DEF Lifecycle!vars
<1>1. ASSUME NEW j \in Jobs, ClientStep(j) PROVE Lifecycle!Next
  <2>1. PICK n : job' = [job EXCEPT ![j] = n] /\ Advances(j, job[j], n) /\ UNCHANGED sweep
    BY <1>t, <1>1, StatementsAdvance DEF ClientStep, Enqueue, Cancel, RequeueJob
  <2> QED
    BY <2>1, AbstractStep
<1>2. ASSUME NEW j \in Jobs, StoreStep(j) PROVE Lifecycle!Next
  <2>1. CASE Reap(j)
    <3>1. PICK n : job' = [job EXCEPT ![j] = n] /\ Advances(j, job[j], n) /\ UNCHANGED sweep
      BY <1>t, <2>1, StatementsAdvance DEF Reap
    <3> QED
      BY <3>1, AbstractStep
  <2> QED
    BY <1>2, <2>1, SweepStep DEF StoreStep
<1>3. ASSUME NEW j \in Jobs, ClaimStep(j) PROVE Lifecycle!Next
  <2>1. PICK t \in Tokens : /\ Claimable(job[j]) /\ UNCHANGED sweep
                            /\ job' = [job EXCEPT ![j] = ClaimNextJob(@, t)]
    BY <1>3 DEF ClaimStep, ReconcilerClaim, RemoteClaim, ClaimInto
  <2>2. PICK n : job' = [job EXCEPT ![j] = n] /\ Advances(j, job[j], n)
    BY <1>t, <2>1, StatementsAdvance
  <2> QED
    BY <2>1, <2>2, AbstractStep
<1>4. ASSUME NEW j \in Jobs, TimeStep(j) PROVE UNCHANGED Lifecycle!vars
  BY <1>t, <1>4, SMT DEF TimeStep, LeaseExpires, BecomesDue, Ages, Lifecycle!vars, Row
<1>5. ASSUME NEW w \in Workers, WorkerStep(w)
      PROVE  Lifecycle!Next \/ UNCHANGED Lifecycle!vars
  <2> DEFINE j == holder[w].job
  <2>s. UNCHANGED sweep
    BY <1>5, WorkersDoNotSweep
  <2>0. ASSUME Fenced(job[j], holder[w].token), Busy(w)
        PROVE  j \in Jobs /\ job[j].state = "RUNNING" /\ Owns(w)
    BY <2>0 DEF Fenced, IInv, ClaimsNamed, Owns
  <2>1. CASE Refuse(w)
    <3>1. CASE Fenced(job[j], holder[w].token)
      <4>1. j \in Jobs /\ Advances(j, job[j], ReleaseClaim(job[j]))
        BY <1>t, <2>0, <2>1, <3>1, StatementsAdvance DEF Refuse, Busy
      <4>2. job' = [job EXCEPT ![j] = ReleaseClaim(job[j])]
        BY <2>1, <3>1 DEF Refuse
      <4> QED
        BY <2>s, <4>1, <4>2, AbstractStep
    <3>2. CASE ~Fenced(job[j], holder[w].token)
      BY <1>u, <2>s, <2>1, <3>2 DEF Refuse
    <3> QED
      BY <3>1, <3>2
  <2>2. ASSUME NEW answered \in BOOLEAN, Complete(w, answered)
        PROVE  Lifecycle!Next \/ UNCHANGED Lifecycle!vars
    <3>1. CASE Fenced(job[j], holder[w].token)
      <4>1. j \in Jobs /\ Advances(j, job[j], CompleteClaimedJob(job[j]))
        BY <1>t, <2>0, <2>2, <3>1, StatementsAdvance DEF Complete, Busy
      <4>2. job' = [job EXCEPT ![j] = CompleteClaimedJob(job[j])]
        BY <2>2, <3>1 DEF Complete
      <4> QED
        BY <2>s, <4>1, <4>2, AbstractStep
    <3>2. CASE ~Fenced(job[j], holder[w].token)
      BY <1>u, <2>s, <2>2, <3>2 DEF Complete
    <3> QED
      BY <3>1, <3>2
  <2>3. ASSUME NEW answered \in BOOLEAN, FailWrite(w, answered)
        PROVE  Lifecycle!Next \/ UNCHANGED Lifecycle!vars
    <3>1. CASE Fenced(job[j], holder[w].token)
      <4>1. Busy(w) /\ holder[w].retry \in BOOLEAN
        BY <2>3 DEF FailWrite, Busy, IInv, RowsOK, Claim
      <4>2. holder[w].retry => job[j].attempt < MaxRetries[j]
        BY <2>0, <2>3, <3>1, <4>1 DEF IInv, FailDecisionCurrent, FailWrite
      <4>3. job' = [job EXCEPT ![j] = FailClaimedJob(job[j], holder[w].retry)]
        BY <2>3, <3>1 DEF FailWrite
      <4>4. CASE holder[w].retry = TRUE
        <5>1. j \in Jobs /\ Advances(j, job[j], FailClaimedJob(job[j], TRUE))
          BY <1>t, <2>0, <3>1, <4>1, <4>2, <4>4, StatementsAdvance
        <5> QED
          BY <2>s, <4>3, <4>4, <5>1, AbstractStep
      <4>5. CASE holder[w].retry = FALSE
        <5>1. j \in Jobs /\ Advances(j, job[j], FailClaimedJob(job[j], FALSE))
          BY <1>t, <2>0, <3>1, <4>1, StatementsAdvance
        <5> QED
          BY <2>s, <4>3, <4>5, <5>1, AbstractStep
      <4> QED
        BY <4>1, <4>4, <4>5
    <3>2. CASE ~Fenced(job[j], holder[w].token)
      BY <1>u, <2>s, <2>3, <3>2 DEF FailWrite
    <3> QED
      BY <3>1, <3>2
  <2>4. CASE Renew(w)
    <3>1. CASE Fenced(job[j], holder[w].token)
      <4>1. job' = [job EXCEPT ![j] = RenewLease(job[j])] /\ j \in Jobs
        BY <2>0, <2>4, <3>1 DEF Renew, Busy
      <4>2. /\ RenewLease(job[j]).state = job[j].state
            /\ RenewLease(job[j]).attempt = job[j].attempt
        BY <1>t, <4>1 DEF RenewLease, Row
      <4> QED
        BY <2>s, <4>1, <4>2, StutterRow
    <3>2. CASE ~Fenced(job[j], holder[w].token)
      BY <1>u, <2>s, <2>4, <3>2 DEF Renew
    <3> QED
      BY <3>1, <3>2
  <2>5. CASE Execute(w) \/ RenewalStops(w) \/ Crash(w)
    BY <1>u, <2>s, <2>5 DEF Execute, RenewalStops, Crash
  <2>6. ASSUME NEW permanent \in BOOLEAN, FailRead(w, permanent)
        PROVE  UNCHANGED Lifecycle!vars
    BY <1>u, <2>s, <2>6 DEF FailRead
  <2> QED
    BY <1>5, <2>1, <2>2, <2>3, <2>4, <2>5, <2>6 DEF WorkerStep
<1> QED
  BY <1>1, <1>2, <1>3, <1>4, <1>5, <1>u DEF Next, vars

\* Seen from outside, the workers, the reapers, the sweeps and the clients
\* together do nothing but the steps of JobLifecycle.
THEOREM Refinement == Spec => ImplementsLifecycle
BY LifecycleInit, LifecycleStep, Invariance, PTL DEF Spec, ImplementsLifecycle, Lifecycle!Spec

-----------------------------------------------------------------------------
(* The execution budget.  A claim is charged to the row's attempt when it  *)
(* is made, and starts its handler at most once, perhaps long after it was *)
(* lost: what counts against the attempt is the executions started and the *)
(* claims that may still start one.                                        *)

\* A claim from before the last requeue no longer owns its row.
EarlierLost == \A w \in Workers : Busy(w) /\ holder[w].earlier => ~Owns(w)

\* The claims on j since its last requeue whose handler has yet to start.
Waiting(j) ==
  {w \in Workers : holder[w].pc = "queued" /\ holder[w].job = j /\ ~holder[w].earlier}

\* The attempts charged; a deleted row no longer tells.
Charged(j) == IF job[j].state = "GONE" THEN MaxRetries[j] ELSE job[j].attempt

\* A job is charged nothing before it is enqueued.
NewUncharged == \A j \in Jobs : job[j].state = "NEW" => job[j].attempt = 0

\* What has started and what may start was charged.
StartsCharged == \A j \in Jobs : started[j] + Cardinality(Waiting(j)) <= Charged(j)

BInv == IInv /\ EarlierLost /\ NewUncharged /\ StartsCharged

\* Sets of workers are finite.
LEMMA WorkersFinite ==
  ASSUME NEW S \in SUBSET Workers
  PROVE  IsFiniteSet(S) /\ Cardinality(S) \in Nat
<1>1. IsFiniteSet(Workers)
  BY WorkersAssumption, FS_Union DEF Workers
<1> QED
  BY <1>1, FS_Subset, FS_CardinalityType

\* What is charged, started and waiting is a number.
LEMMA Counts ==
  ASSUME RowsOK, NEW j \in Jobs
  PROVE  /\ started[j] \in Nat /\ Charged(j) \in Nat
         /\ Waiting(j) \in SUBSET Workers /\ IsFiniteSet(Waiting(j))
         /\ Cardinality(Waiting(j)) \in Nat
<1>1. Waiting(j) \in SUBSET Workers
  BY DEF Waiting
<1>2. MaxRetries[j] \in Nat /\ job[j].attempt \in Nat
  BY StoreAssumption DEF RowsOK, Row
<1> QED
  BY <1>1, <1>2, WorkersFinite DEF RowsOK, Charged

\* The same after a step.
LEMMA NextCounts ==
  ASSUME RowsOK', NEW j \in Jobs
  PROVE  Charged(j)' \in Nat /\ Cardinality(Waiting(j)') \in Nat
<1>1. Waiting(j)' \in SUBSET Workers
  BY DEF Waiting
<1>2. MaxRetries[j] \in Nat /\ job'[j].attempt \in Nat
  BY StoreAssumption DEF RowsOK, Row
<1> QED
  BY <1>1, <1>2, WorkersFinite DEF Charged

\* A statement that ends, keeps or deletes a claim gives nobody a token, and
\* charges what was charged.
RowKeeps(r, n) ==
  /\ n.token = NoToken \/ n.token = r.token
  /\ n.attempt = r.attempt \/ n.state = "GONE"
  /\ n.state = "NEW" => r.state = "NEW"
  /\ r.state = "GONE" => n.state = "GONE"

\* A worker forgets its claim or goes on with it.
ClaimKeeps(b, c) ==
  \/ c = b
  \/ c = Idle
  \/ /\ b.pc # "idle" /\ c.pc # "queued"
     /\ c.job = b.job /\ c.token = b.token /\ c.earlier = b.earlier

\* Claims that are lost stay lost when no row gets a new token.
LEMMA LostStaysLost ==
  ASSUME BInv,
         \A j \in Jobs : job'[j].token = NoToken \/ job'[j].token = job[j].token,
         \A w \in Workers : ClaimKeeps(holder[w], holder'[w])
  PROVE  EarlierLost'
<1> SUFFICES ASSUME NEW w \in Workers, Busy(w)', holder'[w].earlier, Owns(w)'
             PROVE  FALSE
  BY DEF EarlierLost
<1>1. /\ Busy(w) /\ holder[w].earlier
      /\ holder'[w].job = holder[w].job /\ holder'[w].token = holder[w].token
  BY SMT DEF ClaimKeeps, Busy, Idle
<1>2. holder[w].job \in Jobs /\ holder[w].token \in Tokens
  BY <1>1 DEF BInv, IInv, ClaimsNamed
<1>3. job'[holder[w].job].token = holder[w].token
  BY <1>1 DEF Owns
<1>4. job[holder[w].job].token = holder[w].token
  BY <1>2, <1>3, StoreAssumption
<1> QED
  BY <1>1, <1>4 DEF BInv, EarlierLost, Owns

\* No claim begins to wait.
LEMMA WaitingShrinks ==
  ASSUME NEW j \in Jobs, \A w \in Workers : ClaimKeeps(holder[w], holder'[w])
  PROVE  Waiting(j)' \subseteq Waiting(j)
BY SMT DEF Waiting, ClaimKeeps, Idle

\* Nothing is started and no charge taken back.
LEMMA ChargeHolds ==
  ASSUME BInv, IInv', NEW j \in Jobs, Waiting(j)' \subseteq Waiting(j),
         started'[j] = started[j], Charged(j)' >= Charged(j)
  PROVE  started'[j] + Cardinality(Waiting(j)') <= Charged(j)'
<1>1. /\ started[j] \in Nat /\ Charged(j) \in Nat
      /\ IsFiniteSet(Waiting(j)) /\ Cardinality(Waiting(j)) \in Nat
  BY Counts DEF BInv, IInv
<1>2. Charged(j)' \in Nat /\ Cardinality(Waiting(j)') \in Nat
  BY NextCounts DEF IInv
<1>3. Cardinality(Waiting(j)') <= Cardinality(Waiting(j))
  BY <1>1, FS_Subset
<1>4. started[j] + Cardinality(Waiting(j)) <= Charged(j)
  BY DEF BInv, StartsCharged
<1> QED
  BY <1>1, <1>2, <1>3, <1>4, SMT

\* A row that keeps its attempt, or is deleted, is charged no less.
LEMMA NoLessCharged ==
  ASSUME BInv, IInv', NEW j \in Jobs, RowKeeps(job[j], job'[j])
  PROVE  Charged(j)' >= Charged(j)
<1>1. Charged(j) \in Nat /\ job[j].attempt \in Nat /\ MaxRetries[j] \in Nat
  BY Counts, StoreAssumption DEF BInv, IInv, RowsOK, Row
<1>2. job[j].attempt <= MaxRetries[j]
  BY DEF BInv, IInv, AttemptBudget
<1> QED
  BY <1>1, <1>2, SMT DEF RowKeeps, Charged

\* Steps that make no claim, start no handler and give no attempt back.
LEMMA OrdinaryStep ==
  ASSUME BInv, IInv', UNCHANGED started,
         \A j \in Jobs : RowKeeps(job[j], job'[j]),
         \A w \in Workers : ClaimKeeps(holder[w], holder'[w])
  PROVE  BInv'
<1>1. EarlierLost'
  BY LostStaysLost DEF RowKeeps
<1>2. NewUncharged'
  BY DEF BInv, NewUncharged, RowKeeps
<1>3. ASSUME NEW j \in Jobs
      PROVE  started'[j] + Cardinality(Waiting(j)') <= Charged(j)'
  BY <1>3, WaitingShrinks, NoLessCharged, ChargeHolds
<1> QED
  BY <1>1, <1>2, <1>3 DEF BInv, StartsCharged

\* Rows and claims that are left alone.
LEMMA KeepsItself ==
  /\ \A r : RowKeeps(r, r)
  /\ \A b : ClaimKeeps(b, b) /\ ClaimKeeps(b, Idle)
BY DEF RowKeeps, ClaimKeeps

\* One row and one claim change, or none.
LEMMA OneOfEach ==
  ASSUME BInv, IInv', UNCHANGED started,
         NEW j \in Jobs, NEW n, RowKeeps(job[j], n),
         job' = [job EXCEPT ![j] = n] \/ UNCHANGED job,
         NEW w \in Workers, NEW c, ClaimKeeps(holder[w], c),
         holder' = [holder EXCEPT ![w] = c] \/ UNCHANGED holder
  PROVE  BInv'
<1>1. \A k \in Jobs : RowKeeps(job[k], job'[k])
  BY KeepsItself DEF BInv, IInv, RowsOK
<1>2. \A v \in Workers : ClaimKeeps(holder[v], holder'[v])
  BY KeepsItself DEF BInv, IInv, RowsOK
<1> QED
  BY <1>1, <1>2, OrdinaryStep

\* One row changes.
LEMMA RowStep ==
  ASSUME BInv, IInv', UNCHANGED <<holder, started>>,
         NEW j \in Jobs, NEW n, RowKeeps(job[j], n), job' = [job EXCEPT ![j] = n]
  PROVE  BInv'
<1>1. \A k \in Jobs : RowKeeps(job[k], job'[k])
  BY KeepsItself DEF BInv, IInv, RowsOK
<1>2. \A v \in Workers : ClaimKeeps(holder[v], holder'[v])
  BY KeepsItself
<1> QED
  BY <1>1, <1>2, OrdinaryStep

\* The statements that keep what is charged.
LEMMA StatementsKeep ==
  ASSUME BInv, NEW j \in Jobs
  PROVE  /\ Cancellable(job[j]) => RowKeeps(job[j], CancelJob(job[j]))
         /\ Expired(job[j]) =>
              RowKeeps(job[j], RequeueExpiredRunning(job[j], MaxRetries[j]))
         /\ RowKeeps(job[j], Deleted)
         /\ \A s \in {"due", "future"} :
              job[j].state = "NEW" => RowKeeps(job[j], CreateJob(s))
         /\ job[j].state = "RUNNING" =>
              /\ RowKeeps(job[j], RenewLease(job[j]))
              /\ RowKeeps(job[j], CompleteClaimedJob(job[j]))
              /\ \A retry \in BOOLEAN : RowKeeps(job[j], FailClaimedJob(job[j], retry))
<1> DEFINE r == job[j]
<1>1. r \in Row /\ MaxRetries[j] \in Nat
  BY StoreAssumption DEF BInv, IInv, RowsOK
<1>2. RowKeeps(r, Deleted)
  BY DEF RowKeeps, Deleted, Blank
<1>3. \A s \in {"due", "future"} : r.state = "NEW" => RowKeeps(r, CreateJob(s))
  BY DEF BInv, NewUncharged, RowKeeps, CreateJob, Blank
<1>4. r.state = "RUNNING" => RowKeeps(r, RenewLease(r))
  BY <1>1 DEF RenewLease, RowKeeps, Row
<1> HIDE DEF r
<1>5. Cancellable(r) => RowKeeps(r, CancelJob(r))
  BY <1>1, StatementFields DEF Ends, RowKeeps, Cancellable
<1>6. Expired(r) => RowKeeps(r, RequeueExpiredRunning(r, MaxRetries[j]))
  <2>1. CASE Exhausted(r, MaxRetries[j])
    BY <1>1, <2>1, StatementFields DEF Ends, RowKeeps, Expired
  <2>2. CASE ~Exhausted(r, MaxRetries[j])
    BY <1>1, <2>2, StatementFields DEF Ends, RowKeeps, Expired
  <2> QED
    BY <2>1, <2>2
<1>7. r.state = "RUNNING" => /\ RowKeeps(r, CompleteClaimedJob(r))
                            /\ RowKeeps(r, FailClaimedJob(r, TRUE))
                            /\ RowKeeps(r, FailClaimedJob(r, FALSE))
  BY <1>1, StatementFields DEF Ends, RowKeeps
<1> QED
  BY <1>2, <1>3, <1>4, <1>5, <1>6, <1>7 DEF r

-----------------------------------------------------------------------------
\* A requeue starts the counts anew, and makes all claims so far earlier ones.
LEMMA RequeueCounts == ASSUME BInv, IInv', NEW j \in Jobs, RequeueJob(j) PROVE BInv'
<1>t. job \in [Jobs -> Row] /\ holder \in [Workers -> Claim] /\ started \in [Jobs -> Nat]
  BY DEF BInv, IInv, RowsOK
<1>1. Ends(RequeueDeadJob(job[j]), "PENDING", 0, "none")
  BY <1>t, StatementFields
<1>2. /\ job' = [job EXCEPT ![j] = RequeueDeadJob(job[j])]
      /\ job'[j].token = NoToken /\ job'[j].attempt = 0 /\ job'[j].state = "PENDING"
      /\ \A k \in Jobs : k # j => job'[k] = job[k]
  BY <1>t, <1>1 DEF RequeueJob, Ends
<1>3. ASSUME NEW w \in Workers
      PROVE  /\ holder'[w].pc = holder[w].pc /\ holder'[w].job = holder[w].job
             /\ holder'[w].token = holder[w].token
             /\ IF holder[w].job = j THEN holder'[w].earlier = TRUE
                ELSE holder'[w].earlier = holder[w].earlier
  <2>1. holder[w] \in Claim
    BY <1>t
  <2>2. holder'[w] = IF holder[w].job = j THEN [holder[w] EXCEPT !.earlier = TRUE]
                     ELSE holder[w]
    BY DEF RequeueJob
  <2> QED
    BY <2>1, <2>2 DEF Claim
<1>4. EarlierLost'
  <2> SUFFICES ASSUME NEW w \in Workers, Busy(w)', holder'[w].earlier, Owns(w)'
               PROVE  FALSE
    BY DEF EarlierLost
  <2>1. Busy(w) /\ holder[w].job \in Jobs /\ holder[w].token \in Tokens
    BY <1>3 DEF Busy, BInv, IInv, ClaimsNamed
  <2>2. job'[holder[w].job].token = holder[w].token
    BY <1>3 DEF Owns
  <2>3. holder[w].job # j
    BY <1>2, <2>1, <2>2, StoreAssumption
  <2>4. holder[w].earlier /\ job[holder[w].job].token = holder[w].token
    BY <1>2, <1>3, <2>1, <2>2, <2>3
  <2> QED
    BY <2>1, <2>4 DEF BInv, EarlierLost, Owns
<1>5. NewUncharged'
  BY <1>2 DEF BInv, NewUncharged
<1>6. ASSUME NEW k \in Jobs PROVE started'[k] + Cardinality(Waiting(k)') <= Charged(k)'
  <2>1. CASE k = j
    <3>1. Waiting(j)' = {}
      BY <1>3 DEF Waiting
    <3>2. started'[j] = 0 /\ Charged(j)' = 0
      BY <1>t, <1>2 DEF RequeueJob, Charged
    <3> QED
      BY <2>1, <3>1, <3>2, FS_EmptySet, SMT
  <2>2. CASE k # j
    <3>1. Waiting(k)' \subseteq Waiting(k)
      BY <1>3, <2>2 DEF Waiting
    <3>2. started'[k] = started[k] /\ job'[k] = job[k]
      BY <1>t, <1>2, <2>2 DEF RequeueJob
    <3>3. Charged(k)' >= Charged(k)
      BY <3>2, NoLessCharged, KeepsItself
    <3> QED
      BY <3>1, <3>2, <3>3, ChargeHolds
  <2> QED
    BY <2>1, <2>2
<1> QED
  BY <1>4, <1>5, <1>6 DEF BInv, StartsCharged

\* One waiting claim less.
LEMMA OneWaitsNoMore ==
  ASSUME RowsOK, RowsOK', NEW j \in Jobs, NEW w \in Waiting(j),
         Waiting(j)' \subseteq Waiting(j) \ {w}
  PROVE  Cardinality(Waiting(j)') + 1 <= Cardinality(Waiting(j))
<1>1. IsFiniteSet(Waiting(j)) /\ Cardinality(Waiting(j)) \in Nat
  BY Counts
<1>2. /\ IsFiniteSet(Waiting(j) \ {w})
      /\ Cardinality(Waiting(j) \ {w}) = Cardinality(Waiting(j)) - 1
  BY <1>1, FS_RemoveElement
<1>3. Cardinality(Waiting(j)') <= Cardinality(Waiting(j) \ {w})
  BY <1>2, FS_Subset
<1>4. Cardinality(Waiting(j)') \in Nat
  BY NextCounts
<1> QED
  BY <1>1, <1>2, <1>3, <1>4, SMT

\* The handler of a waiting claim starts: one waits less, one has started.
LEMMA ExecuteCounts == ASSUME BInv, IInv', NEW w \in Workers, Execute(w) PROVE BInv'
<1>t. RowsOK /\ RowsOK'
  BY DEF BInv, IInv
<1> PICK j \in Jobs : j = holder[w].job
  BY DEF Execute, BInv, IInv, ClaimsNamed, Busy
<1>1. holder[w].pc = "queued" /\ UNCHANGED job
  BY DEF Execute
<1>2. /\ holder'[w].pc = "running" /\ holder'[w].job = j
      /\ holder'[w].token = holder[w].token /\ holder'[w].earlier = holder[w].earlier
      /\ \A v \in Workers : v # w => holder'[v] = holder[v]
  BY <1>t DEF Execute, RowsOK, Claim
<1>3. \A v \in Workers : ClaimKeeps(holder[v], holder'[v])
  BY <1>1, <1>2 DEF ClaimKeeps
<1>4. \A k \in Jobs : RowKeeps(job[k], job'[k])
  BY <1>1, KeepsItself
<1>5. EarlierLost' /\ NewUncharged'
  BY <1>1, <1>3, <1>4, LostStaysLost DEF RowKeeps, BInv, NewUncharged
<1>6. ASSUME NEW k \in Jobs PROVE started'[k] + Cardinality(Waiting(k)') <= Charged(k)'
  <2>1. CASE started'[k] = started[k]
    BY <1>3, <1>4, <2>1, WaitingShrinks, NoLessCharged, ChargeHolds
  <2>2. CASE started'[k] # started[k]
    <3>1. k = j /\ ~holder[w].earlier /\ started'[k] = started[k] + 1
      BY <1>t, <1>1, <2>2 DEF Execute, CountStart, RowsOK
    <3>2. w \in Waiting(j) /\ w \notin Waiting(j)'
      BY <1>1, <1>2, <3>1 DEF Waiting
    <3>3. Cardinality(Waiting(j)') + 1 <= Cardinality(Waiting(j))
      BY <1>t, <1>1, <1>3, <3>2, WaitingShrinks, OneWaitsNoMore
    <3>4. Charged(j)' = Charged(j)
      BY <1>1 DEF Charged
    <3>5. started[j] + Cardinality(Waiting(j)) <= Charged(j)
      BY <1>1 DEF BInv, StartsCharged
    <3>6. /\ started[j] \in Nat /\ Charged(j) \in Nat
          /\ Cardinality(Waiting(j)) \in Nat /\ Cardinality(Waiting(j)') \in Nat
      BY <1>t, <1>1, Counts, NextCounts
    <3> QED
      BY <3>1, <3>3, <3>4, <3>5, <3>6, SMT
  <2> QED
    BY <2>1, <2>2
<1> QED
  BY <1>5, <1>6 DEF BInv, StartsCharged

\* A claim refused by the breaker or the lock gives its attempt back, and no
\* longer waits: its owner has not been requeued.
LEMMA RefuseCounts == ASSUME BInv, IInv', NEW w \in Workers, Refuse(w) PROVE BInv'
<1>t. RowsOK /\ RowsOK'
  BY DEF BInv, IInv
<1> PICK j \in Jobs : j = holder[w].job
  BY DEF Refuse, BInv, IInv, ClaimsNamed, Busy
<1> DEFINE n == ReleaseClaim(job[j])
<1>1. /\ holder[w].pc = "queued" /\ Busy(w)
      /\ holder' = [holder EXCEPT ![w] = Idle] /\ UNCHANGED started
  BY DEF Refuse, Drop, Busy
<1>2. CASE ~Fenced(job[j], holder[w].token)
  <2>1. UNCHANGED job
    BY <1>2 DEF Refuse
  <2> QED
    BY <1>1, <2>1, KeepsItself, OneOfEach
<1>3. CASE Fenced(job[j], holder[w].token)
  <2>1. job' = [job EXCEPT ![j] = n] /\ job[j].state = "RUNNING" /\ Owns(w)
    BY <1>1, <1>3 DEF Refuse, Fenced, Owns
  <2>2. job[j] \in Row /\ job[j].attempt \in Nat /\ job[j].attempt > 0
    BY <1>1, <2>1 DEF BInv, IInv, RowsOK, Row, AttemptBudget
  <2>3. n.token = NoToken /\ n.state = "PENDING" /\ n.attempt = job[j].attempt - 1
    BY <2>2, StatementFields, ZenonT(40) DEF Ends
  <2>4. ~holder[w].earlier
    BY <1>1, <2>1 DEF BInv, EarlierLost
  <2> HIDE DEF n
  <2>5. /\ job'[j] = n /\ \A k \in Jobs : k # j => job'[k] = job[k]
    BY <1>t, <1>1, <2>1 DEF RowsOK
  <2>6. \A v \in Workers : ClaimKeeps(holder[v], holder'[v])
    BY <1>t, <1>1, KeepsItself DEF RowsOK
  <2>7. EarlierLost' /\ NewUncharged'
    BY <2>3, <2>5, <2>6, LostStaysLost DEF BInv, NewUncharged
  <2>8. started'[j] + Cardinality(Waiting(j)') <= Charged(j)'
    <3>1. w \in Waiting(j) /\ w \notin Waiting(j)'
      BY <1>t, <1>1, <2>4 DEF Waiting, RowsOK, Idle
    <3>2. Cardinality(Waiting(j)') + 1 <= Cardinality(Waiting(j))
      BY <1>t, <1>1, <2>6, <3>1, WaitingShrinks, OneWaitsNoMore, SMT
    <3>3. Charged(j) = job[j].attempt /\ Charged(j)' = job[j].attempt - 1
      BY <2>1, <2>3, <2>5 DEF Charged
    <3>4. started[j] + Cardinality(Waiting(j)) <= Charged(j) /\ started'[j] = started[j]
      BY <1>1 DEF BInv, StartsCharged
    <3>5. /\ started[j] \in Nat /\ Cardinality(Waiting(j)) \in Nat
          /\ Cardinality(Waiting(j)') \in Nat
      BY <1>t, <1>1, Counts, NextCounts
    <3> QED
      BY <2>2, <3>2, <3>3, <3>4, <3>5, SMT
  <2>9. ASSUME NEW k \in Jobs, k # j
        PROVE  started'[k] + Cardinality(Waiting(k)') <= Charged(k)'
    BY <1>1, <2>5, <2>6, <2>9, WaitingShrinks, NoLessCharged, KeepsItself, ChargeHolds
  <2> QED
    BY <2>7, <2>8, <2>9 DEF BInv, StartsCharged
<1> QED
  BY <1>2, <1>3

\* A claim is charged before its handler may start.
LEMMA ClaimCounts ==
  ASSUME BInv, IInv', NEW w \in Workers, NEW j \in Jobs, NEW t \in Tokens,
         ReconcilerClaim(w, j, t) \/ RemoteClaim(w, j, t)
  PROVE  BInv'
<1> DEFINE n == ClaimNextJob(job[j], t)
<1>t. RowsOK /\ RowsOK'
  BY DEF BInv, IInv
<1>1. /\ ~Busy(w) /\ job[j].state = "PENDING" /\ Fresh(t)
      /\ job' = [job EXCEPT ![j] = n]
  BY DEF ReconcilerClaim, RemoteClaim, ClaimInto, Claimable
<1>2. /\ holder'[w].job = j /\ holder'[w].token = t /\ holder'[w].earlier = FALSE
      /\ \A v \in Workers : v # w => holder'[v] = holder[v]
  <2>1. \E pc, renewing : ClaimInto(w, j, t, pc, renewing)
    BY DEF ReconcilerClaim, RemoteClaim
  <2> QED
    BY <1>t, <2>1, SMT DEF ClaimInto, RowsOK, Idle
<1>3. \/ holder'[w].pc = "queued" /\ started' = started
      \/ holder'[w].pc = "running" /\ started' = [started EXCEPT ![j] = @ + 1]
  <2>1. CASE ReconcilerClaim(w, j, t)
    BY <1>t, <2>1 DEF ReconcilerClaim, ClaimInto, RowsOK, Idle
  <2>2. CASE RemoteClaim(w, j, t)
    BY <1>t, <2>2 DEF RemoteClaim, ClaimInto, RowsOK, Idle
  <2> QED
    BY <2>1, <2>2
<1>4. /\ job[j] \in Row /\ job[j].attempt \in Nat
      /\ n.attempt = job[j].attempt + 1 /\ n.state = "RUNNING" /\ n.token = t
  BY <1>t, SMT DEF RowsOK, ClaimNextJob, Row
<1> HIDE DEF n
<1>5. job'[j] = n /\ \A k \in Jobs : k # j => job'[k] = job[k]
  BY <1>t, <1>1 DEF RowsOK
<1>6. EarlierLost'
  <2> SUFFICES ASSUME NEW v \in Workers, Busy(v)', holder'[v].earlier, Owns(v)'
               PROVE  FALSE
    BY DEF EarlierLost
  <2>1. v # w /\ holder'[v] = holder[v]
    BY <1>2
  <2>2. Busy(v) /\ holder[v].job \in Jobs /\ holder[v].earlier
    BY <2>1, SMT DEF Busy, BInv, IInv, ClaimsNamed
  <2>3. holder[v].job # j
    BY <1>1, <1>4, <1>5, <2>1, SMT DEF Owns, Fresh
  <2>4. Owns(v)
    BY <1>5, <2>1, <2>2, <2>3 DEF Owns
  <2> QED
    BY <2>2, <2>4 DEF BInv, EarlierLost
<1>7. NewUncharged'
  BY <1>4, <1>5 DEF BInv, NewUncharged
<1>8. \A k \in Jobs : w \notin Waiting(k)
  BY <1>1 DEF Waiting, Busy
<1>9. started'[j] + Cardinality(Waiting(j)') <= Charged(j)'
  <2>1. /\ started[j] \in Nat /\ IsFiniteSet(Waiting(j)) /\ Cardinality(Waiting(j)) \in Nat
        /\ Cardinality(Waiting(j)') \in Nat
    BY <1>t, Counts, NextCounts
  <2>2. started[j] + Cardinality(Waiting(j)) <= job[j].attempt
    BY <1>1 DEF BInv, StartsCharged, Charged
  <2>3. Charged(j)' = job[j].attempt + 1
    BY <1>4, <1>5 DEF Charged
  <2>4. CASE holder'[w].pc = "queued" /\ started' = started
    <3>1. Waiting(j)' \subseteq Waiting(j) \cup {w}
      BY <1>2 DEF Waiting
    <3>2. /\ IsFiniteSet(Waiting(j) \cup {w})
          /\ Cardinality(Waiting(j) \cup {w}) = Cardinality(Waiting(j)) + 1
      BY <1>8, <2>1, FS_AddElement
    <3>3. Cardinality(Waiting(j)') <= Cardinality(Waiting(j)) + 1
      BY <3>1, <3>2, FS_Subset
    <3> QED
      BY <1>4, <2>1, <2>2, <2>3, <2>4, <3>3, SMT
  <2>5. CASE holder'[w].pc = "running" /\ started' = [started EXCEPT ![j] = @ + 1]
    <3>1. Waiting(j)' \subseteq Waiting(j)
      BY <1>2, <2>5 DEF Waiting
    <3>2. Cardinality(Waiting(j)') <= Cardinality(Waiting(j))
      BY <2>1, <3>1, FS_Subset
    <3>3. started'[j] = started[j] + 1
      BY <1>t, <2>5 DEF RowsOK
    <3> QED
      BY <1>4, <2>1, <2>2, <2>3, <3>2, <3>3, SMT
  <2> QED
    BY <1>3, <2>4, <2>5
<1>10. ASSUME NEW k \in Jobs, k # j
       PROVE  started'[k] + Cardinality(Waiting(k)') <= Charged(k)'
  <2>1. Waiting(k)' \subseteq Waiting(k)
    BY <1>2, <1>10 DEF Waiting
  <2>2. started'[k] = started[k] /\ job'[k] = job[k]
    BY <1>t, <1>3, <1>5, <1>10 DEF RowsOK
  <2>3. Charged(k)' >= Charged(k)
    BY <2>2, NoLessCharged, KeepsItself
  <2> QED
    BY <2>1, <2>2, <2>3, ChargeHolds
<1> QED
  BY <1>6, <1>7, <1>9, <1>10 DEF BInv, StartsCharged

\* Reports, renewals and deaths: the row keeps its charge, and the worker
\* forgets the claim or goes on with it.
LEMMA ReportCounts ==
  ASSUME BInv, IInv', NEW w \in Workers,
         \/ Renew(w) \/ RenewalStops(w) \/ Crash(w)
         \/ \E answered \in BOOLEAN : Complete(w, answered) \/ FailWrite(w, answered)
         \/ \E permanent \in BOOLEAN : FailRead(w, permanent)
  PROVE  BInv'
<1>t. job \in [Jobs -> Row] /\ holder \in [Workers -> Claim]
  BY DEF BInv, IInv, RowsOK
<1>1. Busy(w) /\ UNCHANGED started
  BY DEF Renew, RenewalStops, Crash, Complete, FailWrite, FailRead, Busy
<1> PICK j \in Jobs : j = holder[w].job
  BY <1>1 DEF BInv, IInv, ClaimsNamed
<1>2. \E n : RowKeeps(job[j], n) /\ (job' = [job EXCEPT ![j] = n] \/ UNCHANGED job)
  <2>1. \/ UNCHANGED job
        \/ /\ job[j].state = "RUNNING"
           /\ \/ job' = [job EXCEPT ![j] = RenewLease(job[j])]
              \/ job' = [job EXCEPT ![j] = CompleteClaimedJob(job[j])]
              \/ job' = [job EXCEPT ![j] = FailClaimedJob(job[j], holder[w].retry)]
    BY DEF Renew, RenewalStops, Crash, Complete, FailWrite, FailRead, Fenced
  <2>2. holder[w].retry \in BOOLEAN
    BY <1>t DEF Claim
  <2> QED
    BY <2>1, <2>2, KeepsItself, StatementsKeep
<1>3. \E c : /\ ClaimKeeps(holder[w], c)
             /\ holder' = [holder EXCEPT ![w] = c] \/ UNCHANGED holder
  <2>1. holder[w] \in Claim /\ holder[w].pc # "idle"
    BY <1>t, <1>1 DEF Busy
  <2>2. /\ ClaimKeeps(holder[w], [holder[w] EXCEPT !.pc = "unsure", !.renewing = FALSE])
        /\ \A retry \in BOOLEAN :
             ClaimKeeps(holder[w], [holder[w] EXCEPT !.pc = "failing", !.retry = retry])
        /\ holder[w].pc # "queued" =>
             ClaimKeeps(holder[w], [holder[w] EXCEPT !.renewing = FALSE])
    BY <2>1, ZenonT(40) DEF ClaimKeeps, Claim
  <2>3. CASE Renew(w) \/ RenewalStops(w)
    BY <2>2, <2>3, KeepsItself DEF Renew, RenewalStops
  <2>4. CASE Crash(w)
    BY <2>4, KeepsItself DEF Crash, Drop
  <2>5. ASSUME NEW answered \in BOOLEAN, Reported(w, answered)
        PROVE  \E c : /\ ClaimKeeps(holder[w], c)
                      /\ holder' = [holder EXCEPT ![w] = c]
    <3>1. \/ holder' = [holder EXCEPT ![w] = Idle]
          \/ holder' = [holder EXCEPT ![w] =
                          [holder[w] EXCEPT !.pc = "unsure", !.renewing = FALSE]]
      BY <1>t, <2>5 DEF Reported, Drop, Claim
    <3> QED
      BY <2>2, <3>1, KeepsItself
  <2>6. ASSUME NEW permanent \in BOOLEAN, FailRead(w, permanent)
        PROVE  \E c : /\ ClaimKeeps(holder[w], c)
                      /\ holder' = [holder EXCEPT ![w] = c]
    <3> DEFINE again == ~permanent /\ ShouldRetry(job[j], MaxRetries[j])
    <3>1. \/ holder' = [holder EXCEPT ![w] = Idle]
          \/ holder' = [holder EXCEPT ![w] =
                          [holder[w] EXCEPT !.pc = "failing", !.retry = again]]
      BY <1>t, <2>6 DEF FailRead, Drop, Claim
    <3>2. again \in BOOLEAN
      BY DEF ShouldRetry
    <3> HIDE DEF again
    <3> QED
      BY <2>2, <3>1, <3>2, KeepsItself
  <2> QED
    BY <2>3, <2>4, <2>5, <2>6 DEF Complete, FailWrite
<1> QED
  BY <1>1, <1>2, <1>3, OneOfEach

\* Before the first enqueue nothing is charged, started or waiting.
LEMMA BudgetInit == Init => BInv
<1> SUFFICES ASSUME Init PROVE BInv
  OBVIOUS
<1>1. IInv
  BY InitInv
<1>2. EarlierLost /\ NewUncharged
  BY DEF Init, EarlierLost, Busy, Idle, NewUncharged, Unsubmitted, Blank
<1>3. ASSUME NEW j \in Jobs PROVE started[j] + Cardinality(Waiting(j)) <= Charged(j)
  <2>1. Waiting(j) = {}
    BY DEF Init, Waiting, Idle
  <2>2. started[j] = 0 /\ Charged(j) = 0
    BY DEF Init, Charged, Unsubmitted, Blank
  <2> QED
    BY <2>1, <2>2, FS_EmptySet, SMT
<1> QED
  BY <1>1, <1>2, <1>3 DEF BInv, StartsCharged

\* Every step keeps executions and waiting claims within what is charged.
LEMMA BudgetNext == BInv /\ [Next]_vars => BInv'
<1> SUFFICES ASSUME BInv, [Next]_vars PROVE BInv'
  OBVIOUS
<1>i. IInv'
  BY NextInv DEF BInv
<1>t. job \in [Jobs -> Row]
  BY DEF BInv, IInv, RowsOK
<1>1. ASSUME NEW j \in Jobs, ClientStep(j) PROVE BInv'
  <2>1. ASSUME NEW s \in {"due", "future"}, Enqueue(j, s) PROVE BInv'
    BY <1>i, <2>1, StatementsKeep, RowStep DEF Enqueue
  <2>2. CASE Cancel(j)
    BY <1>i, <2>2, StatementsKeep, RowStep DEF Cancel
  <2> QED
    BY <1>i, <1>1, <2>1, <2>2, RequeueCounts DEF ClientStep
<1>2. ASSUME NEW j \in Jobs, StoreStep(j) PROVE BInv'
  <2>1. CASE Reap(j)
    BY <1>i, <2>1, StatementsKeep, RowStep DEF Reap
  <2>2. CASE SweepDeletes(j)
    BY <1>i, <2>2, StatementsKeep, RowStep DEF SweepDeletes
  <2>3. CASE SweepPicks(j) \/ SweepFails(j)
    <3>1. UNCHANGED started /\ UNCHANGED job /\ UNCHANGED holder
      BY <2>3 DEF SweepPicks, SweepFails
    <3> QED
      BY <1>i, <3>1, KeepsItself, OrdinaryStep
  <2> QED
    BY <1>2, <2>1, <2>2, <2>3 DEF StoreStep
<1>3. ASSUME NEW j \in Jobs, ClaimStep(j) PROVE BInv'
  BY <1>i, <1>3, ClaimCounts DEF ClaimStep
<1>4. ASSUME NEW j \in Jobs, TimeStep(j) PROVE BInv'
  <2>1. PICK n : /\ job' = [job EXCEPT ![j] = n] /\ UNCHANGED <<holder, started>>
                 /\ n.token = job[j].token /\ n.attempt = job[j].attempt
                 /\ n.state = job[j].state
    BY <1>t, <1>4, SMT DEF TimeStep, LeaseExpires, BecomesDue, Ages, Row
  <2>2. RowKeeps(job[j], n)
    BY <2>1 DEF RowKeeps
  <2> QED
    BY <1>i, <2>1, <2>2, RowStep
<1>5. ASSUME NEW w \in Workers, WorkerStep(w) PROVE BInv'
  BY <1>i, <1>5, RefuseCounts, ExecuteCounts, ReportCounts DEF WorkerStep
<1>6. CASE UNCHANGED vars
  <2>1. UNCHANGED started /\ UNCHANGED job /\ UNCHANGED holder
    BY <1>6 DEF vars
  <2> QED
    BY <1>i, <2>1, KeepsItself, OrdinaryStep
<1> QED
  BY <1>1, <1>2, <1>3, <1>4, <1>5, <1>6 DEF Next

\* The budget of executions: however claims are lost, refused, repeated and
\* reaped, a handler starts at most task_max_retries times per enqueue or
\* requeue.
THEOREM ExecutionBudgetHolds == Spec => []ExecutionBudget
<1>1. BInv => ExecutionBudget
  <2> SUFFICES ASSUME BInv, NEW j \in Jobs PROVE started[j] <= MaxRetries[j]
    BY DEF ExecutionBudget
  <2>1. /\ started[j] \in Nat /\ Charged(j) \in Nat /\ Cardinality(Waiting(j)) \in Nat
        /\ MaxRetries[j] \in Nat /\ job[j].attempt \in Nat
    BY Counts, StoreAssumption DEF BInv, IInv, RowsOK, Row
  <2>2. started[j] + Cardinality(Waiting(j)) <= Charged(j)
    BY DEF BInv, StartsCharged
  <2>3. Charged(j) <= MaxRetries[j]
    BY <2>1, SMT DEF BInv, IInv, AttemptBudget, Charged
  <2> QED
    BY <2>1, <2>2, <2>3, SMT
<1> QED
  BY <1>1, BudgetInit, BudgetNext, PTL DEF Spec
=============================================================================
