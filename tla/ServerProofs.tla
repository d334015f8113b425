---------------------------- MODULE ServerProofs ----------------------------
(***************************************************************************)
(* Migrations are serialised, recorded as applied and complete; a server   *)
(* serves only a migrated database and ends what it is to end only after   *)
(* what uses it; for any number of pods, releases, environments and faults.*)
(***************************************************************************)
EXTENDS Server, WellFoundedInduction, TLAPS

\* Steps without arithmetic are left to Zenon; the others name their prover.
USE Zenon

\* Only the empty sequence has no length.
LEMMA NoLength ==
  ASSUME NEW S, NEW seq \in Seq(S) PROVE Len(seq) \in Nat /\ (Len(seq) = 0 <=> seq = <<>>)
BY SMT

\* The lock is a session's: whoever has it is the one session that is open, and
\* that is what keeps the list it read current.  Recorded files are closed
\* downwards, which puts a new file after all of them.
Serialised == live = IF lockedBy = Nobody THEN {} ELSE {lockedBy}

HasFile == \A p \in live : step[p] \in {"open", "record"} => todo[p] # {}

Downward == \A h \in recorded : \A g \in AllFiles : g < h => g \in recorded

DoneIsRecorded == \A p \in Pods : step[p] = "done" => Files[p] \subseteq recorded

MigInv ==
  /\ MigTypeOK /\ Serialised /\ HasFile
  /\ ReadStaysCurrent /\ AppliedAsRecorded /\ Downward /\ DoneIsRecorded

\* The files of a release are natural numbers.
LEMMA FilesAreNumbers == AllFiles \subseteq Nat
BY MigrateAssumption, SMT DEF AllFiles

\* A set of files that is not empty has a first one, and NextFile is it.
LEMMA MinOfFiles ==
  ASSUME NEW S, S \subseteq Nat, S # {}
  PROVE  Min(S) \in S /\ \A y \in S : Min(S) <= y
<1>1. PICK x \in S : \A y \in S : ~(<<y, x>> \in OpToRel(<, Nat))
  BY NatLessThanWellFounded, WFMin
<1>2. \A y \in S : ~(y < x)
  BY <1>1 DEF OpToRel
<1>3. \A y \in S : x <= y
  BY <1>2, SMT
<1> QED
  BY <1>3 DEF Min

\* A commit adds its file to what was committed.
LEMMA RangeAppend ==
  ASSUME NEW T, NEW s \in Seq(T), NEW x \in T
  PROVE  Range(Append(s, x)) = Range(s) \cup {x}
<1> DEFINE t == Append(s, x)
<1>1. /\ Len(s) \in Nat /\ DOMAIN s = 1..Len(s) /\ DOMAIN t = 1..(Len(s) + 1)
      /\ \A i \in 1..Len(s) : t[i] = s[i]
      /\ t[Len(s) + 1] = x
  BY SMT
<1> HIDE DEF t
<1>2. Range(t) \subseteq Range(s) \cup {x}
  BY <1>1, SMT DEF Range
<1>3. x \in Range(t)
  BY <1>1, SMT DEF Range
<1>4. Range(s) \subseteq Range(t)
  BY <1>1, SMT DEF Range
<1> QED
  BY <1>2, <1>3, <1>4 DEF t

\* An empty database satisfies the invariant.
LEMMA MigInitial == MigInit => MigInv
<1> SUFFICES ASSUME MigInit PROVE MigInv
  OBVIOUS
<1>1. MigTypeOK
  BY MigrateAssumption, SMT DEF MigInit, MigTypeOK
<1>2. Range(applied) = {} /\ Len(applied) = 0
  BY SMT DEF MigInit, Range
<1> QED
  BY <1>1, <1>2, SMT DEF MigInit, MigInv, Serialised, HasFile, ReadStaysCurrent,
     AppliedAsRecorded, Downward, DoneIsRecorded

\* A session that ends takes the lock with it and disturbs nobody else.
LEMMA SessionStep ==
  ASSUME MigInv, NEW p \in Pods, NEW s,
         s \in Running \cup {"start", "failed", "killed"},
         SessionEnds(p),
         step' = [step EXCEPT ![p] = s],
         faults' \in 0..MaxFaults,
         UNCHANGED <<recorded, applied, todo>>
  PROVE  MigInv'
<1> USE DEF MigInv
<1>1. MigTypeOK'
  BY DEF SessionEnds, MigTypeOK
<1>2. Serialised'
  BY MigrateAssumption DEF SessionEnds, Serialised, MigTypeOK
<1>3. HasFile' /\ ReadStaysCurrent'
  BY DEF SessionEnds, HasFile, ReadStaysCurrent, MigTypeOK
<1>4. AppliedAsRecorded' /\ Downward'
  BY DEF AppliedAsRecorded, Downward
<1>5. DoneIsRecorded'
  BY DEF DoneIsRecorded, MigTypeOK, Running
<1> QED
  BY <1>1, <1>2, <1>3, <1>4, <1>5

\* The file that is committed was not recorded and comes after all that were.
LEMMA CommitOrder ==
  ASSUME MigInv, NEW p \in Pods, At(p, "record")
  PROVE  /\ NextFile(p) \in Files[p] /\ NextFile(p) \in AllFiles
         /\ NextFile(p) \notin recorded
         /\ \A h \in recorded : h < NextFile(p)
         /\ \A g \in AllFiles : g < NextFile(p) => g \in recorded
<1> DEFINE f == NextFile(p)
<1>1. todo[p] = Files[p] \ recorded /\ todo[p] # {} /\ todo[p] \subseteq Nat
  BY MigrateAssumption DEF MigInv, HasFile, ReadStaysCurrent, At
<1>2. f \in todo[p] /\ \A y \in todo[p] : f <= y
  BY <1>1, MinOfFiles DEF NextFile
<1>3. f \in Files[p] /\ f \in AllFiles /\ f \notin recorded
  BY <1>1, <1>2 DEF AllFiles
<1>4. recorded \subseteq Nat /\ f \in Nat
  BY <1>3, FilesAreNumbers DEF MigInv, MigTypeOK, AllFiles
<1>5. \A h \in recorded : h < f
  BY <1>3, <1>4, SMT DEF MigInv, Downward
<1>6. ASSUME NEW g \in AllFiles, g < f PROVE g \in recorded
  <2>1. PICK q \in Pods : g \in Files[q]
    BY DEF AllFiles
  <2>2. g \in Files[p]
    BY <1>3, <1>6, <2>1, MigrateAssumption
  <2>3. g \in Nat
    BY FilesAreNumbers
  <2> QED
    BY <1>1, <1>2, <1>4, <1>6, <2>2, <2>3, SMT
<1> QED
  BY <1>3, <1>5, <1>6

\* A commit keeps the record and the files the same, and in order.
LEMMA CommitRecords ==
  ASSUME MigInv, NEW p \in Pods, At(p, "record"), Commits(p)
  PROVE  /\ recorded' \subseteq AllFiles /\ applied' \in Seq(AllFiles)
         /\ AppliedAsRecorded' /\ Downward'
         /\ recorded' = recorded \cup {NextFile(p)}
<1> DEFINE f == NextFile(p)
<1>1. /\ recorded \subseteq AllFiles /\ applied \in Seq(AllFiles)
      /\ recorded = Range(applied)
      /\ \A i, j \in 1..Len(applied) : i < j => applied[i] < applied[j]
  BY DEF MigInv, MigTypeOK, AllFiles, AppliedAsRecorded
<1>2. /\ f \in AllFiles /\ \A h \in recorded : h < f
      /\ \A g \in AllFiles : g < f => g \in recorded
  BY CommitOrder
<1>3. applied' = Append(applied, f) /\ recorded' = recorded \cup {f}
  BY DEF Commits
<1>4. recorded' = Range(applied')
  BY <1>1, <1>2, <1>3, RangeAppend, SMT
<1>5. ASSUME NEW i \in 1..Len(applied'), NEW j \in 1..Len(applied'), i < j
      PROVE  applied'[i] < applied'[j]
  <2> HIDE DEF f
  <2>1. Len(applied') = Len(applied) + 1 /\ Len(applied) \in Nat
    BY <1>1, <1>2, <1>3, SMT
  <2>2. i \in 1..Len(applied) /\ applied'[i] = applied[i] /\ applied[i] \in recorded
    BY <1>1, <1>2, <1>3, <1>5, <2>1, SMT DEF Range
  <2>3. CASE j = Len(applied) + 1
    BY <1>1, <1>2, <1>3, <2>2, <2>3, SMT
  <2>4. CASE j # Len(applied) + 1
    <3>1. j \in 1..Len(applied) /\ applied'[j] = applied[j]
      BY <1>1, <1>2, <1>3, <2>1, <2>4, SMT
    <3> QED
      BY <1>1, <1>5, <2>2, <3>1
  <2> QED
    BY <2>3, <2>4
<1>6. AllFiles' = AllFiles
  BY DEF AllFiles
<1>7. Downward'
  BY <1>2, <1>3, <1>6 DEF MigInv, Downward
<1> QED
  BY <1>1, <1>2, <1>3, <1>4, <1>5, <1>7, SMT DEF AppliedAsRecorded

\* Every step keeps the invariant.
LEMMA MigStep == MigInv /\ [MigNext]_migVars => MigInv'
<1> SUFFICES ASSUME MigInv, [MigNext]_migVars PROVE MigInv'
  OBVIOUS
<1>0. ASSUME MigFault PROVE faults' \in 0..MaxFaults
  BY <1>0, MigrateAssumption, SMT DEF MigFault, MigInv, MigTypeOK
<1>1. ASSUME NEW p \in Pods, TakeLock(p) PROVE MigInv'
  BY <1>1, MigrateAssumption, SMT DEF TakeLock, Goes, MigInv, MigTypeOK, Running, Serialised,
     HasFile, ReadStaysCurrent, AppliedAsRecorded, Downward, DoneIsRecorded
<1>2. ASSUME NEW p \in Pods, ReadApplied(p) PROVE MigInv'
  <2>1. Files[p] \subseteq AllFiles
    BY DEF AllFiles
  <2>2. MigTypeOK'
    BY <1>2, <2>1 DEF ReadApplied, Goes, MigInv, MigTypeOK, Running
  <2> QED
    BY <1>2, <2>2 DEF ReadApplied, At, Goes, MigInv, MigTypeOK, Serialised,
       HasFile, ReadStaysCurrent, AppliedAsRecorded, Downward, DoneIsRecorded
<1>3. ASSUME NEW p \in Pods, ApplyFile(p) PROVE MigInv'
  BY <1>3 DEF ApplyFile, At, Goes, MigInv, MigTypeOK, Running, Serialised,
     HasFile, ReadStaysCurrent, AppliedAsRecorded, Downward, DoneIsRecorded
<1>4. ASSUME NEW p \in Pods, RecordFile(p) PROVE MigInv'
  <2>1. CASE NextFile(p) \in recorded
    BY <1>4, <2>1, SessionStep DEF RecordFile, Fail, Goes, MigInv, MigTypeOK
  <2>2. CASE NextFile(p) \notin recorded
    BY <1>4, <2>2 DEF RecordFile, At, Goes, MigInv, MigTypeOK, Running, Serialised,
       HasFile, ReadStaysCurrent, AppliedAsRecorded, Downward, DoneIsRecorded
  <2> QED
    BY <2>1, <2>2
<1>5. ASSUME NEW p \in Pods, CommitFile(p) PROVE MigInv'
  <2>1. At(p, "record") /\ Commits(p)
    BY <1>5 DEF CommitFile
  <2>2. /\ recorded' \subseteq AllFiles /\ applied' \in Seq(AllFiles)
        /\ AppliedAsRecorded' /\ Downward'
        /\ recorded' = recorded \cup {NextFile(p)}
    BY <2>1, CommitRecords
  <2>3. /\ todo' = [todo EXCEPT ![p] = @ \ {NextFile(p)}]
        /\ step' = [step EXCEPT ![p] = "loop"]
        /\ UNCHANGED <<lockedBy, live, faults>>
    BY <1>5 DEF CommitFile, Goes
  <2>4. live = {p}
    BY <2>1 DEF MigInv, Serialised, At
  <2>5. MigTypeOK'
    BY <2>2, <2>3 DEF MigInv, MigTypeOK, Running, AllFiles
  <2>6. ReadStaysCurrent'
    BY <2>1, <2>2, <2>3, <2>4 DEF ReadStaysCurrent, MigInv, MigTypeOK, At
  <2>7. Serialised' /\ HasFile' /\ DoneIsRecorded'
    BY <2>2, <2>3, <2>4 DEF MigInv, MigTypeOK, Serialised, HasFile, DoneIsRecorded
  <2> QED
    BY <2>2, <2>5, <2>6, <2>7 DEF MigInv
<1>6. ASSUME NEW p \in Pods, MigrateReturns(p) PROVE MigInv'
  <2>1. Files[p] \subseteq recorded
    BY <1>6 DEF MigrateReturns, UpToDate, At, MigInv, ReadStaysCurrent
  <2> QED
    BY <1>6, <2>1, MigrateAssumption DEF MigrateReturns, At, SessionEnds, Goes, MigInv, MigTypeOK,
       Running, Serialised, HasFile, ReadStaysCurrent, AppliedAsRecorded, Downward, DoneIsRecorded
<1>7. ASSUME NEW p \in Pods, StatementFails(p) PROVE MigInv'
  <2>1. /\ SessionEnds(p) /\ step' = [step EXCEPT ![p] = "failed"] /\ todo' = todo
        /\ faults' \in 0..MaxFaults
    BY <1>0, <1>7 DEF StatementFails, Fail, Goes, MigInv, MigTypeOK
  <2>2. CASE UNCHANGED <<recorded, applied>>
    BY <2>1, <2>2, SessionStep
  <2>3. CASE At(p, "record") /\ Commits(p)
    <3>1. /\ recorded' \subseteq AllFiles /\ applied' \in Seq(AllFiles)
          /\ AppliedAsRecorded' /\ Downward'
          /\ recorded' = recorded \cup {NextFile(p)}
      BY <2>3, CommitRecords
    <3>2. live' = {} /\ lockedBy' = Nobody
      BY <2>1, <2>3 DEF MigInv, Serialised, At, SessionEnds
    <3>3. MigTypeOK'
      BY <2>1, <3>1, <3>2 DEF MigInv, MigTypeOK, AllFiles
    <3>4. Serialised' /\ HasFile' /\ ReadStaysCurrent' /\ DoneIsRecorded'
      BY <2>1, <3>1, <3>2 DEF MigInv, MigTypeOK, Serialised, HasFile, ReadStaysCurrent, DoneIsRecorded
    <3> QED
      BY <3>1, <3>3, <3>4 DEF MigInv
  <2> QED
    BY <1>7, <2>2, <2>3 DEF StatementFails
<1>8. ASSUME NEW p \in Pods, SessionLost(p) \/ SessionReaped(p) PROVE MigInv'
  <2>1. /\ SessionEnds(p) /\ UNCHANGED <<recorded, applied, todo>>
        /\ step' = [step EXCEPT ![p] = step[p]]
        /\ faults' \in 0..MaxFaults /\ step[p] \in Running \cup {"killed"}
    BY <1>0, <1>8 DEF SessionLost, SessionReaped, At, MigInv, MigTypeOK
  <2> QED
    BY <2>1, SessionStep
<1>9. ASSUME NEW p \in Pods, MigrateKilled(p) PROVE MigInv'
  BY <1>0, <1>9 DEF MigrateKilled, Goes, MigInv, MigTypeOK, Running, Serialised,
     HasFile, ReadStaysCurrent, AppliedAsRecorded, Downward, DoneIsRecorded
<1>10. ASSUME NEW p \in Pods, RunAgain(p) PROVE MigInv'
  BY <1>10 DEF RunAgain, Goes, MigInv, MigTypeOK, Serialised,
     HasFile, ReadStaysCurrent, AppliedAsRecorded, Downward, DoneIsRecorded
<1>11. CASE UNCHANGED migVars
  BY <1>11 DEF migVars, MigInv, MigTypeOK, Serialised,
     HasFile, ReadStaysCurrent, AppliedAsRecorded, Downward, DoneIsRecorded
<1> QED
  BY <1>1, <1>2, <1>3, <1>4, <1>5, <1>6, <1>7, <1>8, <1>9, <1>10, <1>11
  DEF MigNext, MigrateStep

\* The invariant holds for every number of pods, releases and faults.
THEOREM MigInvariance == MigSpec => []MigInv
BY MigInitial, MigStep, PTL DEF MigSpec

\* The applied files a pod has read stay current while its session lives.
THEOREM ReadIsCurrent == MigSpec => []ReadStaysCurrent
BY MigInvariance, PTL DEF MigInv

\* Files are recorded as they are applied, once and in filename order.
THEOREM AppliedIsRecorded == MigSpec => []AppliedAsRecorded
BY MigInvariance, PTL DEF MigInv

\* A migration that returned without an error left nothing unapplied.
THEOREM MigratedUpToDate == MigSpec => []MigratedIsUpToDate
<1>1. MigInv => MigratedIsUpToDate
  BY DEF MigInv, DoneIsRecorded, AppliedAsRecorded, MigratedIsUpToDate
<1> QED
  BY <1>1, MigInvariance, PTL
-----------------------------------------------------------------------------
\* x is in the order E.
Listed(E, x) == \E k \in 1..Len(E) : E[k] = x

\* Parts O are running and E is the order in which they will be ended: what a
\* part that will be ended uses (U) is running, and is ended only after that part.
InOrder(O, E, U) ==
  \A part \in O : Listed(E, part) =>
    \A u \in U[part] :
      /\ u \in O
      /\ \A n \in 1..Len(E) : E[n] = u => \E m \in 1..(n - 1) : E[m] = part

UsesOf(p) == [part \in Parts |-> Uses(p, part)]

\* What is to be ended, the first first, should run return now: while it serves
\* the orderly end comes before what was deferred.
Ends(p) == IF stage[p] = "serving" THEN OrderlyEnd \o deferred[p] ELSE deferred[p]

EndsInOrder(p) == InOrder(open[p], Ends(p), UsesOf(p))

\* What run never leaves behind is going to be ended.
ToBeEnded(p) ==
  \A part \in open[p] : part \in Stragglers \cup {"session"} \/ Listed(Ends(p), part)

\* Until run returns every part has what it uses, and later the session has.
HasAll(p) ==
  /\ stage[p] # "closing" => \A part \in open[p] : UsesOf(p)[part] \subseteq open[p]
  /\ "session" \in open[p] => stage[p] = "closing" /\ "pg" \in open[p]

\* The API and the pool are ended by the orderly end alone.
EndedOnce(p) ==
  \A m, n \in 1..Len(deferred[p]) :
    deferred[p][m] \in {"http", "workers"} =>
      stage[p] = "closing" /\ (deferred[p][m] = deferred[p][n] => m = n)

Started ==
  {"lock", "transport", "workers", "reconciler", "scheduler", "keys", "listen", "serving"}

\* What run has opened when it gets to a stage, and what it has not.
OpenedSoFar(p) ==
  /\ stage[p] = "down" => open[p] = {} /\ deferred[p] = <<>>
  /\ stage[p] \in Started => "pg" \in open[p]
  /\ stage[p] \in Started \ {"lock"} /\ locker[p] \in {"redlock", "advisory"} => "locker" \in open[p]
  /\ stage[p] \in Started \ {"lock", "transport"} /\ Cfg.TRANSPORT = "kafka" => "kafka" \in open[p]
  /\ stage[p] \in Started \ {"lock", "transport", "workers"} => "workers" \in open[p]
  /\ stage[p] = "lock" => "locker" \notin open[p]
  /\ stage[p] \in {"lock", "transport", "workers"} =>
       {"workers", "reconciler", "consumer"} \cap open[p] = {}
  /\ stage[p] \in Started \ {"keys", "listen", "serving"} => "scheduler" \notin open[p]
  /\ stage[p] \in Started \ {"serving"} => "http" \notin open[p]
  /\ stage[p] \in Started => "publish" \notin open[p]

\* What each check on the way has established, and still holds.
Checked(p) ==
  /\ stage[p] # "down" => Validate(Cfg)
  /\ stage[p] # "down" /\ p \in inits => Files[p] \subseteq recorded
  /\ stage[p] \in {"listen", "serving"} => KeysFile \in recorded
  /\ locker[p] = "noop" => env.LOCK = "none"

\* The parts some statement of run ends.
EndedParts == {"pg", "locker", "kafka", "workers", "reconciler", "scheduler", "http"}

PodsTypeOK ==
  /\ inits \subseteq Pods
  /\ stage \in [Pods -> Started \cup {"down", "closing"}]
  /\ locker \in [Pods -> {"unset", "redlock", "advisory", "noop"}]
  /\ open \in [Pods -> SUBSET Parts]
  /\ deferred \in [Pods -> Seq(EndedParts)]

\* How the parts of p stand to each other.
PartsOK(p) == EndsInOrder(p) /\ ToBeEnded(p) /\ HasAll(p) /\ EndedOnce(p)

ServerInv ==
  /\ MigInv /\ PodsTypeOK
  /\ \A p \in Pods : PartsOK(p) /\ OpenedSoFar(p) /\ Checked(p)

\* F is E with x put first.
Pushed(F, E, x) ==
  /\ F \in Seq(EndedParts) /\ Len(E) \in Nat /\ Len(F) = 1 + Len(E) /\ F[1] = x
  /\ \A n \in 1..Len(E) : n + 1 \in 2..Len(F) /\ F[n + 1] = E[n]
  /\ \A n \in 2..Len(F) : n - 1 \in 1..Len(E) /\ F[n] = E[n - 1]
  /\ \A y : Listed(F, y) => y = x \/ Listed(E, y)
  /\ \A y : y = x \/ Listed(E, y) => Listed(F, y)

\* A defer of the end of x puts x first.
LEMMA PushList ==
  ASSUME NEW E \in Seq(EndedParts), NEW x \in EndedParts
  PROVE  Pushed(<<x>> \o E, E, x)
<1>0. PICK F : F = <<x>> \o E
  OBVIOUS
<1>1. /\ F \in Seq(EndedParts) /\ Len(E) \in Nat /\ Len(F) = 1 + Len(E) /\ F[1] = x
      /\ \A n \in 1..Len(E) : n + 1 \in 2..Len(F) /\ F[n + 1] = E[n]
  BY <1>0, SMT
<1>2. \A n \in 2..Len(F) : n - 1 \in 1..Len(E) /\ F[n] = E[n - 1]
  BY <1>1, SMT
<1>3. ASSUME NEW y, Listed(F, y) PROVE y = x \/ Listed(E, y)
  <2>1. PICK k \in 1..Len(F) : F[k] = y
    BY <1>3 DEF Listed
  <2>2. k = 1 \/ k \in 2..Len(F)
    BY <1>1, <2>1, SMT
  <2> QED
    BY <1>1, <1>2, <2>1, <2>2 DEF Listed
<1>4. ASSUME NEW y, y = x \/ Listed(E, y) PROVE Listed(F, y)
  <2>1. CASE y = x
    <3>1. 1 \in 1..Len(F)
      BY <1>1, SMT
    <3> QED
      BY <1>1, <2>1, <3>1 DEF Listed
  <2>2. CASE Listed(E, y)
    <3>1. PICK k \in 1..Len(E) : E[k] = y
      BY <2>2 DEF Listed
    <3>2. k + 1 \in 1..Len(F)
      BY <1>1, <3>1, SMT
    <3> QED
      BY <1>1, <3>1, <3>2 DEF Listed
  <2> QED
    BY <1>4, <2>1, <2>2
<1>5. Pushed(F, E, x)
  BY <1>1, <1>2, <1>3, <1>4 DEF Pushed
<1> QED
  BY <1>0, <1>5

\* A defer of the end of a part nothing uses yet keeps the order, whatever is
\* opened that nothing ends.
LEMMA PushInOrder ==
  ASSUME NEW O, NEW E \in Seq(EndedParts), NEW U, NEW x \in EndedParts,
         NEW N \in SUBSET {x, "consumer"}, InOrder(O, E, U),
         \A part \in O : x \notin U[part],
         \A part \in (O \cup N) \cap {x} : U[part] \subseteq O /\ x \notin U[part]
  PROVE  InOrder(O \cup N, <<x>> \o E, U)
<1>1. PICK F : F = <<x>> \o E
  OBVIOUS
<1>2. /\ Len(E) \in Nat /\ Len(F) = 1 + Len(E) /\ F[1] = x
      /\ \A n \in 1..Len(E) : n + 1 \in 2..Len(F) /\ F[n + 1] = E[n]
      /\ \A n \in 2..Len(F) : n - 1 \in 1..Len(E) /\ F[n] = E[n - 1]
      /\ \A y : Listed(F, y) => y = x \/ Listed(E, y)
      /\ \A y : y = x \/ Listed(E, y) => Listed(F, y)
  <2>1. Pushed(F, E, x)
    BY <1>1, PushList
  <2> QED
    BY <2>1 DEF Pushed
<1> SUFFICES ASSUME NEW part \in O \cup N, Listed(F, part), NEW u \in U[part]
             PROVE  /\ u \in O \cup N
                    /\ \A n \in 1..Len(F) : F[n] = u => \E m \in 1..(n - 1) : F[m] = part
  BY <1>1 DEF InOrder
<1>3. part = x \/ (part \in O /\ Listed(E, part))
  <2>1. ~Listed(E, "consumer") \/ "consumer" \in EndedParts
    BY SMT DEF Listed
  <2>2. "consumer" \notin EndedParts
    BY DEF EndedParts
  <2> QED
    BY <1>2, <2>1, <2>2
<1>4. u \in O /\ u # x
  <2>1. CASE part = x
    BY <2>1
  <2>2. CASE part # x
    BY <1>3, <2>2 DEF InOrder
  <2> QED
    BY <2>1, <2>2
<1>5. ASSUME NEW n \in 1..Len(F), F[n] = u PROVE \E m \in 1..(n - 1) : F[m] = part
  <2>1. n \in 2..Len(F) /\ 1 \in 1..(n - 1)
    BY <1>2, <1>4, <1>5, SMT
  <2>2. CASE part = x
    BY <1>2, <2>1, <2>2
  <2>3. CASE part # x
    <3>1. \A k \in 1..Len(E) : E[k] = u => \E m \in 1..(k - 1) : E[m] = part
      BY <1>3, <2>3 DEF InOrder
    <3>2. PICK k : k = n - 1
      OBVIOUS
    <3>3. PICK m \in 1..(k - 1) : E[m] = part
      BY <1>2, <1>5, <2>1, <3>1, <3>2
    <3>4. m \in 1..Len(E) /\ m + 1 \in 1..(n - 1)
      BY <1>2, <2>1, <3>2, <3>3, SMT
    <3> QED
      BY <1>2, <3>3, <3>4
  <2> QED
    BY <2>2, <2>3
<1> QED
  BY <1>4, <1>5

\* F is what is left of E when its first part has been ended.
Popped(F, E) ==
  /\ F \in Seq(EndedParts) /\ Head(E) = E[1] /\ Head(E) \in EndedParts
  /\ Len(E) \in Nat \ {0} /\ Len(F) \in Nat /\ Len(F) = Len(E) - 1
  /\ \A n \in 1..Len(F) : n + 1 \in 1..Len(E) /\ F[n] = E[n + 1]
  /\ \A y : Listed(E, y) => y = Head(E) \/ Listed(F, y)
  /\ \A y : Listed(F, y) => Listed(E, y)

LEMMA PopList ==
  ASSUME NEW E \in Seq(EndedParts), E # <<>> PROVE Popped(Tail(E), E)
<1>0. PICK F : F = Tail(E)
  OBVIOUS
<1>1. /\ F \in Seq(EndedParts) /\ Head(E) = E[1] /\ Head(E) \in EndedParts
      /\ Len(E) \in Nat \ {0} /\ Len(F) \in Nat /\ Len(F) = Len(E) - 1
      /\ \A n \in 1..Len(F) : n + 1 \in 1..Len(E) /\ F[n] = E[n + 1]
  BY <1>0, NoLength, SMT
<1>2. ASSUME NEW y, Listed(E, y) PROVE y = Head(E) \/ Listed(F, y)
  <2>1. PICK k \in 1..Len(E) : E[k] = y
    BY <1>2 DEF Listed
  <2>2. CASE k = 1
    BY <1>1, <2>1, <2>2
  <2>3. CASE k # 1
    <3>1. k - 1 \in 1..Len(F) /\ (k - 1) + 1 = k
      BY <1>1, <2>1, <2>3, SMT
    <3>2. F[k - 1] = E[k]
      BY <1>1, <3>1
    <3> QED
      BY <2>1, <3>1, <3>2 DEF Listed
  <2> QED
    BY <2>2, <2>3
<1>3. ASSUME NEW y, Listed(F, y) PROVE Listed(E, y)
  BY <1>1, <1>3 DEF Listed
<1>4. Popped(F, E)
  BY <1>1, <1>2, <1>3 DEF Popped
<1> QED
  BY <1>0, <1>4

\* The part that is ended next is used by none that is still to be ended.  If it
\* goes on all the same, nothing will end it.
LEMMA CloseInOrder ==
  ASSUME NEW O, NEW E \in Seq(EndedParts), NEW U, InOrder(O, E, U), E # <<>>, NEW Q,
         Q = O \ {Head(E)} \/ (Q = O /\ ~Listed(Tail(E), Head(E)))
  PROVE  InOrder(Q, Tail(E), U)
<1>1. PICK F : F = Tail(E)
  OBVIOUS
<1>2. /\ Head(E) = E[1] /\ Len(E) \in Nat \ {0} /\ Len(F) \in Nat /\ Len(F) = Len(E) - 1
      /\ \A n \in 1..Len(F) : n + 1 \in 1..Len(E) /\ F[n] = E[n + 1]
      /\ \A y : Listed(F, y) => Listed(E, y)
  <2>1. Popped(F, E)
    BY <1>1, PopList
  <2> QED
    BY <2>1 DEF Popped
<1> SUFFICES ASSUME NEW part \in Q, Listed(F, part), NEW u \in U[part]
             PROVE  /\ u \in Q
                    /\ \A n \in 1..Len(F) : F[n] = u => \E m \in 1..(n - 1) : F[m] = part
  BY <1>1 DEF InOrder
<1>3. part \in O /\ part # E[1]
  BY <1>1, <1>2
<1>4. u \in O /\ \A n \in 1..Len(E) : E[n] = u => \E m \in 1..(n - 1) : E[m] = part
  BY <1>2, <1>3 DEF InOrder
<1>5. u # E[1]
  BY <1>2, <1>4, SMT
<1>6. u \in Q
  BY <1>2, <1>4, <1>5
<1>7. ASSUME NEW n \in 1..Len(F), F[n] = u PROVE \E m \in 1..(n - 1) : F[m] = part
  <2>1. n + 1 \in 1..Len(E) /\ E[n + 1] = u
    BY <1>2, <1>7
  <2>a. PICK k : k = n + 1
    OBVIOUS
  <2>b. PICK m \in 1..(k - 1) : E[m] = part
    BY <1>4, <2>1, <2>a
  <2>2. m \in 1..n /\ E[m] = part
    BY <2>1, <2>a, <2>b, SMT
  <2>3. m # 1
    BY <1>3, <2>2
  <2>4. m - 1 \in 1..(n - 1) /\ m - 1 \in 1..Len(F) /\ (m - 1) + 1 = m
    BY <1>2, <2>1, <2>2, <2>3, SMT
  <2>5. F[m - 1] = part
    BY <1>2, <2>2, <2>4
  <2> QED
    BY <2>4, <2>5
<1> QED
  BY <1>6, <1>7

\* F is E with the orderly end before it.
Served(F, E) ==
  /\ F \in Seq(EndedParts) /\ Len(E) \in Nat /\ Len(F) = 3 + Len(E)
  /\ F[1] = "http" /\ F[2] = "reconciler" /\ F[3] = "workers"
  /\ \A n \in 1..Len(E) : n + 3 \in 4..Len(F) /\ F[n + 3] = E[n]
  /\ \A n \in 4..Len(F) : n - 3 \in 1..Len(E) /\ F[n] = E[n - 3]
  /\ \A y : Listed(F, y) => y \in {"http", "reconciler", "workers"} \/ Listed(E, y)
  /\ \A y : y \in {"http", "reconciler", "workers"} \/ Listed(E, y) => Listed(F, y)

LEMMA ServeList ==
  ASSUME NEW E \in Seq(EndedParts) PROVE Served(OrderlyEnd \o E, E)
<1>0. PICK F : F = OrderlyEnd \o E
  OBVIOUS
<1>1. OrderlyEnd \in Seq(EndedParts) /\ Len(OrderlyEnd) = 3
  BY SMT DEF OrderlyEnd, EndedParts
<1>2. /\ F \in Seq(EndedParts) /\ Len(E) \in Nat /\ Len(F) = 3 + Len(E)
      /\ F[1] = "http" /\ F[2] = "reconciler" /\ F[3] = "workers"
      /\ \A n \in 1..Len(E) : n + 3 \in 4..Len(F) /\ F[n + 3] = E[n]
  <2>1. F \in Seq(EndedParts)
    BY <1>0, <1>1, SMT
  <2>2. /\ Len(E) \in Nat /\ Len(F) = 3 + Len(E)
        /\ F[1] = "http" /\ F[2] = "reconciler" /\ F[3] = "workers"
        /\ \A n \in 1..Len(E) : n + 3 \in 4..Len(F) /\ F[n + 3] = E[n]
    BY <1>0, <1>1, SMT DEF OrderlyEnd
  <2> QED
    BY <2>1, <2>2
<1>3. \A n \in 4..Len(F) : n - 3 \in 1..Len(E) /\ F[n] = E[n - 3]
  BY <1>2, SMT
<1>4. ASSUME NEW y, Listed(F, y) PROVE y \in {"http", "reconciler", "workers"} \/ Listed(E, y)
  <2>1. PICK k \in 1..Len(F) : F[k] = y
    BY <1>4 DEF Listed
  <2>2. k \in {1, 2, 3} \/ k \in 4..Len(F)
    BY <1>2, <2>1, SMT
  <2> QED
    BY <1>2, <1>3, <2>1, <2>2 DEF Listed
<1>5. ASSUME NEW y, y \in {"http", "reconciler", "workers"} \/ Listed(E, y) PROVE Listed(F, y)
  <2>1. 1 \in 1..Len(F) /\ 2 \in 1..Len(F) /\ 3 \in 1..Len(F)
    BY <1>2, SMT
  <2>2. CASE y \in {"http", "reconciler", "workers"}
    BY <1>2, <2>1, <2>2 DEF Listed
  <2>3. CASE Listed(E, y)
    <3>1. PICK k \in 1..Len(E) : E[k] = y
      BY <2>3 DEF Listed
    <3>2. k + 3 \in 1..Len(F)
      BY <1>2, <3>1, SMT
    <3> QED
      BY <1>2, <3>1, <3>2 DEF Listed
  <2> QED
    BY <1>5, <2>2, <2>3
<1>6. Served(F, E)
  BY <1>2, <1>3, <1>4, <1>5 DEF Served
<1> QED
  BY <1>0, <1>6

\* The orderly end comes first: the API before all it uses, the reconciler
\* before the workers, and they before what was deferred.
LEMMA ServeInOrder ==
  ASSUME NEW O, NEW E \in Seq(EndedParts), NEW U, InOrder(O, E, U),
         \A part \in O : U[part] \subseteq O,
         U["http"] \subseteq O \ {"http"},
         U["reconciler"] \subseteq {"pg", "workers"},
         U["workers"] \subseteq {"pg", "locker"},
         \A part \in EndedParts \ {"http", "reconciler", "workers"} :
           U[part] \cap {"http", "reconciler", "workers"} = {}
  PROVE  InOrder(O \cup {"http"}, OrderlyEnd \o E, U)
<1>1. PICK F : F = OrderlyEnd \o E
  OBVIOUS
<1>2. /\ F \in Seq(EndedParts) /\ Len(E) \in Nat /\ Len(F) = 3 + Len(E)
      /\ F[1] = "http" /\ F[2] = "reconciler" /\ F[3] = "workers"
      /\ \A n \in 1..Len(E) : n + 3 \in 4..Len(F) /\ F[n + 3] = E[n]
      /\ \A n \in 4..Len(F) : n - 3 \in 1..Len(E) /\ F[n] = E[n - 3]
      /\ \A y : Listed(F, y) => y \in {"http", "reconciler", "workers"} \/ Listed(E, y)
  <2>1. Served(F, E)
    BY <1>1, ServeList
  <2> QED
    BY <2>1 DEF Served
<1> SUFFICES ASSUME NEW part \in O \cup {"http"}, Listed(F, part), NEW u \in U[part]
             PROVE  /\ u \in O
                    /\ \A n \in 1..Len(F) : F[n] = u => \E m \in 1..(n - 1) : F[m] = part
  <2>1. InOrder(O \cup {"http"}, F, U)
    BY DEF InOrder
  <2> QED
    BY <1>1, <2>1
<1>3. u \in O
  OBVIOUS
<1>4. ASSUME NEW n \in 1..Len(F), F[n] = u PROVE \E m \in 1..(n - 1) : F[m] = part
  <2>1. CASE part = "http"
    <3>1. n # 1
      BY <1>2, <1>4, <2>1
    <3>2. 1 \in 1..(n - 1)
      BY <1>2, <3>1, SMT
    <3> QED
      BY <1>2, <2>1, <3>2
  <2>2. CASE part = "reconciler"
    <3>1. u \in {"pg", "workers"}
      BY <2>2
    <3>2. n # 1 /\ n # 2
      BY <1>2, <1>4, <3>1
    <3>3. 2 \in 1..(n - 1)
      BY <1>2, <3>2, SMT
    <3> QED
      BY <1>2, <2>2, <3>3
  <2>3. CASE part = "workers"
    <3>1. u \in {"pg", "locker"}
      BY <2>3
    <3>2. n # 1 /\ n # 2 /\ n # 3
      BY <1>2, <1>4, <3>1
    <3>3. 3 \in 1..(n - 1)
      BY <1>2, <3>2, SMT
    <3> QED
      BY <1>2, <2>3, <3>3
  <2>4. CASE part \notin {"http", "reconciler", "workers"}
    <3>1. part \in O /\ Listed(E, part)
      BY <1>2, <2>4
    <3>2. part \in EndedParts
      BY <3>1, SMT DEF Listed
    <3>3. u \notin {"http", "reconciler", "workers"}
      BY <2>4, <3>2
    <3>4. n # 1 /\ n # 2 /\ n # 3
      BY <1>2, <1>4, <3>3
    <3>5. n \in 4..Len(F)
      BY <1>2, <3>4, SMT
    <3>6. \A k \in 1..Len(E) : E[k] = u => \E m \in 1..(k - 1) : E[m] = part
      BY <3>1 DEF InOrder
    <3>7. PICK k : k = n - 3
      OBVIOUS
    <3>8. PICK m \in 1..(k - 1) : E[m] = part
      BY <1>2, <1>4, <3>5, <3>6, <3>7
    <3>9. m \in 1..Len(E) /\ m + 3 \in 1..(n - 1)
      BY <1>2, <3>5, <3>7, <3>8, SMT
    <3> QED
      BY <1>2, <3>8, <3>9
  <2> QED
    BY <2>1, <2>2, <2>3, <2>4
<1> QED
  BY <1>3, <1>4

\* A part that nothing ends joins, and one that no other uses leaves.
LEMMA JoinInOrder ==
  ASSUME NEW O, NEW E, NEW U, NEW y, InOrder(O, E, U), ~Listed(E, y)
  PROVE  InOrder(O \cup {y}, E, U)
BY DEF InOrder

LEMMA LeaveInOrder ==
  ASSUME NEW O, NEW E, NEW U, NEW y, InOrder(O, E, U), \A part \in O : y \notin U[part]
  PROVE  InOrder(O \ {y}, E, U)
<1>1. PICK Q : Q = O \ {y}
  OBVIOUS
<1>2. Q \subseteq O /\ \A part \in Q : \A u \in U[part] : u \in O => u \in Q
  BY <1>1
<1>3. InOrder(Q, E, U)
  BY <1>2 DEF InOrder
<1> QED
  BY <1>1, <1>3

\* What a part uses, one part at a time.
LEMMA UsesOfParts ==
  ASSUME NEW p \in Pods
  PROVE  /\ UsesOf(p)["pg"] = {} /\ UsesOf(p)["kafka"] = {} /\ UsesOf(p)["session"] = {"pg"}
         /\ UsesOf(p)["reconciler"] = {"pg", "workers"}
         /\ UsesOf(p)["consumer"] = {"kafka", "workers"}
         /\ UsesOf(p)["locker"] \subseteq {"pg"}
         /\ UsesOf(p)["workers"] \subseteq {"pg", "locker"}
         /\ locker[p] \notin {"redlock", "advisory"} => UsesOf(p)["workers"] \subseteq {"pg"}
         /\ \A part \in {"scheduler", "http", "publish"} :
              /\ UsesOf(p)[part] \subseteq {"pg", "kafka"}
              /\ Cfg.TRANSPORT # "kafka" => UsesOf(p)[part] \subseteq {"pg"}
         /\ \A part \in Parts : UsesOf(p)[part] = Uses(p, part)
         /\ \A part \in Parts : locker' = locker /\ env' = env => UsesOf(p)'[part] = UsesOf(p)[part]
         /\ \A part \in Parts \ {"locker", "workers"} :
              env' = env => UsesOf(p)'[part] = UsesOf(p)[part]
<1>1. \A part \in Parts : UsesOf(p)[part] = Uses(p, part) /\ UsesOf(p)'[part] = Uses(p, part)'
  BY DEF UsesOf
<1>2. Uses(p, "pg") = {} /\ Uses(p, "kafka") = {} /\ Uses(p, "session") = {"pg"}
  BY DEF Uses
<1>3. Uses(p, "reconciler") = {"pg", "workers"} /\ Uses(p, "consumer") = {"kafka", "workers"}
  BY DEF Uses
<1>4. Uses(p, "locker") \subseteq {"pg"}
  BY DEF Uses
<1>5. /\ Uses(p, "workers") \subseteq {"pg", "locker"}
      /\ locker[p] \notin {"redlock", "advisory"} => Uses(p, "workers") \subseteq {"pg"}
  BY DEF Uses
<1>6. ASSUME NEW part \in {"scheduler", "http", "publish"}
      PROVE  /\ Uses(p, part) \subseteq {"pg", "kafka"}
             /\ Cfg.TRANSPORT # "kafka" => Uses(p, part) \subseteq {"pg"}
  <2>1. Transport \subseteq {"pg", "kafka"} /\ (Cfg.TRANSPORT # "kafka" => Transport = {"pg"})
    BY DEF Transport
  <2>2. Uses(p, part) \subseteq {"pg"} \cup Transport
    BY <1>6 DEF Uses
  <2> QED
    BY <2>1, <2>2
<1>7. ASSUME NEW part \in Parts, env' = env, locker' = locker \/ part \notin {"locker", "workers"}
      PROVE  Uses(p, part)' = Uses(p, part)
  <2>1. Transport' = Transport
    BY <1>7 DEF Transport, Cfg
  <2> QED
    BY <1>7, <2>1 DEF Uses, Parts
<1> HIDE DEF Parts
<1>8. /\ {"pg", "kafka", "session", "workers", "reconciler", "consumer", "locker"} \subseteq Parts
      /\ {"scheduler", "http", "publish"} \subseteq Parts
  BY DEF Parts
<1> QED
  BY <1>1, <1>2, <1>3, <1>4, <1>5, <1>6, <1>7, <1>8, SMT

\* Only four parts are used at all.
LEMMA UsedParts ==
  ASSUME NEW p \in Pods, NEW part \in Parts
  PROVE  UsesOf(p)[part] \subseteq {"pg", "locker", "kafka", "workers"}
BY UsesOfParts, SMT DEF Parts

\* What has been recorded stays recorded.
LEMMA RecordedGrows ==
  ASSUME [MigNext]_migVars PROVE recorded \subseteq recorded'
BY DEF MigNext, MigrateStep, TakeLock, ReadApplied, ApplyFile, RecordFile, CommitFile, Commits,
   MigrateReturns, StatementFails, RunAgain, SessionLost, SessionReaped, MigrateKilled, migVars

\* The parts of p may change, those of the other pods do not.
PartsOf(p) ==
  /\ open' \in [Pods -> SUBSET Parts] /\ deferred' \in [Pods -> Seq(EndedParts)]
  /\ \A q \in Pods \ {p} : open'[q] = open[q] /\ deferred'[q] = deferred[q]

\* They change in this way.
LEMMA PartsChange ==
  ASSUME ServerInv, NEW p \in Pods, NEW O \in SUBSET Parts, NEW E \in Seq(EndedParts),
         open' = [open EXCEPT ![p] = O], deferred' = [deferred EXCEPT ![p] = E]
  PROVE  PartsOf(p) /\ open'[p] = O /\ deferred'[p] = E
BY DEF ServerInv, PodsTypeOK, PartsOf

\* They may also stay.
LEMMA PartsStay ==
  ASSUME ServerInv, NEW p \in Pods, UNCHANGED <<open, deferred>>
  PROVE  PartsOf(p)
BY DEF ServerInv, PodsTypeOK, PartsOf

\* A step of p leaves the other pods as they are.
LEMMA PodStep ==
  ASSUME ServerInv, NEW p \in Pods, NEW s, NEW l,
         MigInv', recorded \subseteq recorded', UNCHANGED <<env, inits>>, PartsOf(p),
         s \in Started \cup {"down", "closing"}, stage' = [stage EXCEPT ![p] = s],
         l \in {"unset", "redlock", "advisory", "noop"}, locker' = [locker EXCEPT ![p] = l],
         PartsOK(p)', OpenedSoFar(p)', Checked(p)'
  PROVE  ServerInv'
<1>1. PodsTypeOK'
  BY DEF ServerInv, PodsTypeOK, PartsOf
<1>2. ASSUME NEW q \in Pods, q # p PROVE PartsOK(q)' /\ OpenedSoFar(q)' /\ Checked(q)'
  <2>1. Cfg' = Cfg
    BY DEF Cfg
  <2>2. /\ stage'[q] = stage[q] /\ locker'[q] = locker[q]
        /\ open'[q] = open[q] /\ deferred'[q] = deferred[q]
    BY <1>2 DEF ServerInv, PodsTypeOK, PartsOf
  <2>3. Ends(q)' = Ends(q)
    BY <2>2 DEF Ends
  <2>4. UsesOf(q)' = UsesOf(q)
    BY <2>1, <2>2 DEF UsesOf, Uses, Transport
  <2>5. PartsOK(q)'
    <3>1. PartsOK(q)
      BY DEF ServerInv
    <3>2. EndsInOrder(q)' /\ ToBeEnded(q)'
      BY <2>2, <2>3, <2>4, <3>1 DEF PartsOK, EndsInOrder, ToBeEnded
    <3>3. HasAll(q)'
      BY <2>2, <2>4, <3>1 DEF PartsOK, HasAll
    <3>4. EndedOnce(q)'
      BY <2>2, <3>1, SMT DEF PartsOK, EndedOnce
    <3> QED
      BY <3>2, <3>3, <3>4 DEF PartsOK
  <2>6. OpenedSoFar(q)'
    BY <2>1, <2>2 DEF ServerInv, OpenedSoFar
  <2>7. Checked(q)'
    BY <2>1, <2>2 DEF ServerInv, Checked
  <2> QED
    BY <2>5, <2>6, <2>7
<1> QED
  BY <1>1, <1>2 DEF ServerInv

\* Before run returns the API and the pool are in no defer.
LEMMA NotDeferred ==
  ASSUME NEW p \in Pods, EndedOnce(p), stage[p] # "closing"
  PROVE  \A y \in {"http", "workers"} : ~Listed(deferred[p], y)
BY DEF EndedOnce, Listed

\* run opens x, or finds it disabled, and defers its end; the consumer may start.
\* They have what they use, and nothing that runs uses x.
OpensNext(p, x, N) ==
  /\ x \in EndedParts \ {"http", "workers"} /\ N \subseteq {x, "consumer"}
  /\ stage[p] \notin {"serving", "closing"} /\ stage'[p] \notin {"serving", "closing"}
  /\ Opens(p, N, <<x>>)
  /\ \A part \in open[p] : UsesOf(p)'[part] = UsesOf(p)[part] /\ x \notin UsesOf(p)[part]
  /\ \A part \in N : UsesOf(p)'[part] \subseteq open[p]
  /\ x \in N => x \notin UsesOf(p)'[x]

LEMMA OpensInOrder ==
  ASSUME ServerInv, NEW p \in Pods, NEW x, NEW N, OpensNext(p, x, N)
  PROVE  PartsOK(p)' /\ PartsOf(p) /\ open'[p] = open[p] \cup N
<1>0. /\ x \in EndedParts \ {"http", "workers"} /\ N \in SUBSET {x, "consumer"}
      /\ stage[p] \notin {"serving", "closing"} /\ stage'[p] \notin {"serving", "closing"}
      /\ Opens(p, N, <<x>>)
      /\ \A part \in open[p] : UsesOf(p)'[part] = UsesOf(p)[part]
      /\ \A part \in open[p] : x \notin UsesOf(p)[part]
      /\ \A part \in N : UsesOf(p)'[part] \subseteq open[p]
      /\ x \in N => x \notin UsesOf(p)'[x]
  BY DEF OpensNext
<1>1. PICK V : V = UsesOf(p)'
  OBVIOUS
<1>2. PICK E : E = deferred[p]
  OBVIOUS
<1>3. PICK F : F = <<x>> \o E
  OBVIOUS
<1>4. /\ open[p] \in SUBSET Parts /\ E \in Seq(EndedParts)
      /\ open' = [open EXCEPT ![p] = open[p] \cup N]
      /\ deferred' = [deferred EXCEPT ![p] = F]
  BY <1>0, <1>2, <1>3 DEF ServerInv, PodsTypeOK, Opens, Push
<1>5. /\ F \in Seq(EndedParts) /\ Len(E) \in Nat /\ Len(F) = 1 + Len(E) /\ F[1] = x
      /\ \A n \in 2..Len(F) : n - 1 \in 1..Len(E) /\ F[n] = E[n - 1]
      /\ \A y : Listed(F, y) => y = x \/ Listed(E, y)
      /\ \A y : y = x \/ Listed(E, y) => Listed(F, y)
  <2>1. Pushed(F, E, x)
    BY <1>0, <1>3, <1>4, PushList
  <2> QED
    BY <2>1 DEF Pushed
<1>6. open[p] \cup N \in SUBSET Parts
  BY <1>0, <1>4 DEF EndedParts, Parts
<1>7. PartsOf(p) /\ open'[p] = open[p] \cup N /\ deferred'[p] = F
  BY <1>0, <1>4, <1>5, <1>6, PartsChange
<1>8. /\ InOrder(open[p], E, UsesOf(p)) /\ Ends(p)' = F /\ Ends(p) = E
      /\ \A part \in open[p] : part \in Stragglers \cup {"session"} \/ Listed(E, part)
      /\ \A part \in open[p] : UsesOf(p)[part] \subseteq open[p]
      /\ "session" \notin open[p]
      /\ \A y \in {"http", "workers"} : ~Listed(E, y)
  <2>1. PartsOK(p) /\ Ends(p)' = F /\ Ends(p) = E
    BY <1>0, <1>2, <1>7 DEF ServerInv, Ends
  <2>2. \A y \in {"http", "workers"} : ~Listed(E, y)
    BY <1>0, <1>2, <2>1, NotDeferred DEF PartsOK
  <2> QED
    BY <1>0, <2>1, <2>2 DEF PartsOK, EndsInOrder, ToBeEnded, HasAll
<1>9. EndsInOrder(p)'
  <2>1. InOrder(open[p], E, V)
    BY <1>0, <1>1, <1>8, SMT DEF InOrder
  <2>2. /\ \A part \in open[p] : x \notin V[part]
        /\ \A part \in (open[p] \cup N) \cap {x} : V[part] \subseteq open[p] /\ x \notin V[part]
    BY <1>0, <1>1, <1>8
  <2>3. InOrder(open[p] \cup N, F, V)
    BY <1>0, <1>3, <1>4, <2>1, <2>2, PushInOrder
  <2> QED
    BY <1>1, <1>7, <1>8, <2>3 DEF EndsInOrder
<1>10. ToBeEnded(p)'
  <2>1. \A part \in N : part \in Stragglers \/ Listed(F, part)
    BY <1>0, <1>5 DEF Stragglers
  <2>2. \A part \in open[p] \cup N : part \in Stragglers \cup {"session"} \/ Listed(F, part)
    BY <1>5, <1>8, <2>1
  <2> QED
    BY <1>7, <1>8, <2>2 DEF ToBeEnded
<1>11. HasAll(p)'
  <2>1. \A part \in open'[p] : V[part] \subseteq open[p]
    BY <1>0, <1>1, <1>7, <1>8
  <2>2. "session" \notin open'[p]
    BY <1>0, <1>7, <1>8 DEF EndedParts
  <2> QED
    BY <1>0, <1>1, <1>7, <2>1, <2>2 DEF HasAll
<1>12. EndedOnce(p)'
  <2>1. ASSUME NEW m \in 1..Len(F) PROVE F[m] \notin {"http", "workers"}
    <3>1. m = 1 \/ m \in 2..Len(F)
      BY <1>5, SMT
    <3> QED
      BY <1>0, <1>5, <1>8, <3>1 DEF Listed
  <2> QED
    BY <1>0, <1>7, <2>1 DEF EndedOnce
<1> QED
  BY <1>7, <1>9, <1>10, <1>11, <1>12 DEF PartsOK

\* run opens the API or the pool, and defers nothing.
LEMMA OpensQuietly ==
  ASSUME ServerInv, NEW p \in Pods, NEW y \in {"http", "workers"},
         stage[p] \notin {"serving", "closing"}, stage'[p] # "closing", Opens(p, {y}, <<>>),
         UNCHANGED <<env, locker>>, UsesOf(p)[y] \subseteq open[p]
  PROVE  /\ PartsOf(p) /\ HasAll(p)' /\ EndedOnce(p)'
         /\ open'[p] = open[p] \cup {y} /\ deferred'[p] = deferred[p]
         /\ InOrder(open[p] \cup {y}, deferred[p], UsesOf(p)) /\ UsesOf(p)' = UsesOf(p)
<1>1. open[p] \in SUBSET Parts /\ deferred[p] \in Seq(EndedParts) /\ PartsOK(p)
  BY DEF ServerInv, PodsTypeOK
<1>2. <<>> \o deferred[p] = deferred[p]
  BY <1>1, SMT
<1>3. open[p] \cup {y} \in SUBSET Parts
  BY <1>1 DEF Parts
<1>4. PartsOf(p) /\ open'[p] = open[p] \cup {y} /\ deferred'[p] = deferred[p]
  <2>1. open' = [open EXCEPT ![p] = open[p] \cup {y}]
    BY DEF Opens
  <2>2. deferred' = [deferred EXCEPT ![p] = deferred[p]]
    BY <1>2 DEF Opens, Push
  <2> QED
    BY <1>1, <1>3, <2>1, <2>2, PartsChange
<1>5. UsesOf(p)' = UsesOf(p)
  BY DEF UsesOf, Uses, Transport, Cfg
<1>6. \A z \in {"http", "workers"} : ~Listed(deferred[p], z)
  BY <1>1, NotDeferred DEF PartsOK
<1>7. HasAll(p)'
  BY <1>1, <1>4, <1>5 DEF PartsOK, HasAll
<1>8. EndedOnce(p)'
  BY <1>4, <1>6 DEF EndedOnce, Listed
<1>9. InOrder(open[p] \cup {y}, deferred[p], UsesOf(p))
  <2>1. InOrder(open[p], deferred[p], UsesOf(p))
    BY <1>1 DEF PartsOK, EndsInOrder, Ends
  <2> QED
    BY <1>6, <2>1, JoinInOrder
<1> QED
  BY <1>4, <1>5, <1>7, <1>8, <1>9

\* run returns, or goes on without opening anything.
LEMMA StaysInOrder ==
  ASSUME ServerInv, NEW p \in Pods, open' = open, Ends(p)' = Ends(p), EndedOnce(p)',
         stage[p] = "closing" => stage'[p] = "closing",
         \A part \in open[p] : UsesOf(p)'[part] = UsesOf(p)[part]
  PROVE  PartsOK(p)'
<1>1. PartsOK(p)
  BY DEF ServerInv
<1>2. EndsInOrder(p)'
  <2>1. PICK V : V = UsesOf(p)'
    OBVIOUS
  <2>2. InOrder(open[p], Ends(p), UsesOf(p))
    BY <1>1 DEF PartsOK, EndsInOrder
  <2>3. InOrder(open[p], Ends(p), V)
    BY <2>1, <2>2, SMT DEF InOrder
  <2> QED
    BY <2>1, <2>3 DEF EndsInOrder
<1>a. ToBeEnded(p)'
  BY <1>1 DEF PartsOK, ToBeEnded
<1>3. HasAll(p)'
  BY <1>1 DEF PartsOK, HasAll
<1> QED
  BY <1>2, <1>a, <1>3 DEF PartsOK

\* What a part uses depends on the settings and the lock manager alone.
LEMMA SameUses ==
  ASSUME ServerInv, NEW p \in Pods, UNCHANGED <<env, locker>>
  PROVE  \A part \in open[p] : UsesOf(p)'[part] = UsesOf(p)[part]
<1>1. open[p] \subseteq Parts
  BY DEF ServerInv, PodsTypeOK
<1> QED
  BY <1>1, UsesOfParts

\* With no defer more, as long as run has not returned, or has by now.
LEMMA StillOnce ==
  ASSUME ServerInv, NEW p \in Pods, deferred' = deferred,
         stage[p] = "closing" => stage'[p] = "closing"
  PROVE  EndedOnce(p)'
BY DEF ServerInv, PartsOK, EndedOnce

\* The process is gone.
LEMMA GoneStep ==
  ASSUME ServerInv, NEW p \in Pods, Gone(p), faults' \in 0..MaxFaults,
         step' = [step EXCEPT ![p] = "start"],
         UNCHANGED <<lockedBy, recorded, applied, live, todo>>
  PROVE  ServerInv'
<1>1. MigInv'
  BY DEF ServerInv, MigInv, MigTypeOK, Running, Serialised,
     HasFile, ReadStaysCurrent, AppliedAsRecorded, Downward, DoneIsRecorded
<1>2. /\ stage' = [stage EXCEPT ![p] = "down"] /\ locker' = [locker EXCEPT ![p] = "unset"]
      /\ open' = [open EXCEPT ![p] = {}] /\ deferred' = [deferred EXCEPT ![p] = <<>>]
      /\ UNCHANGED <<env, inits>>
  BY DEF Gone, Reaches
<1>3. <<>> \in Seq(EndedParts) /\ Len(<<>>) = 0 /\ 1..Len(<<>>) = {}
  BY SMT
<1>4. /\ stage'[p] = "down" /\ locker'[p] = "unset"
      /\ PartsOf(p) /\ open'[p] = {} /\ deferred'[p] = <<>>
  BY <1>2, <1>3, PartsChange DEF ServerInv, PodsTypeOK
<1>5. PartsOK(p)'
  BY <1>3, <1>4 DEF PartsOK, EndsInOrder, InOrder, ToBeEnded, HasAll, EndedOnce
<1>6. OpenedSoFar(p)'
  BY <1>4 DEF OpenedSoFar, Started
<1>7. Checked(p)'
  BY <1>4 DEF Checked
<1>8. "down" \in Started \cup {"down", "closing"}
  OBVIOUS
<1> QED
  BY <1>1, <1>2, <1>4, <1>5, <1>6, <1>7, <1>8, PodStep

\* Nothing has been opened.
LEMMA ServerInitial == ServerInit => ServerInv
<1> SUFFICES ASSUME ServerInit PROVE ServerInv
  OBVIOUS
<1>1. MigInv
  BY MigInitial DEF ServerInit
<1>2. <<>> \in Seq(EndedParts) /\ 1..Len(<<>>) = {}
  BY SMT
<1>3. PodsTypeOK
  BY <1>2 DEF ServerInit, PodsTypeOK
<1>4. ASSUME NEW p \in Pods PROVE PartsOK(p) /\ OpenedSoFar(p) /\ Checked(p)
  <2>1. stage[p] = "down" /\ locker[p] = "unset" /\ open[p] = {} /\ deferred[p] = <<>>
    BY DEF ServerInit
  <2>2. PartsOK(p)
    BY <1>2, <2>1 DEF PartsOK, EndsInOrder, InOrder, ToBeEnded, HasAll, EndedOnce
  <2> QED
    BY <2>1, <2>2 DEF OpenedSoFar, Checked, Started
<1> QED
  BY <1>1, <1>3, <1>4 DEF ServerInv

\* The migrations go on, and the servers stay as they are.
LEMMA MigratingStep ==
  ASSUME ServerInv, [MigNext]_migVars, UNCHANGED serverVars
  PROVE  ServerInv'
<1>1. MigInv' /\ recorded \subseteq recorded'
  BY MigStep, RecordedGrows DEF ServerInv
<1>2. UNCHANGED <<env, inits, stage, locker, open, deferred>>
  BY DEF serverVars
<1>3. ASSUME NEW p \in Pods PROVE PartsOK(p)' /\ OpenedSoFar(p)' /\ Checked(p)'
  <2>1. Ends(p)' = Ends(p) /\ Cfg' = Cfg
    BY <1>2 DEF Ends, Cfg
  <2>2. PartsOK(p)'
    <3>1. EndedOnce(p)'
      BY <1>2, StillOnce
    <3>2. \A part \in open[p] : UsesOf(p)'[part] = UsesOf(p)[part]
      BY <1>2, SameUses
    <3> QED
      BY <1>2, <2>1, <3>1, <3>2, StaysInOrder
  <2>3. OpenedSoFar(p)'
    BY <1>2, <2>1 DEF ServerInv, OpenedSoFar
  <2>4. Checked(p)'
    BY <1>1, <1>2, <2>1 DEF ServerInv, Checked
  <2> QED
    BY <2>2, <2>3, <2>4
<1> QED
  BY <1>1, <1>2, <1>3 DEF ServerInv, PodsTypeOK

\* The steps in which run opens a part, one after the other.
LEMMA OpeningStep ==
  ASSUME ServerInv, NEW p \in Pods,
         \/ Bootstrap(p) \/ ChooseLock(p) \/ ChooseTransport(p) \/ StartWorkers(p)
         \/ StartReconciler(p) \/ StartScheduler(p)
  PROVE  ServerInv'
<1>0. UNCHANGED migVars /\ UNCHANGED <<env, inits>> /\ Cfg' = Cfg
  BY DEF Bootstrap, ChooseLock, ChooseTransport, StartWorkers, StartReconciler, StartScheduler,
     Cfg
<1>1. MigInv' /\ recorded' = recorded
  BY <1>0, MigStep DEF ServerInv, migVars
<1>2. /\ stage[p] \in Started \cup {"down", "closing"} /\ open[p] \in SUBSET Parts
      /\ locker[p] \in {"unset", "redlock", "advisory", "noop"}
      /\ deferred[p] \in Seq(EndedParts)
      /\ locker = [locker EXCEPT ![p] = locker[p]]
      /\ \A s : Reaches(p, s) => stage' = [stage EXCEPT ![p] = s] /\ stage'[p] = s
  BY DEF ServerInv, PodsTypeOK, Reaches
<1>3. OpenedSoFar(p) /\ Checked(p)
  BY DEF ServerInv
<1>s. {"lock", "transport", "workers", "reconciler", "scheduler", "keys"}
        \subseteq Started \cup {"down", "closing"}
  BY DEF Started
<1>4. CASE Bootstrap(p)
  <2>1. CASE ~Boots
    <3>1. UNCHANGED serverVars /\ UNCHANGED migVars
      BY <1>4, <2>1 DEF Bootstrap, serverVars
    <3> QED
      BY <3>1, MigratingStep
  <2>2. CASE Boots
    <3>1. /\ Opens(p, {"pg"}, <<"pg">>) /\ Reaches(p, "lock") /\ stage[p] = "down"
          /\ locker' = locker /\ Validate(Cfg)
          /\ p \in inits => step[p] = "done"
      BY <1>4, <2>2 DEF Bootstrap, Boots
    <3>2. open[p] = {}
      BY <1>3, <3>1 DEF OpenedSoFar
    <3>3. UsesOf(p)'["pg"] = {} /\ "pg" \in EndedParts \ {"http", "workers"}
      BY <1>0, <3>1, UsesOfParts DEF Parts, EndedParts
    <3>4. PartsOK(p)' /\ PartsOf(p) /\ open'[p] = open[p] \cup {"pg"}
      <4>1. stage[p] \notin {"serving", "closing"} /\ stage'[p] \notin {"serving", "closing"}
        BY <1>2, <3>1, SMT
      <4>2. \A part \in open[p] : UsesOf(p)'[part] = UsesOf(p)[part] /\ "pg" \notin UsesOf(p)[part]
        BY <3>2
      <4>3. \A part \in {"pg"} : UsesOf(p)'[part] \subseteq open[p] /\ "pg" \notin UsesOf(p)'[part]
        BY <3>3
      <4>4. OpensNext(p, "pg", {"pg"})
        BY <3>1, <3>3, <4>1, <4>2, <4>3 DEF OpensNext
      <4> QED
        BY <4>4, OpensInOrder
    <3>5. OpenedSoFar(p)'
      BY <1>2, <3>1, <3>2, <3>4, SMT DEF OpenedSoFar, Started
    <3>6. Checked(p)'
      <4>1. p \in inits => Files[p] \subseteq recorded
        BY <3>1 DEF ServerInv, MigInv, DoneIsRecorded
      <4> QED
        BY <1>0, <1>1, <1>2, <1>3, <3>1, <4>1, SMT DEF Checked
    <3>a. /\ UNCHANGED <<env, inits>> /\ recorded \subseteq recorded'
          /\ "lock" \in Started \cup {"down", "closing"}
          /\ stage' = [stage EXCEPT ![p] = "lock"]
          /\ locker' = [locker EXCEPT ![p] = locker[p]]
      BY <1>0, <1>1, <1>2, <1>s, <3>1
    <3> QED
      BY <1>1, <1>2, <3>4, <3>5, <3>6, <3>a, PodStep
  <2> QED
    BY <2>1, <2>2
<1>5. CASE ChooseLock(p)
  <2>1. PICK k \in {"redlock", "advisory", "noop"} :
          /\ k = "noop" => Cfg.LOCK \notin {"redlock", "advisory"}
          /\ locker' = [locker EXCEPT ![p] = k] /\ locker'[p] = k
          /\ k = "noop" => UNCHANGED <<open, deferred>>
          /\ k # "noop" => Opens(p, {"locker"}, <<"locker">>)
    BY <1>5 DEF ChooseLock, ServerInv, PodsTypeOK
  <2>2. stage[p] = "lock" /\ Reaches(p, "transport")
    BY <1>5 DEF ChooseLock
  <2>3. /\ "pg" \in open[p] /\ {"locker", "scheduler", "http"} \cap open[p] = {}
        /\ {"workers", "reconciler", "consumer", "publish"} \cap open[p] = {}
    BY <1>3, <2>2 DEF OpenedSoFar, Started
  <2>4. /\ \A part \in open[p] : UsesOf(p)'[part] = UsesOf(p)[part] /\ "locker" \notin UsesOf(p)[part]
        /\ UsesOf(p)'["locker"] \subseteq {"pg"}
    <3>1. \A part \in Parts \ {"locker", "workers"} : UsesOf(p)'[part] = UsesOf(p)[part]
      BY <1>0, UsesOfParts
    <3>2. \A part \in Parts \ {"workers"} : "locker" \notin UsesOf(p)[part]
      BY UsesOfParts, SMT DEF Parts
    <3>3. UsesOf(p)'["locker"] = Uses(p, "locker")'
      BY DEF UsesOf, Parts
    <3>4. Uses(p, "locker")' \subseteq {"pg"}
      BY DEF Uses
    <3> QED
      BY <1>2, <2>3, <3>1, <3>2, <3>3, <3>4 DEF Parts
  <2>5. stage[p] \notin {"serving", "closing"} /\ stage'[p] = "transport"
    BY <1>2, <2>2
  <2>6. Checked(p)'
    <3>1. Validate(Cfg)
      BY <1>3, <2>2 DEF Checked
    <3>2. k = "noop" => Cfg.LOCK = "none"
      BY <2>1, <3>1 DEF Validate
    <3>3. Cfg.LOCK = IF env.LOCK = "" THEN "advisory" ELSE env.LOCK
      BY DEF Cfg, LoadFromEnvironment, str, Default
    <3> QED
      BY <1>0, <1>1, <1>3, <2>1, <2>2, <2>5, <3>1, <3>2, <3>3 DEF Checked
  <2>7. CASE k = "noop"
    <3>1. PartsOf(p) /\ open'[p] = open[p]
      BY <2>1, <2>7, PartsStay
    <3>2. PartsOK(p)'
      <4>1. Ends(p)' = Ends(p) /\ open' = open
        BY <2>1, <2>5, <2>7 DEF Ends
      <4>2. EndedOnce(p)'
        BY <2>1, <2>5, <2>7, StillOnce
      <4> QED
        BY <2>4, <2>5, <4>1, <4>2, StaysInOrder
    <3>3. OpenedSoFar(p)'
      BY <2>1, <2>3, <2>5, <2>7, <3>1 DEF OpenedSoFar, Started
    <3>a. /\ UNCHANGED <<env, inits>> /\ recorded \subseteq recorded'
          /\ "transport" \in Started \cup {"down", "closing"}
          /\ stage' = [stage EXCEPT ![p] = "transport"]
      BY <1>0, <1>1, <1>2, <1>s, <2>2
    <3> QED
      BY <1>1, <1>2, <2>1, <2>6, <3>1, <3>2, <3>3, <3>a, PodStep
  <2>8. CASE k # "noop"
    <3>1. PartsOK(p)' /\ PartsOf(p) /\ open'[p] = open[p] \cup {"locker"}
      <4>1. "locker" \in EndedParts \ {"http", "workers"} /\ stage'[p] \notin {"serving", "closing"}
        BY <2>5 DEF EndedParts
      <4>2. \A part \in {"locker"} :
              UsesOf(p)'[part] \subseteq open[p] /\ "locker" \notin UsesOf(p)'[part]
        BY <2>3, <2>4
      <4>3. OpensNext(p, "locker", {"locker"})
        BY <2>1, <2>4, <2>5, <2>8, <4>1, <4>2 DEF OpensNext
      <4> QED
        BY <4>3, OpensInOrder
    <3>2. OpenedSoFar(p)'
      BY <2>3, <2>5, <3>1 DEF OpenedSoFar, Started
    <3>a. /\ UNCHANGED <<env, inits>> /\ recorded \subseteq recorded'
          /\ "transport" \in Started \cup {"down", "closing"}
          /\ stage' = [stage EXCEPT ![p] = "transport"]
      BY <1>0, <1>1, <1>2, <1>s, <2>2
    <3> QED
      BY <1>1, <1>2, <2>1, <2>6, <3>1, <3>2, <3>a, PodStep
  <2> QED
    BY <2>7, <2>8
<1>6. ASSUME locker' = locker
      PROVE  \A part \in Parts : UsesOf(p)'[part] = UsesOf(p)[part]
  BY <1>0, <1>6, UsesOfParts
<1>7. CASE ChooseTransport(p)
  <2>1. /\ stage[p] = "transport" /\ Reaches(p, "workers") /\ locker' = locker
        /\ Cfg.TRANSPORT # "kafka" => UNCHANGED <<open, deferred>>
        /\ Cfg.TRANSPORT = "kafka" => Opens(p, {"kafka"}, <<"kafka">>)
    BY <1>7 DEF ChooseTransport
  <2>2. /\ "pg" \in open[p] /\ {"scheduler", "http", "publish"} \cap open[p] = {}
        /\ {"workers", "reconciler", "consumer"} \cap open[p] = {}
        /\ locker[p] \in {"redlock", "advisory"} => "locker" \in open[p]
    BY <1>3, <2>1 DEF OpenedSoFar, Started
  <2>3. stage[p] \notin {"serving", "closing"} /\ stage'[p] = "workers"
    BY <1>2, <2>1
  <2>4. Checked(p)'
    BY <1>0, <1>1, <1>3, <2>1, <2>3 DEF Checked
  <2>5. CASE Cfg.TRANSPORT # "kafka"
    <3>1. PartsOf(p) /\ open'[p] = open[p]
      BY <2>1, <2>5, PartsStay
    <3>2. PartsOK(p)'
      <4>1. Ends(p)' = Ends(p) /\ open' = open
        BY <2>1, <2>3, <2>5 DEF Ends
      <4>2. EndedOnce(p)'
        BY <2>1, <2>3, <2>5, StillOnce
      <4>3. \A part \in open[p] : UsesOf(p)'[part] = UsesOf(p)[part]
        BY <1>2, <1>6, <2>1
      <4> QED
        BY <2>3, <4>1, <4>2, <4>3, StaysInOrder
    <3>3. OpenedSoFar(p)'
      BY <1>0, <2>1, <2>2, <2>3, <2>5, <3>1 DEF OpenedSoFar, Started
    <3>a. /\ UNCHANGED <<env, inits>> /\ recorded \subseteq recorded'
          /\ "workers" \in Started \cup {"down", "closing"}
          /\ stage' = [stage EXCEPT ![p] = "workers"]
          /\ locker' = [locker EXCEPT ![p] = locker[p]]
      BY <1>0, <1>1, <1>2, <1>s, <2>1
    <3> QED
      BY <1>1, <1>2, <2>4, <3>1, <3>2, <3>3, <3>a, PodStep
  <2>6. CASE Cfg.TRANSPORT = "kafka"
    <3>1. /\ \A part \in open[p] : UsesOf(p)'[part] = UsesOf(p)[part] /\ "kafka" \notin UsesOf(p)[part]
          /\ UsesOf(p)'["kafka"] = {}
      <4>1. \A part \in Parts \ {"scheduler", "http", "publish", "consumer"} : "kafka" \notin UsesOf(p)[part]
        BY UsesOfParts, SMT DEF Parts
      <4>2. UsesOf(p)["kafka"] = {} /\ "kafka" \in Parts
        BY UsesOfParts DEF Parts
      <4> QED
        BY <1>2, <1>6, <2>1, <2>2, <4>1, <4>2
    <3>2. PartsOK(p)' /\ PartsOf(p) /\ open'[p] = open[p] \cup {"kafka"}
      <4>1. "kafka" \in EndedParts \ {"http", "workers"} /\ stage'[p] \notin {"serving", "closing"}
        BY <2>3 DEF EndedParts
      <4>2. \A part \in {"kafka"} :
              UsesOf(p)'[part] \subseteq open[p] /\ "kafka" \notin UsesOf(p)'[part]
        BY <3>1
      <4>3. OpensNext(p, "kafka", {"kafka"})
        BY <2>1, <2>3, <2>6, <3>1, <4>1, <4>2 DEF OpensNext
      <4> QED
        BY <4>3, OpensInOrder
    <3>3. OpenedSoFar(p)'
      BY <1>0, <2>1, <2>2, <2>3, <3>2 DEF OpenedSoFar, Started
    <3>a. /\ UNCHANGED <<env, inits>> /\ recorded \subseteq recorded'
          /\ "workers" \in Started \cup {"down", "closing"}
          /\ stage' = [stage EXCEPT ![p] = "workers"]
          /\ locker' = [locker EXCEPT ![p] = locker[p]]
      BY <1>0, <1>1, <1>2, <1>s, <2>1
    <3> QED
      BY <1>1, <1>2, <2>4, <3>2, <3>3, <3>a, PodStep
  <2> QED
    BY <2>5, <2>6
<1>8. CASE StartWorkers(p)
  <2>1. /\ stage[p] = "workers" /\ Reaches(p, "reconciler") /\ locker' = locker
        /\ Opens(p, {"workers"}, <<>>)
    BY <1>8 DEF StartWorkers
  <2>2. /\ "pg" \in open[p] /\ {"scheduler", "http", "publish"} \cap open[p] = {}
        /\ Cfg.TRANSPORT = "kafka" => "kafka" \in open[p]
        /\ locker[p] \in {"redlock", "advisory"} => "locker" \in open[p]
    BY <1>3, <2>1 DEF OpenedSoFar, Started
  <2>3. /\ stage[p] \notin {"serving", "closing"} /\ stage'[p] = "reconciler"
        /\ stage'[p] \notin {"serving", "closing"}
    BY <1>2, <2>1
  <2>4. Checked(p)'
    BY <1>0, <1>1, <1>3, <2>1, <2>3 DEF Checked
  <2>5. UsesOf(p)["workers"] \subseteq open[p]
    BY <2>2, UsesOfParts
  <2>6. /\ PartsOf(p) /\ HasAll(p)' /\ EndedOnce(p)'
        /\ open'[p] = open[p] \cup {"workers"} /\ deferred'[p] = deferred[p]
        /\ InOrder(open[p] \cup {"workers"}, deferred[p], UsesOf(p)) /\ UsesOf(p)' = UsesOf(p)
    BY <1>0, <2>1, <2>3, <2>5, OpensQuietly
  <2>7. PartsOK(p)'
    <3>1. Ends(p) = deferred[p] /\ Ends(p)' = deferred[p] /\ ToBeEnded(p)
      BY <2>3, <2>6 DEF Ends, ServerInv, PartsOK
    <3>2. EndsInOrder(p)'
      BY <2>6, <3>1 DEF EndsInOrder
    <3>3. ToBeEnded(p)'
      BY <2>6, <3>1 DEF ToBeEnded, Stragglers
    <3> QED
      BY <2>6, <3>2, <3>3 DEF PartsOK
  <2>8. OpenedSoFar(p)'
    BY <1>0, <2>1, <2>2, <2>3, <2>6 DEF OpenedSoFar, Started
  <2>a. /\ UNCHANGED <<env, inits>> /\ recorded \subseteq recorded'
        /\ "reconciler" \in Started \cup {"down", "closing"}
        /\ stage' = [stage EXCEPT ![p] = "reconciler"]
        /\ locker' = [locker EXCEPT ![p] = locker[p]]
    BY <1>0, <1>1, <1>2, <1>s, <2>1
  <2> QED
    BY <1>1, <1>2, <2>4, <2>6, <2>7, <2>8, <2>a, PodStep
<1>9. CASE StartReconciler(p)
  <2>1. PICK N \in SUBSET {"reconciler", "consumer"} :
        /\ "consumer" \in N => Cfg.TRANSPORT = "kafka"
        /\ stage[p] = "reconciler" /\ Reaches(p, "scheduler") /\ locker' = locker
        /\ Opens(p, N, <<"reconciler">>)
    BY <1>9 DEF StartReconciler
  <2>2. /\ "pg" \in open[p] /\ "workers" \in open[p]
        /\ {"scheduler", "http", "publish"} \cap open[p] = {}
        /\ Cfg.TRANSPORT = "kafka" => "kafka" \in open[p]
        /\ locker[p] \in {"redlock", "advisory"} => "locker" \in open[p]
    BY <1>3, <2>1 DEF OpenedSoFar, Started
  <2>3. stage[p] \notin {"serving", "closing"} /\ stage'[p] = "scheduler"
    BY <1>2, <2>1
  <2>4. Checked(p)'
    BY <1>0, <1>1, <1>3, <2>1, <2>3 DEF Checked
  <2>5. /\ \A part \in open[p] : /\ UsesOf(p)'[part] = UsesOf(p)[part]
                                 /\ "reconciler" \notin UsesOf(p)[part]
        /\ UsesOf(p)'["reconciler"] = {"pg", "workers"}
        /\ UsesOf(p)'["consumer"] = {"kafka", "workers"}
    <3>1. \A part \in Parts : "reconciler" \notin UsesOf(p)[part]
      BY UsedParts
    <3>2. /\ UsesOf(p)["reconciler"] = {"pg", "workers"} /\ "reconciler" \in Parts
          /\ UsesOf(p)["consumer"] = {"kafka", "workers"} /\ "consumer" \in Parts
      BY UsesOfParts DEF Parts
    <3> QED
      BY <1>2, <1>6, <2>1, <3>1, <3>2
  <2>6. PartsOK(p)' /\ PartsOf(p) /\ open'[p] = open[p] \cup N
    <3>1. /\ \A part \in N : UsesOf(p)'[part] \subseteq open[p]
          /\ "reconciler" \notin UsesOf(p)'["reconciler"]
      BY <2>1, <2>2, <2>5
    <3>2. "reconciler" \in EndedParts \ {"http", "workers"} /\ stage'[p] \notin {"serving", "closing"}
      BY <2>3 DEF EndedParts
    <3>3. OpensNext(p, "reconciler", N)
      BY <2>1, <2>3, <2>5, <3>1, <3>2 DEF OpensNext
    <3> QED
      BY <3>3, OpensInOrder
  <2>7. OpenedSoFar(p)'
    BY <1>0, <2>1, <2>2, <2>3, <2>6 DEF OpenedSoFar, Started
  <2>a. /\ UNCHANGED <<env, inits>> /\ recorded \subseteq recorded'
        /\ "scheduler" \in Started \cup {"down", "closing"}
        /\ stage' = [stage EXCEPT ![p] = "scheduler"]
        /\ locker' = [locker EXCEPT ![p] = locker[p]]
    BY <1>0, <1>1, <1>2, <1>s, <2>1
  <2> QED
    BY <1>1, <1>2, <2>4, <2>6, <2>7, <2>a, PodStep
<1>10. CASE StartScheduler(p)
  <2>1. PICK N \in SUBSET {"scheduler"} :
        /\ stage[p] = "scheduler" /\ Reaches(p, "keys") /\ locker' = locker
        /\ Opens(p, N, <<"scheduler">>)
    BY <1>10 DEF StartScheduler
  <2>2. /\ "pg" \in open[p] /\ "workers" \in open[p] /\ {"http", "publish"} \cap open[p] = {}
        /\ Cfg.TRANSPORT = "kafka" => "kafka" \in open[p]
        /\ locker[p] \in {"redlock", "advisory"} => "locker" \in open[p]
    BY <1>3, <2>1 DEF OpenedSoFar, Started
  <2>3. /\ stage[p] \notin {"serving", "closing"} /\ stage'[p] = "keys"
        /\ stage'[p] \notin {"serving", "closing"}
    BY <1>2, <2>1
  <2>4. Checked(p)'
    BY <1>0, <1>1, <1>3, <2>1, <2>3 DEF Checked
  <2>5. /\ \A part \in open[p] : /\ UsesOf(p)'[part] = UsesOf(p)[part]
                                 /\ "scheduler" \notin UsesOf(p)[part]
        /\ UsesOf(p)'["scheduler"] \subseteq open[p] \ {"scheduler"}
        /\ "scheduler" \in EndedParts \ {"http", "workers"}
    <3>1. \A part \in Parts : "scheduler" \notin UsesOf(p)[part]
      BY UsedParts
    <3>2. /\ UsesOf(p)["scheduler"] \subseteq {"pg", "kafka"} /\ "scheduler" \in Parts
          /\ Cfg.TRANSPORT # "kafka" => UsesOf(p)["scheduler"] \subseteq {"pg"}
      BY UsesOfParts DEF Parts
    <3>3. UsesOf(p)["scheduler"] \subseteq open[p] \ {"scheduler"}
      BY <2>2, <3>2
    <3> QED
      BY <1>2, <1>6, <2>1, <3>1, <3>2, <3>3 DEF EndedParts
  <2>6. PartsOK(p)' /\ PartsOf(p) /\ open'[p] = open[p] \cup N
    <3>1. /\ \A part \in N : UsesOf(p)'[part] \subseteq open[p]
          /\ "scheduler" \notin UsesOf(p)'["scheduler"]
      BY <2>5
    <3>2. N \in SUBSET {"scheduler", "consumer"}
      OBVIOUS
    <3>3. OpensNext(p, "scheduler", N)
      BY <2>1, <2>3, <2>5, <3>1, <3>2 DEF OpensNext
    <3> QED
      BY <3>3, OpensInOrder
  <2>7. OpenedSoFar(p)'
    BY <1>0, <2>1, <2>2, <2>3, <2>6 DEF OpenedSoFar, Started
  <2>a. /\ UNCHANGED <<env, inits>> /\ recorded \subseteq recorded'
        /\ "keys" \in Started \cup {"down", "closing"}
        /\ stage' = [stage EXCEPT ![p] = "keys"]
        /\ locker' = [locker EXCEPT ![p] = locker[p]]
    BY <1>0, <1>1, <1>2, <1>s, <2>1
  <2> QED
    BY <1>1, <1>2, <2>4, <2>6, <2>7, <2>a, PodStep
<1> QED
  BY <1>4, <1>5, <1>7, <1>8, <1>9, <1>10

\* The check of the keys and the listening socket: from here run serves.
LEMMA ServingStep ==
  ASSUME ServerInv, NEW p \in Pods, CheckKeys(p) \/ Listen(p)
  PROVE  ServerInv'
<1>0. UNCHANGED migVars /\ UNCHANGED <<env, inits, locker>> /\ Cfg' = Cfg
  BY DEF CheckKeys, Listen, Returns, Cfg
<1>1. MigInv' /\ recorded' = recorded
  BY <1>0, MigStep DEF ServerInv, migVars
<1>2. /\ open[p] \in SUBSET Parts /\ deferred[p] \in Seq(EndedParts)
      /\ locker[p] \in {"unset", "redlock", "advisory", "noop"}
      /\ locker' = [locker EXCEPT ![p] = locker[p]]
      /\ \A s : Reaches(p, s) => stage' = [stage EXCEPT ![p] = s] /\ stage'[p] = s
  BY <1>0 DEF ServerInv, PodsTypeOK, Reaches
<1>3. OpenedSoFar(p) /\ Checked(p)
  BY DEF ServerInv
<1>4. {"listen", "closing", "serving"} \subseteq Started \cup {"down", "closing"}
  BY DEF Started
<1>5. CASE CheckKeys(p)
  <2>1. PICK s \in {"listen", "closing"} :
          /\ stage[p] = "keys" /\ Reaches(p, s) /\ UNCHANGED <<open, deferred>>
          /\ s = "listen" => KeysFile \in Range(applied)
    BY <1>5 DEF CheckKeys, Returns
  <2>2. stage' = [stage EXCEPT ![p] = s] /\ stage'[p] = s
    BY <1>2, <2>1
  <2>3. PartsOK(p)'
    <3>1. Ends(p)' = Ends(p) /\ open' = open
      BY <2>1, <2>2 DEF Ends
    <3>2. EndedOnce(p)'
      BY <2>1, StillOnce
    <3>3. \A part \in open[p] : UsesOf(p)'[part] = UsesOf(p)[part]
      BY <1>0, SameUses
    <3> QED
      BY <2>1, <3>1, <3>2, <3>3, StaysInOrder
  <2>4. OpenedSoFar(p)'
    BY <1>0, <1>3, <2>1, <2>2 DEF OpenedSoFar, Started
  <2>5. Checked(p)'
    <3>1. s = "listen" => KeysFile \in recorded
      BY <2>1 DEF ServerInv, MigInv, AppliedAsRecorded
    <3> QED
      BY <1>0, <1>1, <1>3, <2>1, <2>2, <3>1 DEF Checked
  <2>6. PartsOf(p)
    BY <2>1, PartsStay
  <2> QED
    BY <1>0, <1>1, <1>2, <1>4, <2>2, <2>3, <2>4, <2>5, <2>6, PodStep
<1>6. CASE Listen(p)
  <2>1. stage[p] = "listen" /\ Reaches(p, "serving") /\ Opens(p, {"http"}, <<>>)
    BY <1>6 DEF Listen
  <2>2. stage' = [stage EXCEPT ![p] = "serving"] /\ stage'[p] = "serving"
    BY <1>2, <2>1
  <2>3. /\ "pg" \in open[p] /\ "workers" \in open[p] /\ {"http", "publish"} \cap open[p] = {}
        /\ Cfg.TRANSPORT = "kafka" => "kafka" \in open[p]
        /\ locker[p] \in {"redlock", "advisory"} => "locker" \in open[p]
    BY <1>3, <2>1 DEF OpenedSoFar, Started
  <2>a. UsesOf(p)["http"] \subseteq open[p] \ {"http"}
    BY <2>3, UsesOfParts
  <2>4. /\ PartsOf(p) /\ HasAll(p)' /\ EndedOnce(p)'
        /\ open'[p] = open[p] \cup {"http"} /\ deferred'[p] = deferred[p]
        /\ UsesOf(p)' = UsesOf(p)
    <3>1. stage[p] \notin {"serving", "closing"} /\ stage'[p] # "closing"
      BY <2>1, <2>2
    <3>2. UsesOf(p)["http"] \subseteq open[p]
      BY <2>a
    <3> QED
      BY <1>0, <2>1, <3>1, <3>2, OpensQuietly
  <2>5. PartsOK(p)'
    <3>1. /\ Ends(p) = deferred[p] /\ Ends(p)' = OrderlyEnd \o deferred[p]
          /\ PartsOK(p) /\ stage[p] # "closing"
      BY <2>1, <2>2, <2>4 DEF ServerInv, Ends
    <3>2. InOrder(open[p], deferred[p], UsesOf(p)) /\ \A part \in open[p] : UsesOf(p)[part] \subseteq open[p]
      BY <3>1 DEF PartsOK, EndsInOrder, HasAll
    <3>3. /\ UsesOf(p)["reconciler"] \subseteq {"pg", "workers"}
          /\ UsesOf(p)["workers"] \subseteq {"pg", "locker"}
      BY UsesOfParts
    <3>4. \A part \in EndedParts \ {"http", "reconciler", "workers"} :
            UsesOf(p)[part] \cap {"http", "reconciler", "workers"} = {}
      BY UsesOfParts DEF EndedParts
    <3>5. InOrder(open[p] \cup {"http"}, OrderlyEnd \o deferred[p], UsesOf(p))
      BY <1>2, <2>a, <3>2, <3>3, <3>4, ServeInOrder
    <3>6. EndsInOrder(p)'
      BY <2>4, <3>1, <3>5 DEF EndsInOrder
    <3>7. ToBeEnded(p)'
      <4>1. PICK F : F = OrderlyEnd \o deferred[p]
        OBVIOUS
      <4>2. Served(F, deferred[p])
        BY <1>2, <4>1, ServeList
      <4>3. \A y : Listed(deferred[p], y) => Listed(F, y)
        BY <4>2 DEF Served
      <4>4. \A part \in open[p] \cup {"http"} : part \in Stragglers \cup {"session"} \/ Listed(F, part)
        BY <3>1, <4>3 DEF PartsOK, ToBeEnded, Stragglers
      <4> QED
        BY <2>4, <3>1, <4>1, <4>4 DEF ToBeEnded
    <3> QED
      BY <2>4, <3>6, <3>7 DEF PartsOK
  <2>6. OpenedSoFar(p)'
    BY <1>0, <2>2, <2>3, <2>4 DEF OpenedSoFar, Started
  <2>7. Checked(p)'
    BY <1>0, <1>1, <1>3, <2>1, <2>2 DEF Checked
  <2> QED
    BY <1>0, <1>1, <1>2, <1>4, <2>2, <2>4, <2>5, <2>6, <2>7, PodStep
<1> QED
  BY <1>5, <1>6

\* run returns, from wherever it was.
LEMMA ReturningStep ==
  ASSUME ServerInv, NEW p \in Pods, StartFails(p) \/ Shutdown(p)
  PROVE  ServerInv'
<1>0. /\ UNCHANGED <<lockedBy, recorded, applied, step, live, todo>> /\ faults' \in 0..MaxFaults
      /\ UNCHANGED <<env, inits, locker, open>> /\ Cfg' = Cfg
  BY MigrateAssumption, SMT DEF StartFails, Shutdown, Returns, Cfg, migVars, MigFault,
     ServerInv, MigInv, MigTypeOK
<1>1. MigInv'
  BY <1>0 DEF ServerInv, MigInv, MigTypeOK, Serialised,
     HasFile, ReadStaysCurrent, AppliedAsRecorded, Downward, DoneIsRecorded
<1>2. /\ open[p] \in SUBSET Parts /\ deferred[p] \in Seq(EndedParts)
      /\ locker[p] \in {"unset", "redlock", "advisory", "noop"}
      /\ locker' = [locker EXCEPT ![p] = locker[p]]
      /\ "closing" \in Started \cup {"down", "closing"}
  BY <1>0 DEF ServerInv, PodsTypeOK
<1>3. OpenedSoFar(p) /\ Checked(p) /\ PartsOK(p)
  BY DEF ServerInv
<1>4. /\ stage' = [stage EXCEPT ![p] = "closing"] /\ stage'[p] = "closing"
      /\ stage[p] \notin {"down", "closing"}
  BY DEF StartFails, Fallible, Shutdown, Returns, Reaches, ServerInv, PodsTypeOK
<1>5. OpenedSoFar(p)' /\ Checked(p)'
  BY <1>0, <1>3, <1>4 DEF OpenedSoFar, Checked, Started
<1>6. Ends(p)' = Ends(p) /\ EndedOnce(p)' /\ PartsOf(p)
  <2>1. CASE StartFails(p)
    <3>1. deferred' = deferred /\ stage[p] # "serving"
      BY <2>1 DEF StartFails, Fallible, Returns
    <3>2. Ends(p)' = Ends(p)
      BY <1>4, <3>1 DEF Ends
    <3> QED
      BY <1>0, <1>4, <3>1, <3>2, StillOnce, PartsStay
  <2>2. CASE Shutdown(p)
    <3>1. PICK E : E = deferred[p]
      OBVIOUS
    <3>2. PICK F : F = OrderlyEnd \o E
      OBVIOUS
    <3>3. Served(F, E)
      BY <1>2, <3>1, <3>2, ServeList
    <3>4. deferred' = [deferred EXCEPT ![p] = F] /\ stage[p] = "serving"
      BY <2>2, <3>1, <3>2 DEF Shutdown
    <3>5. PartsOf(p) /\ deferred'[p] = F
      BY <1>0, <3>3, <3>4 DEF ServerInv, PodsTypeOK, PartsOf, Served
    <3>6. Ends(p)' = Ends(p)
      BY <1>4, <3>1, <3>2, <3>4, <3>5 DEF Ends
    <3>7. \A y \in {"http", "workers"} : ~Listed(E, y)
      BY <1>3, <1>4, <3>1, NotDeferred DEF PartsOK
    <3>8. ASSUME NEW m \in 1..Len(F), F[m] \in {"http", "workers"}
          PROVE  (m = 1 /\ F[m] = "http") \/ (m = 3 /\ F[m] = "workers")
      <4>1. m \in {1, 2, 3} \/ m \in 4..Len(F)
        BY <3>3, SMT DEF Served
      <4>2. m \notin 4..Len(F)
        BY <3>3, <3>7, <3>8 DEF Served, Listed
      <4> QED
        BY <3>3, <3>8, <4>1, <4>2 DEF Served
    <3>9. EndedOnce(p)'
      <4> SUFFICES ASSUME NEW m \in 1..Len(F), NEW n \in 1..Len(F),
                          F[m] \in {"http", "workers"}, F[m] = F[n]
                   PROVE  m = n
        BY <1>4, <3>5 DEF EndedOnce
      <4>1. (m = 1 /\ F[m] = "http") \/ (m = 3 /\ F[m] = "workers")
        BY <3>8
      <4>2. (n = 1 /\ F[n] = "http") \/ (n = 3 /\ F[n] = "workers")
        BY <3>8
      <4> QED
        BY <4>1, <4>2, SMT
    <3> QED
      BY <3>5, <3>6, <3>9
  <2> QED
    BY <2>1, <2>2
<1>7. PartsOK(p)'
  <2>1. \A part \in open[p] : UsesOf(p)'[part] = UsesOf(p)[part]
    BY <1>0, SameUses
  <2> QED
    BY <1>0, <1>4, <1>6, <2>1, StaysInOrder
<1> QED
  BY <1>0, <1>1, <1>2, <1>4, <1>5, <1>6, <1>7, PodStep, ZenonT(40)

\* The next part is ended, or goes on although its end timed out.
EndsNext(p, Q) ==
  /\ stage[p] = "closing" /\ UNCHANGED <<env, locker, stage>>
  /\ deferred[p] # <<>> /\ deferred' = [deferred EXCEPT ![p] = Tail(deferred[p])]
  /\ open' = [open EXCEPT ![p] = Q]
  /\ \/ Q = open[p] \ {Head(deferred[p])} /\ ~Hangs(p)
     \/ Q = open[p] /\ Head(deferred[p]) \in {"http", "workers"}

LEMMA NextEnds ==
  ASSUME ServerInv, NEW p \in Pods, NEW Q, EndsNext(p, Q)
  PROVE  PartsOK(p)' /\ PartsOf(p)
<1>1. PICK E : E = deferred[p]
  OBVIOUS
<1>2. PICK F : F = Tail(E)
  OBVIOUS
<1>3. /\ open[p] \in SUBSET Parts /\ E \in Seq(EndedParts) /\ E # <<>> /\ PartsOK(p)
      /\ stage[p] = "closing" /\ stage'[p] = "closing"
  BY <1>1, <1>2 DEF ServerInv, PodsTypeOK, EndsNext
<1>4. /\ F \in Seq(EndedParts) /\ Head(E) = E[1]
      /\ Len(E) \in Nat \ {0} /\ Len(F) \in Nat /\ Len(F) = Len(E) - 1
      /\ \A n \in 1..Len(F) : n + 1 \in 1..Len(E) /\ F[n] = E[n + 1]
      /\ \A y : Listed(E, y) => y = Head(E) \/ Listed(F, y)
  <2>1. Popped(F, E)
    BY <1>2, <1>3, PopList
  <2> QED
    BY <2>1 DEF Popped
<1>5. Q \subseteq open[p] /\ Q \in SUBSET Parts
  <2>1. Q \subseteq open[p]
    BY DEF EndsNext
  <2> QED
    BY <1>3, <2>1
<1>6. PartsOf(p) /\ open'[p] = Q /\ deferred'[p] = F
  <2>1. open' = [open EXCEPT ![p] = Q] /\ deferred' = [deferred EXCEPT ![p] = F]
    BY <1>1, <1>2 DEF EndsNext
  <2> QED
    BY <1>4, <1>5, <2>1, PartsChange
<1>7. Ends(p) = E /\ Ends(p)' = F
  BY <1>1, <1>3, <1>6 DEF Ends
<1>8. UsesOf(p)' = UsesOf(p)
  BY DEF UsesOf, Uses, Transport, Cfg, EndsNext
<1>9. \A m, n \in 1..Len(E) : E[m] \in {"http", "workers"} /\ E[m] = E[n] => m = n
  BY <1>1, <1>3 DEF PartsOK, EndedOnce
<1>10. Head(E) \in {"http", "workers"} => ~Listed(F, Head(E))
  <2> SUFFICES ASSUME Head(E) \in {"http", "workers"}, NEW k \in 1..Len(F), F[k] = Head(E)
               PROVE  FALSE
    BY DEF Listed
  <2>1. 1 \in 1..Len(E) /\ k + 1 # 1
    BY <1>4, SMT
  <2>2. k + 1 \in 1..Len(E) /\ E[k + 1] = E[1]
    BY <1>4
  <2> QED
    BY <1>4, <1>9, <2>1, <2>2
<1>11. EndsInOrder(p)'
  <2>1. InOrder(open[p], E, UsesOf(p))
    BY <1>3, <1>7 DEF PartsOK, EndsInOrder
  <2>2. Q = open[p] \ {Head(E)} \/ (Q = open[p] /\ ~Listed(Tail(E), Head(E)))
    BY <1>1, <1>2, <1>10 DEF EndsNext
  <2>3. InOrder(Q, Tail(E), UsesOf(p))
    BY <1>3, <2>1, <2>2, CloseInOrder
  <2> QED
    BY <1>2, <1>6, <1>7, <1>8, <2>3 DEF EndsInOrder
<1>12. ToBeEnded(p)'
  <2>1. \A part \in open[p] : part \in Stragglers \cup {"session"} \/ Listed(E, part)
    BY <1>3, <1>7 DEF PartsOK, ToBeEnded
  <2>2. ASSUME NEW part \in Q PROVE part \in Stragglers \cup {"session"} \/ Listed(F, part)
    <3>1. part # Head(E) \/ part \in Stragglers
      BY <1>1, <2>2 DEF Stragglers, EndsNext
    <3> QED
      BY <1>4, <1>5, <2>1, <2>2, <3>1
  <2> QED
    BY <1>6, <1>7, <2>2 DEF ToBeEnded
<1>13. HasAll(p)'
  <2>1. "session" \in Q => "pg" \in Q
    <3>1. "session" \in open[p] => "pg" \in open[p]
      BY <1>3 DEF PartsOK, HasAll
    <3> QED
      BY <1>5, <3>1 DEF Hangs, EndsNext
  <2> QED
    BY <1>3, <1>6, <2>1 DEF HasAll
<1>14. EndedOnce(p)'
  <2>1. ASSUME NEW m \in 1..Len(F), NEW n \in 1..Len(F), F[m] \in {"http", "workers"}, F[m] = F[n]
        PROVE  m = n
    <3>1. m + 1 \in 1..Len(E) /\ F[m] = E[m + 1] /\ n + 1 \in 1..Len(E) /\ F[n] = E[n + 1]
      BY <1>4
    <3>2. m + 1 = n + 1
      BY <1>9, <2>1, <3>1
    <3> QED
      BY <3>2, SMT
  <2> QED
    BY <1>3, <1>6, <2>1 DEF EndedOnce
<1> QED
  BY <1>6, <1>11, <1>12, <1>13, <1>14 DEF PartsOK

\* A part joins or leaves that nothing ends, or ends any more, and no other uses.
LEMMA ComesAndGoes ==
  ASSUME ServerInv, NEW p \in Pods, stage[p] = "closing", stage' = stage,
         UNCHANGED <<env, locker, deferred>>,
         NEW y \in {"session", "publish", "consumer", "http"}, NEW Q,
         open' = [open EXCEPT ![p] = Q],
         \/ Q = open[p] \cup {y} /\ y \in {"session", "publish"} /\ (y = "session" => "pg" \in open[p])
         \/ Q = open[p] \ {y}
  PROVE  PartsOK(p)' /\ PartsOf(p)
<1>1. PICK E : E = deferred[p]
  OBVIOUS
<1>2. /\ open[p] \in SUBSET Parts /\ E \in Seq(EndedParts) /\ PartsOK(p)
      /\ deferred' = [deferred EXCEPT ![p] = E]
  BY <1>1 DEF ServerInv, PodsTypeOK
<1>3. Q \in SUBSET Parts
  BY <1>2 DEF Parts
<1>4. PartsOf(p) /\ open'[p] = Q /\ deferred'[p] = E
  BY <1>2, <1>3, PartsChange
<1>5. Ends(p) = E /\ Ends(p)' = E /\ UsesOf(p)' = UsesOf(p)
  BY <1>1, <1>4 DEF Ends, UsesOf, Uses, Transport, Cfg
<1>6. \A part \in open[p] : y \notin UsesOf(p)[part]
  BY <1>2, UsedParts
<1>7. EndsInOrder(p)'
  <2>1. InOrder(open[p], E, UsesOf(p))
    BY <1>2, <1>5 DEF PartsOK, EndsInOrder
  <2>2. ASSUME y \in {"session", "publish"} PROVE ~Listed(E, y)
    <3>1. Listed(E, y) => y \in EndedParts
      BY <1>2, SMT DEF Listed
    <3> QED
      BY <2>2, <3>1 DEF EndedParts
  <2>3. InOrder(Q, E, UsesOf(p))
    <3>1. CASE Q = open[p] \cup {y} /\ y \in {"session", "publish"}
      BY <2>1, <2>2, <3>1, JoinInOrder
    <3>2. CASE Q = open[p] \ {y}
      BY <1>6, <2>1, <3>2, LeaveInOrder
    <3> QED
      BY <3>1, <3>2
  <2> QED
    BY <1>4, <1>5, <2>3 DEF EndsInOrder
<1>8. ToBeEnded(p)'
  <2>1. \A part \in open[p] : part \in Stragglers \cup {"session"} \/ Listed(E, part)
    BY <1>2, <1>5 DEF PartsOK, ToBeEnded
  <2>2. \A part \in Q : part \in Stragglers \cup {"session"} \/ Listed(E, part)
    BY <2>1 DEF Stragglers
  <2> QED
    BY <1>4, <1>5, <2>2 DEF ToBeEnded
<1>9. HasAll(p)'
  <2>1. "session" \in open[p] => "pg" \in open[p]
    BY <1>2 DEF PartsOK, HasAll
  <2>2. "session" \in Q => "pg" \in Q
    BY <2>1
  <2> QED
    BY <1>4, <2>2 DEF HasAll
<1>10. EndedOnce(p)'
  BY StillOnce
<1> QED
  BY <1>4, <1>7, <1>8, <1>9, <1>10 DEF PartsOK

\* run has returned: its parts are ended in turn, and what it left behind goes on.
LEMMA ClosingStep ==
  ASSUME ServerInv, NEW p \in Pods,
         CloseNext(p) \/ StopTimesOut(p) \/ Reopens(p) \/ Publishes(p) \/ Finishes(p)
  PROVE  ServerInv'
<1>0. /\ UNCHANGED <<lockedBy, recorded, applied, step, live, todo>> /\ faults' \in 0..MaxFaults
      /\ UNCHANGED <<env, inits, locker, stage>> /\ Cfg' = Cfg /\ stage[p] = "closing"
  <2>1. CASE StopTimesOut(p)
    BY <2>1, MigrateAssumption, SMT DEF StopTimesOut, MigFault, Cfg, ServerInv, MigInv, MigTypeOK
  <2>2. CASE CloseNext(p) \/ Reopens(p) \/ Publishes(p) \/ Finishes(p)
    BY <2>2 DEF CloseNext, Reopens, Publishes, Finishes, migVars, Cfg, ServerInv, MigInv, MigTypeOK
  <2> QED
    BY <2>1, <2>2
<1>1. MigInv'
  BY <1>0 DEF ServerInv, MigInv, MigTypeOK, Serialised,
     HasFile, ReadStaysCurrent, AppliedAsRecorded, Downward, DoneIsRecorded
<1>2. /\ locker[p] \in {"unset", "redlock", "advisory", "noop"}
      /\ locker' = [locker EXCEPT ![p] = locker[p]]
      /\ "closing" \in Started \cup {"down", "closing"}
      /\ stage' = [stage EXCEPT ![p] = "closing"] /\ stage'[p] = "closing"
      /\ open = [open EXCEPT ![p] = open[p]]
  BY <1>0 DEF ServerInv, PodsTypeOK
<1>3. OpenedSoFar(p)' /\ Checked(p)'
  <2>1. OpenedSoFar(p) /\ Checked(p)
    BY DEF ServerInv
  <2> QED
    BY <1>0, <1>2, <2>1 DEF OpenedSoFar, Checked, Started
<1>4. PartsOK(p)' /\ PartsOf(p)
  <2>1. CASE CloseNext(p)
    <3>1. EndsNext(p, open[p] \ {Head(deferred[p])})
      BY <1>0, <2>1 DEF CloseNext, EndsNext
    <3> QED
      BY <3>1, NextEnds
  <2>2. CASE StopTimesOut(p)
    <3>1. /\ deferred[p] # <<>> /\ Head(deferred[p]) \in {"http", "workers"}
          /\ deferred' = [deferred EXCEPT ![p] = Tail(deferred[p])]
          /\ open' = [open EXCEPT ![p] = open[p]]
      BY <1>2, <2>2 DEF StopTimesOut
    <3>2. EndsNext(p, open[p])
      BY <1>0, <3>1 DEF EndsNext
    <3> QED
      BY <3>2, NextEnds
  <2>3. CASE Reopens(p)
    <3>1. /\ open' = [open EXCEPT ![p] = open[p] \cup {"session"}] /\ "pg" \in open[p]
          /\ deferred' = deferred
      BY <2>3 DEF Reopens
    <3> QED
      BY <1>0, <3>1, ComesAndGoes
  <2>4. CASE Publishes(p)
    <3>1. open' = [open EXCEPT ![p] = open[p] \cup {"publish"}] /\ deferred' = deferred
      BY <2>4 DEF Publishes
    <3> QED
      BY <1>0, <3>1, ComesAndGoes
  <2>5. CASE Finishes(p)
    <3>1. PICK y \in {"session", "publish", "consumer", "http"} :
            open' = [open EXCEPT ![p] = open[p] \ {y}]
      BY <2>5 DEF Finishes
    <3>2. deferred' = deferred
      BY <2>5 DEF Finishes
    <3> QED
      BY <1>0, <3>1, <3>2, ComesAndGoes
  <2> QED
    BY <2>1, <2>2, <2>3, <2>4, <2>5
<1> QED
  BY <1>0, <1>1, <1>2, <1>3, <1>4, PodStep, ZenonT(40)

\* Every step keeps the invariant.
LEMMA ServerStep == ServerInv /\ [ServerNext]_allVars => ServerInv'
<1> SUFFICES ASSUME ServerInv, [ServerNext]_allVars PROVE ServerInv'
  OBVIOUS
<1>1. CASE UNCHANGED allVars
  BY <1>1, MigratingStep DEF allVars
<1>2. ASSUME NEW p \in Pods, InitStep(p) PROVE ServerInv'
  BY <1>2, MigratingStep DEF InitStep, MigNext
<1>3. ASSUME NEW p \in inits, (SessionLost(p) \/ MigrateKilled(p)) /\ UNCHANGED serverVars
      PROVE  ServerInv'
  <2>1. p \in Pods
    BY <1>3 DEF ServerInv, PodsTypeOK
  <2> QED
    BY <1>3, <2>1, MigratingStep DEF MigNext
<1>4. ASSUME NEW p \in Pods, Exit(p) \/ Killed(p) PROVE ServerInv'
  <2>1. /\ Gone(p) /\ step' = [step EXCEPT ![p] = "start"] /\ faults' \in 0..MaxFaults
        /\ UNCHANGED <<lockedBy, recorded, applied, live, todo>>
    BY <1>4, MigrateAssumption, SMT DEF Exit, Killed, MigFault, ServerInv, MigInv, MigTypeOK
  <2> QED
    BY <2>1, GoneStep
<1>5. ASSUME NEW p \in Pods,
             \/ RunStep(p) \/ StartFails(p) \/ Shutdown(p) \/ Killed(p)
             \/ StopTimesOut(p) \/ Reopens(p) \/ Publishes(p) \/ Finishes(p)
      PROVE  ServerInv'
  BY <1>4, <1>5, OpeningStep, ServingStep, ReturningStep, ClosingStep DEF RunStep
<1> QED
  BY <1>1, <1>2, <1>3, <1>5 DEF ServerNext

\* The invariant holds for any pods, releases, environments and faults.
THEOREM ServerInvariance == ServerSpec => []ServerInv
BY ServerInitial, ServerStep, PTL DEF ServerSpec

\* Beside servers that start, fail and are killed, as in migrations alone, files
\* are recorded as they are applied, once and in filename order.
THEOREM RolloutRecordsApplied == ServerSpec => []AppliedAsRecorded
BY ServerInvariance, PTL DEF ServerInv, MigInv

\* Until run returns every part has what it uses, and after that every part run
\* still is to end, and the advisory lock's new session: pgPool.Close waits for
\* it.  The rest has been left behind.
THEOREM UsedPartsEndLast == ServerSpec => []UsersStopFirst
<1>1. ServerInv => UsersStopFirst
  <2> SUFFICES ASSUME ServerInv, NEW p \in Pods, NEW part \in open[p], ~Straggles(p, part)
               PROVE  UsesOf(p)[part] \subseteq open[p]
    <3>1. ServerInv => \A p \in Pods : \A part \in open[p] : UsesOf(p)[part] = Uses(p, part)
      BY DEF ServerInv, PodsTypeOK, UsesOf
    <3> QED
      BY <3>1 DEF UsersStopFirst
  <2>1. PartsOK(p) /\ deferred[p] \in Seq(EndedParts)
    BY DEF ServerInv, PodsTypeOK
  <2>2. CASE stage[p] # "closing"
    BY <2>1, <2>2 DEF PartsOK, HasAll
  <2>3. CASE part = "session"
    <3>1. UsesOf(p)["session"] = {"pg"}
      BY UsesOfParts
    <3> QED
      BY <2>1, <2>3, <3>1 DEF PartsOK, HasAll
  <2>4. CASE stage[p] = "closing" /\ part # "session"
    <3>1. InOrder(open[p], deferred[p], UsesOf(p)) /\ (part \in Stragglers \/ Listed(deferred[p], part))
      BY <2>1, <2>4 DEF PartsOK, EndsInOrder, ToBeEnded, Ends
    <3>2. part \in Range(deferred[p]) => Listed(deferred[p], part)
      <4>1. DOMAIN deferred[p] = 1..Len(deferred[p])
        BY <2>1, SMT
      <4> QED
        BY <4>1 DEF Range, Listed
    <3>3. Listed(deferred[p], part)
      BY <2>4, <3>1, <3>2 DEF Straggles
    <3> QED
      BY <3>1, <3>3 DEF InOrder
  <2> QED
    BY <2>2, <2>3, <2>4
<1> QED
  BY <1>1, ServerInvariance, PTL

\* A server that serves has the api_keys table, with an init container the schema
\* of its release, and runs without a lock only when it was told to.
THEOREM ServersAreMigrated == ServerSpec => []ServesMigrated
<1>1. ServerInv => ServesMigrated
  BY DEF ServerInv, Checked, MigInv, AppliedAsRecorded, ServesMigrated
<1> QED
  BY <1>1, ServerInvariance, PTL
=============================================================================
