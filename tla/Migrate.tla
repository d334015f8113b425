------------------------------ MODULE Migrate ------------------------------
(***************************************************************************)
(* internal/store/migrate.go: pods that run `conduit migrate` against one  *)
(* database, at the same time and from different releases.  Each statement *)
(* is a step; between any two of them the process may be killed or the     *)
(* session lost, and with the session go the advisory lock and the open    *)
(* transaction.  A file is a number: filename order, which the zero padded *)
(* names give.                                                             *)
(***************************************************************************)
EXTENDS Integers, Sequences, FiniteSetsExt

CONSTANTS
  Pods,
  Files,      \* the .sql files of the release each pod runs, never empty; a
              \* release adds files after those of the release before
  Nobody,
  MaxFaults   \* bound: failed statements, lost sessions, killed processes, timeouts

ASSUME MigrateAssumption ==
  /\ \A p \in Pods : Files[p] \subseteq Nat /\ Files[p] # {} /\ IsFiniteSet(Files[p])
  /\ \A p, q \in Pods : \A f \in Files[p], g \in Files[q] : f < g => f \in Files[q]
  /\ Nobody \notin Pods
  /\ MaxFaults \in Nat

VARIABLES
  lockedBy,   \* pod whose session has the migration lock
  recorded,   \* schema_migrations
  applied,    \* files committed, in the order of their commits
  step,       \* of each pod, where Migrate is
  live,       \* pods whose migration session the server has open
  todo,       \* of each pod, files its loop has yet to apply
  faults

migVars == <<lockedBy, recorded, applied, step, live, todo, faults>>

AllFiles == UNION {Files[p] : p \in Pods}

Running == {"locked", "loop", "open", "record"}

MigTypeOK ==
  /\ lockedBy \in Pods \cup {Nobody}
  /\ recorded \subseteq AllFiles
  /\ applied \in Seq(AllFiles)
  /\ step \in [Pods -> Running \cup {"start", "done", "failed", "killed"}]
  /\ live \subseteq Pods
  /\ todo \in [Pods -> SUBSET AllFiles]
  /\ faults \in 0..MaxFaults

MigInit ==
  /\ lockedBy = Nobody
  /\ recorded = {}
  /\ applied = <<>>
  /\ step = [p \in Pods |-> "start"]
  /\ live = {}
  /\ todo = [p \in Pods |-> {}]
  /\ faults = 0

-----------------------------------------------------------------------------
MigFault == faults < MaxFaults /\ faults' = faults + 1

Goes(p, s) == step' = [step EXCEPT ![p] = s]

\* The server ends the session of p: its lock and its transaction are gone.
SessionEnds(p) ==
  /\ live' = live \ {p}
  /\ lockedBy' = IF lockedBy = p THEN Nobody ELSE lockedBy

At(p, s) == step[p] = s /\ p \in live

\* pg_advisory_lock waits until the lock is free.
TakeLock(p) ==
  /\ step[p] = "start" /\ lockedBy = Nobody
  /\ lockedBy' = p
  /\ live' = live \cup {p}
  /\ Goes(p, "locked")
  /\ UNCHANGED <<recorded, applied, todo, faults>>

\* schema_migrations is created when missing, and read once.
ReadApplied(p) ==
  /\ At(p, "locked")
  /\ todo' = [todo EXCEPT ![p] = Files[p] \ recorded]
  /\ Goes(p, "loop")
  /\ UNCHANGED <<lockedBy, recorded, applied, live, faults>>

\* migrationFiles sorts, and the loop skips what is applied.
NextFile(p) == Min(todo[p])

\* The transaction is open and the file's statements are in it.
ApplyFile(p) ==
  /\ At(p, "loop") /\ todo[p] # {}
  /\ Goes(p, "open")
  /\ UNCHANGED <<lockedBy, recorded, applied, live, todo, faults>>

Fail(p) == Goes(p, "failed") /\ SessionEnds(p)

\* The INSERT: the primary key refuses a version that is there already.
RecordFile(p) ==
  /\ At(p, "open")
  /\ IF NextFile(p) \in recorded
     THEN Fail(p)
     ELSE Goes(p, "record") /\ UNCHANGED <<lockedBy, live>>
  /\ UNCHANGED <<recorded, applied, todo, faults>>

\* Mutant: the version is recorded by a statement outside the transaction, and
\* the process dies before it.
CommitsUnrecorded(p) ==
  /\ applied' = Append(applied, NextFile(p))
  /\ UNCHANGED recorded

\* The file's statements and its version become visible together.
Commits(p) ==
  /\ applied' = Append(applied, NextFile(p))
  /\ recorded' = recorded \cup {NextFile(p)}

CommitFile(p) ==
  /\ At(p, "record")
  /\ Commits(p)
  /\ todo' = [todo EXCEPT ![p] = @ \ {NextFile(p)}]
  /\ Goes(p, "loop")
  /\ UNCHANGED <<lockedBy, live, faults>>

UpToDate(p) == todo[p] = {}

\* Migrate returns nil and its deferred unlock runs.
MigrateReturns(p) ==
  /\ At(p, "loop") /\ UpToDate(p)
  /\ Goes(p, "done")
  /\ SessionEnds(p)
  /\ UNCHANGED <<recorded, applied, todo, faults>>

\* A statement fails and Migrate returns the error: the session is gone, or the
\* server refuses it.  A COMMIT whose answer is lost may have been done.
StatementFails(p) ==
  /\ step[p] \in Running
  /\ IF p \in live THEN MigFault ELSE UNCHANGED faults
  /\ \/ UNCHANGED <<recorded, applied>>
     \/ At(p, "record") /\ Commits(p)
  /\ Fail(p)
  /\ UNCHANGED todo

\* The session is lost; the process learns of it from its next statement.
SessionLost(p) ==
  /\ p \in live /\ step[p] \in Running
  /\ MigFault
  /\ SessionEnds(p)
  /\ UNCHANGED <<recorded, applied, step, todo>>

\* The process is killed; the server ends its session when it notices.
MigrateKilled(p) ==
  /\ step[p] \in Running
  /\ MigFault
  /\ Goes(p, "killed")
  /\ UNCHANGED <<lockedBy, recorded, applied, live, todo>>

SessionReaped(p) ==
  /\ At(p, "killed")
  /\ SessionEnds(p)
  /\ UNCHANGED <<recorded, applied, step, todo, faults>>

\* The init container is run again.
RunAgain(p) ==
  /\ step[p] \in {"failed", "killed"} /\ p \notin live
  /\ Goes(p, "start")
  /\ UNCHANGED <<lockedBy, recorded, applied, live, todo, faults>>

MigrateStep(p) ==
  \/ TakeLock(p) \/ ReadApplied(p) \/ ApplyFile(p) \/ RecordFile(p)
  \/ CommitFile(p) \/ MigrateReturns(p) \/ StatementFails(p) \/ RunAgain(p)

MigNext ==
  \E p \in Pods :
    MigrateStep(p) \/ SessionLost(p) \/ MigrateKilled(p) \/ SessionReaped(p)

MigSpec == MigInit /\ [][MigNext]_migVars

-----------------------------------------------------------------------------
\* The list of applied files a pod read is still right when it uses it: while
\* its session lives, what it has yet to apply is what is not recorded.
\* So no pod executes a file that another has applied meanwhile.
ReadStaysCurrent ==
  \A p \in live : step[p] \in {"loop", "open", "record"} =>
    todo[p] = Files[p] \ recorded

\* "a crash mid-run either applies a migration and remembers it or does neither":
\* the versions recorded are the files committed, each once and in filename
\* order, whatever pod died between which statements.
AppliedAsRecorded ==
  /\ recorded = Range(applied)
  /\ \A i, j \in 1..Len(applied) : i < j => applied[i] < applied[j]

\* `conduit migrate` that returned nil leaves no file of its release unapplied.
MigratedIsUpToDate ==
  \A p \in Pods : step[p] = "done" => Files[p] \subseteq Range(applied)
=============================================================================
