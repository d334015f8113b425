---------------------------- MODULE AdvisoryLock ----------------------------
(***************************************************************************)
(* The execution lock of internal/lock/postgres.go: Postgres session locks *)
(* taken on one dedicated connection per process, and the set held that    *)
(* keeps a process from taking a lock twice.  The mutex makes Acquire and  *)
(* Release atomic within a process; each runs one statement, so they are   *)
(* atomic here.  What interleaves is the life of the session: it may die   *)
(* unnoticed, a statement may time out with its effect done or not, and a  *)
(* discarded session keeps its locks until its socket is closed.           *)
(***************************************************************************)
EXTENDS Integers, FiniteSets

CONSTANTS
  Processes,
  Executions,   \* runs of a job, each in one process
  Proc,         \* the process of each execution
  Resources,    \* "job:exec:" and a job id, hashed by advisoryKey
  Wants,        \* the resource each execution locks
  Sessions,     \* database sessions
  NoSession,
  MaxFaults     \* bound: timeouts, lost sessions and killed processes

ASSUME LockAssumption ==
  /\ Proc \in [Executions -> Processes]
  /\ Wants \in [Executions -> Resources]
  /\ NoSession \notin Sessions
  /\ MaxFaults \in Nat

VARIABLES
  conn,     \* Advisory.conn of each process
  held,     \* Advisory.held of each process
  alive,    \* sessions the server has open
  locks,    \* the server: how often each session has taken each lock
  exec,     \* the session an execution took its lock in, while it runs
  reran,    \* history: processes that executed a job again before the first
            \* execution of it had returned
  faults

vars == <<conn, held, alive, locks, exec, reran, faults>>

Unlocked == [r \in Resources |-> 0]

TypeOK ==
  /\ conn \in [Processes -> Sessions \cup {NoSession}]
  /\ held \in [Processes -> SUBSET Resources]
  /\ alive \subseteq Sessions
  /\ locks \in [Sessions -> [Resources -> Nat]]
  /\ exec \in [Executions -> Sessions \cup {NoSession}]
  /\ reran \subseteq Processes
  /\ faults \in 0..MaxFaults

Init ==
  /\ conn = [p \in Processes |-> NoSession]
  /\ held = [p \in Processes |-> {}]
  /\ alive = {}
  /\ locks = [s \in Sessions |-> Unlocked]
  /\ exec = [x \in Executions |-> NoSession]
  /\ reran = {}
  /\ faults = 0

-----------------------------------------------------------------------------
Fault == faults < MaxFaults /\ faults' = faults + 1

\* Nobody refers to s any more, so it can stand for a new session.
Unused(s) ==
  /\ s \notin alive
  /\ \A p \in Processes : conn[p] # s
  /\ \A x \in Executions : exec[x] # s

\* session: the dedicated connection, or a new one.  Any name nobody refers to
\* will do for that, so one of them is taken.
session(p, s) ==
  IF conn[p] # NoSession
  THEN s = conn[p]
  ELSE Unused(s) /\ s = CHOOSE u \in Sessions : Unused(u)

Opened(p, s) == IF conn[p] = NoSession THEN alive \cup {s} ELSE alive

\* discard: the socket is closed later, off the mutex.
discard(p) ==
  /\ conn' = [conn EXCEPT ![p] = NoSession]
  /\ held' = [held EXCEPT ![p] = {}]

\* pg_try_advisory_lock succeeds unless another session has the lock; a
\* session may take the same lock again.
Available(r, s) == \A u \in Sessions \ {s} : locks[u][r] = 0

TryLock(r, s) == [locks EXCEPT ![s][r] = IF Available(r, s) THEN @ + 1 ELSE @]

Unlock(r, s) == [locks EXCEPT ![s][r] = IF @ > 0 THEN @ - 1 ELSE @]

\* x executes under its lock in s; another execution may be out still.
Executes(x, s) ==
  /\ exec' = [exec EXCEPT ![x] = s]
  /\ reran' = IF \E y \in Executions :
                   Proc[y] = Proc[x] /\ Wants[y] = Wants[x] /\ exec[y] # NoSession
              THEN reran \cup {Proc[x]} ELSE reran

-----------------------------------------------------------------------------
\* Mutant: Acquire does not look at held.
MayTryAlways(x) == exec[x] = NoSession

\* Acquire goes to the server only for a resource that is not in held.
MayTry(x) == exec[x] = NoSession /\ Wants[x] \notin held[Proc[x]]

\* Mutant: the lock is refused and the session given up with it.
AcquireRefusedDiscards(x, s) ==
  LET p == Proc[x]
      r == Wants[x]
  IN
  /\ MayTry(x) /\ session(p, s) /\ s \in Opened(p, s)
  /\ alive' = Opened(p, s)
  /\ locks' = TryLock(r, s)
  /\ IF Available(r, s)
     THEN /\ conn' = [conn EXCEPT ![p] = s]
          /\ held' = [held EXCEPT ![p] = @ \cup {r}]
          /\ Executes(x, s)
     ELSE discard(p) /\ UNCHANGED <<exec, reran>>
  /\ UNCHANGED faults

\* Mutant: Run goes on although the lock was refused.
AcquireIgnored(x, s) ==
  LET p == Proc[x]
      r == Wants[x]
  IN
  /\ MayTry(x) /\ session(p, s) /\ s \in Opened(p, s)
  /\ alive' = Opened(p, s)
  /\ conn' = [conn EXCEPT ![p] = s]
  /\ locks' = TryLock(r, s)
  /\ held' = IF Available(r, s) THEN [held EXCEPT ![p] = @ \cup {r}] ELSE held
  /\ Executes(x, s)
  /\ UNCHANGED faults

\* Acquire, when the server answers.
Acquire(x, s) ==
  LET p == Proc[x]
      r == Wants[x]
  IN
  /\ MayTry(x) /\ session(p, s) /\ s \in Opened(p, s)
  /\ alive' = Opened(p, s)
  /\ conn' = [conn EXCEPT ![p] = s]
  /\ locks' = TryLock(r, s)
  /\ IF Available(r, s)
     THEN /\ held' = [held EXCEPT ![p] = @ \cup {r}]
          /\ Executes(x, s)
     ELSE UNCHANGED <<held, exec, reran>>
  /\ UNCHANGED faults

\* Acquire, when the statement fails: the session is gone, or the round trip
\* timed out and the server may have run it or not.
AcquireFails(x, s) ==
  LET p == Proc[x] IN
  /\ MayTry(x) /\ session(p, s)
  /\ alive' = Opened(p, s)
  /\ \/ s \notin Opened(p, s) /\ UNCHANGED <<locks, faults>>
     \/ s \in Opened(p, s) /\ Fault /\ locks' \in {locks, TryLock(Wants[x], s)}
  /\ discard(p)
  /\ UNCHANGED <<exec, reran>>

Finishes(x) ==
  /\ exec[x] # NoSession
  /\ exec' = [exec EXCEPT ![x] = NoSession]
  /\ UNCHANGED reran

\* Release of a resource that is no longer in held is quiet.
ReleaseUnheld(x) ==
  /\ Finishes(x)
  /\ Wants[x] \notin held[Proc[x]]
  /\ UNCHANGED <<conn, held, alive, locks, faults>>

Release(x) ==
  /\ Finishes(x)
  /\ Wants[x] \in held[Proc[x]] /\ conn[Proc[x]] \in alive
  /\ held' = [held EXCEPT ![Proc[x]] = @ \ {Wants[x]}]
  /\ locks' = Unlock(Wants[x], conn[Proc[x]])
  /\ UNCHANGED <<conn, alive, faults>>

ReleaseFails(x) ==
  LET s == conn[Proc[x]] IN
  /\ Finishes(x)
  /\ Wants[x] \in held[Proc[x]]
  /\ \/ s \notin alive /\ UNCHANGED <<locks, faults>>
     \/ s \in alive /\ Fault /\ locks' \in {locks, Unlock(Wants[x], s)}
  /\ discard(Proc[x])
  /\ UNCHANGED alive

\* The server forgets a session and every lock of it.
Ends(s) ==
  /\ alive' = alive \ {s}
  /\ locks' = [locks EXCEPT ![s] = Unlocked]

\* The socket of a discarded session, or of a dead process, is closed.
SessionCloses(s) ==
  /\ s \in alive
  /\ \A p \in Processes : conn[p] # s
  /\ Ends(s)
  /\ UNCHANGED <<conn, held, exec, reran, faults>>

\* The session dies; the process learns of it from its next statement.
SessionDies(p) ==
  /\ conn[p] \in alive
  /\ Fault
  /\ Ends(conn[p])
  /\ UNCHANGED <<conn, held, exec, reran>>

\* The process is killed, or shuts down and calls Close as the last thing.
ProcessDies(p) ==
  /\ conn[p] # NoSession
  /\ Fault
  /\ discard(p)
  /\ exec' = [x \in Executions |-> IF Proc[x] = p THEN NoSession ELSE exec[x]]
  /\ UNCHANGED <<alive, locks, reran>>

Next ==
  \/ \E x \in Executions :
       \/ \E s \in Sessions : Acquire(x, s) \/ AcquireFails(x, s)
       \/ ReleaseUnheld(x) \/ Release(x) \/ ReleaseFails(x)
  \/ \E s \in Sessions : SessionCloses(s)
  \/ \E p \in Processes : SessionDies(p) \/ ProcessDies(p)

Spec == Init /\ [][Next]_vars

-----------------------------------------------------------------------------
\* held and the server agree: while a process's session lives, it has exactly
\* the locks in held, each taken once.  So no lock is left behind that nobody
\* will release, and one unlock is enough to free it.
LocksTracked ==
  \A p \in Processes :
    /\ held[p] # {} => conn[p] # NoSession
    /\ conn[p] \in alive =>
         \A r \in Resources : locks[conn[p]][r] = IF r \in held[p] THEN 1 ELSE 0

\* Instances exclude each other: two executions of one job are not both under
\* a lock whose session is still alive, through timeouts, lost sessions and
\* killed processes, as long as no process has executed a job twice at a time.
InstancesExclude ==
  \A x, y \in Executions :
    /\ Wants[x] = Wants[y] /\ exec[x] \in alive /\ exec[y] \in alive
    /\ {Proc[x], Proc[y]} \cap reran = {}
    => x = y

\* The execution lock prevents duplicate execution: two executions of one job
\* are not both under a lock whose session is still alive.
LiveLocksExclude ==
  \A x, y \in Executions :
    Wants[x] = Wants[y] /\ exec[x] \in alive /\ exec[y] \in alive => x = y

\* A job that is refused or finishes does not take its neighbours' locks with
\* it: as long as the process keeps its session, one step gives up at most the
\* resource of the execution that ends.
NeighboursKept ==
  [][\A p \in Processes : faults' = faults /\ conn[p] \in alive =>
       /\ conn'[p] = conn[p]
       /\ \A r \in held[p] \ held'[p] :
            \E x \in Executions :
              Proc[x] = p /\ Wants[x] = r /\ exec[x] # exec'[x]]_vars
=============================================================================
