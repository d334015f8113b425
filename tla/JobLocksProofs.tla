--------------------------- MODULE JobLocksProofs ---------------------------
(***************************************************************************)
(* Proofs about the execution locks: AdvisoryLock, for any processes,      *)
(* executions, resources and sessions and any number of faults; Redlock,   *)
(* for every number of nodes, every TTL and every drift, with lost answers *)
(* and restarted nodes; and JobLocks, the deployment that has one of them. *)
(***************************************************************************)
EXTENDS JobLocks, FiniteSetTheorems, TLAPS

\* Steps without arithmetic are left to Zenon; the others name their prover.
USE Zenon

-----------------------------------------------------------------------------
(* The advisory lock.                                                      *)

\* A session is the connection of at most one process.
ConnsDistinct ==
  \A p, q \in Processes : conn[p] = conn[q] /\ conn[p] # NoSession => p = q

\* The server keeps no lock of a session that is gone.
DeadUnlocked == \A s \in Sessions \ alive : locks[s] = Unlocked

\* The server grants a lock to one session at a time.
ServerExcludes ==
  \A s, u \in Sessions, r \in Resources :
    locks[s][r] > 0 /\ locks[u][r] > 0 => s = u

\* The session an execution locked in is its own process's, while it is
\* anybody's.
ExecInOwnSession ==
  /\ \A x \in Executions, q \in Processes :
       exec[x] # NoSession /\ conn[q] = exec[x] => q = Proc[x]
  /\ \A x, y \in Executions :
       exec[x] # NoSession /\ exec[x] = exec[y] => Proc[x] = Proc[y]

\* A process that executes a job twice at a time is recorded.
RerunsRecorded ==
  \A x, y \in Executions :
    /\ exec[x] # NoSession /\ exec[y] # NoSession
    /\ Proc[x] = Proc[y] /\ Wants[x] = Wants[y] /\ Proc[x] \notin reran
    => x = y

\* An execution's lock stays taken while its session lives, also when the
\* process has discarded the session.
LockTaken ==
  \A x \in Executions :
    exec[x] \in alive /\ Proc[x] \notin reran => locks[exec[x]][Wants[x]] > 0

LInv ==
  /\ TypeOK /\ LocksTracked /\ ConnsDistinct /\ DeadUnlocked /\ ServerExcludes
  /\ ExecInOwnSession /\ RerunsRecorded /\ LockTaken

\* No session, no lock and no execution satisfy the invariant.
LEMMA LockInit == Init => LInv
BY LockAssumption, SMT
DEF Init, LInv, TypeOK, LocksTracked, ConnsDistinct, DeadUnlocked, ServerExcludes,
    ExecInOwnSession, RerunsRecorded, LockTaken, Unlocked

-----------------------------------------------------------------------------
(* What the statements do to the table of locks.                           *)

\* pg_try_advisory_lock changes one entry, and only when no other session has
\* the lock.
LEMMA TryLockFacts ==
  ASSUME LInv, NEW r \in Resources, NEW s \in Sessions
  PROVE  /\ TryLock(r, s) \in [Sessions -> [Resources -> Nat]]
         /\ \A u \in Sessions, q \in Resources :
              u # s \/ q # r => TryLock(r, s)[u][q] = locks[u][q]
         /\ TryLock(r, s)[s][r] = IF Available(r, s) THEN locks[s][r] + 1 ELSE locks[s][r]
BY SMT DEF LInv, TypeOK, TryLock

\* pg_advisory_unlock changes one entry.
LEMMA UnlockFacts ==
  ASSUME LInv, NEW r \in Resources, NEW s \in Sessions
  PROVE  /\ Unlock(r, s) \in [Sessions -> [Resources -> Nat]]
         /\ \A u \in Sessions, q \in Resources :
              u # s \/ q # r => Unlock(r, s)[u][q] = locks[u][q]
         /\ Unlock(r, s)[s][r] = IF locks[s][r] > 0 THEN locks[s][r] - 1 ELSE 0
<1>1. locks[s][r] \in Nat
  BY DEF LInv, TypeOK
<1>2. (IF locks[s][r] > 0 THEN locks[s][r] - 1 ELSE locks[s][r]) \in Nat
  BY <1>1, SMT
<1> QED
  BY <1>1, <1>2, SMT DEF LInv, TypeOK, Unlock

\* The session Acquire works in is the process's own, or one nobody refers to
\* and the server has just opened, without a lock.
LEMMA SessionFacts ==
  ASSUME LInv, NEW p \in Processes, NEW s \in Sessions, session(p, s)
  PROVE  /\ \A q \in Processes : conn[q] = s => q = p
         /\ \A x \in Executions : exec[x] = s => Proc[x] = p
         /\ conn[p] = NoSession \/ conn[p] = s
         /\ conn[p] # s => s \notin alive /\ locks[s] = Unlocked /\ held[p] = {}
         /\ Opened(p, s) = IF conn[p] = NoSession THEN alive \cup {s} ELSE alive
         /\ s \in Opened(p, s) =>
              \A r \in Resources : locks[s][r] = IF r \in held[p] THEN 1 ELSE 0
<1>1. CASE conn[p] # NoSession
  <2>1. s = conn[p]
    BY <1>1 DEF session
  <2> QED
    BY <1>1, <2>1, LockAssumption
    DEF LInv, ConnsDistinct, ExecInOwnSession, LocksTracked, Opened
<1>2. CASE conn[p] = NoSession
  <2>1. Unused(s)
    BY <1>2 DEF session
  <2>2. s \notin alive /\ locks[s] = Unlocked /\ held[p] = {}
    BY <1>2, <2>1 DEF Unused, LInv, DeadUnlocked, LocksTracked
  <2> QED
    BY <1>2, <2>1, <2>2, LockAssumption DEF Unused, Opened, Unlocked
<1> QED
  BY <1>1, <1>2

-----------------------------------------------------------------------------
(* The actions.                                                            *)

\* Acquire, answered: the lock is taken in the process's session and in no
\* other, or refused and nothing is held.
LEMMA AcquireInv ==
  ASSUME LInv, NEW x \in Executions, NEW s \in Sessions, Acquire(x, s)
  PROVE  LInv'
<1> DEFINE p == Proc[x]
           r == Wants[x]
<1>1. p \in Processes /\ r \in Resources
  BY LockAssumption
<1>2. /\ exec[x] = NoSession /\ r \notin held[p] /\ session(p, s) /\ s \in Opened(p, s)
      /\ alive' = Opened(p, s) /\ conn' = [conn EXCEPT ![p] = s]
      /\ locks' = TryLock(r, s) /\ faults' = faults
  BY DEF Acquire, MayTry
<1>3. /\ \A q \in Processes : conn[q] = s => q = p
      /\ \A y \in Executions : exec[y] = s => Proc[y] = p
      /\ conn[p] = NoSession \/ conn[p] = s
      /\ conn[p] # s => s \notin alive /\ locks[s] = Unlocked /\ held[p] = {}
      /\ alive' = IF conn[p] = NoSession THEN alive \cup {s} ELSE alive
      /\ \A q \in Resources : locks[s][q] = IF q \in held[p] THEN 1 ELSE 0
  BY <1>1, <1>2, SessionFacts
<1>4. /\ locks' \in [Sessions -> [Resources -> Nat]]
      /\ \A u \in Sessions, q \in Resources : u # s \/ q # r => locks'[u][q] = locks[u][q]
      /\ locks[s][r] = 0
      /\ locks'[s][r] = IF Available(r, s) THEN 1 ELSE 0
  BY <1>1, <1>2, <1>3, TryLockFacts, SMT
<1>5. \/ /\ Available(r, s)
         /\ held' = [held EXCEPT ![p] = @ \cup {r}]
         /\ exec' = [exec EXCEPT ![x] = s]
         /\ reran' = IF \E y \in Executions :
                          Proc[y] = p /\ Wants[y] = r /\ exec[y] # NoSession
                     THEN reran \cup {p} ELSE reran
      \/ ~Available(r, s) /\ UNCHANGED <<held, exec, reran>>
  BY DEF Acquire, Executes
<1>6. s \in alive' /\ alive' \subseteq Sessions /\ alive \subseteq alive'
  BY <1>2, <1>3 DEF LInv, TypeOK
<1> HIDE DEF p, r
<1>7. TypeOK'
  <2>1. reran' \subseteq Processes
    BY <1>1, <1>5, SMT DEF LInv, TypeOK
  <2>2. held' \in [Processes -> SUBSET Resources]
    BY <1>1, <1>5, SMT DEF LInv, TypeOK
  <2>3. exec' \in [Executions -> Sessions \cup {NoSession}]
    BY <1>5 DEF LInv, TypeOK
  <2> QED
    BY <1>1, <1>2, <1>4, <1>6, <2>1, <2>2, <2>3 DEF LInv, TypeOK
<1>8. LocksTracked'
  <2> SUFFICES ASSUME NEW q \in Processes
               PROVE  /\ held'[q] # {} => conn'[q] # NoSession
                      /\ conn'[q] \in alive' =>
                           \A c \in Resources : locks'[conn'[q]][c] = IF c \in held'[q] THEN 1 ELSE 0
    BY DEF LocksTracked
  <2>1. CASE q = p
    BY <1>1, <1>2, <1>3, <1>4, <1>5, <2>1, LockAssumption, SMT DEF LInv, TypeOK
  <2>2. CASE q # p
    <3>1. conn'[q] = conn[q] /\ held'[q] = held[q] /\ conn[q] # s
      BY <1>1, <1>2, <1>3, <1>5, <2>2 DEF LInv, TypeOK
    <3> QED
      BY <1>3, <1>4, <3>1, SMT DEF LInv, TypeOK, LocksTracked
  <2> QED
    BY <2>1, <2>2
<1>9. ConnsDistinct'
  BY <1>1, <1>2, <1>3 DEF LInv, TypeOK, ConnsDistinct
<1>10. DeadUnlocked'
  <2> SUFFICES ASSUME NEW u \in Sessions \ alive' PROVE locks'[u] = Unlocked
    BY DEF DeadUnlocked
  <2>1. u # s /\ u \notin alive
    BY <1>6
  <2>2. locks[u] = Unlocked /\ locks'[u] \in [Resources -> Nat]
    BY <1>4, <2>1 DEF LInv, DeadUnlocked
  <2> QED
    BY <1>4, <2>1, <2>2, SMT DEF Unlocked
<1>11. ServerExcludes'
  BY <1>1, <1>4, SMT DEF LInv, ServerExcludes, Available, TypeOK
<1>12. ExecInOwnSession'
  BY <1>1, <1>2, <1>3, <1>5, LockAssumption, SMT DEF LInv, TypeOK, ExecInOwnSession, p
<1>13. RerunsRecorded'
  BY <1>2, <1>5, SMT DEF LInv, TypeOK, RerunsRecorded, p, r
<1>14. LockTaken'
  <2> SUFFICES ASSUME NEW y \in Executions, exec'[y] \in alive', Proc[y] \notin reran'
               PROVE  locks'[exec'[y]][Wants[y]] > 0
    BY DEF LockTaken
  <2>1. CASE y = x /\ Available(r, s)
    BY <1>4, <1>5, <2>1, SMT DEF LInv, TypeOK, r
  <2>2. CASE ~(y = x /\ Available(r, s))
    <3>1. exec'[y] = exec[y] /\ Proc[y] \notin reran
      BY <1>5, <2>2 DEF LInv, TypeOK
    <3>2. exec[y] \in alive
      <4>1. CASE conn[p] = s
        BY <1>3, <3>1, <4>1, LockAssumption
      <4>2. CASE conn[p] # s
        <5>1. Unused(s)
          BY <1>2, <1>3, <4>2 DEF session
        <5> QED
          BY <1>3, <3>1, <5>1 DEF Unused
      <4> QED
        BY <4>1, <4>2
    <3>3. exec[y] \in Sessions /\ Wants[y] \in Resources /\ locks[exec[y]][Wants[y]] > 0
      BY <3>1, <3>2, LockAssumption DEF LInv, LockTaken, TypeOK
    <3> QED
      BY <1>4, <3>1, <3>3, SMT
  <2> QED
    BY <2>1, <2>2
<1> QED
  BY <1>7, <1>8, <1>9, <1>10, <1>11, <1>12, <1>13, <1>14 DEF LInv

\* Acquire, failed: the session is discarded, with what it may have locked.
LEMMA AcquireFailsInv ==
  ASSUME LInv, NEW x \in Executions, NEW s \in Sessions, AcquireFails(x, s)
  PROVE  LInv'
<1> DEFINE p == Proc[x]
           r == Wants[x]
<1>1. p \in Processes /\ r \in Resources
  BY LockAssumption
<1>2. /\ session(p, s) /\ alive' = Opened(p, s)
      /\ conn' = [conn EXCEPT ![p] = NoSession] /\ held' = [held EXCEPT ![p] = {}]
      /\ exec' = exec /\ reran' = reran
      /\ \/ UNCHANGED <<locks, faults>>
         \/ s \in Opened(p, s) /\ Fault /\ locks' \in {locks, TryLock(r, s)}
  BY DEF AcquireFails, discard
<1>3. /\ \A q \in Processes : conn[q] = s => q = p
      /\ conn[p] = NoSession \/ conn[p] = s
      /\ alive' = IF conn[p] = NoSession THEN alive \cup {s} ELSE alive
  BY <1>1, <1>2, SessionFacts
<1>4. /\ locks' \in [Sessions -> [Resources -> Nat]]
      /\ \A u \in Sessions, q \in Resources :
           /\ u # s => locks'[u][q] = locks[u][q]
           /\ locks'[u][q] >= locks[u][q]
           /\ locks'[u][q] = locks[u][q] \/ (u = s /\ q = r /\ Available(r, s))
  <2>1. CASE locks' = locks
    BY <2>1, SMT DEF LInv, TypeOK
  <2>2. CASE locks' = TryLock(r, s)
    BY <1>1, <2>2, TryLockFacts, SMT DEF LInv, TypeOK
  <2> QED
    BY <1>2, <2>1, <2>2
<1>5. alive' \subseteq Sessions /\ alive \subseteq alive'
  BY <1>3 DEF LInv, TypeOK
<1>6. s \in alive' \/ locks' = locks
  BY <1>2
<1>7. faults' \in 0..MaxFaults
  BY <1>2, LockAssumption, SMT DEF LInv, TypeOK, Fault
<1>8. \A y \in Executions : exec[y] \in alive' => exec[y] \in alive
  <2>1. CASE conn[p] = NoSession
    <3>1. Unused(s)
      BY <1>2, <2>1 DEF session
    <3> QED
      BY <1>3, <3>1 DEF Unused
  <2>2. CASE conn[p] # NoSession
    BY <1>3, <2>2
  <2> QED
    BY <2>1, <2>2
<1> HIDE DEF p, r
<1>9. TypeOK'
  BY <1>1, <1>2, <1>4, <1>5, <1>7 DEF LInv, TypeOK
<1>10. LocksTracked'
  <2> SUFFICES ASSUME NEW q \in Processes
               PROVE  /\ held'[q] # {} => conn'[q] # NoSession
                      /\ conn'[q] \in alive' =>
                           \A c \in Resources : locks'[conn'[q]][c] = IF c \in held'[q] THEN 1 ELSE 0
    BY DEF LocksTracked
  <2>1. CASE q = p
    BY <1>1, <1>2, <1>5, <2>1, LockAssumption DEF LInv, TypeOK
  <2>2. CASE q # p
    <3>1. conn'[q] = conn[q] /\ held'[q] = held[q] /\ conn[q] # s
      BY <1>1, <1>2, <1>3, <2>2 DEF LInv, TypeOK
    <3> QED
      BY <1>3, <1>4, <3>1, SMT DEF LInv, TypeOK, LocksTracked
  <2> QED
    BY <2>1, <2>2
<1>11. ConnsDistinct'
  BY <1>1, <1>2 DEF LInv, TypeOK, ConnsDistinct
<1>12. DeadUnlocked'
  <2> SUFFICES ASSUME NEW u \in Sessions \ alive' PROVE locks'[u] = Unlocked
    BY DEF DeadUnlocked
  <2>1. locks[u] = Unlocked
    BY <1>5 DEF LInv, DeadUnlocked
  <2>2. locks'[u] \in [Resources -> Nat] /\ \A q \in Resources : locks'[u][q] = locks[u][q]
    BY <1>4, <1>6
  <2> QED
    BY <2>1, <2>2 DEF Unlocked
<1>13. ServerExcludes'
  BY <1>1, <1>4, SMT DEF LInv, ServerExcludes, Available, TypeOK
<1>14. ExecInOwnSession' /\ RerunsRecorded'
  BY <1>1, <1>2 DEF LInv, TypeOK, ExecInOwnSession, RerunsRecorded
<1>15. LockTaken'
  <2> SUFFICES ASSUME NEW y \in Executions, exec[y] \in alive', Proc[y] \notin reran
               PROVE  locks'[exec[y]][Wants[y]] > 0
    BY <1>2 DEF LockTaken
  <2>1. /\ exec[y] \in Sessions /\ Wants[y] \in Resources
        /\ locks[exec[y]][Wants[y]] \in Nat /\ locks[exec[y]][Wants[y]] > 0
    BY <1>8, LockAssumption, SMT DEF LInv, LockTaken, TypeOK
  <2>2. locks'[exec[y]][Wants[y]] \in Nat /\ locks'[exec[y]][Wants[y]] >= locks[exec[y]][Wants[y]]
    BY <1>4, <2>1
  <2> QED
    BY <2>1, <2>2, SMT
<1> QED
  BY <1>9, <1>10, <1>11, <1>12, <1>13, <1>14, <1>15 DEF LInv

\* Release: an execution ends, and gives up at most the lock it wants, in its
\* process's session; if anything goes wrong the session is discarded.
LEMMA ReleaseInv ==
  ASSUME LInv, NEW x \in Executions, ReleaseUnheld(x) \/ Release(x) \/ ReleaseFails(x)
  PROVE  LInv'
<1> DEFINE p == Proc[x]
           r == Wants[x]
           s == conn[p]
<1>1. p \in Processes /\ r \in Resources
  BY LockAssumption
<1>2. exec[x] # NoSession /\ exec' = [exec EXCEPT ![x] = NoSession] /\ reran' = reran
      /\ alive' = alive
  BY DEF ReleaseUnheld, Release, ReleaseFails, Finishes
<1>3. \/ r \notin held[p] /\ UNCHANGED <<conn, held, locks, faults>>
      \/ /\ r \in held[p] /\ s \in alive /\ held' = [held EXCEPT ![p] = @ \ {r}]
         /\ locks' = Unlock(r, s) /\ UNCHANGED <<conn, faults>>
      \/ /\ r \in held[p] /\ discard(p)
         /\ \/ UNCHANGED <<locks, faults>>
            \/ s \in alive /\ Fault /\ locks' \in {locks, Unlock(r, s)}
  BY DEF ReleaseUnheld, Release, ReleaseFails
<1>4. /\ locks' \in [Sessions -> [Resources -> Nat]]
      /\ \A u \in Sessions, q \in Resources :
           /\ u # s \/ q # r => locks'[u][q] = locks[u][q]
           /\ locks'[u][q] <= locks[u][q]
  <2>1. CASE locks' = locks
    BY <2>1, SMT DEF LInv, TypeOK
  <2>2. CASE s \in alive /\ locks' = Unlock(r, s)
    <3>1. s \in Sessions /\ locks[s][r] \in Nat
      BY <1>1, <2>2 DEF LInv, TypeOK
    <3>2. /\ Unlock(r, s) \in [Sessions -> [Resources -> Nat]]
          /\ \A u \in Sessions, q \in Resources :
               u # s \/ q # r => Unlock(r, s)[u][q] = locks[u][q]
          /\ Unlock(r, s)[s][r] = IF locks[s][r] > 0 THEN locks[s][r] - 1 ELSE 0
      BY <1>1, <3>1, UnlockFacts
    <3> HIDE DEF p, r, s
    <3>3. Unlock(r, s)[s][r] <= locks[s][r]
      BY <3>1, <3>2, SMT
    <3>4. \A u \in Sessions, q \in Resources : locks[u][q] \in Nat
      BY DEF LInv, TypeOK
    <3> QED
      BY <2>2, <3>2, <3>3, <3>4, SMT
  <2> QED
    BY <1>3, <2>1, <2>2
<1>5. faults' \in 0..MaxFaults
  BY <1>3, LockAssumption, SMT DEF LInv, TypeOK, Fault
<1>6. conn' \in [Processes -> Sessions \cup {NoSession}] /\ held' \in [Processes -> SUBSET Resources]
  BY <1>1, <1>3, SMT DEF LInv, TypeOK, discard
<1>7. /\ \A q \in Processes \ {p} : conn'[q] = conn[q] /\ held'[q] = held[q]
      /\ conn'[p] \in {conn[p], NoSession}
  BY <1>1, <1>3 DEF LInv, TypeOK, discard
<1>8. locks' # locks => s \in alive
  BY <1>3
<1>9. LocksTracked'
  <2> SUFFICES ASSUME NEW q \in Processes
               PROVE  /\ held'[q] # {} => conn'[q] # NoSession
                      /\ conn'[q] \in alive =>
                           \A c \in Resources : locks'[conn'[q]][c] = IF c \in held'[q] THEN 1 ELSE 0
    BY <1>2 DEF LocksTracked
  <2>t. NoSession \notin alive
    BY LockAssumption DEF LInv, TypeOK
  <2>1. CASE q # p
    <3>1. conn'[q] = conn[q] /\ held'[q] = held[q]
      BY <1>7, <2>1
    <3>2. conn[q] \in alive => conn[q] # s
      BY <1>1, <2>1, <2>t DEF LInv, ConnsDistinct
    <3> QED
      BY <1>4, <3>1, <3>2, SMT DEF LInv, TypeOK, LocksTracked
  <2>2. CASE q = p
    <3>1. CASE r \notin held[p] /\ UNCHANGED <<conn, held, locks, faults>>
      BY <3>1 DEF LInv, LocksTracked
    <3>2. CASE /\ r \in held[p] /\ s \in alive /\ held' = [held EXCEPT ![p] = @ \ {r}]
               /\ locks' = Unlock(r, s) /\ UNCHANGED <<conn, faults>>
      <4>1. s \in Sessions /\ held'[p] = held[p] \ {r} /\ conn'[p] = s
        BY <1>1, <3>2 DEF LInv, TypeOK
      <4>2. \A c \in Resources : locks[s][c] = IF c \in held[p] THEN 1 ELSE 0
        BY <1>1, <3>2 DEF LInv, LocksTracked
      <4>3. Unlock(r, s)[s][r] = IF locks[s][r] > 0 THEN locks[s][r] - 1 ELSE 0
        BY <1>1, <4>1, UnlockFacts
      <4>4. locks[s][r] = 1
        BY <1>1, <3>2, <4>2
      <4>5. locks'[s][r] = 0
        BY <3>2, <4>3, <4>4, SMT
      <4> QED
        BY <1>1, <1>4, <2>2, <2>t, <3>2, <4>1, <4>2, <4>5, SMT
    <3>3. CASE discard(p)
      BY <1>1, <2>2, <2>t, <3>3 DEF discard, LInv, TypeOK
    <3> QED
      BY <1>3, <3>1, <3>2, <3>3
  <2> QED
    BY <2>1, <2>2
<1> HIDE DEF p, r, s
<1>10. TypeOK'
  BY <1>2, <1>4, <1>5, <1>6 DEF LInv, TypeOK
<1>11. ConnsDistinct'
  BY <1>1, <1>7 DEF LInv, ConnsDistinct
<1>12. DeadUnlocked'
  <2> SUFFICES ASSUME NEW u \in Sessions \ alive PROVE locks'[u] = Unlocked
    BY <1>2 DEF DeadUnlocked
  <2>1. locks[u] = Unlocked /\ locks'[u] \in [Resources -> Nat]
    BY <1>4 DEF LInv, DeadUnlocked
  <2>2. \A q \in Resources : locks'[u][q] = locks[u][q]
    BY <1>4, <1>8
  <2> QED
    BY <2>1, <2>2 DEF Unlocked
<1>13. ServerExcludes'
  <2> SUFFICES ASSUME NEW u \in Sessions, NEW v \in Sessions, NEW q \in Resources,
                      locks'[u][q] > 0, locks'[v][q] > 0
               PROVE  u = v
    BY DEF ServerExcludes
  <2>1. /\ locks[u][q] \in Nat /\ locks'[u][q] \in Nat /\ locks'[u][q] <= locks[u][q]
        /\ locks[v][q] \in Nat /\ locks'[v][q] \in Nat /\ locks'[v][q] <= locks[v][q]
    BY <1>4, SMT DEF LInv, TypeOK
  <2> QED
    BY <2>1, SMT DEF LInv, ServerExcludes
<1>14. ExecInOwnSession' /\ RerunsRecorded'
  <2>1. \A y \in Executions : exec'[y] # NoSession => exec'[y] = exec[y]
    BY <1>2 DEF LInv, TypeOK
  <2>2. \A q \in Processes : conn'[q] # NoSession => conn'[q] = conn[q]
    BY <1>1, <1>7
  <2>3. ExecInOwnSession'
    BY <2>1, <2>2, SMT DEF LInv, ExecInOwnSession
  <2>4. RerunsRecorded'
    BY <1>2, <2>1 DEF LInv, RerunsRecorded
  <2> QED
    BY <2>3, <2>4
<1>15. LockTaken'
  <2> SUFFICES ASSUME NEW y \in Executions, exec'[y] \in alive, Proc[y] \notin reran
               PROVE  locks'[exec'[y]][Wants[y]] > 0
    BY <1>2 DEF LockTaken
  <2>1. y # x /\ exec'[y] = exec[y] /\ exec[y] \in Sessions /\ exec[y] # NoSession
    BY <1>2, LockAssumption DEF LInv, TypeOK
  <2>2. Wants[y] \in Resources /\ locks[exec[y]][Wants[y]] > 0
    BY <2>1, LockAssumption DEF LInv, LockTaken
  <2>3. ~(exec[y] = s /\ Wants[y] = r)
    <3> SUFFICES ASSUME exec[y] = s, Wants[y] = r PROVE FALSE
      OBVIOUS
    <3>1. Proc[y] = p
      BY <1>1, <2>1 DEF LInv, ExecInOwnSession, s
    <3> QED
      BY <1>2, <2>1, <3>1 DEF LInv, RerunsRecorded, p, r
  <2> QED
    BY <1>4, <2>1, <2>2, <2>3
<1> QED
  BY <1>9, <1>10, <1>11, <1>12, <1>13, <1>14, <1>15 DEF LInv

\* A session ends, discarded or not, and its locks go with it.
LEMMA EndsInv ==
  ASSUME LInv, NEW s \in alive, Ends(s), UNCHANGED <<conn, held, exec, reran>>,
         faults' \in 0..MaxFaults
  PROVE  LInv'
<1>1. /\ s \in Sessions /\ alive' = alive \ {s} /\ NoSession \notin alive
      /\ locks' = [locks EXCEPT ![s] = Unlocked]
  BY LockAssumption DEF Ends, LInv, TypeOK
<1>2. /\ locks' \in [Sessions -> [Resources -> Nat]]
      /\ locks'[s] = Unlocked
      /\ \A u \in Sessions \ {s} : locks'[u] = locks[u]
  BY <1>1 DEF LInv, TypeOK, Unlocked
<1>3. TypeOK'
  BY <1>1, <1>2 DEF LInv, TypeOK
<1>4. LocksTracked' /\ ConnsDistinct' /\ DeadUnlocked'
  BY <1>1, <1>2, SMT DEF LInv, TypeOK, LocksTracked, ConnsDistinct, DeadUnlocked
<1>5. ServerExcludes'
  BY <1>1, <1>2, SMT DEF LInv, TypeOK, ServerExcludes, Unlocked
<1>6. ExecInOwnSession' /\ RerunsRecorded'
  BY DEF LInv, ExecInOwnSession, RerunsRecorded
<1>7. LockTaken'
  BY <1>1, <1>2 DEF LInv, TypeOK, LockTaken
<1> QED
  BY <1>3, <1>4, <1>5, <1>6, <1>7 DEF LInv

\* A process dies: its session keeps its locks until the server closes it.
LEMMA ProcessDiesInv ==
  ASSUME LInv, NEW p \in Processes, ProcessDies(p)
  PROVE  LInv'
<1>1. /\ conn' = [conn EXCEPT ![p] = NoSession] /\ held' = [held EXCEPT ![p] = {}]
      /\ exec' = [x \in Executions |-> IF Proc[x] = p THEN NoSession ELSE exec[x]]
      /\ UNCHANGED <<alive, locks, reran>> /\ faults' \in 0..MaxFaults
  BY LockAssumption, SMT DEF ProcessDies, discard, Fault, LInv, TypeOK
<1>2. NoSession \notin alive
  BY LockAssumption DEF LInv, TypeOK
<1>3. TypeOK'
  BY <1>1 DEF LInv, TypeOK
<1>4. LocksTracked' /\ ConnsDistinct' /\ DeadUnlocked' /\ ServerExcludes'
  BY <1>1, <1>2 DEF LInv, TypeOK, LocksTracked, ConnsDistinct, DeadUnlocked, ServerExcludes
<1>5. \A x \in Executions : exec'[x] # NoSession => exec'[x] = exec[x]
  BY <1>1
<1>6. \A q \in Processes : conn'[q] # NoSession => conn'[q] = conn[q]
  BY <1>1 DEF LInv, TypeOK
<1>7. ExecInOwnSession'
  BY <1>5, <1>6, SMT DEF LInv, ExecInOwnSession
<1>8. RerunsRecorded' /\ LockTaken'
  BY <1>1, <1>2, <1>5 DEF LInv, RerunsRecorded, LockTaken
<1> QED
  BY <1>3, <1>4, <1>7, <1>8 DEF LInv

\* Every step of executions, sessions and processes preserves the invariant.
LEMMA LockNext == LInv /\ [Next]_vars => LInv'
<1> SUFFICES ASSUME LInv, [Next]_vars PROVE LInv'
  OBVIOUS
<1>1. ASSUME NEW s \in Sessions, SessionCloses(s) PROVE LInv'
  BY <1>1, EndsInv DEF SessionCloses, LInv, TypeOK
<1>2. ASSUME NEW p \in Processes, SessionDies(p) PROVE LInv'
  <2>1. faults' \in 0..MaxFaults
    BY <1>2, LockAssumption, SMT DEF SessionDies, Fault, LInv, TypeOK
  <2> QED
    BY <1>2, <2>1, EndsInv DEF SessionDies
<1>3. CASE UNCHANGED vars
  BY <1>3, SMT
  DEF vars, LInv, TypeOK, LocksTracked, ConnsDistinct, DeadUnlocked, ServerExcludes,
      ExecInOwnSession, RerunsRecorded, LockTaken
<1> QED
  BY <1>1, <1>2, <1>3, AcquireInv, AcquireFailsInv, ReleaseInv, ProcessDiesInv DEF Next

-----------------------------------------------------------------------------
\* The inductive invariant holds whatever times out, dies or is discarded.
THEOREM LockInvariance == Spec => []LInv
BY LockInit, LockNext, PTL DEF Spec

\* held and the server agree while the session lives: no lock is left behind
\* that nobody will release, and none is taken twice.
THEOREM LocksAreTracked == Spec => []LocksTracked
<1>1. LInv => LocksTracked
  BY DEF LInv
<1> QED
  BY <1>1, LockInvariance, PTL

\* The advisory lock excludes instances from each other, for any number of them
\* and of faults.
THEOREM InstanceExclusion == Spec => []InstancesExclude
<1>1. LInv => InstancesExclude
  <2> SUFFICES ASSUME LInv, NEW x \in Executions, NEW y \in Executions,
                      Wants[x] = Wants[y], exec[x] \in alive, exec[y] \in alive,
                      {Proc[x], Proc[y]} \cap reran = {}
               PROVE  x = y
    BY DEF InstancesExclude
  <2>1. /\ exec[x] \in Sessions /\ exec[x] # NoSession /\ Wants[x] \in Resources
        /\ exec[y] \in Sessions /\ exec[y] # NoSession
    BY LockAssumption DEF LInv, TypeOK
  <2>2. Proc[x] \notin reran /\ Proc[y] \notin reran
    OBVIOUS
  <2>3. locks[exec[x]][Wants[x]] > 0 /\ locks[exec[y]][Wants[x]] > 0
    BY <2>2 DEF LInv, LockTaken
  <2>4. exec[x] = exec[y]
    BY <2>1, <2>3 DEF LInv, ServerExcludes
  <2>5. Proc[x] = Proc[y]
    BY <2>1, <2>4 DEF LInv, ExecInOwnSession
  <2> QED
    BY <2>1, <2>2, <2>5 DEF LInv, RerunsRecorded
<1> QED
  BY <1>1, LockInvariance, PTL

-----------------------------------------------------------------------------
\* What NeighboursKept says of one step.
KeepsNeighbours ==
  \A p \in Processes : faults' = faults /\ conn[p] \in alive =>
    /\ conn'[p] = conn[p]
    /\ \A r \in held[p] \ held'[p] :
         \E x \in Executions : Proc[x] = p /\ Wants[x] = r /\ exec[x] # exec'[x]

\* A fault is counted.
LEMMA FaultCounts == LInv /\ Fault => faults' # faults
BY LockAssumption, SMT DEF LInv, TypeOK, Fault

\* Without a fault a step keeps every live session, and gives up at most the
\* resource of the execution that ends.
LEMMA NeighboursStep == LInv /\ [Next]_vars => [KeepsNeighbours]_vars
<1> SUFFICES ASSUME LInv, Next, NEW p \in Processes, faults' = faults, conn[p] \in alive
             PROVE  /\ conn'[p] = conn[p]
                    /\ \A r \in held[p] \ held'[p] :
                         \E x \in Executions :
                           Proc[x] = p /\ Wants[x] = r /\ exec[x] # exec'[x]
  BY DEF KeepsNeighbours
<1>t. /\ conn \in [Processes -> Sessions \cup {NoSession}]
      /\ held \in [Processes -> SUBSET Resources]
      /\ exec \in [Executions -> Sessions \cup {NoSession}]
      /\ NoSession \notin alive
  BY LockAssumption DEF LInv, TypeOK
<1>f. ~Fault
  BY FaultCounts
<1>1. ASSUME NEW x \in Executions, NEW s \in Sessions, Acquire(x, s)
      PROVE  conn'[p] = conn[p] /\ held[p] \subseteq held'[p]
  <2>1. session(Proc[x], s) /\ conn' = [conn EXCEPT ![Proc[x]] = s]
    BY <1>1 DEF Acquire
  <2>2. conn'[p] = conn[p]
    BY <1>t, <2>1 DEF session
  <2>3. held' = held \/ held' = [held EXCEPT ![Proc[x]] = @ \cup {Wants[x]}]
    BY <1>1 DEF Acquire
  <2> QED
    BY <1>t, <2>2, <2>3
<1>2. ASSUME NEW x \in Executions, NEW s \in Sessions, AcquireFails(x, s)
      PROVE  conn'[p] = conn[p] /\ held'[p] = held[p]
  <2>1. /\ session(Proc[x], s) /\ s \notin Opened(Proc[x], s)
        /\ conn' = [conn EXCEPT ![Proc[x]] = NoSession]
        /\ held' = [held EXCEPT ![Proc[x]] = {}]
    BY <1>2, <1>f DEF AcquireFails, discard
  <2>2. Proc[x] # p
    BY <1>t, <2>1 DEF session, Opened
  <2> QED
    BY <1>t, <2>1, <2>2
<1>3. ASSUME NEW x \in Executions, ReleaseUnheld(x)
      PROVE  conn'[p] = conn[p] /\ held'[p] = held[p]
  BY <1>3 DEF ReleaseUnheld
<1>4. ASSUME NEW x \in Executions, Release(x)
      PROVE  /\ conn'[p] = conn[p]
             /\ \A r \in held[p] \ held'[p] : Proc[x] = p /\ Wants[x] = r /\ exec[x] # exec'[x]
  <2>1. /\ exec[x] # NoSession /\ exec' = [exec EXCEPT ![x] = NoSession]
        /\ held' = [held EXCEPT ![Proc[x]] = @ \ {Wants[x]}] /\ conn' = conn
    BY <1>4 DEF Release, Finishes
  <2> QED
    BY <1>t, <2>1
<1>5. ASSUME NEW x \in Executions, ReleaseFails(x)
      PROVE  conn'[p] = conn[p] /\ held'[p] = held[p]
  <2>1. /\ conn[Proc[x]] \notin alive
        /\ conn' = [conn EXCEPT ![Proc[x]] = NoSession]
        /\ held' = [held EXCEPT ![Proc[x]] = {}]
    BY <1>5, <1>f DEF ReleaseFails, discard
  <2> QED
    BY <1>t, <2>1
<1>6. ASSUME NEW s \in Sessions, SessionCloses(s)
      PROVE  conn'[p] = conn[p] /\ held'[p] = held[p]
  BY <1>6 DEF SessionCloses
<1>7. \A q \in Processes : ~SessionDies(q) /\ ~ProcessDies(q)
  BY <1>f DEF SessionDies, ProcessDies
<1> QED
  BY <1>1, <1>2, <1>3, <1>4, <1>5, <1>6, <1>7 DEF Next

\* A job that is refused or finishes takes no neighbour's lock with it, for any
\* number of jobs in a process.
THEOREM NeighboursAreKept == Spec => NeighboursKept
<1>1. [KeepsNeighbours]_vars =>
        [\A p \in Processes : faults' = faults /\ conn[p] \in alive =>
           /\ conn'[p] = conn[p]
           /\ \A r \in held[p] \ held'[p] :
                \E x \in Executions :
                  Proc[x] = p /\ Wants[x] = r /\ exec[x] # exec'[x]]_vars
  BY DEF KeepsNeighbours
<1> QED
  BY <1>1, LockInvariance, NeighboursStep, PTL DEF Spec, NeighboursKept

-----------------------------------------------------------------------------
(* Redlock: its validity window does what it is for.                       *)

\* A node that was counted and has lost the key neither to a restart nor to a late
\* undo has it for at least as long as the caller's validity lasts.  ExpiryHonest alone is not
\* inductive: it says nothing of the time a key has left, nor of the caller
\* that is still collecting its nodes.
Covered(c) ==
  pc[c] \in {"set", "held"} /\ left[c] > 0 =>
    \A n \in Kept(c) : owner[n] = c /\ ttl[n] >= left[c]

RedInv ==
  /\ RedTypeOK
  /\ \A c \in Callers : left[c] <= Validity
  /\ \A c \in Callers : Covered(c)

\* The constants are what the arithmetic below needs.
LEMMA RedConstants ==
  /\ N \in Nat /\ N > 0 /\ TTL \in Nat /\ Drift \in Nat /\ Drift < TTL
  /\ Validity \in Nat /\ Validity > 0 /\ Validity <= TTL
  /\ MaxMishaps \in Nat
BY RedlockAssumption, SMT DEF Validity

\* With no key set and nobody asking, nothing is promised.
LEMMA RedInitial == RedInit => RedInv
BY RedConstants, SMT DEF RedInit, RedInv, RedTypeOK, Covered, Kept, Nodes

\* A caller that begins a loop has counted no node yet, and nothing changes for
\* the others as long as the nodes stay as they are for them.
LEMMA LoopStep ==
  ASSUME RedInv, NEW c \in Callers,
         NEW step \in {"idle", "set", "undo", "free"},
         NEW v \in 0..Validity,
         Loop(c, step, v),
         ttl' = ttl, mishaps' = mishaps, late' \in SUBSET LateCall,
         owner' \in [Nodes -> Callers \cup {Free, Orphan}],
         \A n \in Nodes : owner[n] # c => owner'[n] = owner[n]
  PROVE  RedInv'
<1> USE RedConstants DEF RedInv
<1>1. RedTypeOK'
  BY SMT DEF Loop, RedTypeOK
<1>2. (\A d \in Callers : left[d] <= Validity)'
  BY SMT DEF Loop, RedTypeOK, Validity
<1>3. ASSUME NEW d \in Callers PROVE Covered(d)'
  <2>1. CASE d = c
    BY <2>1, SMT DEF Loop, Covered, Kept, RedTypeOK
  <2>2. CASE d # c
    <3>1. /\ pc'[d] = pc[d] /\ left'[d] = left[d]
          /\ won'[d] = won[d] /\ gone'[d] = gone[d]
      BY <2>2 DEF Loop, RedTypeOK
    <3>2. won[d] \subseteq Nodes
      BY DEF RedTypeOK
    <3> QED
      BY <2>2, <3>1, <3>2, SMT DEF Covered, Kept
  <2> QED
    BY <2>1, <2>2
<1> QED
  BY <1>1, <1>2, <1>3

\* A call that outlives its caller's wait is one of that caller to the node it is at.
LEMMA TimesOutTypes ==
  ASSUME RedTypeOK, NEW c \in Callers, at[c] \in Nodes, NEW op \in {"set", "del"},
         TimesOut(c, op)
  PROVE  mishaps' \in 0..MaxMishaps /\ late' \in SUBSET LateCall
<1>1. mishaps' \in 0..MaxMishaps
  BY RedConstants, SMT DEF TimesOut, Mishap, RedTypeOK
<1>2. [by |-> c, op |-> op, node |-> at[c]] \in LateCall
  BY SMT DEF LateCall
<1> QED
  BY <1>1, <1>2 DEF TimesOut, RedTypeOK

\* A token nobody remembers leaves its keys to nobody.
LEMMA ReturnStep ==
  ASSUME RedInv, NEW c \in Callers, Return(c)
  PROVE  RedInv'
<1>1. owner' \in [Nodes -> Callers \cup {Free, Orphan}]
  BY DEF Return, RedInv, RedTypeOK
<1>2. \A n \in Nodes : owner[n] # c => owner'[n] = owner[n]
  BY DEF Return
<1>3. 0 \in 0..Validity
  BY RedConstants, SMT
<1>4. late' \in SUBSET LateCall
  <2>1. \A m \in LateCall : [m EXCEPT !.by = Orphan] \in LateCall
    BY SMT DEF LateCall
  <2>2. late \subseteq LateCall
    BY DEF RedInv, RedTypeOK
  <2> QED
    BY <2>1, <2>2 DEF Return
<1> QED
  BY <1>1, <1>2, <1>3, <1>4, LoopStep DEF Return

\* A node is asked.  It takes the key only when it has none, so no other
\* caller's node is touched; and its key outlives the validity of the caller.
LEMMA AskStep ==
  ASSUME RedInv, NEW c \in Callers, SetNX(c) \/ SetNXFails(c)
  PROVE  RedInv'
<1> USE RedConstants DEF RedInv
<1> DEFINE n == at[c]
<1>1. pc[c] = "set" /\ n \in Nodes
  BY SMT DEF SetNX, SetNXFails, RedTypeOK, Nodes
<1>2. /\ pc' = pc /\ left' = left /\ gone' = gone
      /\ at' = [at EXCEPT ![c] = @ + 1]
      /\ \/ UNCHANGED node /\ won' = won
         \/ /\ owner[n] = Free /\ Put(c, n)
            /\ \/ won' = won
               \/ won' = [won EXCEPT ![c] = @ \cup {n}]
  BY DEF SetNX, SetNXFails, TimesOut, Advance
<1>6. mishaps' \in 0..MaxMishaps /\ late' \in SUBSET LateCall
  <2>1. CASE TimesOut(c, "set")
    BY <1>1, <2>1, TimesOutTypes
  <2>2. CASE UNCHANGED <<mishaps, late>>
    BY <2>2 DEF RedTypeOK
  <2> QED
    BY <2>1, <2>2 DEF SetNX, SetNXFails
<1>3. at' \in [Callers -> 1..(N + 1)]
  BY <1>1, <1>2, SMT DEF RedTypeOK, Nodes
<1>4. CASE UNCHANGED node /\ won' = won
  BY <1>2, <1>3, <1>4, <1>6 DEF RedTypeOK, Covered, Kept, node
<1>5. CASE /\ owner[n] = Free /\ Put(c, n)
           /\ won' = won \/ won' = [won EXCEPT ![c] = @ \cup {n}]
  <2>1. PICK d \in 0..Drift : ttl' = [ttl EXCEPT ![n] = TTL - d]
    BY <1>5, ZenonT(40) DEF Put
  <2>2. /\ owner' = [owner EXCEPT ![n] = c]
        /\ ttl'[n] \in 0..TTL /\ ttl'[n] >= Validity
    BY <1>1, <1>5, <2>1, SMT DEF Put, RedTypeOK, Validity
  <2>3. RedTypeOK'
    BY <1>1, <1>2, <1>3, <1>5, <1>6, <2>1, <2>2, SMT DEF RedTypeOK
  <2>4. ASSUME NEW x \in Callers PROVE Covered(x)'
    <3> SUFFICES ASSUME pc[x] \in {"set", "held"}, left[x] > 0,
                        NEW m \in Kept(x)'
                 PROVE  owner'[m] = x /\ ttl'[m] >= left[x]
      BY <1>2 DEF Covered
    <3>1. m \in Nodes
      BY <2>3 DEF Kept, RedTypeOK
    <3>2. CASE m = n
      <4>1. x = c
        <5>1. ASSUME x # c PROVE m \in Kept(x)
          BY <1>2, <1>5, <5>1 DEF Kept, RedTypeOK
        <5> QED
          BY <5>1, <3>2, <1>5, RedlockAssumption DEF Covered
      <4> QED
        BY <4>1, <3>1, <3>2, <2>2, SMT DEF RedTypeOK, Validity
    <3>3. CASE m # n
      <4>1. m \in Kept(x)
        BY <1>2, <1>5, <3>3, SMT DEF Kept, RedTypeOK
      <4> QED
        BY <4>1, <3>1, <3>3, <2>1, <2>2 DEF Covered, RedTypeOK
    <3> QED
      BY <3>2, <3>3
  <2> QED
    BY <1>2, <2>3, <2>4
<1> QED
  BY <1>2, <1>4, <1>5

\* A key is removed only by the caller that put it, which promises nothing any
\* more, by time, or by a restart, which the caller's nodes then leave out.
LEMMA ReleaseStep ==
  ASSUME RedInv, NEW c \in Callers, RedRelease(c)
  PROVE  RedInv'
<1> USE RedConstants DEF RedInv
<1> DEFINE n == at[c]
<1>1. pc[c] \in {"undo", "free"} /\ n \in Nodes
  BY SMT DEF RedRelease, RedTypeOK, Nodes
<1>2. /\ pc' = pc /\ won' = won /\ left' = left /\ gone' = gone
      /\ at' \in [Callers -> 1..(N + 1)]
  BY <1>1, SMT DEF RedRelease, Advance, RedTypeOK, Nodes
<1>6. mishaps' \in 0..MaxMishaps /\ late' \in SUBSET LateCall
  <2>1. CASE TimesOut(c, "del")
    BY <1>1, <2>1, TimesOutTypes
  <2>2. CASE UNCHANGED <<mishaps, late>>
    BY <2>2 DEF RedTypeOK
  <2> QED
    BY <2>1, <2>2 DEF RedRelease
<1>3. \/ UNCHANGED node
      \/ /\ owner[n] = c
         /\ owner' = [owner EXCEPT ![n] = Free] /\ ttl' = [ttl EXCEPT ![n] = 0]
  BY DEF RedRelease, TimesOut, Matches, Delete
<1>4. RedTypeOK'
  BY <1>1, <1>2, <1>3, <1>6, SMT DEF RedTypeOK, node
<1>5. ASSUME NEW d \in Callers PROVE Covered(d)'
  <2> SUFFICES ASSUME pc[d] \in {"set", "held"}, left[d] > 0, NEW m \in Kept(d)
               PROVE  owner'[m] = d /\ ttl'[m] >= left[d]
    BY <1>2 DEF Covered, Kept
  <2>1. owner[m] = d /\ ttl[m] >= left[d] /\ m \in Nodes
    BY DEF Covered, Kept, RedTypeOK
  <2>2. d # c
    BY <1>1
  <2> QED
    BY <1>1, <1>3, <2>1, <2>2 DEF RedTypeOK, node
<1> QED
  BY <1>2, <1>4, <1>5

\* Time takes as much from a caller's validity as from its keys.
LEMMA TickStep ==
  ASSUME RedInv, Tick
  PROVE  RedInv'
<1> USE RedConstants DEF RedInv
<1>1. RedTypeOK'
  BY SMT DEF Tick, Less, RedTypeOK
<1>2. \A d \in Callers : left'[d] <= Validity
  BY SMT DEF Tick, Less, RedTypeOK, Validity
<1>3. ASSUME NEW d \in Callers PROVE Covered(d)'
  <2> SUFFICES ASSUME pc[d] \in {"set", "held"}, left'[d] > 0, NEW m \in Kept(d)
               PROVE  owner'[m] = d /\ ttl'[m] >= left'[d]
    BY DEF Covered, Kept, Tick
  <2>1. left[d] \in Nat /\ left[d] > 1 /\ left'[d] = left[d] - 1
    BY SMT DEF Tick, Less, RedTypeOK
  <2>2. owner[m] = d /\ ttl[m] >= left[d] /\ m \in Nodes /\ ttl[m] \in Nat
    BY <2>1, SMT DEF Covered, Kept, RedTypeOK
  <2> QED
    BY <2>1, <2>2, SMT DEF Tick, Less
<1> QED
  BY <1>1, <1>2, <1>3

\* A restarted node is in gone of every caller that had counted it.
LEMMA RestartStep ==
  ASSUME RedInv, NEW n \in Nodes, Restart(n)
  PROVE  RedInv'
<1> USE RedConstants DEF RedInv
<1>1. RedTypeOK'
  BY SMT DEF Restart, Mishap, Loses, Delete, RedTypeOK
<1>2. ASSUME NEW d \in Callers PROVE Covered(d)'
  <2> SUFFICES ASSUME pc[d] \in {"set", "held"}, left[d] > 0, NEW m \in Kept(d)'
               PROVE  owner'[m] = d /\ ttl'[m] >= left[d]
    BY DEF Covered, Restart
  <2>1. m \in Kept(d) /\ m # n
    BY DEF Kept, Restart, Loses, RedTypeOK
  <2>2. owner[m] = d /\ ttl[m] >= left[d] /\ m \in Nodes
    BY <2>1 DEF Covered, Kept, RedTypeOK
  <2> QED
    BY <2>1, <2>2 DEF Restart, Delete, RedTypeOK
<1> QED
  BY <1>1, <1>2 DEF Restart

\* A late call puts a key only where there is none, and a late undo that deletes
\* its caller's key is in gone of every caller that had counted the node.
LEMMA ArrivesStep ==
  ASSUME RedInv, NEW m \in late, Arrives(m)
  PROVE  RedInv'
<1> USE RedConstants DEF RedInv
<1>1. m \in LateCall /\ late' \in SUBSET LateCall
  BY DEF Arrives, RedTypeOK
<1>2. PICK n \in Nodes : n = m.node
  BY <1>1, SMT DEF LateCall
<1>3. m.by \in Callers \cup {Orphan}
  BY <1>1, SMT DEF LateCall
<1>4. pc' = pc /\ at' = at /\ won' = won /\ left' = left /\ mishaps' = mishaps
  BY DEF Arrives
<1>5. CASE UNCHANGED <<node, gone>>
  BY <1>1, <1>4, <1>5 DEF RedTypeOK, Covered, Kept, node
<1>6. CASE owner[n] = Free /\ Put(m.by, n) /\ UNCHANGED gone
  <2>1. PICK d \in 0..Drift : ttl' = [ttl EXCEPT ![n] = TTL - d]
    BY <1>6, ZenonT(40) DEF Put
  <2>2. /\ owner' = [owner EXCEPT ![n] = m.by]
        /\ TTL - d \in 0..TTL
    BY <1>6, <2>1, SMT DEF Put
  <2>3. RedTypeOK'
    BY <1>1, <1>3, <1>4, <1>6, <2>1, <2>2 DEF RedTypeOK
  <2>4. ASSUME NEW x \in Callers PROVE Covered(x)'
    <3> SUFFICES ASSUME pc[x] \in {"set", "held"}, left[x] > 0, NEW k \in Kept(x)
                 PROVE  owner'[k] = x /\ ttl'[k] >= left[x]
      BY <1>4, <1>6 DEF Covered, Kept
    <3>1. owner[k] = x /\ ttl[k] >= left[x] /\ k \in Nodes
      BY DEF Covered, Kept, RedTypeOK
    <3>2. k # n
      BY <1>6, <3>1, RedlockAssumption
    <3> QED
      BY <2>1, <2>2, <3>1, <3>2 DEF RedTypeOK
  <2> QED
    BY <1>4, <2>3, <2>4
<1>7. CASE Delete(n) /\ Loses(n)
  <2>1. RedTypeOK'
    BY <1>1, <1>4, <1>7, SMT DEF Delete, Loses, RedTypeOK
  <2>2. ASSUME NEW d \in Callers PROVE Covered(d)'
    <3> SUFFICES ASSUME pc[d] \in {"set", "held"}, left[d] > 0, NEW k \in Kept(d)'
                 PROVE  owner'[k] = d /\ ttl'[k] >= left[d]
      BY <1>4 DEF Covered
    <3>1. k \in Kept(d) /\ k # n
      BY <1>4, <1>7 DEF Kept, Loses, RedTypeOK
    <3>2. owner[k] = d /\ ttl[k] >= left[d] /\ k \in Nodes
      BY <3>1 DEF Covered, Kept, RedTypeOK
    <3> QED
      BY <1>7, <3>1, <3>2 DEF Delete, RedTypeOK
  <2> QED
    BY <1>4, <2>1, <2>2
<1> QED
  BY <1>2, <1>5, <1>6, <1>7 DEF Arrives

\* Every step keeps the invariant.
LEMMA RedStep == RedInv /\ [RedNext]_redVars => RedInv'
<1> SUFFICES ASSUME RedInv, [RedNext]_redVars PROVE RedInv'
  OBVIOUS
<1>0. 0 \in 0..Validity /\ Validity \in 0..Validity
  BY RedConstants, SMT
<1>1. ASSUME NEW c \in Callers, RedAcquire(c) \/ Retry(c) PROVE RedInv'
  BY <1>0, <1>1, LoopStep DEF RedAcquire, Retry, node, RedInv, RedTypeOK
<1>2. ASSUME NEW c \in Callers, SetNX(c) \/ SetNXFails(c) PROVE RedInv'
  BY <1>2, AskStep
<1>3. ASSUME NEW c \in Callers, Decide(c) PROVE RedInv'
  <2>1. CASE Acquired(c)
    <3>1. /\ pc' = [pc EXCEPT ![c] = "held"] /\ pc[c] = "set"
          /\ UNCHANGED <<at, won, left, gone, owner, ttl, mishaps, late>>
      BY <1>3, <2>1 DEF Decide, node
    <3> QED
      BY <3>1, SMT DEF RedInv, RedTypeOK, Covered, Kept
  <2>2. CASE ~Acquired(c)
    BY <1>0, <1>3, <2>2, LoopStep DEF Decide, node, RedInv, RedTypeOK
  <2> QED
    BY <2>1, <2>2
<1>4. ASSUME NEW c \in Callers, RedRelease(c) PROVE RedInv'
  BY <1>4, ReleaseStep
<1>5. ASSUME NEW c \in Callers, Finish(c) PROVE RedInv'
  BY <1>0, <1>5, LoopStep DEF Finish, node, RedInv, RedTypeOK
<1>6. ASSUME NEW c \in Callers, GiveUp(c) \/ Released(c) \/ Crash(c) PROVE RedInv'
  BY <1>6, ReturnStep DEF GiveUp, Released, Crash
<1>7. CASE Tick
  BY <1>7, TickStep
<1>8. ASSUME NEW n \in Nodes, Restart(n) PROVE RedInv'
  BY <1>8, RestartStep
<1>9. ASSUME NEW m \in late, Arrives(m) PROVE RedInv'
  BY <1>9, ArrivesStep
<1>10. CASE UNCHANGED redVars
  BY <1>10 DEF redVars, RedInv, RedTypeOK, Covered, Kept
<1> QED
  BY <1>1, <1>2, <1>3, <1>4, <1>5, <1>6, <1>7, <1>8, <1>9, <1>10 DEF RedNext

\* The inductive invariant holds, for every number of callers and nodes.
THEOREM RedInvariance == RedSpec => []RedInv
BY RedInitial, RedStep, PTL DEF RedSpec

\* Until its Expiry a caller has its key on every node Acquire counted that has
\* not restarted nor been reached by a late undo, for every TTL and drift.
THEOREM ExpiryIsHonest == RedSpec => []ExpiryHonest
<1>1. RedInv => ExpiryHonest
  BY DEF RedInv, ExpiryHonest, Valid, Covered
<1> QED
  BY <1>1, RedInvariance, PTL

\* The quorum NewManager takes by default is a majority.
LEMMA DefaultIsMajority == CfgQuorum <= 0 => Quorum \in Nat /\ 2 * Quorum > N
BY RedlockAssumption, SMT DEF Quorum

\* Callers whose kept nodes are a majority each exclude one another until their
\* Expiry: their nodes overlap, and the shared node has one key.
THEOREM RedlockExclusion ==
  ASSUME CfgQuorum <= 0
  PROVE  RedSpec => []RedlockExcludes
<1>1. RedInv => RedlockExcludes
  <2> SUFFICES ASSUME RedInv, NEW c \in Callers, NEW d \in Callers,
                      Valid(c), Cardinality(Kept(c)) >= Quorum,
                      Valid(d), Cardinality(Kept(d)) >= Quorum
               PROVE  c = d
    BY DEF RedlockExcludes
  <2>1. Kept(c) \subseteq Nodes /\ Kept(d) \subseteq Nodes
    BY DEF RedInv, RedTypeOK, Kept
  <2>2. IsFiniteSet(Nodes) /\ Cardinality(Nodes) = N
    BY RedConstants, FS_Interval, SMT DEF Nodes
  <2>3. Cardinality(Kept(c)) \in Nat /\ Cardinality(Kept(d)) \in Nat
    BY <2>1, <2>2, FS_Subset, FS_CardinalityType
  <2>4. Cardinality(Kept(c)) + Cardinality(Kept(d)) > Cardinality(Nodes)
    BY <2>2, <2>3, DefaultIsMajority, RedConstants, SMT
  <2>5. PICK n \in Kept(c) : n \in Kept(d)
    BY <2>1, <2>2, <2>4, FS_MajoritiesIntersect
  <2> QED
    BY <2>5 DEF RedInv, Covered, Valid
<1> QED
  BY <1>1, RedInvariance, PTL

\* Nobody's key is removed by another caller, for every configuration.
THEOREM ReleaseIsSparing == RedSpec => ReleaseSparesOthers
<1>1. RedInv /\ [RedNext]_redVars =>
        [\A n \in Nodes : owner[n] # Free /\ owner'[n] = Free =>
           \/ \E c \in Callers : owner[n] = c /\ at'[c] # at[c]
           \/ [by |-> owner[n], op |-> "del", node |-> n] \in late
           \/ ttl[n] <= 1
           \/ mishaps' # mishaps]_redVars
  <2> SUFFICES ASSUME RedInv, RedNext, NEW n \in Nodes, owner[n] # Free, owner'[n] = Free
               PROVE  \/ \E c \in Callers : owner[n] = c /\ at'[c] # at[c]
                      \/ [by |-> owner[n], op |-> "del", node |-> n] \in late
                      \/ ttl[n] <= 1
                      \/ mishaps' # mishaps
    BY DEF redVars
  <2>1. ASSUME NEW c \in Callers, RedRelease(c)
        PROVE  owner[n] = c /\ at'[c] # at[c]
    BY <2>1, RedConstants, SMT
    DEF RedRelease, TimesOut, Matches, Delete, Advance, node, RedInv, RedTypeOK, Nodes
  <2>2. ASSUME NEW c \in Callers, SetNX(c) \/ SetNXFails(c)
        PROVE  FALSE
    BY <2>2, RedlockAssumption DEF SetNX, SetNXFails, TimesOut, Put, node, RedInv, RedTypeOK
  <2>3. ASSUME NEW c \in Callers, GiveUp(c) \/ Released(c) \/ Crash(c)
        PROVE  FALSE
    BY <2>3, RedlockAssumption DEF GiveUp, Released, Crash, Return
  <2>4. ASSUME NEW c \in Callers, RedAcquire(c) \/ Decide(c) \/ Retry(c) \/ Finish(c)
        PROVE  FALSE
    BY <2>4 DEF RedAcquire, Decide, Retry, Finish, node
  <2>5. CASE Tick
    BY <2>5, SMT DEF Tick, RedInv, RedTypeOK
  <2>6. ASSUME NEW m \in Nodes, Restart(m) PROVE mishaps' # mishaps
    BY <2>6, SMT DEF Restart, Mishap, RedInv, RedTypeOK
  <2>7. ASSUME NEW m \in late, Arrives(m)
        PROVE  [by |-> owner[n], op |-> "del", node |-> n] \in late
    <3>1. m \in LateCall /\ m.node \in Nodes /\ m.by \in Callers \cup {Orphan}
      BY <2>7, SMT DEF RedInv, RedTypeOK, LateCall
    <3>2. owner' = owner \/ Put(m.by, m.node) \/ (m.op = "del" /\ owner[m.node] = m.by /\ Delete(m.node))
      BY <2>7 DEF Arrives, Matches, node
    <3>3. ~Put(m.by, m.node)
      BY <3>1, RedlockAssumption DEF Put, RedInv, RedTypeOK
    <3>4. m.op = "del" /\ owner[m.node] = m.by /\ n = m.node
      BY <3>1, <3>2, <3>3 DEF Delete, RedInv, RedTypeOK
    <3>5. m = [by |-> owner[n], op |-> "del", node |-> n]
      BY <3>1, <3>4, SMT DEF LateCall
    <3> QED
      BY <2>7, <3>5
  <2> QED
    BY <2>1, <2>2, <2>3, <2>4, <2>5, <2>6, <2>7 DEF RedNext
<1> QED
  BY <1>1, RedInvariance, PTL DEF RedSpec, ReleaseSparesOthers

-----------------------------------------------------------------------------
(* The deployment.                                                         *)

\* run builds one lock manager and the other stays as it was: a deployment
\* behaves as the advisory lock and as Redlock are specified, so that each of
\* the theorems above is one about deployments.
THEOREM DeploymentImplementsLocks == LocksSpec => Spec /\ RedSpec
<1>1. LocksInit => Init /\ RedInit
  BY DEF LocksInit
<1>2. [LocksNext]_lockVars => [Next]_vars /\ [RedNext]_redVars
  BY DEF LocksNext, lockVars
<1> QED
  BY <1>1, <1>2, PTL DEF LocksSpec, Spec, RedSpec

\* Whichever lock the deployment has, two instances do not execute a job under
\* it at a time, with the default quorum.
THEOREM DeploymentExcludes ==
  ASSUME CfgQuorum <= 0
  PROVE  LocksSpec => [](InstancesExclude /\ RedlockExcludes)
BY DeploymentImplementsLocks, InstanceExclusion, RedlockExclusion, PTL
=============================================================================
