------------------------------ MODULE JobLocks ------------------------------
(***************************************************************************)
(* The execution lock of a deployment.  run looks at CONDUIT_LOCK once and *)
(* builds the lock manager jobWorker.Run calls Acquire and Release on: the *)
(* advisory lock, or Redlock with its own Redis clients.  (The third, NoOp,*)
(* grants every Acquire and has no state.)  Every instance of a deployment *)
(* is configured alike, and the manager that is not configured does not    *)
(* exist, so its state stays the initial one.                              *)
(***************************************************************************)
EXTENDS AdvisoryLock, Redlock

VARIABLE cfgLock   \* CONDUIT_LOCK

lockVars == <<vars, redVars, cfgLock>>

LocksInit ==
  /\ cfgLock \in {"advisory", "redlock"}
  /\ Init /\ RedInit

LocksNext ==
  /\ \/ cfgLock = "advisory" /\ Next /\ UNCHANGED redVars
     \/ cfgLock = "redlock" /\ RedNext /\ UNCHANGED vars
  /\ UNCHANGED cfgLock

LocksSpec == LocksInit /\ [][LocksNext]_lockVars
=============================================================================
