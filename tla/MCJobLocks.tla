----------------------------- MODULE MCJobLocks -----------------------------
(* A small instance of JobLocks for TLC.                                   *)
EXTENDS JobLocks, TLC

CONSTANTS p1, p2, a, b, x1, x2, x3, x4

\* x1 and x2 run the same job in two processes, x3 is x1's neighbour, and x4
\* runs the job of x1 in the same process: its claim was reaped while x1 was
\* still executing.
MCProc == [x \in Executions |-> IF x = x2 THEN p2 ELSE p1]

MCWants == [x \in Executions |-> IF x = x3 THEN b ELSE a]

MCSymmetry == Permutations(Callers)
=============================================================================
