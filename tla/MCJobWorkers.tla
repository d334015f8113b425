---------------------------- MODULE MCJobWorkers ----------------------------
(* Small instances of JobWorkers for TLC.                                  *)
EXTENDS JobWorkers, TLC

CONSTANTS j1, j2

\* One job that may be tried once and one that may be tried twice: the first
\* claim of j1 already exhausts its budget.
MCMaxRetries == [j \in Jobs |-> IF j = j1 THEN 1 ELSE 2]

\* Tokens are interchangeable.
MCTokenSymmetry == Permutations(Tokens)
=============================================================================
