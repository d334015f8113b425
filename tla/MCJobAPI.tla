------------------------------ MODULE MCJobAPI ------------------------------
(***************************************************************************)
(* What a client of the API meets, in one run: the keys that admit it, the *)
(* calls that change the table, and the walks that read it.  Calls and     *)
(* walks allow for any tenant, and walks for anything calls do to the      *)
(* table, so each is checked while the others stand still.                 *)
(***************************************************************************)
EXTENDS Auth, JobAPI, JobList, TLC

CONSTANTS acme, t1, t2, c1, c2, k1, k2, s1

MCConfigured == {{}, {s1}}
MCKeyTenant == [k \in Issued |-> IF k = k1 THEN acme ELSE Default]
MCMaxRetries == [j \in Jobs |-> IF j = 3 THEN 2 ELSE 1]
MCSymmetry == Permutations({t1, t2}) \cup Permutations({c1, c2})

VARIABLE facet

MCInit ==
  /\ facet \in {"keys", "calls", "walks"}
  /\ AuthInit /\ TableInit /\ CallInit /\ ListInit
  /\ facet # "keys" => static = {}

\* Bound: two jobs for the calls, three for the walks.  created_at plays no part
\* in a call, and what the table does after a walk has ended it can as well do
\* before the next one begins.
CallJobs == {1, 2}

MCNext ==
  /\ \/ facet = "keys" /\ AuthStep /\ UNCHANGED <<tableVars, call, listVars>>
     \/ /\ facet = "calls" /\ CallNext /\ UNCHANGED <<authVars, listVars>>
        /\ \A j \in Jobs : meta'[j].at = Min(Times) /\ (state'[j] # "NEW" => j \in CallJobs)
     \/ /\ facet = "walks" /\ ListNext /\ UNCHANGED <<authVars, call>>
        /\ walk.pc = "end" => UNCHANGED tableVars
  /\ UNCHANGED facet

MCSpec == MCInit /\ [][MCNext]_<<facet, authVars, tableVars, call, listVars>>
=============================================================================
