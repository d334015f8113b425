------------------------------ MODULE JobList -------------------------------
(***************************************************************************)
(* GET /api/jobs: a client walks the list page by page (internal/api       *)
(* Handler.ListJobs, internal/store PostgresStore.ListJobs) while jobs are *)
(* enqueued, run, requeued and deleted between the pages.                  *)
(***************************************************************************)
EXTENDS JobTable

CONSTANTS
  Filters,       \* values of ?state=, "" for any
  Limits,        \* values of ?limit=
  DefaultLimit,  \* defaultLimit
  MaxLimit       \* maxLimit

ASSUME ListAssumption ==
  /\ MaxLimit \in Nat /\ DefaultLimit \in 1..MaxLimit /\ Limits \subseteq Nat
  /\ "" \in Filters

VARIABLES
  walk,     \* the walk: its filter and the cursor of its next page
  steady    \* history: the jobs that have matched since the first page

listVars == <<walk, steady>>

\* cursor is <<>> before the first page and after the last.  History: what was
\* returned, and whether anything came twice.
Walk == [pc     : {"none", "more", "end"},
         tenant : Tenants \cup {NoTenant},
         filter : Filters,
         cursor : {<<>>} \cup (Times \X Jobs),
         seen   : SUBSET Jobs,
         twice  : BOOLEAN]

NewWalk(t, f) == [pc |-> "none", tenant |-> t, filter |-> f, cursor |-> <<>>,
                  seen |-> {}, twice |-> FALSE]

ListTypeOK ==
  /\ walk \in Walk
  /\ steady \in SUBSET Jobs

ListInit ==
  /\ walk = NewWalk(NoTenant, "")
  /\ steady = {}

-----------------------------------------------------------------------------
\* A limit that is not given or zero is the default one, and MaxLimit bounds it.
PageLimit(n) == IF n <= 0 THEN DefaultLimit ELSE Min({n, MaxLimit})

\* (created_at, id) of a job.
Place(j) == <<meta[j].at, j>>

\* (created_at, id) < ($ts, $id).
Before(p, q) == p[1] < q[1] \/ (p[1] = q[1] /\ p[2] < q[2])

\* Mutant: created_at alone decides what is past the cursor.
PastByTime(cursor, p) == cursor = <<>> \/ p[1] < cursor[1]

\* encodeCursor and decodeCursor: a cursor is a place.  Postgres keeps
\* microseconds and UnixMicro loses none of them.
Past(cursor, p) == cursor = <<>> \/ Before(p, cursor)

\* The filter on tenant and state.
Matching(w) == {j \in Jobs : RowOf(w.tenant, j) /\ (w.filter = "" \/ state[j] = w.filter)}

\* The first n of S by created_at DESC, id DESC.
First(S, n) == {j \in S : Cardinality({i \in S : Before(Place(j), Place(i))}) < n}

\* One page: the rows past the cursor, one more than asked for to see whether
\* there is a next page, whose cursor is the last row returned.
Page(w, n) ==
  LET found == {j \in Matching(w) : Past(w.cursor, Place(j))}
      page  == First(found, PageLimit(n))
      last  == CHOOSE j \in page : \A i \in page : ~Before(Place(i), Place(j))
      more  == Cardinality(found) > PageLimit(n)
  IN [w EXCEPT !.pc = IF more THEN "more" ELSE "end",
               !.cursor = IF more THEN Place(last) ELSE <<>>,
               !.twice = @ \/ page \cap w.seen # {},
               !.seen = @ \cup page]

\* The first page of a walk, with a filter of the client's choice.
ListJobs(t, f, n) ==
  /\ walk' = Page(NewWalk(t, f), n)
  /\ steady' = Matching(NewWalk(t, f))
  /\ UNCHANGED tableVars

\* The next page, with the cursor of the one before and the same filter.
ListMore(n) ==
  /\ walk.pc = "more"
  /\ walk' = Page(walk, n)
  /\ UNCHANGED <<tableVars, steady>>

\* What others do to the table between two pages.
TableMoves ==
  /\ \/ \E j \in Jobs, t \in Tenants, at \in Times :
          Insert(j, t, NoIdemKey, at) /\ UNCHANGED sweep
     \/ \E j \in Jobs, t \in Tenants :
          Requeues(t, j) /\ Life!Move(j, "PENDING", 0) /\ UNCHANGED <<meta, sweep>>
     \/ \E j \in Jobs : WorkerMoves(j)
     \/ \E s \in {"COMPLETED", "DEAD"} : SweepPicks(s)
     \/ SweepDeletes
  /\ UNCHANGED walk
  /\ steady' = steady \cap Matching(walk)'

ListNext ==
  \/ \E t \in Tenants, f \in Filters, n \in Limits : ListJobs(t, f, n)
  \/ \E n \in Limits : ListMore(n)
  \/ TableMoves

ListSpec == TableInit /\ ListInit /\ [][ListNext]_<<tableVars, listVars>>

-----------------------------------------------------------------------------
\* A finished walk has returned every job that matched its filter all the time,
\* and no walk returns a job twice or another tenant's, whatever the limits of
\* its pages and whatever was inserted, changed or deleted between them.
PagesComplete ==
  /\ ~walk.twice
  /\ walk.pc = "end" => steady \subseteq walk.seen
  /\ \A j \in walk.seen : meta[j].tenant = walk.tenant
=============================================================================
