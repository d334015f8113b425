--------------------------- MODULE CronSchedules ----------------------------
(***************************************************************************)
(* What cron schedules rest on, in one run: the search for an occurrence   *)
(* (Cron) that every fire calls, and the instances that fire (Scheduler).  *)
(* A search is pure and a fire only uses its result, so each is checked    *)
(* while the other stands still: cron.Next runs in the facet "expression", *)
(* the instances in the facet "replicas".                                  *)
(***************************************************************************)
EXTENDS Scheduler

CONSTANTS HoursPerDay, MinutesPerHour, Starts, Expressions

VARIABLES facet, expr, from, t, gone, pc

Search == INSTANCE Cron

ASSUME CronAssumption ==
  /\ HoursPerDay \in Nat \ {0} /\ MinutesPerHour \in Nat \ {0}
  /\ \A e \in Expressions : Search!Expression(e)
  /\ \A a \in Starts : Search!Instant(a)

cronVars == <<expr, from, t, gone, pc>>

schedVars == <<facet, vars, cronVars>>

SchedulesInit ==
  /\ facet \in {"expression", "replicas"}
  /\ Init
  /\ Search!Init
  /\ facet = "replicas" =>
       <<from, expr>> = CHOOSE p \in Starts \X Expressions : Search!Parses(p[2])

Searches == facet = "expression" /\ Search!Next /\ UNCHANGED <<facet, vars>>

SchedulesNext ==
  \/ facet = "replicas" /\ Next /\ UNCHANGED <<facet, cronVars>>
  \/ Searches

(* Fairness: the ticker of every instance fires, and its goroutine runs on.*)
SchedulesSpec ==
  /\ SchedulesInit
  /\ [][SchedulesNext]_schedVars
  /\ \A r \in Replicas :
       WF_schedVars(/\ facet = "replicas" /\ UNCHANGED <<facet, cronVars>>
                    /\ \/ Tick(r) \/ Lookup(r) \/ CreateJob(r)
                       \/ LookupAgain(r) \/ AdvanceSchedule(r))

-----------------------------------------------------------------------------
\* Parse: every field of an accepted expression is a non-empty set of values in
\* the field's bounds.
FieldsInBounds == facet = "expression" => Search!FieldsInBounds

\* cronSchedule.Next returns the earliest occurrence, and it returns: what it
\* jumps over holds no match, what it returns is one, and each round of its loop
\* ends the search or moves the candidate on towards the limit.
SkipsOnlyMisses ==
  [][facet = "expression" =>
       /\ \A i \in 0..(gone' - gone - 1) : ~Search!Matches(Search!Parse(expr), Search!Later(t, i))
       /\ pc' = "found" => Search!Matches(Search!Parse(expr), t')
       /\ pc' = "search" => gone' > gone]_<<facet, cronVars>>

\* The comment on Next: the zero time means that no match was found within
\* four years.
FourYearsSearched == facet = "expression" => Search!FourYearsSearched
=============================================================================
