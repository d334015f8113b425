-------------------------- MODULE MCCronSchedules ---------------------------
(* A small instance of CronSchedules for TLC.                              *)
EXTENDS CronSchedules

CONSTANTS often, middle, seldom

\* often occurs every two minutes, middle every three, seldom every four.
MCEvery ==
  [s \in Schedules |-> CASE s = often -> 2 [] s = middle -> 3 [] s = seldom -> 4]

\* As the four-year rule 0 0 29 2 *: seldom's occurrences are further apart
\* than cron.Next looks ahead, but one created late enough is accepted.
MCLeapDay == [s \in Schedules |-> IF s = often THEN 2 ELSE 7]

Star == <<[k |-> "star"]>>
Val(n) == <<[k |-> "value", n |-> n]>>
Step(n) == <<[k |-> "step", n |-> n]>>
Rng(lo, hi) == <<[k |-> "range", lo |-> lo, hi |-> hi]>>

At(y, m, d, w, h, n) == [y |-> y, m |-> m, d |-> d, w |-> w, h |-> h, n |-> n]

\* Ends of months, of the year and of February, in and out of leap years.
MCStarts ==
  {At(2023, 12, 31, 0, 1, 1), At(2024, 2, 28, 3, 1, 1),
   At(2024, 2, 29, 4, 0, 0), At(2025, 2, 28, 5, 1, 0),
   At(2025, 4, 30, 3, 0, 1), At(2099, 12, 30, 3, 1, 1)}

\* Fields that interact, and ones the parser refuses: a bad number, a step of
\* zero, bounds outside the field.
MCExpressions ==
  {<<mi, h, d, mo, w>> :
     mi \in {Star, Val(1)}, h \in {Step(2), Val(1)},
     d \in {Star, Val(29), Val(31), Step(15), Val(13) \o Rng(30, 31), Val(32)},
     mo \in {Star, Val(2), Rng(4, 6), Step(0)},
     w \in {Star, Val(5), <<[k |-> "bad"]>>}}

\* 0 0 29 2 * asked on a 29 February: the next one is four years away.
MCLeapExpressions == {<<Val(0), Val(0), Val(29), Val(2), Star>>}
MCLeapStarts == {At(2024, 2, 29, 4, 0, 0)}

\* Retention deletes jobs while instances are mid-fire.
MCRetentionSpec ==
  /\ SchedulesInit
  /\ [][\/ SchedulesNext
        \/ /\ facet = "replicas" /\ \E k \in keys : SweepRetention(k)
           /\ UNCHANGED <<facet, cronVars>>]_schedVars
=============================================================================
