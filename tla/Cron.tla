-------------------------------- MODULE Cron --------------------------------
(***************************************************************************)
(* Cron expressions (Parse, parseField) and the search for an occurrence   *)
(* (cronSchedule.Next) of internal/scheduler.  The calendar is the real    *)
(* one; a day has HoursPerDay hours of MinutesPerHour minutes, so that     *)
(* four years of it stay small.  The loop of Next is the state machine:    *)
(* one action per branch of its body.                                      *)
(***************************************************************************)
EXTENDS Integers, Sequences, FiniteSets

CONSTANTS
  HoursPerDay,      \* 24 in the code
  MinutesPerHour,   \* 60 in the code
  Starts,           \* bound: the instants Next is called with
  Expressions       \* bound: the expressions it is called for

VARIABLES
  expr,    \* the expression, five fields of parsed parts
  from,    \* Next's argument
  t,       \* the candidate
  gone,    \* minutes from from to t
  pc       \* "search", "found" or "zero" (the zero time was returned)

vars == <<expr, from, t, gone, pc>>

-----------------------------------------------------------------------------
(* Parsing.  A part of a field is [k |-> "star"], [k |-> "step", n |-> n], *)
(* [k |-> "range", lo |-> lo, hi |-> hi], [k |-> "value", n |-> n], or     *)
(* [k |-> "bad"] when Atoi refuses it.                                     *)

Part ==
  [k : {"star", "bad"}] \cup [k : {"step", "value"}, n : Int]
  \cup [k : {"range"}, lo : Int, hi : Int]

\* What strings.Fields and strings.Split leave: a field is never without parts.
Expression(e) ==
  e \in Seq(Seq(Part)) /\ \A i \in 1..Len(e) : Len(e[i]) > 0

PartValid(p, min, max) ==
  CASE p.k = "star"  -> TRUE
    [] p.k = "step"  -> p.n > 0
    [] p.k = "range" -> min <= p.lo /\ p.hi <= max /\ p.lo <= p.hi
    [] p.k = "value" -> min <= p.n /\ p.n <= max
    [] p.k = "bad"   -> FALSE

\* Mutant: steps are counted from zero, not from the field's minimum.
StepFromZero(p, min, max) ==
  CASE p.k = "star"  -> min..max
    [] p.k = "step"  -> {v \in 0..max : v % p.n = 0}
    [] p.k = "range" -> p.lo..p.hi
    [] p.k = "value" -> {p.n}

PartValues(p, min, max) ==
  CASE p.k = "star"  -> min..max
    [] p.k = "step"  -> {v \in min..max : (v - min) % p.n = 0}
    [] p.k = "range" -> p.lo..p.hi
    [] p.k = "value" -> {p.n}

FieldValid(f, min, max) == \A i \in 1..Len(f) : PartValid(f[i], min, max)

parseField(f, min, max) ==
  UNION {PartValues(f[i], min, max) : i \in 1..Len(f)}

\* The five fields in order, with their bounds.
Bounds == <<[min |-> 0, max |-> MinutesPerHour - 1],
            [min |-> 0, max |-> HoursPerDay - 1],
            [min |-> 1, max |-> 31],
            [min |-> 1, max |-> 12],
            [min |-> 0, max |-> 6]>>

Parses(e) ==
  /\ Len(e) = 5
  /\ \A i \in 1..5 : FieldValid(e[i], Bounds[i].min, Bounds[i].max)

Parse(e) == [i \in 1..5 |-> parseField(e[i], Bounds[i].min, Bounds[i].max)]

-----------------------------------------------------------------------------
(* The calendar, as package time has it.                                   *)

Leap(y) == y % 4 = 0 /\ (y % 100 # 0 \/ y % 400 = 0)

DaysIn(y, m) ==
  CASE m \in {4, 6, 9, 11} -> 30
    [] m = 2 -> IF Leap(y) THEN 29 ELSE 28
    [] OTHER -> 31

\* An instant: date, weekday w (0 is Sunday), hour h and minute n.
Date(y, m, d, w, h, n) == [y |-> y, m |-> m, d |-> d, w |-> w, h |-> h, n |-> n]

Instant(a) ==
  /\ a \in [y : Nat, m : 1..12, d : 1..31, w : 0..6,
            h : 0..HoursPerDay - 1, n : 0..MinutesPerHour - 1]
  /\ a.d <= DaysIn(a.y, a.m)

Midnight(a) == Date(a.y, a.m, a.d, a.w, 0, 0)

NextMonth(a) ==
  Date(IF a.m = 12 THEN a.y + 1 ELSE a.y, IF a.m = 12 THEN 1 ELSE a.m + 1, 1,
       (a.w + DaysIn(a.y, a.m) - a.d + 1) % 7, a.h, a.n)

NextDay(a) ==
  IF a.d = DaysIn(a.y, a.m) THEN NextMonth(a)
  ELSE Date(a.y, a.m, a.d + 1, (a.w + 1) % 7, a.h, a.n)

NextHour(a) ==
  IF a.h = HoursPerDay - 1 THEN Midnight(NextDay(a))
  ELSE Date(a.y, a.m, a.d, a.w, a.h + 1, 0)

NextMinute(a) ==
  IF a.n = MinutesPerHour - 1 THEN NextHour(a)
  ELSE Date(a.y, a.m, a.d, a.w, a.h, a.n + 1)

MinutesPerDay == HoursPerDay * MinutesPerHour

IntoDay(a) == a.h * MinutesPerHour + a.n

\* The instant i minutes after a, in a's month.
Later(a, i) ==
  LET total == IntoDay(a) + i
      days  == total \div MinutesPerDay
  IN  Date(a.y, a.m, a.d + days, (a.w + days) % 7,
           (total % MinutesPerDay) \div MinutesPerHour, total % MinutesPerHour)

-----------------------------------------------------------------------------
(* cronSchedule.Next.                                                      *)

InMonth(cs, a)  == a.m \in cs[4]
InDay(cs, a)    == a.d \in cs[3] /\ a.w \in cs[5]
InHour(cs, a)   == a.h \in cs[2]
InMinute(cs, a) == a.n \in cs[1]

\* An instant satisfies the expression when every field does: Conduit
\* requires day-of-month and day-of-week both.
Matches(cs, a) ==
  InMonth(cs, a) /\ InDay(cs, a) /\ InHour(cs, a) /\ InMinute(cs, a)

Limit == 4 * 365 * MinutesPerDay

Init ==
  /\ expr \in Expressions
  /\ Parses(expr)
  /\ from \in Starts
  /\ t = NextMinute(from)
  /\ gone = 1
  /\ pc = "search"

Searching == pc = "search" /\ gone < Limit

Skip(to, minutes) ==
  /\ t' = to
  /\ gone' = gone + minutes
  /\ UNCHANGED <<expr, from, pc>>

\* time.Date(year, month+1, 1, 0, 0, ...).
SkipMonth ==
  /\ Searching
  /\ ~InMonth(Parse(expr), t)
  /\ Skip(Midnight(NextMonth(t)),
          (DaysIn(t.y, t.m) - t.d + 1) * MinutesPerDay - IntoDay(t))

\* Mutant: the hour and minute are kept when a day is skipped.
SkipDayKeepsClock ==
  /\ Searching
  /\ InMonth(Parse(expr), t) /\ ~InDay(Parse(expr), t)
  /\ Skip(NextDay(t), MinutesPerDay)

SkipDay ==
  /\ Searching
  /\ InMonth(Parse(expr), t) /\ ~InDay(Parse(expr), t)
  /\ Skip(Midnight(NextDay(t)), MinutesPerDay - IntoDay(t))

SkipHour ==
  /\ Searching
  /\ InMonth(Parse(expr), t) /\ InDay(Parse(expr), t) /\ ~InHour(Parse(expr), t)
  /\ Skip(NextHour(t), MinutesPerHour - t.n)

SkipMinute ==
  /\ Searching
  /\ InMonth(Parse(expr), t) /\ InDay(Parse(expr), t) /\ InHour(Parse(expr), t)
  /\ ~InMinute(Parse(expr), t)
  /\ Skip(NextMinute(t), 1)

Found ==
  /\ Searching
  /\ Matches(Parse(expr), t)
  /\ pc' = "found"
  /\ UNCHANGED <<expr, from, t, gone>>

GiveUp ==
  /\ pc = "search" /\ ~(gone < Limit)
  /\ pc' = "zero"
  /\ UNCHANGED <<expr, from, t, gone>>

Done == pc # "search" /\ UNCHANGED vars

Next ==
  \/ SkipMonth \/ SkipDay \/ SkipHour \/ SkipMinute \/ Found \/ GiveUp
  \/ Done

\* The loop runs on until it returns.
Spec == Init /\ [][Next]_vars /\ WF_vars(Next)

-----------------------------------------------------------------------------
TypeOK ==
  /\ Instant(t)
  /\ gone \in 1..Limit + 31 * MinutesPerDay
  /\ pc \in {"search", "found", "zero"}

\* Every field of an expression the parser accepts denotes a non-empty set of
\* values inside the field's bounds: the arrays Next indexes are never indexed
\* outside, and no accepted field makes a schedule that cannot ever match.
FieldsInBounds ==
  \A i \in 1..5 :
    Parse(expr)[i] # {} /\ Parse(expr)[i] \subseteq Bounds[i].min..Bounds[i].max

\* The comment on Next: the zero time means that no match was found within
\* four years, that is, by the same date four years on.
FourYearsSearched ==
  pc = "zero" =>
    \/ t.y > from.y + 4
    \/ t.y = from.y + 4 /\ (t.m > from.m \/ (t.m = from.m /\ t.d > from.d))
=============================================================================
