---------------------------- MODULE ScheduleLife ----------------------------
(***************************************************************************)
(* The times of one schedule: it is acknowledged once it is due, a search  *)
(* that returns its row moves last_accessed_at as well, and its tag is      *)
(* edited.                                                                 *)
(***************************************************************************)
EXTENDS ScheduleTimes

CONSTANT MaxDelay   \* bound: how many slots after it is due a schedule is acknowledged

ASSUME LifeAssumption == MaxDelay \in Nat

VARIABLES
  cron,  \* the cron tag of the row
  ran    \* last_accessed_at, or created_at

timeVars == <<cron, ran>>

TimesInit == cron \in Tags /\ ran = 0

(* A check or a client acknowledges the schedule some time after it is due. *)
Acknowledge ==
  /\ \E delay \in 0 .. MaxDelay :
       LET now == NextRun(cron, ran) + delay
       IN IsDue(cron, ran, now) /\ ran' = now
  /\ ran' < Horizon
  /\ UNCHANGED cron

(* UpdateAccessStats by a search. *)
AccessRow ==
  /\ ran' = ran + 1
  /\ ran' < Horizon
  /\ UNCHANGED cron

(* UpdateSchedule leaves last_accessed_at as it is. *)
EditTag ==
  /\ cron' \in Tags \ {cron}
  /\ UNCHANGED ran

TimesNext == Acknowledge \/ AccessRow \/ EditTag
TimesSpec == TimesInit /\ [][TimesNext]_timeVars

-----------------------------------------------------------------------------
(* What the tag asks for, told without the search that the code does: t is an
   instant that the tag names. *)
Names(g, last, t) ==
  LET d == DayOf(t)
      s == t % Slots
  IN CASE g.type = "interval" -> t = last + g.every
       [] g.type = "daily"    -> s = g.slot
       [] g.type = "weekly"   -> s = g.slot /\ Weekday(d) = g.day
       [] g.type = "weekdays" -> s = g.slot /\ Weekday(d) \in MonToFri
       [] g.type = "monthly"  -> s = g.slot /\ DayOfMonth(d) = g.day
       [] g.type = "once"     -> t = g.at

(* A schedule is due from the first instant that its tag names after its last
   run on, and not before: no month, week or day is skipped or visited twice,
   whatever the length of the months and wherever in its day the last run was
   (schedule.go: NextRun, IsDue and the four next*Run helpers).  Two instants
   that a tag names are never more than 62 days apart. *)
DueFromTheNamedInstantOn ==
  LET last  == ran + 62 * Slots
      named == {t \in ran + 1 .. last : Names(cron, ran, t)}
  IN IF named = {} THEN ~IsDue(cron, ran, last)
     ELSE \E t \in named : /\ \A u \in named : t <= u
                           /\ IsDue(cron, ran, t)
                           /\ ~IsDue(cron, ran, t - 1)
=============================================================================
