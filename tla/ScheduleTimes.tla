---------------------------- MODULE ScheduleTimes ----------------------------
(***************************************************************************)
(* schedule.go: when a schedule runs next.                                 *)
(*                                                                         *)
(* An instant counts the time slots since the first day of month 0.  The   *)
(* location of a schedule has a fixed offset: changes of clock are left    *)
(* out, and so is the parsing of the tag.                                  *)
(***************************************************************************)
EXTENDS Naturals, FiniteSets

CONSTANTS
  First,      \* First[m] is the day on which month m begins; month 0 begins on day 0
  Months,     \* bound: the months that a schedule may have run in
  Slots,      \* the slots of a day at which a schedule can be set (hour and minute)
  Tags        \* the cron tags in use

MonthLength(m) == First[m + 1] - First[m]

(* Of two months in a row one at least has 31 days. *)
ASSUME CalendarAssumption ==
  /\ Months \in Nat \ {0} /\ Slots \in Nat \ {0}
  /\ First \in [0 .. Months + 3 -> Nat]
  /\ First[0] = 0
  /\ \A m \in 0 .. Months + 2 : MonthLength(m) \in 28 .. 31
  /\ \A m \in 0 .. Months + 1 : MonthLength(m) = 31 \/ MonthLength(m + 1) = 31

(* What ParseSchedule makes of the tags in use.  It lets intervals through that are
   zero or negative, whose schedules every check finds due: they are left out. *)
ASSUME TagsAssumption ==
  Tags \subseteq [type : {"interval"}, every : Nat \ {0}]
            \cup [type : {"daily", "weekdays"}, slot : 0 .. Slots - 1]
            \cup [type : {"weekly"}, day : 0 .. 6, slot : 0 .. Slots - 1]
            \cup [type : {"monthly"}, day : 1 .. 31, slot : 0 .. Slots - 1]
            \cup [type : {"once"}, at : Nat]

Horizon  == First[Months] * Slots
DayOf(t) == t \div Slots
At(d, s) == d * Slots + s

(* time.Weekday: Sunday is 0, and day 0 is a Sunday. *)
Weekday(d) == d % 7
MonToFri   == 1 .. 5

MonthOf == [d \in 0 .. First[Months + 3] - 1 |->
              CHOOSE m \in 0 .. Months + 2 : First[m] <= d /\ d < First[m + 1]]
DayOfMonth(d) == d - First[MonthOf[d]] + 1

(* time.Date(y, m, day, ...): a day that month m does not have is counted on
   into the month that follows. *)
Date(m, day) == First[m] + day - 1

-----------------------------------------------------------------------------
NextDailyRun(after, s) ==
  LET candidate == At(DayOf(after), s)
  IN IF candidate > after THEN candidate ELSE At(DayOf(after) + 1, s)

(* The loop of nextWeeklyRun and of nextWeekdayRun: at most seven candidates,
   from today on; after seven steps the last candidate is returned unseen. *)
WalkForward(after, s, days) ==
  LET today == DayOf(after)
      fits  == {i \in 0 .. 6 : Weekday(today + i) \in days /\ At(today + i, s) > after}
  IN IF fits = {} THEN At(today + 7, s)
     ELSE At(today + CHOOSE i \in fits : \A j \in fits : i <= j, s)

NextWeeklyRun(after, weekday, s) == WalkForward(after, s, {weekday})
NextWeekdayRun(after, s)         == WalkForward(after, s, MonToFri)

(* A slip: a month that does not have the day is not skipped the second time. *)
NextMonthlyRunOnce(after, day, s) ==
  LET m    == MonthOf[DayOf(after)]
      this == IF DayOfMonth(Date(m, day)) = day THEN Date(m, day) ELSE Date(m + 1, day)
  IN IF At(this, s) > after THEN At(this, s) ELSE At(Date(m + 1, day), s)

NextMonthlyRun(after, day, s) ==
  LET m    == MonthOf[DayOf(after)]
      Has(k) == DayOfMonth(Date(k, day)) = day
      this == IF Has(m) THEN Date(m, day) ELSE Date(m + 1, day)
      next == IF Has(m + 1) THEN Date(m + 1, day) ELSE Date(m + 2, day)
  IN IF At(this, s) > after THEN At(this, s) ELSE At(next, s)

(* The zero time: a one-shot whose time has passed has no next run. *)
Never == Horizon + 62 * Slots

NextRun(g, after) ==
  CASE g.type = "interval" -> after + g.every
    [] g.type = "daily"    -> NextDailyRun(after, g.slot)
    [] g.type = "weekly"   -> NextWeeklyRun(after, g.day, g.slot)
    [] g.type = "weekdays" -> NextWeekdayRun(after, g.slot)
    [] g.type = "monthly"  -> NextMonthlyRun(after, g.day, g.slot)
    [] g.type = "once"     -> IF g.at > after THEN g.at ELSE Never

IsDue(g, last, now) == NextRun(g, last) # Never /\ now >= NextRun(g, last)

=============================================================================
