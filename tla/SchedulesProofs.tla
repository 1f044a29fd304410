---------------------------- MODULE SchedulesProofs ----------------------------
(***************************************************************************)
(* Schedules, for any calendar, any rows, callers, contents and tags.      *)
(*                                                                         *)
(* First the calendar: what NextRun walks to is the first occurrence after *)
(* the last run, and a schedule is due from that instant on.  Then the     *)
(* rows and those who write them.  A recurring row that the API made is    *)
(* moved by requests only (KeepsMade), because a caller that archives a    *)
(* row has read it as a one-shot, and a tag of a made row never changes;   *)
(* and a creation that has still to write its row knows of every matching  *)
(* row there is, but for those that it did not find (Covers).              *)
(***************************************************************************)
EXTENDS Schedules, ScheduleLife, WellFoundedInduction, FiniteSetTheorems, TLAPS

-----------------------------------------------------------------------------
(* The calendar. *)

LEMMA LeastOf ==
  ASSUME NEW S \in SUBSET Nat, S # {}
  PROVE  \E i \in S : \A j \in S : i <= j
<1>1. PICK i \in S : \A j \in S : ~ (<<j, i>> \in OpToRel(<, Nat))
  BY NatLessThanWellFounded, WFMin
<1>2. ASSUME NEW j \in S, j < i PROVE FALSE
  <2>1. <<j, i>> \in Nat \X Nat /\ <<j, i>>[1] < <<j, i>>[2]
    BY <1>2
  <2>2. <<j, i>> \in OpToRel(<, Nat)
    BY <2>1 DEF OpToRel
  <2> QED
    BY <1>1, <2>2
<1> QED
  BY <1>2

(* An instant is a slot of a day. *)
LEMMA InstantOf ==
  ASSUME NEW t \in Nat
  PROVE  DayOf(t) \in Nat /\ t % Slots \in 0 .. Slots - 1 /\ t = At(DayOf(t), t % Slots)
BY CalendarAssumption DEF DayOf, At

LEMMA DayAndSlotOf ==
  ASSUME NEW d \in Nat, NEW s \in 0 .. Slots - 1
  PROVE  At(d, s) \in Nat /\ DayOf(At(d, s)) = d /\ At(d, s) % Slots = s
BY CalendarAssumption DEF DayOf, At

LEMMA LaterDays ==
  ASSUME NEW d \in Nat, NEW e \in Nat, d < e, NEW s \in 0 .. Slots - 1, NEW r \in 0 .. Slots - 1
  PROVE  At(d, s) < At(e, r)
<1>1. d * Slots + Slots <= e * Slots /\ d * Slots \in Nat /\ e * Slots \in Nat
  BY CalendarAssumption
<1> QED
  BY <1>1, CalendarAssumption DEF At

(* What lies 62 days ahead. *)
LEMMA WindowOf ==
  ASSUME NEW after \in Nat
  PROVE  /\ 62 * Slots \in Nat
         /\ \A u \in after + 1 .. after + 62 * Slots : DayOf(u) \in DayOf(after) .. DayOf(after) + 62
         /\ \A k \in 0 .. 61, s \in 0 .. Slots - 1 : At(DayOf(after) + k, s) <= after + 62 * Slots
<1>1. /\ DayOf(after) \in Nat /\ after % Slots \in 0 .. Slots - 1
      /\ after = At(DayOf(after), after % Slots)
  BY InstantOf
<1>2. 62 * Slots \in Nat /\ Slots \in Nat \ {0}
  BY CalendarAssumption
<1>3. \A k \in 0 .. 62, s \in 0 .. Slots - 1 : At(DayOf(after) + k, s) = DayOf(after) * Slots + k * Slots + s
  BY <1>1, <1>2 DEF At
<1>4. ASSUME NEW u \in after + 1 .. after + 62 * Slots PROVE DayOf(u) \in DayOf(after) .. DayOf(after) + 62
  <2>1. u \in Nat /\ DayOf(u) \in Nat /\ u % Slots \in 0 .. Slots - 1 /\ u = At(DayOf(u), u % Slots)
    BY <1>2, InstantOf
  <2>2. ~ (DayOf(u) < DayOf(after))
    BY <1>1, <1>2, <2>1, LaterDays
  <2>3. CASE DayOf(after) + 62 < DayOf(u)
    <3>1. At(DayOf(after) + 62, after % Slots) < u
      BY <1>1, <2>1, <2>3, LaterDays
    <3>2. At(DayOf(after) + 62, after % Slots) = after + 62 * Slots
      <4>1. after = DayOf(after) * Slots + (after % Slots) /\ DayOf(after) * Slots \in Nat
        BY <1>1, <1>2 DEF At
      <4>2. At(DayOf(after) + 62, after % Slots) = DayOf(after) * Slots + 62 * Slots + (after % Slots)
        BY <1>1, <1>3
      <4> QED
        BY <1>1, <1>2, <4>1, <4>2
    <3> QED
      BY <1>2, <3>1, <3>2
  <2> QED
    BY <1>1, <2>1, <2>2, <2>3
<1>5. ASSUME NEW k \in 0 .. 61, NEW s \in 0 .. Slots - 1
      PROVE  At(DayOf(after) + k, s) <= after + 62 * Slots
  <2>1. k * Slots + Slots <= 62 * Slots /\ k * Slots \in Nat
    BY <1>2
  <2>2. At(DayOf(after) + k, s) = DayOf(after) * Slots + k * Slots + s
    BY <1>3
  <2>3. DayOf(after) * Slots \in Nat /\ DayOf(after) * Slots <= after
    BY <1>1, <1>2 DEF At
  <2> QED
    BY <1>2, <2>1, <2>2, <2>3
<1> QED
  BY <1>2, <1>4, <1>5

(* n is the first instant after a last run that the tag names. *)
Window(after)      == after + 1 .. after + 62 * Slots
IsNext(g, after, n) ==
  /\ n \in Window(after) /\ Names(g, after, n)
  /\ \A u \in Window(after) : Names(g, after, u) => n <= u

(* A schedule at one slot of some days: the first of those days on which the slot
   is still to come. *)
LEMMA FirstOfDays ==
  ASSUME NEW after \in Nat, NEW s \in 0 .. Slots - 1, NEW D,
         NEW k \in 0 .. 61, DayOf(after) + k \in D, At(DayOf(after) + k, s) > after,
         \A j \in 0 .. 62 : DayOf(after) + j \in D /\ At(DayOf(after) + j, s) > after => k <= j
  PROVE  LET n == At(DayOf(after) + k, s)
         IN /\ n \in Window(after) /\ n % Slots = s /\ DayOf(n) \in D
            /\ \A u \in Window(after) : u % Slots = s /\ DayOf(u) \in D => n <= u
<1> DEFINE n == At(DayOf(after) + k, s)
<1>0. DayOf(after) \in Nat /\ Slots \in Nat \ {0}
  BY InstantOf, CalendarAssumption
<1>1. n \in Nat /\ n % Slots = s /\ DayOf(n) = DayOf(after) + k
  <2>1. DayOf(after) + k \in Nat
    BY <1>0
  <2> QED
    BY <2>1, DayAndSlotOf
<1>2. n \in Window(after)
  <2>1. n <= after + 62 * Slots /\ 62 * Slots \in Nat
    BY WindowOf
  <2> QED
    BY <1>1, <2>1 DEF Window
<1>3. ASSUME NEW u \in Window(after), u % Slots = s, DayOf(u) \in D PROVE n <= u
  <2>1. u \in Nat /\ u > after /\ DayOf(u) \in DayOf(after) .. DayOf(after) + 62
    BY WindowOf DEF Window
  <2>2. u = At(DayOf(u), s)
    BY <1>3, <2>1, InstantOf
  <2>3. PICK j \in 0 .. 62 : DayOf(u) = DayOf(after) + j
    BY <1>0, <2>1
  <2>4. k <= j
    BY <1>3, <2>1, <2>2, <2>3
  <2>5. CASE k = j
    BY <2>1, <2>2, <2>3, <2>5
  <2>6. CASE k < j
    BY <1>0, <1>1, <2>1, <2>2, <2>3, <2>6, LaterDays
  <2> QED
    BY <2>4, <2>5, <2>6
<1> QED
  BY <1>1, <1>2, <1>3

(* Whether the slot of a day is still to come: never on earlier days, always on
   later ones. *)
LEMMA StillToCome ==
  ASSUME NEW after \in Nat, NEW s \in 0 .. Slots - 1, NEW d \in Nat
  PROVE  /\ d < DayOf(after) => ~ (At(d, s) > after)
         /\ d > DayOf(after) => At(d, s) > after
<1>1. /\ DayOf(after) \in Nat /\ after % Slots \in 0 .. Slots - 1
      /\ after = At(DayOf(after), after % Slots) /\ At(d, s) \in Nat
  BY InstantOf, DayAndSlotOf
<1> QED
  BY <1>1, LaterDays

(* What holds of seven days in a row. *)
LEMMA Week ==
  ASSUME NEW d \in Nat
  PROVE  /\ \A w \in 0 .. 6 : \E i \in 0 .. 6 : Weekday(d + i) = w
         /\ \A i \in 1 .. 6 : Weekday(d + i) # Weekday(d)
         /\ Weekday(d + 7) = Weekday(d)
         /\ \E i \in 1 .. 6 : Weekday(d + i) \in MonToFri
         /\ Weekday(d) \in 0 .. 6
BY DEF Weekday, MonToFri

(* The loop of nextWeeklyRun and nextWeekdayRun, of days of which there is one in
   every week. *)
LEMMA WalkFinds ==
  ASSUME NEW after \in Nat, NEW s \in 0 .. Slots - 1, NEW days \in SUBSET (0 .. 6), days # {}
  PROVE  \E k \in 0 .. 61 :
           /\ WalkForward(after, s, days) = At(DayOf(after) + k, s)
           /\ Weekday(DayOf(after) + k) \in days /\ At(DayOf(after) + k, s) > after
           /\ \A j \in 0 .. 62 :
                Weekday(DayOf(after) + j) \in days /\ At(DayOf(after) + j, s) > after => k <= j
<1> DEFINE today == DayOf(after)
           fits  == {i \in 0 .. 6 : Weekday(today + i) \in days /\ At(today + i, s) > after}
<1>0. today \in Nat
  BY InstantOf
<1>1. CASE fits # {}
  <2>1. \E i \in fits : \A j \in fits : i <= j
    BY <1>1, LeastOf
  <2> DEFINE k == CHOOSE i \in fits : \A j \in fits : i <= j
  <2>2. k \in fits /\ \A j \in fits : k <= j
    BY <2>1
  <2>3. WalkForward(after, s, days) = At(today + k, s)
    BY <1>1 DEF WalkForward
  <2> HIDE DEF k
  <2>4. \A j \in 0 .. 62 : Weekday(today + j) \in days /\ At(today + j, s) > after => k <= j
    BY <2>2
  <2> QED
    BY <2>2, <2>3, <2>4
<1>2. CASE fits = {}
  <2>1. WalkForward(after, s, days) = At(today + 7, s)
    BY <1>2 DEF WalkForward
  <2>2. \A i \in 1 .. 62 : At(today + i, s) > after
    BY <1>0, StillToCome
  <2>3. \A i \in 1 .. 6 : Weekday(today + i) \notin days
    BY <1>2, <2>2
  <2>4. Weekday(today) \in days /\ ~ (At(today, s) > after)
    <3>1. PICK i \in 0 .. 6 : Weekday(today + i) \in days
      <4>1. PICK w \in days : w \in 0 .. 6
        OBVIOUS
      <4> QED
        BY <1>0, <4>1, Week
    <3>2. i = 0 /\ today + 0 = today
      BY <1>0, <2>3, <3>1
    <3> QED
      BY <1>2, <3>1, <3>2
  <2>5. Weekday(today + 7) \in days
    BY <1>0, <2>4, Week
  <2>6. ASSUME NEW j \in 0 .. 62, Weekday(today + j) \in days, At(today + j, s) > after
        PROVE  7 <= j
    <3>1. j # 0
      BY <1>0, <2>4, <2>6
    <3> QED
      BY <2>3, <2>6, <3>1
  <2> QED
    BY <2>1, <2>2, <2>5, <2>6
<1> QED
  BY <1>1, <1>2

(* Months follow each other. *)
LEMMA MonthsFollow ==
  /\ \A m \in 0 .. Months + 3 : First[m] \in Nat
  /\ \A m \in 0 .. Months + 2 : First[m] + 28 <= First[m + 1] /\ First[m + 1] <= First[m] + 31
  /\ \A m \in 0 .. Months + 1 : First[m + 1] = First[m] + 31 \/ First[m + 2] = First[m + 1] + 31
<1>1. \A m \in 0 .. Months + 2 : MonthLength(m) \in 28 .. 31 /\ m + 1 \in 0 .. Months + 3
  BY CalendarAssumption
<1>2. \A m \in 0 .. Months + 3 : First[m] \in Nat
  BY CalendarAssumption
<1>3. \A m \in 0 .. Months + 2 : First[m + 1] - First[m] \in 28 .. 31
  BY <1>1 DEF MonthLength
<1>4. \A m \in 0 .. Months + 2 : First[m] + 28 <= First[m + 1] /\ First[m + 1] <= First[m] + 31
  <2>1. \A m \in 0 .. Months + 2 : First[m] \in Nat /\ First[m + 1] \in Nat
    BY <1>1, <1>2, CalendarAssumption
  <2> QED
    BY <1>3, <2>1
<1>5. ASSUME NEW m \in 0 .. Months + 1
      PROVE  First[m + 1] = First[m] + 31 \/ First[m + 2] = First[m + 1] + 31
  <2>1. /\ m \in 0 .. Months + 3 /\ m + 1 \in 0 .. Months + 3 /\ m + 2 \in 0 .. Months + 3
        /\ (m + 1) + 1 = m + 2
    BY CalendarAssumption
  <2>2. First[m + 1] - First[m] = 31 \/ First[m + 2] - First[m + 1] = 31
    BY <2>1, CalendarAssumption DEF MonthLength
  <2>3. First[m] \in Nat /\ First[m + 1] \in Nat /\ First[m + 2] \in Nat
    BY <1>2, <2>1
  <2> QED
    BY <2>2, <2>3
<1> QED
  BY <1>2, <1>4, <1>5

LEMMA MonthsRise ==
  ASSUME NEW m \in 0 .. Months + 3, NEW k \in 0 .. Months + 3, m < k
  PROVE  First[m] + 28 <= First[k]
<1> DEFINE T == {n \in 0 .. Months + 3 : m < n /\ ~ (First[m] + 28 <= First[n])}
<1>1. SUFFICES ASSUME T # {} PROVE FALSE
  BY <1>1
<1>2. PICK n \in T : \A j \in T : n <= j
  <2>1. T \in SUBSET Nat
    BY CalendarAssumption
  <2> QED
    BY <1>1, <2>1, LeastOf
<1>3. /\ n - 1 \in 0 .. Months + 2 /\ m <= n - 1 /\ (n - 1) + 1 = n /\ n - 1 \notin T
      /\ n - 1 \in 0 .. Months + 3
  BY <1>2, CalendarAssumption
<1>4. First[n - 1] + 28 <= First[n] /\ First[n - 1] \in Nat /\ First[n] \in Nat /\ First[m] \in Nat
  BY <1>2, <1>3, MonthsFollow
<1>5. First[m] <= First[n - 1]
  BY <1>3, <1>4
<1> QED
  BY <1>2, <1>4, <1>5

Days == 0 .. First[Months + 3] - 1

LEMMA MonthOfDay ==
  ASSUME NEW d \in Days
  PROVE  /\ MonthOf[d] \in 0 .. Months + 2
         /\ First[MonthOf[d]] <= d /\ d < First[MonthOf[d] + 1]
<1> DEFINE T == {n \in 0 .. Months + 3 : d < First[n]}
<1>0. Months + 3 \in 0 .. Months + 3 /\ First[Months + 3] \in Nat
  BY CalendarAssumption, MonthsFollow
<1>1. d \in Nat /\ Months + 3 \in T
  BY <1>0 DEF Days
<1>2. PICK n \in T : \A j \in T : n <= j
  <2>1. T \in SUBSET Nat /\ T # {}
    BY <1>1, CalendarAssumption
  <2> QED
    BY <2>1, LeastOf
<1>3. n # 0 /\ First[0] = 0
  BY <1>1, <1>2, CalendarAssumption
<1>4. /\ n - 1 \in 0 .. Months + 2 /\ n - 1 \in 0 .. Months + 3 /\ (n - 1) + 1 = n /\ n - 1 \notin T
  BY <1>2, <1>3, CalendarAssumption
<1>5. First[n - 1] <= d /\ d < First[(n - 1) + 1]
  BY <1>1, <1>2, <1>4, MonthsFollow
<1>6. MonthOf[d] = CHOOSE m \in 0 .. Months + 2 : First[m] <= d /\ d < First[m + 1]
  BY DEF MonthOf, Days
<1> QED
  BY <1>4, <1>5, <1>6

LEMMA MonthIs ==
  ASSUME NEW d \in Days, NEW m \in 0 .. Months + 2, First[m] <= d, d < First[m + 1]
  PROVE  MonthOf[d] = m
<1> DEFINE n == MonthOf[d]
<1>1. n \in 0 .. Months + 2 /\ First[n] <= d /\ d < First[n + 1]
  BY MonthOfDay
<1> HIDE DEF n
<1>2. /\ m \in 0 .. Months + 3 /\ n \in 0 .. Months + 3 /\ m + 1 \in 0 .. Months + 3 /\ n + 1 \in 0 .. Months + 3
      /\ d \in Nat
  BY <1>1, CalendarAssumption, MonthsFollow DEF Days
<1>3. First[m] \in Nat /\ First[n] \in Nat /\ First[m + 1] \in Nat /\ First[n + 1] \in Nat
  BY <1>2, MonthsFollow
<1>4. ~ (m < n)
  <2>1. SUFFICES ASSUME m < n PROVE FALSE
    OBVIOUS
  <2>2. m + 1 = n \/ m + 1 < n
    BY <1>1, <2>1
  <2> QED
    BY <1>1, <1>2, <1>3, <2>2, MonthsRise
<1>5. ~ (n < m)
  <2>1. SUFFICES ASSUME n < m PROVE FALSE
    OBVIOUS
  <2>2. n + 1 = m \/ n + 1 < m
    BY <1>1, <2>1
  <2> QED
    BY <1>1, <1>2, <1>3, <2>2, MonthsRise
<1> QED
  BY <1>1, <1>4, <1>5 DEF n

(* time.Date stays in the month that has the day, and names another day of the next
   month when it has not. *)
Has(m, day) == DayOfMonth(Date(m, day)) = day

LEMMA DatesOf ==
  ASSUME NEW m \in 0 .. Months + 1, NEW day \in 1 .. 31
  PROVE  /\ Date(m, day) \in Days /\ Date(m, day) = First[m] + day - 1
         /\ Has(m, day) <=> day <= First[m + 1] - First[m]
         /\ Has(m, day) => MonthOf[Date(m, day)] = m
<1> DEFINE d == Date(m, day)
<1>1. /\ m \in 0 .. Months + 3 /\ m + 1 \in 0 .. Months + 3 /\ m + 2 \in 0 .. Months + 3
      /\ m \in 0 .. Months + 2 /\ m + 1 \in 0 .. Months + 2 /\ (m + 1) + 1 = m + 2
      /\ Months + 3 \in 0 .. Months + 3 /\ (m + 2 = Months + 3 \/ m + 2 < Months + 3)
  BY CalendarAssumption
<1>2. /\ First[m] \in Nat /\ First[m + 1] \in Nat /\ First[m + 2] \in Nat /\ First[Months + 3] \in Nat
      /\ First[m] + 28 <= First[m + 1] /\ First[m + 1] <= First[m] + 31
      /\ First[m + 1] + 28 <= First[m + 2] /\ First[m + 2] <= First[m + 1] + 31
  BY <1>1, MonthsFollow
<1>3. First[m + 2] <= First[Months + 3]
  <2>1. CASE m + 2 = Months + 3
    BY <1>2, <2>1
  <2>2. CASE m + 2 < Months + 3
    BY <1>1, <1>2, <2>2, MonthsRise
  <2> QED
    BY <1>1, <2>1, <2>2
<1>4. d = First[m] + day - 1 /\ d \in Nat /\ First[m] <= d /\ d < First[m + 2]
  BY <1>2 DEF Date
<1>5. d \in Days
  BY <1>2, <1>3, <1>4 DEF Days
<1>6. DayOfMonth(d) = d - First[MonthOf[d]] + 1
  BY DEF DayOfMonth
<1> HIDE DEF d
<1>7. CASE d < First[m + 1]
  <2>1. MonthOf[d] = m
    BY <1>1, <1>4, <1>5, <1>7, MonthIs
  <2> QED
    BY <1>2, <1>4, <1>5, <1>6, <1>7, <2>1 DEF Has, d
<1>8. CASE ~ (d < First[m + 1])
  <2>1. MonthOf[d] = m + 1
    BY <1>1, <1>2, <1>4, <1>5, <1>8, MonthIs
  <2> QED
    BY <1>2, <1>4, <1>5, <1>6, <1>8, <2>1 DEF Has, d
<1> QED
  BY <1>7, <1>8

(* The two tries of nextMonthlyRun. *)
LEMMA MonthFinds ==
  ASSUME NEW after \in 0 .. Horizon - 1, NEW s \in 0 .. Slots - 1, NEW day \in 1 .. 31
  PROVE  \E k \in 0 .. 61 :
           /\ NextMonthlyRun(after, day, s) = At(DayOf(after) + k, s)
           /\ DayOfMonth(DayOf(after) + k) = day /\ At(DayOf(after) + k, s) > after
           /\ \A j \in 0 .. 62 :
                DayOfMonth(DayOf(after) + j) = day /\ At(DayOf(after) + j, s) > after => k <= j
<1> DEFINE today  == DayOf(after)
           m      == MonthOf[today]
           Comes(n) == At(Date(n, day), s) > after
           Found  == \E k \in 0 .. 61 :
             /\ NextMonthlyRun(after, day, s) = At(today + k, s)
             /\ DayOfMonth(today + k) = day /\ At(today + k, s) > after
             /\ \A j \in 0 .. 62 : DayOfMonth(today + j) = day /\ At(today + j, s) > after => k <= j
<1>s. SUFFICES Found
  OBVIOUS
<1>0. /\ Months \in Nat \ {0} /\ Slots \in Nat \ {0} /\ First[Months] \in Nat /\ after \in Nat
      /\ Months \in 0 .. Months + 3 /\ Months + 3 \in 0 .. Months + 3 /\ Months < Months + 3
  BY CalendarAssumption, MonthsFollow DEF Horizon
<1>1. today \in Nat /\ today < First[Months]
  <2>1. today \in Nat /\ after = today * Slots + (after % Slots) /\ after % Slots \in 0 .. Slots - 1
    BY <1>0, InstantOf DEF At
  <2>2. ~ (today >= First[Months])
    <3>1. SUFFICES ASSUME today >= First[Months] PROVE FALSE
      OBVIOUS
    <3>2. today * Slots >= First[Months] * Slots
      BY <1>0, <2>1, <3>1
    <3> QED
      BY <1>0, <2>1, <3>2 DEF Horizon
  <2> QED
    BY <1>0, <2>1, <2>2
<1>2. First[Months] + 84 <= First[Months + 3]
  <2>1. /\ Months + 1 \in 0 .. Months + 2 /\ Months + 2 \in 0 .. Months + 2 /\ Months \in 0 .. Months + 2
        /\ (Months + 1) + 1 = Months + 2 /\ (Months + 2) + 1 = Months + 3
        /\ Months + 1 \in 0 .. Months + 3 /\ Months + 2 \in 0 .. Months + 3
    BY <1>0
  <2>2. /\ First[Months] + 28 <= First[Months + 1] /\ First[Months + 1] + 28 <= First[Months + 2]
        /\ First[Months + 2] + 28 <= First[Months + 3]
    BY <2>1, MonthsFollow
  <2>3. First[Months + 1] \in Nat /\ First[Months + 2] \in Nat /\ First[Months + 3] \in Nat
    BY <1>0, <2>1, MonthsFollow
  <2> QED
    BY <1>0, <2>2, <2>3
<1>3. First[Months + 3] \in Nat /\ \A j \in 0 .. 62 : today + j \in Days
  BY <1>0, <1>1, <1>2, MonthsFollow DEF Days
<1>4. m \in 0 .. Months - 1 /\ First[m] <= today /\ today < First[m + 1]
  <2>1. today \in Days
    BY <1>1, <1>3
  <2>2. m \in 0 .. Months + 2 /\ First[m] <= today /\ today < First[m + 1]
    BY <2>1, MonthOfDay
  <2> HIDE DEF m
  <2>3. m \in 0 .. Months + 3 /\ First[m] \in Nat
    BY <1>0, <2>2, MonthsFollow
  <2>4. ~ (Months < m) /\ m # Months
    BY <1>0, <1>1, <2>2, <2>3, MonthsRise
  <2> QED
    BY <1>0, <2>2, <2>4
<1>5. NextMonthlyRun(after, day, s) =
        LET this == IF Has(m, day) THEN Date(m, day) ELSE Date(m + 1, day)
            next == IF Has(m + 1, day) THEN Date(m + 1, day) ELSE Date(m + 2, day)
        IN IF At(this, s) > after THEN At(this, s) ELSE At(next, s)
  BY DEF NextMonthlyRun, Has
<1>a. \A d \in Nat : (d < today => ~ (At(d, s) > after)) /\ (d > today => At(d, s) > after)
  BY <1>0, StillToCome
<1> HIDE DEF m, today
<1>6. /\ m \in 0 .. Months + 2 /\ m \in 0 .. Months + 1 /\ m + 1 \in 0 .. Months + 1
      /\ m + 1 \in 0 .. Months + 2 /\ (m + 1) + 1 = m + 2 /\ (m + 1) + 2 = m + 3 /\ m \in Nat
      /\ m \in 0 .. Months + 3 /\ m + 1 \in 0 .. Months + 3 /\ m + 2 \in 0 .. Months + 3
      /\ m + 2 \in 0 .. Months + 1 /\ (m + 2) + 1 = m + 3
  BY <1>0, <1>4
<1>7. /\ First[m] \in Nat /\ First[m + 1] \in Nat /\ First[m + 2] \in Nat
      /\ First[m + 1] <= First[m] + 31 /\ First[m + 2] <= First[m + 1] + 31
      /\ First[m + 1] = First[m] + 31 \/ First[m + 2] = First[m + 1] + 31
      /\ First[m + 2] = First[m + 1] + 31 \/ First[m + 3] = First[m + 2] + 31
  BY <1>6, MonthsFollow
<1>8. /\ Date(m, day) = First[m] + day - 1 /\ Date(m + 1, day) = First[m + 1] + day - 1
      /\ Date(m + 2, day) = First[m + 2] + day - 1
      /\ Has(m, day) <=> day <= First[m + 1] - First[m]
      /\ Has(m + 1, day) <=> day <= First[m + 2] - First[m + 1]
      /\ Has(m + 2, day) <=> day <= First[m + 3] - First[m + 2]
  BY <1>6, DatesOf
(* The first month that has the day, with its slot still to come, is the one. *)
<1>9. ASSUME NEW e \in {m, m + 1, m + 2}, Has(e, day), Comes(e),
             \A h \in {m, m + 1, m + 2} : h < e => ~ (Has(h, day) /\ Comes(h)),
             Date(e, day) <= today + 61, NextMonthlyRun(after, day, s) = At(Date(e, day), s)
      PROVE  Found
  <2> DEFINE k == Date(e, day) - today
  <2>0. e \in Nat /\ e \in 0 .. Months + 3 /\ First[e] \in Nat /\ Date(e, day) = First[e] + day - 1
    BY <1>6, <1>7, <1>8
  <2>1. ~ (Date(e, day) < today)
    BY <1>a, <1>9, <2>0
  <2>2. k \in 0 .. 61 /\ today + k = Date(e, day)
    BY <1>1, <1>9, <2>0, <2>1
  <2>3. ASSUME NEW j \in 0 .. 62, DayOfMonth(today + j) = day, At(today + j, s) > after, j < k
        PROVE  FALSE
    <3> DEFINE n == MonthOf[today + j]
    <3>1. n \in 0 .. Months + 2 /\ First[n] <= today + j /\ today + j < First[n + 1]
      BY <1>3, MonthOfDay
    <3>2. DayOfMonth(today + j) = (today + j) - First[n] + 1
      BY DEF DayOfMonth
    <3> HIDE DEF n
    <3>3. /\ n \in 0 .. Months + 3 /\ n + 1 \in 0 .. Months + 3 /\ n \in Nat
          /\ First[n] \in Nat /\ First[n + 1] \in Nat
      BY <1>0, <3>1, MonthsFollow
    <3>4. today + j = First[n] + day - 1 /\ today + j = Date(n, day)
      BY <1>1, <2>3, <3>2, <3>3 DEF Date
    <3>5. ~ (n < m)
      <4>1. SUFFICES ASSUME n < m PROVE FALSE
        OBVIOUS
      <4>2. n + 1 = m \/ n + 1 < m
        BY <1>6, <3>3, <4>1
      <4>3. First[n + 1] <= First[m]
        BY <1>6, <1>7, <3>3, <4>2, MonthsRise
      <4> QED
        BY <1>1, <1>4, <1>7, <3>1, <3>3, <4>3
    <3>6. n # e
      BY <1>1, <2>2, <2>3, <3>4
    <3>7. ~ (e < n)
      <4>1. SUFFICES ASSUME e < n PROVE FALSE
        OBVIOUS
      <4>2. First[e] + 28 <= First[n]
        BY <2>0, <3>3, <4>1, MonthsRise
      <4> QED
        BY <1>1, <2>0, <2>2, <2>3, <3>3, <3>4, <4>2
    <3>8. n \in {m, m + 1, m + 2} /\ n < e
      BY <1>6, <2>0, <3>3, <3>5, <3>6, <3>7
    <3>9. Has(n, day) /\ Comes(n)
      BY <2>3, <3>4 DEF Has
    <3> QED
      BY <1>9, <3>8, <3>9
  <2>4. \A j \in 0 .. 62 : DayOfMonth(today + j) = day /\ At(today + j, s) > after => k <= j
    <3>1. \A j \in 0 .. 62 : j < k \/ k <= j
      BY <2>2
    <3> QED
      BY <2>3, <3>1
  <2>5. DayOfMonth(today + k) = day /\ At(today + k, s) > after
    BY <1>9, <2>2 DEF Has
  <2> HIDE DEF k
  <2> QED
    BY <1>9, <2>2, <2>4, <2>5
<1>b. Comes(m + 1) /\ Comes(m + 2)
  <2>1. First[m + 1] + 28 <= First[m + 2]
    BY <1>6, MonthsFollow
  <2>2. /\ Date(m + 1, day) \in Nat /\ Date(m + 1, day) > today
        /\ Date(m + 2, day) \in Nat /\ Date(m + 2, day) > today
    BY <1>1, <1>4, <1>7, <1>8, <2>1
  <2> QED
    BY <1>a, <2>2
<1>c. ~ Comes(m) => Date(m, day) <= today
  <2>1. Date(m, day) \in Nat
    BY <1>7, <1>8
  <2> QED
    BY <1>1, <1>a, <2>1
<1> HIDE DEF Comes, Found
<1>10. CASE Has(m, day) /\ Comes(m)
  <2>1. NextMonthlyRun(after, day, s) = At(Date(m, day), s)
    BY <1>5, <1>10 DEF Comes
  <2>2. Date(m, day) <= today + 61
    BY <1>1, <1>4, <1>7, <1>8
  <2>3. \A h \in {m, m + 1, m + 2} : ~ (h < m)
    BY <1>6
  <2> QED
    BY <1>9, <1>10, <2>1, <2>2, <2>3
<1>11. CASE Has(m, day) /\ ~ Comes(m) /\ Has(m + 1, day)
  <2>1. NextMonthlyRun(after, day, s) = At(Date(m + 1, day), s)
    BY <1>5, <1>11 DEF Comes
  <2>2. Date(m + 1, day) <= today + 61
    BY <1>1, <1>7, <1>8, <1>11, <1>c
  <2>3. \A h \in {m, m + 1, m + 2} : h < m + 1 => h = m
    BY <1>6
  <2> QED
    BY <1>9, <1>11, <1>b, <2>1, <2>2, <2>3
<1>12. CASE Has(m, day) /\ ~ Comes(m) /\ ~ Has(m + 1, day)
  <2>1. NextMonthlyRun(after, day, s) = At(Date(m + 2, day), s)
    BY <1>5, <1>12 DEF Comes
  <2>2. Has(m + 2, day) /\ Date(m + 2, day) <= today + 61
    <3>1. First[m + 3] \in Nat
      BY <1>6, MonthsFollow, <1>0, <1>4
    <3> QED
      BY <1>1, <1>7, <1>8, <1>12, <1>c, <3>1
  <2>3. \A h \in {m, m + 1, m + 2} : h < m + 2 => h = m \/ h = m + 1
    BY <1>6
  <2> QED
    BY <1>9, <1>12, <1>b, <2>1, <2>2, <2>3
<1>13. CASE ~ Has(m, day)
  <2>1. NextMonthlyRun(after, day, s) = At(Date(m + 1, day), s)
    BY <1>5, <1>13, <1>b DEF Comes
  <2>2. Has(m + 1, day) /\ Date(m + 1, day) <= today + 61
    BY <1>1, <1>4, <1>7, <1>8, <1>13
  <2>3. \A h \in {m, m + 1, m + 2} : h < m + 1 => h = m
    BY <1>6
  <2> QED
    BY <1>9, <1>13, <1>b, <2>1, <2>2, <2>3
<1> QED
  BY <1>10, <1>11, <1>12, <1>13

(* A tag that names a slot of some days: its next run is the first of these. *)
LEMMA SlotOfDays ==
  ASSUME NEW g, NEW after \in Nat, NEW s \in 0 .. Slots - 1, NEW D,
         NextRun(g, after) \in Nat,
         \A t \in Nat : Names(g, after, t) <=> t % Slots = s /\ DayOf(t) \in D,
         NEW k \in 0 .. 61, NextRun(g, after) = At(DayOf(after) + k, s),
         DayOf(after) + k \in D, At(DayOf(after) + k, s) > after,
         \A j \in 0 .. 62 : DayOf(after) + j \in D /\ At(DayOf(after) + j, s) > after => k <= j
  PROVE  IsNext(g, after, NextRun(g, after))
<1>1. /\ NextRun(g, after) \in Window(after) /\ NextRun(g, after) % Slots = s
      /\ DayOf(NextRun(g, after)) \in D
      /\ \A u \in Window(after) : u % Slots = s /\ DayOf(u) \in D => NextRun(g, after) <= u
  <2> DEFINE n == At(DayOf(after) + k, s)
  <2>1. /\ n \in Window(after) /\ n % Slots = s /\ DayOf(n) \in D
        /\ \A u \in Window(after) : u % Slots = s /\ DayOf(u) \in D => n <= u
    BY FirstOfDays
  <2> QED
    BY <2>1
<1>2. Window(after) \subseteq Nat
  BY CalendarAssumption DEF Window
<1> QED
  BY <1>1, <1>2 DEF IsNext

LEMMA HorizonIs == Horizon \in Nat \ {0}
<1>1. Months \in 0 .. Months + 3 /\ 0 \in 0 .. Months + 3 /\ 0 < Months
  BY CalendarAssumption
<1>2. First[0] + 28 <= First[Months] /\ First[0] = 0 /\ First[Months] \in Nat
  BY <1>1, MonthsRise, MonthsFollow, CalendarAssumption
<1> QED
  BY <1>2, CalendarAssumption DEF Horizon

(* The next run after any instant of the calendar is the first instant after it that
   the tag names, if that is within 62 days, as it is for every tag but a long interval
   and a one-shot; else it is later, or never. *)
THEOREM NextRunIsNext ==
  ASSUME NEW g \in Tags, NEW after \in 0 .. Horizon - 1
  PROVE  \/ IsNext(g, after, NextRun(g, after))
         \/ /\ NextRun(g, after) \in Nat /\ NextRun(g, after) > after + 62 * Slots
            /\ \A u \in Window(after) : ~ Names(g, after, u)
<1>0. /\ after \in Nat /\ 62 * Slots \in Nat /\ DayOf(after) \in Nat /\ Slots \in Nat \ {0}
      /\ Horizon \in Nat /\ after < Horizon
  <2>1. after \in Nat /\ Horizon \in Nat /\ after < Horizon
    BY HorizonIs
  <2>2. Slots \in Nat \ {0} /\ 62 * Slots \in Nat
    BY CalendarAssumption
  <2> QED
    BY <2>1, <2>2, InstantOf
<1>1. \A k \in 0 .. 61, s \in 0 .. Slots - 1 : At(DayOf(after) + k, s) \in Nat
  BY <1>0, DayAndSlotOf
<1>2. CASE g.type = "interval"
  <2>1. g.every \in Nat \ {0}
    BY <1>2, TagsAssumption
  <2>2. NextRun(g, after) = after + g.every /\ \A u : Names(g, after, u) <=> u = after + g.every
    BY <1>2 DEF NextRun, Names
  <2> QED
    BY <1>0, <2>1, <2>2 DEF IsNext, Window
<1>3. CASE g.type = "once"
  <2>1. g.at \in Nat
    BY <1>3, TagsAssumption
  <2>2. /\ NextRun(g, after) = IF g.at > after THEN g.at ELSE Horizon + 62 * Slots
        /\ \A u : Names(g, after, u) <=> u = g.at
    BY <1>3 DEF NextRun, Names, Never
  <2> QED
    BY <1>0, <2>1, <2>2 DEF IsNext, Window
<1>4. CASE g.type = "daily"
  <2>1. g.slot \in 0 .. Slots - 1
    BY <1>4, TagsAssumption
  <2>2. \A t \in Nat : Names(g, after, t) <=> t % Slots = g.slot /\ DayOf(t) \in Nat
    BY <1>4, InstantOf DEF Names
  <2>3. NextRun(g, after) = NextDailyRun(after, g.slot)
    BY <1>4 DEF NextRun
  <2>4. At(DayOf(after) + 1, g.slot) > after /\ DayOf(after) + 0 = DayOf(after)
    BY <1>0, <2>1, StillToCome
  <2>5. PICK k \in 0 .. 1 : /\ NextRun(g, after) = At(DayOf(after) + k, g.slot)
                            /\ At(DayOf(after) + k, g.slot) > after
                            /\ k = 1 => ~ (At(DayOf(after) + 0, g.slot) > after)
    BY <2>3, <2>4 DEF NextDailyRun
  <2>6. \A j \in 0 .. 62 : At(DayOf(after) + j, g.slot) > after => k <= j
    BY <2>5
  <2>7. k \in 0 .. 61 /\ DayOf(after) + k \in Nat
    BY <1>0
  <2> QED
    BY <1>0, <1>1, <2>1, <2>2, <2>5, <2>6, <2>7, SlotOfDays
<1>5. CASE g.type \in {"weekly", "weekdays"}
  <2> DEFINE days == IF g.type = "weekly" THEN {g.day} ELSE MonToFri
             D    == {d \in Nat : Weekday(d) \in days}
  <2>1. /\ g.slot \in 0 .. Slots - 1 /\ days \in SUBSET (0 .. 6) /\ days # {}
        /\ NextRun(g, after) = WalkForward(after, g.slot, days)
    <3>1. CASE g.type = "weekly"
      <4>1. g.day \in 0 .. 6 /\ g.slot \in 0 .. Slots - 1
        BY <3>1, TagsAssumption
      <4> QED
        BY <3>1, <4>1 DEF NextRun, NextWeeklyRun
    <3>2. CASE g.type = "weekdays"
      <4>1. g.slot \in 0 .. Slots - 1
        BY <3>2, TagsAssumption
      <4> QED
        BY <3>2, <4>1 DEF NextRun, NextWeekdayRun, MonToFri
    <3> QED
      BY <1>5, <3>1, <3>2
  <2>2. \A t \in Nat : Names(g, after, t) <=> t % Slots = g.slot /\ DayOf(t) \in D
    BY <1>5, InstantOf DEF Names
  <2> HIDE DEF days
  <2>3. PICK k \in 0 .. 61 :
          /\ NextRun(g, after) = At(DayOf(after) + k, g.slot)
          /\ Weekday(DayOf(after) + k) \in days /\ At(DayOf(after) + k, g.slot) > after
          /\ \A j \in 0 .. 62 :
               Weekday(DayOf(after) + j) \in days /\ At(DayOf(after) + j, g.slot) > after => k <= j
    <3>1. PICK k \in 0 .. 61 :
          /\ WalkForward(after, g.slot, days) = At(DayOf(after) + k, g.slot)
          /\ Weekday(DayOf(after) + k) \in days /\ At(DayOf(after) + k, g.slot) > after
          /\ \A j \in 0 .. 62 :
               Weekday(DayOf(after) + j) \in days /\ At(DayOf(after) + j, g.slot) > after => k <= j
      BY <1>0, <2>1, WalkFinds
    <3> QED
      BY <2>1, <3>1
  <2>4. \A j \in 0 .. 62 : DayOf(after) + j \in D <=> Weekday(DayOf(after) + j) \in days
    BY <1>0
  <2>5. NextRun(g, after) \in Nat /\ DayOf(after) + k \in D
    BY <1>1, <2>1, <2>3, <2>4
  <2> HIDE DEF D
  <2> QED
    BY <1>0, <2>1, <2>2, <2>3, <2>4, <2>5, SlotOfDays
<1>6. CASE g.type = "monthly"
  <2> DEFINE D == {d \in Nat : DayOfMonth(d) = g.day}
  <2>1. g.slot \in 0 .. Slots - 1 /\ g.day \in 1 .. 31
    BY <1>6, TagsAssumption
  <2>2. \A t \in Nat : Names(g, after, t) <=> t % Slots = g.slot /\ DayOf(t) \in D
    BY <1>6, InstantOf DEF Names
  <2>3. PICK k \in 0 .. 61 :
          /\ NextMonthlyRun(after, g.day, g.slot) = At(DayOf(after) + k, g.slot)
          /\ DayOfMonth(DayOf(after) + k) = g.day /\ At(DayOf(after) + k, g.slot) > after
          /\ \A j \in 0 .. 62 :
               DayOfMonth(DayOf(after) + j) = g.day /\ At(DayOf(after) + j, g.slot) > after => k <= j
    BY <2>1, MonthFinds
  <2>4. NextRun(g, after) = NextMonthlyRun(after, g.day, g.slot)
    BY <1>6 DEF NextRun
  <2>5. \A j \in 0 .. 62 : DayOf(after) + j \in D <=> DayOfMonth(DayOf(after) + j) = g.day
    BY <1>0
  <2>6. NextRun(g, after) \in Nat /\ DayOf(after) + k \in D
    BY <1>1, <2>1, <2>3, <2>4, <2>5
  <2> HIDE DEF D
  <2> QED
    BY <1>0, <2>1, <2>2, <2>3, <2>4, <2>5, <2>6, SlotOfDays
<1>7. g.type \in {"interval", "daily", "weekdays", "weekly", "monthly", "once"}
  BY TagsAssumption
<1> QED
  BY <1>2, <1>3, <1>4, <1>5, <1>6, <1>7

-----------------------------------------------------------------------------
(* The life of a schedule: its last run stays within the calendar. *)
TimesInv == cron \in Tags /\ ran \in 0 .. Horizon - 1

(* A schedule is due from the first instant that its tag names after its last run
   on, and not before (schedule.go: NextRun, IsDue), for every calendar. *)
THEOREM DueWhenNamed == TimesSpec => []DueFromTheNamedInstantOn
<1>1. TimesInit => TimesInv
  BY HorizonIs DEF TimesInit, TimesInv
<1>2. TimesInv /\ [TimesNext]_timeVars => TimesInv'
  <2> SUFFICES ASSUME TimesInv, [TimesNext]_timeVars PROVE TimesInv'
    OBVIOUS
  <2>0. Horizon \in Nat /\ ran \in Nat /\ cron \in Tags
    BY HorizonIs DEF TimesInv
  <2>1. CASE Acknowledge
    <3>1. NextRun(cron, ran) \in Nat
      BY <2>0, NextRunIsNext DEF TimesInv, IsNext, Window
    <3>2. ran' \in Nat /\ ran' < Horizon /\ cron' = cron
      BY <2>1, <3>1, LifeAssumption DEF Acknowledge
    <3> QED
      BY <2>0, <3>2 DEF TimesInv
  <2>2. CASE AccessRow
    BY <2>0, <2>2 DEF AccessRow, TimesInv
  <2>3. CASE EditTag
    BY <2>0, <2>3 DEF EditTag, TimesInv
  <2>4. CASE UNCHANGED timeVars
    BY <2>4 DEF timeVars, TimesInv
  <2> QED
    BY <2>1, <2>2, <2>3, <2>4 DEF TimesNext
<1>3. TimesInv => DueFromTheNamedInstantOn
  <2> SUFFICES ASSUME TimesInv PROVE DueFromTheNamedInstantOn
    OBVIOUS
  <2> DEFINE n     == NextRun(cron, ran)
             named == {t \in Window(ran) : Names(cron, ran, t)}
  <2>0. /\ ran \in Nat /\ 62 * Slots \in Nat /\ Horizon \in Nat /\ ran < Horizon
        /\ Window(ran) = ran + 1 .. ran + 62 * Slots /\ Never = Horizon + 62 * Slots
    BY HorizonIs, CalendarAssumption DEF TimesInv, Window, Never
  <2>1. \/ IsNext(cron, ran, n)
        \/ n \in Nat /\ n > ran + 62 * Slots /\ named = {}
    BY NextRunIsNext DEF TimesInv
  <2>2. IsDue(cron, ran, ran + 62 * Slots) <=> n # Never /\ ran + 62 * Slots >= n
    BY DEF IsDue
  <2>3. \A t : IsDue(cron, ran, t) <=> n # Never /\ t >= n
    BY DEF IsDue
  <2> HIDE DEF n
  <2>4. CASE n \in Nat /\ n > ran + 62 * Slots /\ named = {}
    BY <2>0, <2>2, <2>4 DEF DueFromTheNamedInstantOn
  <2>5. CASE IsNext(cron, ran, n)
    <3>1. /\ n \in named /\ n # Never /\ n \in Nat
          /\ \A u \in named : n <= u
      BY <2>0, <2>5 DEF IsNext
    <3>2. IsDue(cron, ran, n) /\ ~ IsDue(cron, ran, n - 1)
      BY <2>3, <3>1
    <3> QED
      BY <2>0, <3>1, <3>2 DEF DueFromTheNamedInstantOn
  <2> QED
    BY <2>1, <2>4, <2>5
<1> QED
  BY <1>1, <1>2, <1>3, PTL DEF TimesSpec

-----------------------------------------------------------------------------
(* Schedules and their callers. *)

(* What a caller keeps. *)
Runs == [id : Ids, tag : Tags \cup {NoTag}, occ : Nat]

Creating   == [pc : {"replace"}, text : Contents, tag : Tags, unseen : SUBSET Ids, rows : SUBSET Ids]
Recovering == [pc : {"recover"}, rows : SUBSET Ids]
Asking     == [pc : {"ack", "archive"}, by : {"client"}, report : SUBSET Ids, rows : SUBSET Runs]
Checking   == [pc : {"ack", "archive", "again", "decide"}, by : {"check", "deferred"}, named : BOOLEAN,
               report : SUBSET Ids, rows : SUBSET Runs]
CallRecords == {Idle} \cup Creating \cup Recovering \cup Asking \cup Checking

Born(i) == state[i] # "unborn"

(* The rows and their histories. *)
TableTypes ==
  /\ state \in [Ids -> RowStates \cup {"unborn", "gone"}]
  /\ tag \in [Ids -> Tags \cup {NoTag}] /\ text \in [Ids -> Contents \cup {{}}]
  /\ now \in 0 .. MaxTime /\ lastRun \in [Ids -> 0 .. now]
  /\ made \subseteq Ids /\ ended \subseteq Ids
  /\ unseen \in [Ids -> SUBSET Ids] /\ fired \in [Ids -> Nat]

MadeAndEnded ==
  /\ \A i \in made \cup ended : Born(i)
  /\ \A i \in made : tag[i] \in Tags /\ \A j \in Ids : ~ Born(j) => j \in unseen[i]
  /\ \A i \in Ids : fired[i] <= lastRun[i]

TableInv ==
  /\ TableTypes /\ MadeAndEnded
  /\ DuplicateSchedulesNeedAnOverlap /\ OnlyRequestsEndARecurringSchedule

(* A creation that has still to write its row knows of every matching row that was
   made, but for those that it did not find. *)
Covers(r) ==
  r.pc = "replace" =>
    /\ \A i \in Ids : ~ Born(i) => i \in r.unseen
    /\ \A i \in made :
         IsActive(i) /\ IsScheduleContentMatch(text[i], r.text) => i \in r.unseen \cup r.rows

(* The runs that a caller has read are of rows that exist, and are due; a check has
   read their tags as they are, unless they have been edited since. *)
ReadsTrue(r) ==
  r.pc \in {"ack", "archive", "again", "decide"} =>
    /\ r.pc # "decide" => r.rows # {}
    /\ \A q \in r.rows :
         /\ Born(q.id) /\ q.occ <= now
         /\ r.by = "check" /\ q.id \in made => q.tag = tag[q.id]

(* Of the rows that were made, a caller archives one-shots only. *)
ArchivesOneShots(r) ==
  /\ r.pc = "archive" /\ FirstRun(r.rows).id \in made => IsOnce(tag[FirstRun(r.rows).id])
  /\ r.pc = "again" => r.by = "check" /\ IsOnce(FirstRun(r.rows).tag)

CallInv(r) == Covers(r) /\ ReadsTrue(r) /\ ArchivesOneShots(r)

CallsInv == call \in [Callers -> CallRecords] /\ \A c \in Callers : CallInv(call[c])

SchedulesInv == TableInv /\ CallsInv

LEMMA FirstRowIsOne ==
  ASSUME NEW S \in SUBSET Ids, S # {}
  PROVE  FirstRow(S) \in S
<1>1. S \in SUBSET Nat
  BY SchedulesAssumption
<1>2. \E i \in S : \A j \in S : i <= j
  BY <1>1, LeastOf
<1> QED
  BY <1>2 DEF FirstRow

LEMMA FirstRunIsOne ==
  ASSUME NEW S \in SUBSET Runs, S # {}
  PROVE  FirstRun(S) \in S
<1> DEFINE T == {q.id : q \in S}
<1>1. T \in SUBSET Nat /\ T # {}
  BY SchedulesAssumption DEF Runs
<1>2. PICK i \in T : \A j \in T : i <= j
  BY <1>1, LeastOf
<1>3. \E r \in S : \A q \in S : r.id <= q.id
  BY <1>2
<1> QED
  BY <1>3 DEF FirstRun

(* A step that makes no row and leaves those that were made and stay so as they are,
   but that requests may end them, and runs the one-shots among them. *)
KeepsMade ==
  /\ TableTypes' /\ now <= now'
  /\ \A i \in Ids : (Born(i) => Born(i)') /\ fired'[i] <= lastRun'[i]
  /\ \A i \in ended' : Born(i)'
  /\ \A i \in made' :
       /\ i \in made /\ tag'[i] = tag[i] /\ text'[i] = text[i] /\ unseen'[i] = unseen[i]
       /\ IsActive(i)' => IsActive(i)
       /\ ~ IsOnce(tag[i]) => (IsActive(i)' <=> i \notin ended')

LEMMA KeepsMadeIsEnough ==
  ASSUME TableInv, KeepsMade
  PROVE  TableInv' /\ \A r \in CallRecords : CallInv(r) => CallInv(r)'
<1>1. MadeAndEnded'
  BY DEF TableInv, KeepsMade, MadeAndEnded, TableTypes
<1>2. DuplicateSchedulesNeedAnOverlap'
  BY DEF TableInv, KeepsMade, DuplicateSchedulesNeedAnOverlap
<1>3. OnlyRequestsEndARecurringSchedule'
  BY DEF TableInv, KeepsMade, OnlyRequestsEndARecurringSchedule
<1>4. ASSUME NEW r \in CallRecords, CallInv(r) PROVE CallInv(r)'
  <2>1. Covers(r)'
    BY <1>4 DEF CallInv, Covers, KeepsMade
  <2>2. ReadsTrue(r)'
    <3>1. now \in Nat /\ now' \in Nat /\ \A i \in Ids : Born(i) => Born(i)'
      BY DEF TableInv, TableTypes, KeepsMade
    <3>2. ASSUME r.pc \in {"ack", "archive", "again", "decide"}, NEW q \in r.rows PROVE q.id \in Ids /\ q.occ \in Nat
      BY <1>4, <3>2 DEF CallRecords, Creating, Recovering, Asking, Checking, Idle, Runs
    <3> QED
      BY <1>4, <3>1, <3>2 DEF CallInv, ReadsTrue, KeepsMade
  <2>3. ArchivesOneShots(r)'
    BY <1>4 DEF CallInv, ArchivesOneShots, KeepsMade
  <2> QED
    BY <2>1, <2>2, <2>3 DEF CallInv
<1> QED
  BY <1>1, <1>2, <1>3, <1>4 DEF TableInv, KeepsMade

LEMMA Untouched ==
  ASSUME TableInv, UNCHANGED <<state, tag, text, lastRun, now, made, ended, unseen, fired>>
  PROVE  KeepsMade
BY DEF KeepsMade, TableInv, TableTypes, MadeAndEnded, OnlyRequestsEndARecurringSchedule, Born, IsActive

(* A row is ended: cancelled, deleted, replaced, resolved or superseded. *)
LEMMA EndedRow ==
  ASSUME TableInv, NEW i \in Ids, Present(i), NEW s \in {"archived", "deleted", "resolved"},
         state' = [state EXCEPT ![i] = s], ended' = ended \cup {i},
         UNCHANGED <<tag, text, lastRun, now, made, unseen, fired>>
  PROVE  KeepsMade
<1>1. /\ TableTypes /\ state' \in [Ids -> RowStates \cup {"unborn", "gone"}] /\ ended' \subseteq Ids
      /\ Born(i) /\ Born(i)' /\ state'[i] # "active"
      /\ \A j \in Ids : j # i => state'[j] = state[j]
  BY DEF TableInv, TableTypes, Present, RowStates, LiveStates, Born
<1>2. TableTypes'
  BY <1>1 DEF TableTypes
<1> QED
  BY <1>1, <1>2 DEF KeepsMade, TableInv, TableTypes, MadeAndEnded, OnlyRequestsEndARecurringSchedule, Born, IsActive

(* A row is edited, or brought to another state: it counts as made no more. *)
LEMMA EditedRow ==
  ASSUME TableInv, NEW i \in Ids, Present(i),
         NEW s \in RowStates, state' \in {state, [state EXCEPT ![i] = s]},
         NEW g \in Tags \cup {NoTag}, tag' \in {tag, [tag EXCEPT ![i] = g]},
         NEW t \in Contents \cup {{}}, text' \in {text, [text EXCEPT ![i] = t]},
         made' = made \ {i}, UNCHANGED <<lastRun, now, unseen, ended, fired>>
  PROVE  KeepsMade
<1>1. /\ TableTypes /\ Born(i) /\ Born(i)'
      /\ state' \in [Ids -> RowStates \cup {"unborn", "gone"}] /\ tag' \in [Ids -> Tags \cup {NoTag}]
      /\ text' \in [Ids -> Contents \cup {{}}]
      /\ \A j \in Ids : j # i => state'[j] = state[j] /\ tag'[j] = tag[j] /\ text'[j] = text[j]
  BY DEF TableInv, TableTypes, Present, RowStates, LiveStates, Born
<1>2. TableTypes'
  BY <1>1 DEF TableTypes
<1> QED
  BY <1>1, <1>2 DEF KeepsMade, TableInv, TableTypes, MadeAndEnded, OnlyRequestsEndARecurringSchedule, Born, IsActive

(* A row counts as made no more. *)
LEMMA LeftOutRow ==
  ASSUME TableInv, NEW i \in Ids, made' = made \ {i},
         UNCHANGED <<state, tag, text, lastRun, now, unseen, ended, fired>>
  PROVE  KeepsMade
BY DEF KeepsMade, TableInv, TableTypes, MadeAndEnded, OnlyRequestsEndARecurringSchedule, Born, IsActive

(* The state of a row that is no recurring schedule that was made: decay of a memory, the
   archival of a one-shot. *)
LEMMA StoppedRow ==
  ASSUME TableInv, NEW i \in Ids, Present(i), NEW s \in {"archived", "stale"},
         state' = [state EXCEPT ![i] = s], i \in made => IsOnce(tag[i]),
         UNCHANGED <<tag, text, lastRun, now, made, ended, unseen, fired>>
  PROVE  KeepsMade
<1>1. /\ TableTypes /\ state' \in [Ids -> RowStates \cup {"unborn", "gone"}]
      /\ Born(i) /\ Born(i)' /\ state'[i] # "active"
      /\ \A j \in Ids : j # i => state'[j] = state[j]
  BY DEF TableInv, TableTypes, Present, RowStates, LiveStates, Born
<1>2. TableTypes'
  BY <1>1 DEF TableTypes
<1> QED
  BY <1>1, <1>2 DEF KeepsMade, TableInv, TableTypes, MadeAndEnded, OnlyRequestsEndARecurringSchedule, Born, IsActive

(* A row is marked as run now, for an occurrence that is past. *)
LEMMA MarkedRow ==
  ASSUME TableInv, NEW i \in Ids, lastRun' = [lastRun EXCEPT ![i] = now],
         NEW o \in 0 .. now, fired' \in {fired, [fired EXCEPT ![i] = o]},
         UNCHANGED <<state, tag, text, now, made, ended, unseen>>
  PROVE  KeepsMade
<1>1. /\ TableTypes /\ lastRun' \in [Ids -> 0 .. now] /\ lastRun'[i] = now /\ now \in Nat
      /\ \A j \in Ids : j # i => lastRun'[j] = lastRun[j] /\ fired'[j] = fired[j]
      /\ fired' \in [Ids -> Nat] /\ fired'[i] \in {fired[i], o}
  BY DEF TableInv, TableTypes
<1>2. TableTypes'
  BY <1>1 DEF TableTypes
<1>3. \A j \in Ids : fired[j] <= lastRun[j] /\ lastRun[j] \in 0 .. now /\ fired[j] \in Nat
  BY <1>1 DEF TableInv, MadeAndEnded, TableTypes
<1>4. \A j \in Ids : fired'[j] <= lastRun'[j]
  BY <1>1, <1>3
<1> QED
  BY <1>1, <1>2, <1>4 DEF KeepsMade, TableInv, MadeAndEnded, OnlyRequestsEndARecurringSchedule, Born, IsActive

(* A memory is told. *)
LEMMA ToldRow ==
  ASSUME TableInv, NEW i \in Ids, state[i] = "unborn", state' = [state EXCEPT ![i] = "active"],
         NEW g \in Tags \cup {NoTag}, tag' = [tag EXCEPT ![i] = g],
         NEW t \in Contents, text' = [text EXCEPT ![i] = t], lastRun' = [lastRun EXCEPT ![i] = now],
         UNCHANGED <<now, made, ended, unseen, fired>>
  PROVE  KeepsMade
<1>1. /\ TableTypes /\ state' \in [Ids -> RowStates \cup {"unborn", "gone"}] /\ Born(i)'
      /\ tag' \in [Ids -> Tags \cup {NoTag}]
      /\ text' \in [Ids -> Contents \cup {{}}] /\ lastRun' \in [Ids -> 0 .. now] /\ lastRun'[i] = now
      /\ i \notin made /\ i \notin ended
      /\ \A j \in Ids : j # i => /\ state'[j] = state[j] /\ tag'[j] = tag[j] /\ text'[j] = text[j]
                                 /\ lastRun'[j] = lastRun[j]
  BY DEF TableInv, TableTypes, RowStates, LiveStates, Born, MadeAndEnded
<1>2. TableTypes'
  BY <1>1 DEF TableTypes
<1>3. \A j \in Ids : fired[j] <= lastRun[j] /\ lastRun[j] \in 0 .. now /\ fired[j] \in Nat /\ now \in Nat
  BY <1>1 DEF TableInv, MadeAndEnded, TableTypes
<1>4. \A j \in Ids : fired'[j] <= lastRun'[j]
  BY <1>1, <1>3
<1> QED
  BY <1>1, <1>2, <1>4 DEF KeepsMade, TableInv, TableTypes, MadeAndEnded, OnlyRequestsEndARecurringSchedule, Born, IsActive

(* Time goes by. *)
LEMMA LaterNow ==
  ASSUME TableInv, now < MaxTime, now' = now + 1,
         UNCHANGED <<state, tag, text, lastRun, made, ended, unseen, fired>>
  PROVE  KeepsMade
<1>1. TableTypes /\ now \in Nat /\ MaxTime \in Nat /\ now' \in 0 .. MaxTime /\ lastRun' \in [Ids -> 0 .. now']
  BY SchedulesAssumption DEF TableInv, TableTypes
<1>2. TableTypes' /\ now <= now'
  BY <1>1 DEF TableTypes
<1> QED
  BY <1>1, <1>2 DEF KeepsMade, TableInv, MadeAndEnded, OnlyRequestsEndARecurringSchedule, Born, IsActive

(* A step of a caller, and a step that is nobody's. *)
LEMMA CallMovesOn ==
  ASSUME SchedulesInv, NEW c \in Callers, NEW r \in CallRecords, CallInv(r)',
         call' = [call EXCEPT ![c] = r],
         TableInv', \A x \in CallRecords : CallInv(x) => CallInv(x)'
  PROVE  SchedulesInv'
<1>1. TableInv' /\ \A x \in CallRecords : CallInv(x) => CallInv(x)'
  OBVIOUS
<1>2. call' \in [Callers -> CallRecords] /\ call'[c] = r /\ \A d \in Callers : d # c => call'[d] = call[d]
  BY DEF SchedulesInv, CallsInv
<1>3. ASSUME NEW d \in Callers PROVE CallInv(call[d])'
  <2>1. CASE d = c
    BY <1>2, <2>1 DEF CallInv, Covers, ReadsTrue, ArchivesOneShots
  <2>2. CASE d # c
    <3>1. PICK x \in CallRecords : x = call[d]
      BY DEF SchedulesInv, CallsInv
    <3>2. CallInv(x)' /\ call'[d] = x
      BY <1>1, <1>2, <2>2, <3>1 DEF SchedulesInv, CallsInv
    <3> QED
      BY <3>2 DEF CallInv, Covers, ReadsTrue, ArchivesOneShots
  <2> QED
    BY <2>1, <2>2
<1> QED
  BY <1>1, <1>2, <1>3 DEF SchedulesInv, CallsInv

LEMMA CallMoves ==
  ASSUME SchedulesInv, KeepsMade, NEW c \in Callers, NEW r \in CallRecords, CallInv(r)',
         call' = [call EXCEPT ![c] = r]
  PROVE  SchedulesInv'
<1>1. TableInv' /\ \A x \in CallRecords : CallInv(x) => CallInv(x)'
  BY KeepsMadeIsEnough DEF SchedulesInv
<1> QED
  BY <1>1, CallMovesOn

LEMMA CallsRest ==
  ASSUME SchedulesInv, KeepsMade, UNCHANGED call
  PROVE  SchedulesInv'
<1>1. TableInv' /\ \A x \in CallRecords : CallInv(x) => CallInv(x)'
  BY KeepsMadeIsEnough DEF SchedulesInv
<1>2. ASSUME NEW d \in Callers PROVE CallInv(call[d])'
  <2>1. PICK x \in CallRecords : x = call[d]
    BY DEF SchedulesInv, CallsInv
  <2>2. CallInv(x)' /\ call'[d] = x
    BY <1>1, <2>1 DEF SchedulesInv, CallsInv
  <2> QED
    BY <2>2 DEF CallInv, Covers, ReadsTrue, ArchivesOneShots
<1> QED
  BY <1>1, <1>2 DEF SchedulesInv, CallsInv

LEMMA Finishes ==
  ASSUME SchedulesInv, KeepsMade, NEW c \in Callers, Finish(c)
  PROVE  SchedulesInv'
<1>1. Idle \in CallRecords /\ CallInv(Idle)'
  BY DEF CallRecords, Idle, CallInv, Covers, ReadsTrue, ArchivesOneShots
<1> QED
  BY <1>1, CallMoves DEF Finish

(* What a caller that acknowledges has read. *)
LEMMA CallRead ==
  ASSUME SchedulesInv, NEW c \in Callers, call[c].pc \in {"ack", "archive", "again"}
  PROVE  \E r \in Asking \cup Checking :
           /\ r = call[c] /\ CallInv(r) /\ r.rows \in SUBSET Runs /\ r.rows # {}
           /\ FirstRun(r.rows) \in r.rows /\ FirstRun(r.rows) \in Runs
<1>1. PICK r \in CallRecords : r = call[c]
  BY DEF SchedulesInv, CallsInv
<1>2. r \in Asking \cup Checking /\ r.rows \in SUBSET Runs
  BY <1>1 DEF CallRecords, Creating, Recovering, Asking, Checking, Idle
<1>3. CallInv(r)
  BY <1>1 DEF SchedulesInv, CallsInv
<1>4. r.rows # {}
  BY <1>1, <1>3 DEF CallInv, ReadsTrue
<1>5. FirstRun(r.rows) \in r.rows
  BY <1>2, <1>4, FirstRunIsOne
<1> QED
  BY <1>1, <1>2, <1>3, <1>4, <1>5

LEMMA Acknowledging ==
  ASSUME SchedulesInv, KeepsMade, NEW c \in Callers, call[c].pc \in {"ack", "archive", "again"}
  PROVE  \E r \in Asking \cup Checking :
           /\ r = call[c] /\ CallInv(r) /\ CallInv(r)' /\ r.rows \in SUBSET Runs /\ r.rows # {}
           /\ FirstRun(r.rows) \in r.rows /\ FirstRun(r.rows) \in Runs
<1>1. PICK r \in Asking \cup Checking :
           /\ r = call[c] /\ CallInv(r) /\ r.rows \in SUBSET Runs /\ r.rows # {}
           /\ FirstRun(r.rows) \in r.rows /\ FirstRun(r.rows) \in Runs
  BY CallRead
<1>2. CallInv(r)'
  BY <1>1, KeepsMadeIsEnough DEF SchedulesInv, CallRecords
<1> QED
  BY <1>1, <1>2

LEMMA NextAckKeeps ==
  ASSUME SchedulesInv, KeepsMade, NEW c \in Callers, call[c].pc \in {"ack", "archive", "again"}, NextAck(c)
  PROVE  SchedulesInv'
<1>1. PICK r \in Asking \cup Checking :
           /\ r = call[c] /\ CallInv(r) /\ CallInv(r)' /\ r.rows \in SUBSET Runs /\ r.rows # {}
           /\ FirstRun(r.rows) \in r.rows /\ FirstRun(r.rows) \in Runs
  BY Acknowledging
<1> DEFINE left == r.rows \ {FirstRun(r.rows)}
<1>2. call' = [call EXCEPT ![c] = IF left # {} THEN [r EXCEPT !.pc = "ack", !.rows = left]
                                  ELSE IF r.by = "client" THEN Idle
                                  ELSE [r EXCEPT !.pc = "decide", !.rows = {}]]
  BY <1>1 DEF NextAck, RunNow, SchedulesInv, CallsInv
<1>r. r.pc \in {"ack", "archive", "again"}
  BY <1>1
<1>3. CASE left # {}
  <2> DEFINE x == [r EXCEPT !.pc = "ack", !.rows = left]
  <2>1. /\ x \in Asking \cup Checking /\ x.pc = "ack" /\ x.rows \subseteq r.rows /\ x.rows # {}
        /\ x.by = r.by
    BY <1>1, <1>3 DEF Asking, Checking
  <2>2. call' = [call EXCEPT ![c] = x]
    BY <1>2, <1>3
  <2> HIDE DEF x
  <2>3. CallInv(x)'
    BY <1>1, <1>r, <2>1 DEF CallInv, Covers, ReadsTrue, ArchivesOneShots
  <2>4. x \in CallRecords
    BY <2>1 DEF CallRecords
  <2> QED
    BY <2>2, <2>3, <2>4, CallMoves
<1>4. CASE left = {} /\ r.by = "client"
  BY <1>2, <1>4, Finishes DEF Finish
<1>5. CASE left = {} /\ r.by # "client"
  <2> DEFINE x == [r EXCEPT !.pc = "decide", !.rows = {}]
  <2>1. x \in Checking /\ x.pc = "decide" /\ x.rows = {}
    BY <1>1, <1>5 DEF Asking, Checking
  <2>2. call' = [call EXCEPT ![c] = x]
    BY <1>2, <1>5
  <2> HIDE DEF x
  <2>3. CallInv(x)'
    BY <2>1 DEF CallInv, Covers, ReadsTrue, ArchivesOneShots
  <2>4. x \in CallRecords
    BY <2>1 DEF CallRecords
  <2> QED
    BY <2>2, <2>3, <2>4, CallMoves
<1> QED
  BY <1>3, <1>4, <1>5

LEMMA AfterAckKeeps ==
  ASSUME SchedulesInv, KeepsMade, NEW c \in Callers, call[c].pc \in {"ack", "archive"}, AfterAck(c)
  PROVE  SchedulesInv'
<1>1. PICK r \in Asking \cup Checking :
           /\ r = call[c] /\ CallInv(r) /\ CallInv(r)' /\ r.rows \in SUBSET Runs /\ r.rows # {}
           /\ FirstRun(r.rows) \in r.rows /\ FirstRun(r.rows) \in Runs
  BY Acknowledging
<1>2. CASE NextAck(c)
  BY <1>2, NextAckKeeps
<1>3. CASE r.by = "check" /\ IsOnce(FirstRun(r.rows).tag) /\ Goto(c, "again")
  <2> DEFINE x == [r EXCEPT !.pc = "again"]
  <2>1. x \in Checking /\ x.pc = "again" /\ x.rows = r.rows /\ x.by = r.by
    BY <1>1, <1>3 DEF Asking, Checking
  <2>2. call' = [call EXCEPT ![c] = x]
    BY <1>1, <1>3 DEF Goto, SchedulesInv, CallsInv
  <2>r. r.pc \in {"ack", "archive"}
    BY <1>1
  <2> HIDE DEF x
  <2>3. CallInv(x)'
    BY <1>1, <1>3, <2>1, <2>r DEF CallInv, Covers, ReadsTrue, ArchivesOneShots
  <2>4. x \in CallRecords
    BY <2>1 DEF CallRecords
  <2> QED
    BY <2>2, <2>3, <2>4, CallMoves
<1> QED
  BY <1>1, <1>2, <1>3 DEF AfterAck, RunNow

-----------------------------------------------------------------------------
(* The steps. *)

LEMMA SchedulesInvStarts == SchedulesInit => SchedulesInv
<1> SUFFICES ASSUME SchedulesInit PROVE SchedulesInv
  OBVIOUS
<1>1. TableTypes
  BY SchedulesAssumption DEF SchedulesInit, TableTypes, RowStates, LiveStates
<1>2. MadeAndEnded /\ DuplicateSchedulesNeedAnOverlap /\ OnlyRequestsEndARecurringSchedule
  BY <1>1 DEF SchedulesInit, MadeAndEnded, DuplicateSchedulesNeedAnOverlap,
              OnlyRequestsEndARecurringSchedule
<1>3. CallsInv
  BY DEF SchedulesInit, CallsInv, CallRecords, CallInv, Covers, ReadsTrue, ArchivesOneShots, Idle
<1> QED
  BY <1>1, <1>2, <1>3 DEF SchedulesInv, TableInv

(* What a statement does to the state of a row. *)
LEMMA StateWritten ==
  ASSUME NEW i \in Ids, NEW s, UpdateMemoryState(i, s) \/ TransitionState(i, s)
  PROVE  Present(i) /\ state' = [state EXCEPT ![i] = s]
BY DEF UpdateMemoryState, TransitionState

LEMMA ApiKeeps == SchedulesInv /\ Api => SchedulesInv'
<1> SUFFICES ASSUME SchedulesInv, Api PROVE SchedulesInv'
  OBVIOUS
<1>0. TableInv /\ TableTypes
  BY DEF SchedulesInv, TableInv
<1>active. "active" \in RowStates
  BY DEF RowStates, LiveStates
<1>1. ASSUME NEW i \in Ids, NEW g \in Tags \cup {NoTag}, NEW w \in Contents, Tell(i, g, w) PROVE SchedulesInv'
  <2>1. KeepsMade
    BY <1>0, <1>1, ToldRow DEF Tell, CreateMemory, histories
  <2> QED
    BY <1>1, <2>1, CallsRest DEF Tell
<1>2. ASSUME NEW i \in Ids, Decay(i) PROVE SchedulesInv'
  <2>1. i \notin made
    BY <1>0, <1>2, SchedulesAssumption DEF Decay, TableInv, MadeAndEnded
  <2>2. Present(i) /\ state' = [state EXCEPT ![i] = "stale"]
    BY <1>2, StateWritten DEF Decay
  <2>3. KeepsMade
    BY <1>0, <1>2, <2>1, <2>2, StoppedRow DEF Decay, rows, histories
  <2> QED
    BY <1>2, <2>3, CallsRest DEF Decay
<1>3. ASSUME NEW i \in Ids, Search(i) PROVE SchedulesInv'
  <2>1. 0 \in 0 .. now
    BY <1>0 DEF TableTypes
  <2>2. KeepsMade
    BY <1>0, <1>3, <2>1, MarkedRow DEF Search, storeVars, histories
  <2> QED
    BY <1>3, <2>2, CallsRest DEF Search
<1>4. ASSUME NEW i \in Ids, CancelSchedule(i) PROVE SchedulesInv'
  <2>1. Present(i) /\ state' = [state EXCEPT ![i] = "archived"]
    BY <1>4, StateWritten DEF CancelSchedule
  <2>2. KeepsMade
    BY <1>0, <1>4, <2>1, EndedRow DEF CancelSchedule, rows
  <2> QED
    BY <1>4, <2>2, CallsRest DEF CancelSchedule
<1>5. ASSUME NEW i \in Ids, Forget(i) PROVE SchedulesInv'
  <2>1. Present(i) /\ state' = [state EXCEPT ![i] = "deleted"]
    BY <1>5 DEF Forget, SoftDelete
  <2>2. KeepsMade
    BY <1>0, <1>5, <2>1, EndedRow DEF Forget, rows
  <2> QED
    BY <1>5, <2>2, CallsRest DEF Forget
<1>6. ASSUME NEW i \in Ids, NEW g \in Tags \cup {NoTag}, UpdateTags(i, g) PROVE SchedulesInv'
  <2>2. KeepsMade
    BY <1>0, <1>6, <1>active, EditedRow DEF UpdateTags, storeVars
  <2> QED
    BY <1>6, <2>2, CallsRest DEF UpdateTags
<1>7. ASSUME NEW i \in Ids, NEW g \in Tags \cup {NoTag}, NEW w \in Contents, UpdateSchedule(i, g, w)
      PROVE  SchedulesInv'
  <2>1. Present(i) /\ state' = [state EXCEPT ![i] = "active"]
    BY <1>7, StateWritten DEF UpdateSchedule
  <2>2. KeepsMade
    BY <1>0, <1>7, <1>active, <2>1, EditedRow DEF UpdateSchedule
  <2> QED
    BY <1>7, <2>2, CallsRest DEF UpdateSchedule
<1>8. ASSUME NEW i \in Ids, NEW g \in Tags \cup {NoTag}, NEW w \in Contents, Edit(i, g, w)
      PROVE  SchedulesInv'
  <2>1. KeepsMade
    BY <1>0, <1>8, <1>active, EditedRow DEF Edit, storeVars
  <2> QED
    BY <1>8, <2>1, CallsRest DEF Edit
<1>9. ASSUME NEW i \in Ids, NEW s \in RowStates, SetState(i, s) PROVE SchedulesInv'
  <2>1. Present(i) /\ state' = [state EXCEPT ![i] = s]
    BY <1>9, StateWritten DEF SetState
  <2>2. NoTag \in Tags \cup {NoTag} /\ {} \in Contents \cup {{}}
    OBVIOUS
  <2>3. KeepsMade
    BY <1>0, <1>9, <2>1, <2>2, EditedRow DEF SetState, rows
  <2> QED
    BY <1>9, <2>3, CallsRest DEF SetState
<1>10. ASSUME NEW i \in Ids, Resolve(i) PROVE SchedulesInv'
  <2>1. Present(i) /\ state' = [state EXCEPT ![i] = "resolved"]
    BY <1>10 DEF Resolve, ResolveMemory
  <2>2. KeepsMade
    BY <1>0, <1>10, <2>1, EndedRow DEF Resolve, rows
  <2> QED
    BY <1>10, <2>2, CallsRest DEF Resolve
<1>11. ASSUME NEW i \in Ids, Supersede(i) PROVE SchedulesInv'
  <2>1. Present(i) /\ state' = [state EXCEPT ![i] = "archived"]
    BY <1>11, StateWritten DEF Supersede
  <2>2. KeepsMade
    BY <1>0, <1>11, <2>1, EndedRow DEF Supersede, rows
  <2> QED
    BY <1>11, <2>2, CallsRest DEF Supersede
<1> QED
  BY <1>1, <1>2, <1>3, <1>4, <1>5, <1>6, <1>7, <1>8, <1>9, <1>10, <1>11 DEF Api

LEMMA BeginKeeps == ASSUME SchedulesInv, NEW c \in Callers, Begin(c) PROVE SchedulesInv'
<1>0. TableInv /\ TableTypes /\ call \in [Callers -> CallRecords]
  BY DEF SchedulesInv, TableInv, CallsInv
<1>1. ASSUME NEW w \in Contents, NEW g \in Tags, NEW reads \in BOOLEAN, CreateRead(c, w, g, reads)
      PROVE  SchedulesInv'
  <2> DEFINE page == IF reads THEN FirstOf(Scheduled("active"), PageLimit) ELSE {}
  <2>1. KeepsMade
    BY <1>0, <1>1, Untouched DEF CreateRead, storeVars, rows, histories
  <2>2. PICK un, found : /\ un = Ids \ page /\ found = {i \in page : IsScheduleContentMatch(text[i], w)}
    OBVIOUS
  <2> DEFINE x == [pc |-> "replace", text |-> w, tag |-> g, unseen |-> un, rows |-> found]
  <2>3. call' = [call EXCEPT ![c] = x] /\ state' = state /\ text' = text /\ made' = made
    BY <1>1, <2>2 DEF CreateRead, storeVars, rows, histories
  <2>4. page \subseteq Ids /\ \A i \in page : Born(i)
    BY DEF FirstOf, Scheduled, Born
  <2>5. \A i \in made : i \in Ids /\ (IsActive(i) /\ IsScheduleContentMatch(text[i], w) => i \in un \cup found)
    BY <1>0, <2>2 DEF TableTypes
  <2>6. x \in Creating /\ x.pc = "replace" /\ x.text = w /\ x.unseen = un /\ x.rows = found
    BY <2>2, <2>4 DEF Creating
  <2>7. \A i \in Ids : ~ Born(i) => i \in un
    BY <2>2, <2>4
  <2> HIDE DEF x, page
  <2>8. Covers(x)'
    BY <2>3, <2>5, <2>6, <2>7 DEF Covers, Born, IsActive
  <2>9. x \in CallRecords /\ CallInv(x)'
    BY <2>6, <2>8 DEF CallRecords, CallInv, ReadsTrue, ArchivesOneShots
  <2> QED
    BY <2>1, <2>3, <2>9, CallMoves
<1>2. ASSUME ListRead(c) PROVE SchedulesInv'
  <2>1. KeepsMade
    BY <1>0, <1>2, Untouched DEF ListRead, storeVars, rows, histories
  <2>2. PICK found : found = FirstOf(Scheduled("stale"), PageLimit)
    OBVIOUS
  <2>3. found \subseteq Ids
    BY <2>2 DEF FirstOf, Scheduled
  <2> DEFINE x == [pc |-> "recover", rows |-> found]
  <2>4. x \in CallRecords /\ x.pc = "recover"
    BY <2>3 DEF CallRecords, Recovering
  <2>5. call' = [call EXCEPT ![c] = x]
    BY <1>2, <2>2 DEF ListRead
  <2> HIDE DEF x
  <2>6. CallInv(x)'
    BY <2>4 DEF CallInv, Covers, ReadsTrue, ArchivesOneShots
  <2> QED
    BY <2>1, <2>4, <2>5, <2>6, CallMoves
<1>3. ASSUME NEW i \in Ids, AckRequest(c, i) PROVE SchedulesInv'
  <2>1. KeepsMade
    BY <1>0, <1>3, Untouched DEF AckRequest, storeVars, rows, histories
  <2> DEFINE q == [id |-> i, tag |-> NoTag, occ |-> 0]
             x == [pc |-> "ack", by |-> "client", report |-> {i}, rows |-> {q}]
  <2>2. q \in Runs /\ q.id = i /\ q.occ = 0
    BY DEF Runs
  <2>3. x \in Asking /\ x.pc = "ack" /\ x.by = "client" /\ x.rows = {q}
    BY <2>2 DEF Asking
  <2>4. call' = [call EXCEPT ![c] = x]
    BY <1>3 DEF AckRequest
  <2>5. Born(i)' /\ 0 <= now'
    BY <1>0, <1>3 DEF AckRequest, Present, RowStates, LiveStates, Born, TableTypes, storeVars
  <2> HIDE DEF x, q
  <2>6. CallInv(x)'
    BY <2>2, <2>3, <2>5 DEF CallInv, Covers, ReadsTrue, ArchivesOneShots
  <2>7. x \in CallRecords
    BY <2>3 DEF CallRecords
  <2> QED
    BY <2>1, <2>4, <2>6, <2>7, CallMoves
<1> QED
  BY <1>1, <1>2, <1>3 DEF Begin

(* The run that a scan reads of a row that is due. *)
LEMMA DueRuns ==
  ASSUME TableInv, NEW i \in Ids, IsDueRow(i)
  PROVE  /\ [id |-> i, tag |-> tag[i], occ |-> NextRun(tag[i], lastRun[i])] \in Runs
         /\ NextRun(tag[i], lastRun[i]) <= now /\ NextRun(tag[i], lastRun[i]) > lastRun[i]
<1>1. /\ tag[i] \in Tags /\ lastRun[i] \in 0 .. now /\ now \in 0 .. MaxTime
      /\ now >= NextRun(tag[i], lastRun[i])
  BY DEF IsDueRow, IsDue, TableInv, TableTypes
<1>2. lastRun[i] \in 0 .. Horizon - 1
  BY <1>1, HorizonIs, SchedulesAssumption
<1>3. NextRun(tag[i], lastRun[i]) \in Nat /\ NextRun(tag[i], lastRun[i]) > lastRun[i]
  <2>1. 62 * Slots \in Nat
    BY CalendarAssumption
  <2> QED
    BY <1>1, <1>2, <2>1, NextRunIsNext DEF IsNext, Window
<1> QED
  BY <1>1, <1>3 DEF Runs

LEMMA ScanKeeps == ASSUME SchedulesInv, NEW c \in Callers, Scan(c) PROVE SchedulesInv'
<1>1. PICK by \in {"check", "deferred"}, named \in BOOLEAN : CheckScan(c, by, named)
  BY DEF Scan
<1>0. TableInv /\ TableTypes /\ call \in [Callers -> CallRecords]
  BY DEF SchedulesInv, TableInv, CallsInv
<1>2. KeepsMade /\ state' = state /\ tag' = tag /\ now' = now
  BY <1>0, <1>1, Untouched DEF CheckScan, storeVars, rows, histories
<1> DEFINE page == FirstOf({i \in Ids : IsActive(i)}, ScanLimit)
           due  == {i \in page : IsDueRow(i) /\ ~(named /\ i \in surfaced)}
           Run(i) == [id |-> i, tag |-> tag[i], occ |-> NextRun(tag[i], lastRun[i])]
<1>3. PICK read, found : read = FirstOf(due, ReportLimit) /\ found = {Run(i) : i \in read}
  OBVIOUS
<1> DEFINE x == [pc |-> IF by = "check" THEN "ack" ELSE "decide", by |-> by, named |-> named,
                 report |-> read, rows |-> found]
<1>4. call' = IF read = {} THEN call ELSE [call EXCEPT ![c] = x]
  BY <1>1, <1>3 DEF CheckScan
<1>5. read \subseteq Ids /\ \A i \in read : IsDueRow(i) /\ IsActive(i)
  BY <1>3 DEF FirstOf
<1>6. \A q \in found : q \in Runs /\ Born(q.id) /\ q.occ <= now /\ q.tag = tag[q.id]
  <2>1. ASSUME NEW i \in read PROVE Run(i) \in Runs /\ Born(i) /\ Run(i).occ <= now /\ Run(i).tag = tag[i] /\ Run(i).id = i
    BY <1>0, <1>5, DueRuns DEF Born, IsActive
  <2> QED
    BY <1>3, <2>1
<1>7. x \in Checking /\ x.pc \in {"ack", "decide"} /\ x.rows = found
  BY <1>5, <1>6 DEF Checking
<1>8. CASE read = {}
  BY <1>2, <1>4, <1>8, CallsRest
<1>9. CASE read # {}
  <2>1. found # {}
    BY <1>3, <1>9
  <2> HIDE DEF x, Run
  <2>2. CallInv(x)'
    BY <1>2, <1>6, <1>7, <2>1 DEF CallInv, Covers, ReadsTrue, ArchivesOneShots, Born
  <2>3. x \in CallRecords
    BY <1>7 DEF CallRecords
  <2> QED
    BY <1>2, <1>4, <1>9, <2>2, <2>3, CallMoves
<1> QED
  BY <1>8, <1>9

(* A creation writes its row. *)
LEMMA MadeRow ==
  ASSUME TableInv, NEW i \in Ids, state[i] = "unborn", state' = [state EXCEPT ![i] = "active"],
         NEW r \in Creating, CallInv(r), r.rows = {},
         tag' = [tag EXCEPT ![i] = r.tag], text' = [text EXCEPT ![i] = r.text],
         lastRun' = [lastRun EXCEPT ![i] = now], made' = made \cup {i},
         unseen' = [unseen EXCEPT ![i] = r.unseen], UNCHANGED <<now, ended, fired>>
  PROVE  TableInv' /\ \A x \in CallRecords : CallInv(x) => CallInv(x)'
<1>1. /\ TableTypes /\ MadeAndEnded
      /\ r.pc = "replace" /\ r.tag \in Tags /\ r.text \in Contents /\ r.unseen \in SUBSET Ids
  BY DEF TableInv, Creating
<1>2. /\ state' \in [Ids -> RowStates \cup {"unborn", "gone"}] /\ tag' \in [Ids -> Tags \cup {NoTag}]
      /\ text' \in [Ids -> Contents \cup {{}}] /\ lastRun' \in [Ids -> 0 .. now]
      /\ unseen' \in [Ids -> SUBSET Ids]
  BY <1>1 DEF TableTypes, RowStates, LiveStates
<1>3. /\ state'[i] = "active" /\ tag'[i] = r.tag /\ text'[i] = r.text /\ lastRun'[i] = now /\ unseen'[i] = r.unseen
      /\ \A j \in Ids : j # i => /\ state'[j] = state[j] /\ tag'[j] = tag[j] /\ text'[j] = text[j]
                                 /\ lastRun'[j] = lastRun[j] /\ unseen'[j] = unseen[j]
  BY <1>1 DEF TableTypes
<1>4. i \notin made /\ i \notin ended
  BY <1>1 DEF MadeAndEnded, Born
<1>5. TableTypes'
  BY <1>1, <1>2 DEF TableTypes
<1>6. /\ \A j \in Ids : ~ Born(j) => j \in r.unseen
      /\ \A j \in made : IsActive(j) /\ IsScheduleContentMatch(text[j], r.text) => j \in r.unseen
  BY <1>1 DEF CallInv, Covers
<1>7. MadeAndEnded'
  <2>1. \A j \in made' \cup ended' : Born(j)'
    BY <1>1, <1>3 DEF MadeAndEnded, TableTypes, Born
  <2>2. ASSUME NEW j \in made' PROVE tag'[j] \in Tags /\ \A k \in Ids : ~ Born(k)' => k \in unseen'[j]
    <3>1. \A k \in Ids : ~ Born(k)' => ~ Born(k)
      BY <1>3 DEF Born
    <3>2. CASE j = i
      BY <1>1, <1>3, <1>6, <3>1, <3>2
    <3>3. CASE j # i
      BY <1>1, <1>3, <3>1, <3>3 DEF MadeAndEnded, TableTypes
    <3> QED
      BY <3>2, <3>3
  <2>3. \A j \in Ids : fired'[j] <= lastRun'[j]
    <3>1. \A j \in Ids : fired[j] <= lastRun[j] /\ lastRun[j] \in 0 .. now /\ fired[j] \in Nat /\ now \in Nat
      BY <1>1 DEF MadeAndEnded, TableTypes
    <3> QED
      BY <1>3, <3>1
  <2> QED
    BY <2>1, <2>2, <2>3 DEF MadeAndEnded
<1>8. DuplicateSchedulesNeedAnOverlap'
  <2> SUFFICES ASSUME NEW j \in made', NEW k \in made', j < k, IsActive(j)', IsActive(k)',
                      IsScheduleContentMatch(text'[j], text'[k])
               PROVE  j \in unseen'[k]
    BY DEF DuplicateSchedulesNeedAnOverlap
  <2>1. CASE k = i
    BY <1>1, <1>3, <1>6, <2>1, SchedulesAssumption DEF TableTypes, IsActive
  <2>2. CASE j = i /\ k # i
    BY <1>1, <1>3, <2>2 DEF MadeAndEnded, TableTypes, Born
  <2>3. CASE j # i /\ k # i
    BY <1>1, <1>3, <2>3 DEF TableInv, DuplicateSchedulesNeedAnOverlap, TableTypes, IsActive
  <2> QED
    BY <2>1, <2>2, <2>3
<1>9. OnlyRequestsEndARecurringSchedule'
  BY <1>1, <1>3, <1>4 DEF TableInv, OnlyRequestsEndARecurringSchedule, TableTypes, IsActive
<1>10. ASSUME NEW x \in CallRecords, CallInv(x) PROVE CallInv(x)'
  <2>1. Covers(x)'
    BY <1>1, <1>3, <1>10 DEF CallInv, Covers, TableTypes, Born, IsActive
  <2>2. ReadsTrue(x)'
    <3>1. ASSUME x.pc \in {"ack", "archive", "again", "decide"}, NEW q \in x.rows PROVE q.id \in Ids
      BY <1>10, <3>1 DEF CallRecords, Creating, Recovering, Asking, Checking, Idle, Runs
    <3> QED
      BY <1>3, <1>10, <3>1 DEF CallInv, ReadsTrue, Born
  <2>3. ArchivesOneShots(x)'
    <3>1. CASE x.pc = "archive"
      <4>1. x.rows \in SUBSET Runs /\ x.rows # {}
        BY <1>10, <3>1 DEF CallRecords, Creating, Recovering, Asking, Checking, Idle, CallInv, ReadsTrue
      <4>2. FirstRun(x.rows).id \in Ids /\ Born(FirstRun(x.rows).id)
        BY <1>10, <3>1, <4>1, FirstRunIsOne DEF CallInv, ReadsTrue, Runs
      <4> QED
        BY <1>3, <1>10, <3>1, <4>2 DEF CallInv, ArchivesOneShots, Born
    <3>2. CASE x.pc # "archive"
      BY <1>10, <3>2 DEF CallInv, ArchivesOneShots
    <3> QED
      BY <3>1, <3>2
  <2> QED
    BY <2>1, <2>2, <2>3 DEF CallInv
<1> QED
  BY <1>5, <1>7, <1>8, <1>9, <1>10 DEF TableInv

LEMMA CreateKeeps ==
  ASSUME SchedulesInv, NEW c \in Callers,
         CreateReplace(c) \/ CreateFails(c) \/ \E i \in Ids : CreateWrite(c, i)
  PROVE  SchedulesInv'
<1>0. TableInv /\ TableTypes /\ call \in [Callers -> CallRecords]
  BY DEF SchedulesInv, TableInv, CallsInv
<1>1. PICK r \in Creating : r = call[c] /\ CallInv(r)
  BY <1>0 DEF SchedulesInv, CallsInv, CallRecords, Creating, Recovering, Asking, Checking, Idle,
              CreateReplace, CreateFails, CreateWrite
<1>2. CASE CreateReplace(c)
  <2> DEFINE i == FirstRow(r.rows)
  <2>1. i \in r.rows /\ i \in Ids /\ i = RowNow(c)
    BY <1>1, <1>2, FirstRowIsOne DEF Creating, CreateReplace, RowNow
  <2> HIDE DEF i
  <2>2. CASE UpdateMemoryState(i, "archived") /\ ended' = ended \cup {i}
             /\ call' = [call EXCEPT ![c].rows = @ \ {i}]
    <3>1. Present(i) /\ state' = [state EXCEPT ![i] = "archived"]
      BY <2>1, <2>2, StateWritten
    <3>2. KeepsMade /\ ~ IsActive(i)'
      BY <1>0, <1>2, <2>1, <2>2, <3>1, EndedRow DEF CreateReplace, rows, TableTypes, IsActive
    <3> DEFINE x == [r EXCEPT !.rows = r.rows \ {i}]
    <3>3. x \in Creating /\ x.pc = "replace" /\ x.text = r.text /\ x.unseen = r.unseen /\ x.rows = r.rows \ {i}
      BY <1>1 DEF Creating
    <3>4. call' = [call EXCEPT ![c] = x]
      BY <1>0, <1>1, <2>2
    <3> HIDE DEF x
    <3>5. CallInv(r)'
      BY <1>0, <1>1, <3>2, KeepsMadeIsEnough DEF CallRecords
    <3>6. Covers(x)'
      BY <1>1, <3>2, <3>3, <3>5 DEF CallInv, Covers, Creating
    <3>7. x \in CallRecords /\ CallInv(x)'
      BY <3>3, <3>6 DEF CallRecords, CallInv, ReadsTrue, ArchivesOneShots
    <3> QED
      BY <3>2, <3>4, <3>7, CallMoves
  <2>3. CASE /\ WriteFails /\ UNCHANGED ended
             /\ call' = [call EXCEPT ![c].rows = @ \ {i}, ![c].unseen = @ \cup {i}]
    <3>1. KeepsMade
      BY <1>0, <1>2, <2>3, Untouched DEF CreateReplace, WriteFails, storeVars, rows
    <3> DEFINE x == [r EXCEPT !.rows = r.rows \ {i}, !.unseen = r.unseen \cup {i}]
    <3>2. /\ x \in Creating /\ x.pc = "replace" /\ x.text = r.text
          /\ x.unseen = r.unseen \cup {i} /\ x.rows = r.rows \ {i}
      BY <1>1, <2>1 DEF Creating
    <3>3. call' = [call EXCEPT ![c] = x]
      BY <1>0, <1>1, <2>3 DEF Creating
    <3> HIDE DEF x
    <3>4. CallInv(r)'
      BY <1>0, <1>1, <3>1, KeepsMadeIsEnough DEF CallRecords
    <3>5. Covers(x)'
      BY <1>1, <3>2, <3>4 DEF CallInv, Covers, Creating
    <3>6. x \in CallRecords /\ CallInv(x)'
      BY <3>2, <3>5 DEF CallRecords, CallInv, ReadsTrue, ArchivesOneShots
    <3> QED
      BY <3>1, <3>3, <3>6, CallMoves
  <2> QED
    BY <1>2, <2>1, <2>2, <2>3 DEF CreateReplace
<1>3. CASE CreateFails(c)
  <2>1. KeepsMade
    BY <1>0, <1>3, Untouched DEF CreateFails, WriteFails, storeVars, rows, histories
  <2> QED
    BY <1>3, <2>1, Finishes DEF CreateFails
<1>4. ASSUME NEW i \in Ids, CreateWrite(c, i) PROVE SchedulesInv'
  <2>1. /\ state[i] = "unborn" /\ state' = [state EXCEPT ![i] = "active"] /\ r.rows = {}
        /\ tag' = [tag EXCEPT ![i] = r.tag] /\ text' = [text EXCEPT ![i] = r.text]
        /\ lastRun' = [lastRun EXCEPT ![i] = now] /\ made' = made \cup {i}
        /\ unseen' = [unseen EXCEPT ![i] = r.unseen]
        /\ UNCHANGED <<now, ended, fired>> /\ call' = [call EXCEPT ![c] = Idle]
    BY <1>1, <1>4 DEF CreateWrite, NewRow, CreateMemory, Finish
  <2>2. TableInv' /\ \A x \in CallRecords : CallInv(x) => CallInv(x)'
    BY <1>0, <1>1, <2>1, MadeRow
  <2>3. Idle \in CallRecords /\ CallInv(Idle)'
    BY DEF CallRecords, Idle, CallInv, Covers, ReadsTrue, ArchivesOneShots
  <2> QED
    BY <2>1, <2>2, <2>3, CallMovesOn
<1> QED
  BY <1>2, <1>3, <1>4

LEMMA ListKeeps ==
  ASSUME SchedulesInv, NEW c \in Callers, ListRecover(c) \/ ListDone(c)
  PROVE  SchedulesInv'
<1>0. TableInv /\ TableTypes /\ call \in [Callers -> CallRecords]
  BY DEF SchedulesInv, TableInv, CallsInv
<1>1. PICK r \in Recovering : r = call[c]
  BY <1>0 DEF CallRecords, Creating, Recovering, Asking, Checking, Idle, ListRecover, ListDone
<1>2. CASE ListRecover(c)
  <2> DEFINE i == FirstRow(r.rows)
  <2>1. i \in r.rows /\ i \in Ids /\ i = RowNow(c)
    BY <1>1, <1>2, FirstRowIsOne DEF Recovering, ListRecover, RowNow
  <2> HIDE DEF i
  <2>2. KeepsMade
    <3>1. CASE UpdateMemoryState(i, "active")
      <4>1. Present(i) /\ state' = [state EXCEPT ![i] = "active"]
        BY <2>1, <3>1, StateWritten
      <4>2. UNCHANGED <<tag, text, lastRun, now, unseen, ended, fired>> /\ made' = made \ {i}
        BY <1>2, <2>1 DEF ListRecover, rows
      <4>3. NoTag \in Tags \cup {NoTag} /\ {} \in Contents \cup {{}} /\ "active" \in RowStates
        BY DEF RowStates, LiveStates
      <4> QED
        BY <1>0, <2>1, <4>1, <4>2, <4>3, EditedRow
    <3>2. CASE WriteFails
      BY <1>0, <1>2, <2>1, <3>2, LeftOutRow DEF ListRecover, WriteFails, storeVars, rows
    <3> QED
      BY <1>2, <2>1, <3>1, <3>2 DEF ListRecover
  <2> DEFINE x == [r EXCEPT !.rows = r.rows \ {i}]
  <2>3. x \in Recovering /\ x.pc = "recover"
    BY DEF Recovering
  <2>4. call' = [call EXCEPT ![c] = x]
    BY <1>0, <1>1, <1>2, <2>1 DEF ListRecover
  <2> HIDE DEF x
  <2>5. x \in CallRecords /\ CallInv(x)'
    BY <2>3 DEF CallRecords, CallInv, Covers, ReadsTrue, ArchivesOneShots
  <2> QED
    BY <2>2, <2>4, <2>5, CallMoves
<1>3. CASE ListDone(c)
  <2>1. KeepsMade
    BY <1>0, <1>3, Untouched DEF ListDone, storeVars, rows, histories
  <2> QED
    BY <1>3, <2>1, Finishes DEF ListDone
<1> QED
  BY <1>2, <1>3

LEMMA AckStatsKeeps ==
  ASSUME SchedulesInv, NEW c \in Callers, AckStats(c)
  PROVE  SchedulesInv'
<1>0. TableInv /\ TableTypes /\ call \in [Callers -> CallRecords]
  BY DEF SchedulesInv, TableInv, CallsInv
<1>a. call[c].pc = "ack" /\ UNCHANGED <<tag, text, now, made, unseen, ended>>
  BY DEF AckStats
<1>1. PICK r \in Asking \cup Checking :
           /\ r = call[c] /\ CallInv(r) /\ r.rows \in SUBSET Runs /\ r.rows # {}
           /\ FirstRun(r.rows) \in r.rows /\ FirstRun(r.rows) \in Runs
  BY <1>0, <1>a, CallRead
<1> DEFINE q == FirstRun(r.rows)
           i == q.id
<1>2. q = RunNow(c) /\ i \in Ids /\ q.occ \in 0 .. now
  BY <1>0, <1>1, <1>a DEF RunNow, Runs, CallInv, ReadsTrue, TableTypes
<1> HIDE DEF q
<1>3. CASE /\ lastRun' = [lastRun EXCEPT ![i] = now]
           /\ fired' = [fired EXCEPT ![i] = IF q.occ > @ THEN q.occ ELSE @]
           /\ IF IsOnce(tag[i]) THEN Goto(c, "archive") ELSE AfterAck(c)
           /\ UNCHANGED storeVars
  <2>1. fired' \in {fired, [fired EXCEPT ![i] = q.occ]}
    <3>1. CASE q.occ > fired[i]
      BY <1>3, <3>1
    <3>2. CASE ~ (q.occ > fired[i])
      BY <1>0, <1>2, <1>3, <3>2 DEF TableTypes
    <3> QED
      BY <3>1, <3>2
  <2>2. KeepsMade
    BY <1>0, <1>a, <1>2, <1>3, <2>1, MarkedRow DEF storeVars
  <2>3. CASE IsOnce(tag[i]) /\ Goto(c, "archive")
    <3> DEFINE x == [r EXCEPT !.pc = "archive"]
    <3>1. x \in Asking \cup Checking /\ x.pc = "archive" /\ x.rows = r.rows /\ x.by = r.by
      BY <1>1 DEF Asking, Checking
    <3>2. call' = [call EXCEPT ![c] = x]
      BY <1>0, <1>1, <2>3 DEF Goto
    <3> HIDE DEF x
    <3>3. CallInv(r)' /\ r.pc = "ack"
      BY <1>0, <1>1, <1>a, <2>2, KeepsMadeIsEnough DEF CallRecords
    <3>4. ReadsTrue(x)' /\ Covers(x)'
      BY <3>1, <3>3 DEF CallInv, ReadsTrue, Covers
    <3>5. ArchivesOneShots(x)'
      BY <1>a, <2>3, <3>1 DEF ArchivesOneShots, q
    <3>6. x \in CallRecords /\ CallInv(x)'
      BY <3>1, <3>4, <3>5 DEF CallRecords, CallInv
    <3> QED
      BY <2>2, <3>2, <3>6, CallMoves
  <2>4. CASE AfterAck(c)
    BY <1>a, <2>2, <2>4, AfterAckKeeps
  <2> QED
    BY <1>3, <2>3, <2>4
<1>4. CASE AfterAck(c) /\ UNCHANGED <<state, lastRun, fired>>
  <2>1. KeepsMade
    BY <1>0, <1>a, <1>4, Untouched
  <2> QED
    BY <1>a, <1>4, <2>1, AfterAckKeeps
<1> QED
  BY <1>2, <1>3, <1>4 DEF AckStats, WriteFails, storeVars

(* The archival of a one-shot, or none. *)
LEMMA ArchivalKeeps ==
  ASSUME SchedulesInv, NEW c \in Callers, AckArchive(c) \/ ArchiveAgain(c)
  PROVE  SchedulesInv'
<1>0. TableInv /\ TableTypes /\ call \in [Callers -> CallRecords]
  BY DEF SchedulesInv, TableInv, CallsInv
<1>a. call[c].pc \in {"archive", "again"} /\ UNCHANGED <<tag, text, lastRun, now, made, unseen, ended, fired>>
  BY DEF AckArchive, ArchiveAgain, rows, histories
<1>1. PICK r \in Asking \cup Checking :
           /\ r = call[c] /\ CallInv(r) /\ r.rows \in SUBSET Runs /\ r.rows # {}
           /\ FirstRun(r.rows) \in r.rows /\ FirstRun(r.rows) \in Runs
  BY <1>0, <1>a, CallRead
<1> DEFINE q == FirstRun(r.rows)
           i == q.id
<1>2. q = RunNow(c) /\ i \in Ids
  BY <1>1 DEF RunNow, Runs
<1>3. i \in made => IsOnce(tag[i])
  BY <1>1, <1>a DEF CallInv, ReadsTrue, ArchivesOneShots
<1> HIDE DEF q
<1>4. KeepsMade
  <2>1. CASE UpdateMemoryState(i, "archived")
    BY <1>0, <1>a, <1>2, <1>3, <2>1, StateWritten, StoppedRow
  <2>2. CASE UNCHANGED state
    BY <1>0, <1>a, <2>2, Untouched
  <2> QED
    BY <1>2, <2>1, <2>2 DEF AckArchive, ArchiveAgain, WriteFails, storeVars
<1> QED
  BY <1>4, <1>a, NextAckKeeps, AfterAckKeeps DEF AckArchive, ArchiveAgain

LEMMA ContinueKeeps == ASSUME SchedulesInv, NEW c \in Callers, Continue(c) PROVE SchedulesInv'
<1>1. ASSUME NEW acts \in BOOLEAN, CheckDecide(c, acts) PROVE SchedulesInv'
  <2>1. KeepsMade
    BY <1>1, Untouched DEF CheckDecide, storeVars, rows, histories, SchedulesInv
  <2> QED
    BY <1>1, <2>1, Finishes DEF CheckDecide
<1> QED
  BY <1>1, CreateKeeps, ListKeeps, AckStatsKeeps, ArchivalKeeps DEF Continue

LEMMA SchedulesInvKept == SchedulesInv /\ [SchedulesNext]_vars => SchedulesInv'
<1> SUFFICES ASSUME SchedulesInv, [SchedulesNext]_vars PROVE SchedulesInv'
  OBVIOUS
<1>1. CASE Tick
  <2>1. KeepsMade
    BY <1>1, LaterNow DEF Tick, storeVars, rows, histories, SchedulesInv
  <2> QED
    BY <1>1, <2>1, CallsRest DEF Tick
<1>2. CASE SurfacingExpires \/ UNCHANGED vars
  <2>1. KeepsMade /\ UNCHANGED call
    BY <1>2, Untouched DEF SurfacingExpires, vars, storeVars, rows, histories, SchedulesInv
  <2> QED
    BY <2>1, CallsRest
<1> QED
  BY <1>1, <1>2, ApiKeeps, BeginKeeps, ScanKeeps, ContinueKeeps DEF SchedulesNext

LEMMA SchedulesInvHolds == SchedulesSpec => []SchedulesInv
BY SchedulesInvStarts, SchedulesInvKept, PTL DEF SchedulesSpec

-----------------------------------------------------------------------------
(* Two active schedules with matching contents, created and left alone since: the
   creation of the later had not found the earlier (keyoku.go, CreateSchedule,
   "Duplicate detection"). *)
THEOREM DuplicatesOverlap == SchedulesSpec => []DuplicateSchedulesNeedAnOverlap
<1>1. SchedulesInv => DuplicateSchedulesNeedAnOverlap
  BY DEF SchedulesInv, TableInv
<1> QED
  BY <1>1, SchedulesInvHolds, PTL

(* A recurring schedule that nobody edits is active exactly until a request ends it, an
   Add that resolves or supersedes it included: neither acknowledgements nor decay nor
   recovery interfere (keyoku.go, AcknowledgeSchedule and ListScheduled; engine_add.go). *)
THEOREM RecurringSchedulesLast == SchedulesSpec => []OnlyRequestsEndARecurringSchedule
<1>1. SchedulesInv => OnlyRequestsEndARecurringSchedule
  BY DEF SchedulesInv, TableInv
<1> QED
  BY <1>1, SchedulesInvHolds, PTL

(* What a call begins to acknowledge, it has just scanned. *)
LEMMA BeginsNew ==
  ASSUME SchedulesInv, [SchedulesNext]_vars, NEW c \in Callers,
         call[c] = Idle, call'[c] # Idle, call'[c].pc \in {"ack", "decide"}, NEW r \in call'[c].rows, r.occ # 0
  PROVE  r.occ > fired[r.id]
<1>0. TableInv /\ TableTypes /\ call \in [Callers -> CallRecords]
  BY DEF SchedulesInv, TableInv, CallsInv
<1>1. PICK d \in Callers : Begin(d) \/ Scan(d) \/ Continue(d)
  BY DEF SchedulesNext, Api, Tell, Edit, SetState, Resolve, Supersede, Decay, Search, CancelSchedule, Forget,
         UpdateTags, UpdateSchedule, Tick, SurfacingExpires, vars
<1>2. \E x : call' = [call EXCEPT ![d] = x]
  <2>1. CASE Begin(d)
    BY <2>1 DEF Begin, CreateRead, ListRead, AckRequest
  <2>2. CASE Scan(d)
    <3>1. call' = call \/ \E x : call' = [call EXCEPT ![d] = x]
      BY <2>2 DEF Scan, CheckScan
    <3>2. call = [call EXCEPT ![d] = call[d]]
      BY <1>0
    <3> QED
      BY <3>1, <3>2
  <2>3. CASE Continue(d)
    BY <2>3 DEF Continue, CreateReplace, CreateFails, CreateWrite, ListRecover, ListDone, AckStats, AckArchive,
                ArchiveAgain, CheckDecide, Finish, Goto, AfterAck, NextAck
  <2> QED
    BY <1>1, <2>1, <2>2, <2>3
<1>3. d = c
  BY <1>0, <1>2
<1>4. Begin(c) \/ Scan(c)
  <2>1. call[c].pc = "idle"
    BY DEF Idle
  <2> QED
    BY <1>1, <1>3, <2>1 DEF Continue, CreateReplace, CreateFails, CreateWrite, ListRecover, ListDone, AckStats,
                            AckArchive, ArchiveAgain, CheckDecide
<1>5. CASE Begin(c)
  <2>1. ASSUME NEW i \in Ids, AckRequest(c, i) PROVE FALSE
    <3>1. call'[c].rows = {[id |-> i, tag |-> NoTag, occ |-> 0]}
      BY <1>0, <2>1 DEF AckRequest
    <3> QED
      BY <3>1
  <2>2. ASSUME NEW w \in Contents, NEW g \in Tags, NEW reads \in BOOLEAN, CreateRead(c, w, g, reads)
        PROVE  FALSE
    <3>1. call'[c].pc = "replace"
      BY <1>0, <2>2 DEF CreateRead
    <3> QED
      BY <3>1
  <2>3. ASSUME ListRead(c) PROVE FALSE
    <3>1. call'[c].pc = "recover"
      BY <1>0, <2>3 DEF ListRead
    <3> QED
      BY <3>1
  <2> QED
    BY <1>5, <2>1, <2>2, <2>3 DEF Begin
<1>6. CASE Scan(c)
  <2>1. PICK by \in {"check", "deferred"}, named \in BOOLEAN : CheckScan(c, by, named)
    BY <1>6 DEF Scan
  <2> DEFINE page == FirstOf({i \in Ids : IsActive(i)}, ScanLimit)
             due  == {i \in page : IsDueRow(i) /\ ~(named /\ i \in surfaced)}
  <2>2. PICK read : read = FirstOf(due, ReportLimit)
    OBVIOUS
  <2>3. read \subseteq Ids /\ \A i \in read : IsDueRow(i)
    BY <2>2 DEF FirstOf
  <2>4. call'[c].rows = {[id |-> i, tag |-> tag[i], occ |-> NextRun(tag[i], lastRun[i])] : i \in read}
    BY <1>0, <2>1, <2>2 DEF CheckScan
  <2>5. PICK i \in read : r = [id |-> i, tag |-> tag[i], occ |-> NextRun(tag[i], lastRun[i])]
    BY <2>4
  <2>6. r.id = i /\ r.occ > lastRun[i] /\ r.occ \in Nat
    BY <1>0, <2>3, <2>5, DueRuns DEF Runs
  <2>7. fired[i] <= lastRun[i] /\ fired[i] \in Nat /\ lastRun[i] \in Nat
    BY <1>0, <2>3 DEF TableInv, MadeAndEnded, TableTypes
  <2> QED
    BY <2>6, <2>7
<1> QED
  BY <1>4, <1>5, <1>6

(* A check never reports an occurrence again that was reported and acknowledged, nor an
   earlier one (heartbeat.go, check 3). *)
THEOREM OccurrencesOnce == SchedulesSpec => OccurrencesAreReportedOnce
<1>1. SchedulesInv /\ [SchedulesNext]_vars =>
        [\A c \in Callers :
           call[c] = Idle /\ call'[c] # Idle /\ call'[c].pc \in {"ack", "decide"} =>
             \A r \in call'[c].rows : r.occ # 0 => r.occ > fired[r.id]]_vars
  BY BeginsNew
<1> QED
  BY <1>1, SchedulesInvHolds, PTL DEF SchedulesSpec, OccurrencesAreReportedOnce

=============================================================================
