------------------------------- MODULE Calendar -------------------------------
(***************************************************************************)
(* The two calendars of the system: the one ingestion resolves phrases     *)
(* with (ingest/src/temporal.ts) and the one answers measure time with     *)
(* (core/src/temporal.ts).  They are written apart and must agree.         *)
(*                                                                         *)
(* A date is [y, m, d]; an instant adds the part of the day, s.            *)
(***************************************************************************)
EXTENDS Integers

NoDate == [y |-> 0, m |-> 0, d |-> 0]

Leap(y) == y % 4 = 0 /\ (y % 100 # 0 \/ y % 400 = 0)

DaysInMonth(y, m) ==
  CASE m = 2 -> IF Leap(y) THEN 29 ELSE 28
    [] m \in {4, 6, 9, 11} -> 30
    [] OTHER -> 31

\* Days before the first of a month in a common year.
Elapsed == <<0, 31, 59, 90, 120, 151, 181, 212, 243, 273, 304, 334>>

IsDate(t) == t.y \in Int /\ t.m \in 1..12 /\ t.d \in 1..DaysInMonth(t.y, t.m)

\* The number of a day on the UTC calendar.
DayNumber(t) ==
  LET past == t.y - 1
  IN  365 * past + past \div 4 - past \div 100 + past \div 400
      + Elapsed[t.m] + (IF t.m > 2 /\ Leap(t.y) THEN 1 ELSE 0) + t.d

----------------------------------------------------------------------------
(* ingest/src/temporal.ts *)

\* What isoToEpoch cannot read back: a date it puts no time to.
Unreadable == [y |-> -1, m |-> 0, d |-> 0]

\* fmtIso does not pad a year, and only one of four digits is read back.
FourDigits == 1000..9999
FmtIso(date) == IF date.y \in FourDigits THEN date ELSE Unreadable

\* A slip: the day is not clamped and rolls over into the month after.
AddMonthsRolled(t, months) ==
  LET total == t.y * 12 + (t.m - 1) + months
      y == total \div 12
      m == (total % 12) + 1
      over == t.d - DaysInMonth(y, m)
  IN  FmtIso(IF over <= 0 THEN [y |-> y, m |-> m, d |-> t.d]
             ELSE [y |-> IF m = 12 THEN y + 1 ELSE y, m |-> (m % 12) + 1, d |-> over])

\* addMonthsIso: the end of the month is as far as the day goes.  (Of a total
\* below zero % is negative too, but no such year is readable.)
AddMonths(t, months) ==
  LET total == t.y * 12 + (t.m - 1) + months
      y == total \div 12
      m == (total % 12) + 1
  IN  FmtIso([y |-> y, m |-> m,
              d |-> IF t.d > DaysInMonth(y, m) THEN DaysInMonth(y, m) ELSE t.d])

\* addDaysIso: the date so many days away, and that is no more years.
AddDays(t, days) ==
  LET reach == (IF days < 0 THEN -days ELSE days) \div 365 + 1
  IN  FmtIso(CHOOSE u \in [y : t.y - reach..t.y + reach, m : 1..12, d : 1..31] :
               u.d <= DaysInMonth(u.y, u.m) /\ DayNumber(u) = DayNumber(t) + days)

\* Minutes are as hours.
Units == {"hour", "day", "week", "month", "year", "decade"}

\* shiftIso: an hour does not leave the day of the anchor.
Shift(anchor, count, unit) ==
  CASE unit = "hour" -> anchor
    [] unit = "day" -> AddDays(anchor, count)
    [] unit = "week" -> AddDays(anchor, count * 7)
    [] unit = "month" -> AddMonths(anchor, count)
    [] unit = "year" -> AddMonths(anchor, count * 12)
    [] unit = "decade" -> AddMonths(anchor, count * 120)

\* resolveRelative: a phrase without an exact count, or a session without a
\* date, resolves to nothing.
ResolveRelative(phrase, anchor) ==
  IF anchor = NoDate \/ ~phrase.exact THEN NoDate
  ELSE Shift(anchor, phrase.count, phrase.unit)

\* resolveAbsoluteDate: only a date that is whole, and exists.
ResolveAbsolute(written) ==
  IF 0 \notin {written.y, written.m, written.d}
       /\ written.m <= 12 /\ written.d <= DaysInMonth(written.y, written.m)
  THEN FmtIso(written) ELSE NoDate

----------------------------------------------------------------------------
(* core/src/temporal.ts *)

Instant(date, s) == [y |-> date.y, m |-> date.m, d |-> date.d, s |-> s]

IsInstant(a) == a = Instant(a, a.s) /\ IsDate(a) /\ a.s \in 0..1

Before(a, b) ==
  \/ DayNumber(a) < DayNumber(b)
  \/ DayNumber(a) = DayNumber(b) /\ a.s < b.s

DayDelta(a, b) == DayNumber(b) - DayNumber(a)

\* The midnight that begins the day so many months later, or the last day of
\* that month.
AddMonthsClamped(t, months) ==
  LET month == t.y * 12 + t.m - 1 + months
      y == month \div 12
      m == (month % 12) + 1
      last == DaysInMonth(y, m)
  IN  Instant([y |-> y, m |-> m, d |-> IF t.d < last THEN t.d ELSE last], 0)

MonthsApart(a, b) == (b.y - a.y) * 12 + (b.m - a.m)

\* Whole months forward from the start, then the days left over.
Delta(a, b) ==
  LET apart == MonthsApart(a, b)
      months == IF apart > 0 /\ Before(b, AddMonthsClamped(a, apart)) THEN apart - 1 ELSE apart
      days == IF months <= 0 THEN DayDelta(a, b) ELSE DayDelta(AddMonthsClamped(a, months), b)
  IN  [years |-> months \div 12, months |-> months % 12, days |-> days]

\* calendarDelta: of an interval that runs backwards, the negation.
CalendarDelta(a, b) ==
  IF Before(b, a)
  THEN LET flipped == Delta(b, a)
       IN  [years |-> -flipped.years, months |-> -flipped.months, days |-> -flipped.days]
  ELSE Delta(a, b)
===============================================================================
