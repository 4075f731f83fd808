------------------------------- MODULE Calendar -------------------------------
(***************************************************************************)
(* The arithmetic of hours: the windows of a week and the moments at which *)
(* the assistant may answer (ai_core.scheduling, ai_core.response_hours),  *)
(* the next business hour of the internal agenda, and the translation of   *)
(* the hours to GHL's calendar and back (calendar_sync).                   *)
(*                                                                         *)
(* A moment is a number of ticks on the merchant's wall clock; the change  *)
(* to and from daylight saving time is left out.                           *)
(***************************************************************************)
EXTENDS Integers, Sequences, FiniteSets, SequencesExt, FiniteSetsExt

CONSTANTS WeekLength,  \* days of a week
          HourLength,  \* ticks of an hour
          DayHours,    \* hours of a day
          LookaheadDays,  \* _LOOKAHEAD_DAYS
          SearchDays      \* range(14) of _next_business_hour

\* The search looks further than a week.
ASSUME CalendarAssumption ==
  /\ {WeekLength, HourLength, DayHours, LookaheadDays, SearchDays} \subseteq Nat \ {0}
  /\ SearchDays > WeekLength

DayLength == HourLength * DayHours
Weekdays == 0..WeekLength - 1
Times == 0..DayLength - 1
NoTime == -1
Never == -1

DayOf(m) == m \div DayLength
Weekday(d) == d % WeekLength
At(d, t) == d * DayLength + t

------------------------------------------------------------------------------
(* Windows: sequences of <<start, end>> per weekday, in use between `start` *)
(* and `end`; one that does not end after it starts ends the day after.     *)

WrapsMidnight(w) == w[2] <= w[1]

IntervalsStartingOn(d, week, closed) ==
  IF d \in closed THEN {}
  ELSE {<<At(d, w[1]), At(IF WrapsMidnight(w) THEN d + 1 ELSE d, w[2])>> :
          w \in ToSet(week[Weekday(d)])}

\* Mutant: the nights that began yesterday are forgotten.
IntervalsFromToday(m, week, closed, ahead) ==
  UNION {IntervalsStartingOn(d, week, closed) : d \in DayOf(m)..DayOf(m) + ahead}

\* From yesterday's on: a night that began then may still be on.
IntervalsAround(m, week, closed, ahead) ==
  UNION {IntervalsStartingOn(d, week, closed) : d \in DayOf(m) - 1..DayOf(m) + ahead}

OnAt(i, m) == i[1] <= m /\ m < i[2]
Precedes(i, j) == i[1] < j[1] \/ (i[1] = j[1] /\ i[2] <= j[2])

IsOpenAt(m, week, closed) ==
  \E i \in IntervalsAround(m, week, closed, 1) : OnAt(i, m)

\* The first interval, in order, that is on or still to come.
NextOpeningAfter(m, week, closed) ==
  LET hits == {i \in IntervalsAround(m, week, closed, LookaheadDays) : OnAt(i, m) \/ i[1] > m}
      first == CHOOSE i \in hits : \A j \in hits : Precedes(i, j)
  IN  IF hits = {} THEN Never
      ELSE IF OnAt(first, m) THEN m ELSE first[1]

AlwaysOpen == [d \in Weekdays |-> << <<0, 0>> >>]

(* The former setting: one window for all days, or "always". *)

IsWithinActiveHours(m, spec) ==
  LET t == m % DayLength
  IN  \/ spec = "always"
      \/ spec[1] = spec[2]
      \/ spec[1] < spec[2] /\ spec[1] <= t /\ t < spec[2]
      \/ spec[1] > spec[2] /\ (t >= spec[1] \/ t < spec[2])

\* What the migration made of it.
WeeklyFromActiveHours(spec) ==
  IF spec = "always" \/ spec[1] = spec[2] THEN AlwaysOpen
  ELSE [d \in Weekdays |-> <<spec>>]

------------------------------------------------------------------------------
(* Rows of business_hours, one per weekday; a weekday without one is closed. *)

Shut == [is_open |-> FALSE, open |-> NoTime, close |-> NoTime, bs |-> NoTime, be |-> NoTime]
OpenRow(o, c) == [is_open |-> TRUE, open |-> o, close |-> c, bs |-> NoTime, be |-> NoTime]
BreakRow(o, bs, be, c) == [OpenRow(o, c) EXCEPT !.bs = bs, !.be = be]

\* _weekly_from_business_hours: a break out of the hours is ignored.
RowWindows(r) ==
  IF ~r.is_open THEN <<>>
  ELSE IF r.bs # NoTime /\ r.be # NoTime /\ r.open < r.bs /\ r.bs < r.be /\ r.be < r.close
       THEN << <<r.open, r.bs>>, <<r.be, r.close>> >>
  ELSE << <<r.open, r.close>> >>

\* Mutant: a shop without hours is one that never opens.
ResolvedToSilence(rows) == [d \in Weekdays |-> RowWindows(rows[d])]

\* resolve_response_hours in the mode business_hours: without any hours it answers always.
ResolvedWeek(rows) ==
  LET week == [d \in Weekdays |-> RowWindows(rows[d])]
  IN  IF \A d \in Weekdays : week[d] = <<>> THEN AlwaysOpen ELSE week

------------------------------------------------------------------------------
(* _next_business_hour, which reckons in hours. *)

HourOf(t) == t \div HourLength

\* The hour of the day d from hour h on, or Never for the day after.
HourInDay(r, h) ==
  LET from == IF h < HourOf(r.open) THEN HourOf(r.open) ELSE h
      past == IF r.bs # NoTime /\ r.be # NoTime /\ HourOf(r.bs) <= from /\ from < HourOf(r.be)
              THEN HourOf(r.be) ELSE from
  IN  IF ~r.is_open \/ past >= HourOf(r.close) THEN Never ELSE past

\* Mutant: the search stops at the end of the week.
NextBusinessHourThisWeek(m, rows) ==
  LET first == m \div HourLength + 1
      day(n) == first \div DayHours + n
      hour(n) == HourInDay(rows[Weekday(day(n))], IF n = 0 THEN first % DayHours ELSE 0)
      days == {n \in 0..WeekLength - 2 : hour(n) # Never}
  IN  IF days = {} THEN Never
      ELSE At(day(Min(days)), hour(Min(days)) * HourLength)

\* The first full hour after m; Never stands for the default it falls back on.
NextBusinessHour(m, rows) ==
  LET first == m \div HourLength + 1
      day(n) == first \div DayHours + n
      hour(n) == HourInDay(rows[Weekday(day(n))], IF n = 0 THEN first % DayHours ELSE 0)
      days == {n \in 0..SearchDays - 1 : hour(n) # Never}
  IN  IF days = {} THEN Never
      ELSE At(day(Min(days)), hour(Min(days)) * HourLength)

------------------------------------------------------------------------------
(* GHL's openHours: slots per day, its first day being our last. *)

GhlDay(d) == (d + 1) % WeekLength
OurDay(g) == (g + WeekLength - 1) % WeekLength

ToSlots(r) ==
  IF ~r.is_open THEN <<>>
  ELSE IF r.bs # NoTime /\ r.be # NoTime THEN << <<r.open, r.bs>>, <<r.be, r.close>> >>
  ELSE << <<r.open, r.close>> >>

ToGhlOpenHours(rows) == [g \in Weekdays |-> ToSlots(rows[OurDay(g)])]

\* The first slot opens, the last one closes; of several breaks one is kept.
FromSlots(slots) ==
  LET n == Len(slots)
  IN  CASE n = 0 -> Shut
        [] n = 1 -> OpenRow(slots[1][1], slots[1][2])
        [] OTHER -> BreakRow(slots[1][1], slots[n \div 2][2], slots[n \div 2 + 1][1],
                             slots[n][2])

\* Mutant: the day is not turned back.
FromGhlSameDay(open_hours) == [d \in Weekdays |-> FromSlots(open_hours[d])]

FromGhlOpenHours(open_hours) == [d \in Weekdays |-> FromSlots(open_hours[GhlDay(d)])]

\* A row that the table takes (ck_business_hours_times).
RowAccepted(r) == r.is_open => r.open < r.close

AcceptedRows ==
  {r \in [is_open : BOOLEAN, open : Times \union {NoTime}, close : Times \union {NoTime},
          bs : Times \union {NoTime}, be : Times \union {NoTime}] :
     RowAccepted(r) /\ (r.is_open => r.open \in Times)}

==============================================================================
