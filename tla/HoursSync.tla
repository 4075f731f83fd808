------------------------------ MODULE HoursSync ------------------------------
(***************************************************************************)
(* The opening hours of one merchant, kept twice: in business_hours and    *)
(* business_closures, and in the GHL calendar.  Saving the hours pushes    *)
(* them to GHL within the request; every night a job reads the calendar of *)
(* each merchant, in one transaction for all, and writes over the rows.    *)
(*                                                                         *)
(* The rows of one merchant are deleted and written anew: a transaction    *)
(* that does so while another one's rows are not yet committed waits for   *)
(* it, and then runs into the unique constraint.                           *)
(***************************************************************************)
EXTENDS Calendar

CONSTANTS Weeks,      \* rows that the merchant saves
          GhlWeeks,   \* openHours that the merchant sets in GHL
          CustomWeeks,   \* weeks of the mode custom
          SpecTimes,     \* times of the former setting
          Days,       \* dates
          MaxEdits,   \* bound: saves, closures, changes in GHL
          MaxSlips    \* bound: pushes and transactions that fail

\* The panel sends rows that the table takes; a slot of GHL's may end before it begins.
ASSUME HoursAssumption ==
  /\ Weeks \subseteq [Weekdays -> AcceptedRows]
  /\ GhlWeeks \union CustomWeeks \subseteq [Weekdays -> Seq(Times \X Times)]
  /\ SpecTimes \subseteq Times
  /\ Days \subseteq Nat /\ \E last \in Days : \A d \in Days : d <= last
  /\ {MaxEdits, MaxSlips} \subseteq Nat

Today0 == Min(Days)

VARIABLES
  now,          \* the moment, of which the date counts here
  hours,        \* business_hours
  closures,     \* business_closures
  calendar,     \* GHL: [open, overrides]
  saver,        \* upsert_hours: [pc, rows, closed]
  night,        \* sync_ghl_calendar_hours: [pc, read, gone, new]
  \* history
  wanted,       \* the hours that the merchant gave last, and since when it may have lost them
  wanted_closures,  \* closures added and not taken back
  told,         \* those of them that GHL was told of
  why,          \* what has come between since: "unpushed", "edited", "overlap", "refused"
  edits, slips

syncVars == <<now, hours, closures, calendar, saver, night, wanted, wanted_closures, told, why,
              edits, slips>>

Reasons == {"unpushed", "edited", "overlap", "refused"}
KnownRows == Weeks \union {FromGhlOpenHours(o) : o \in GhlWeeks}
                \union {FromGhlOpenHours(ToGhlOpenHours(w)) : w \in Weeks}
\* What GHL may hold.
GhlHours == GhlWeeks \union {ToGhlOpenHours(w) : w \in Weeks}
NoSave == [pc |-> "idle"]
NoNight == [pc |-> "idle"]
Today == DayOf(now)
WeekWindows(rows) == [d \in Weekdays |-> RowWindows(rows[d])]

HoursTypeOK ==
  /\ now \in At(Today0, 0)..At(Max(Days) + 1, 0) - 1
  /\ hours \in KnownRows /\ closures \subseteq Days
  /\ calendar.open \in GhlHours
  /\ calendar.overrides \subseteq Days
  /\ saver.pc \in {"idle", "waiting", "pushed"} /\ night.pc \in {"idle", "read", "written"}
  /\ wanted_closures \subseteq Days /\ told \subseteq wanted_closures
  /\ why \subseteq Reasons /\ edits \in 0..MaxEdits /\ slips \in 0..MaxSlips

SyncInit ==
  /\ now = At(Today0, 0)
  /\ hours \in Weeks
  /\ calendar = [open |-> ToGhlOpenHours(hours), overrides |-> {}]
  /\ closures = {} /\ saver = NoSave /\ night = NoNight
  /\ wanted = hours /\ wanted_closures = {} /\ told = {} /\ why = {}
  /\ edits = 0 /\ slips = 0

------------------------------------------------------------------------------
(* PUT /services/{merchant}/hours *)

Edit == edits < MaxEdits /\ edits' = edits + 1
Slip == slips < MaxSlips /\ slips' = slips + 1

\* to_ghl_date_overrides sends those that are not past.
Pushed(rows, closed) ==
  [open |-> ToGhlOpenHours(rows), overrides |-> {d \in closed : d >= Today}]

\* upsert_bulk, then the push: GHL has the hours before the commit.
UpsertAndPush(rows) ==
  \/ /\ calendar' = Pushed(rows, closures)
     /\ saver' = [pc |-> "pushed", rows |-> rows, ok |-> TRUE, closed |-> closures]
     /\ why' = {}
     /\ UNCHANGED slips
  \/ /\ Slip
     /\ saver' = [pc |-> "pushed", rows |-> rows, ok |-> FALSE, closed |-> {}]
     /\ UNCHANGED <<calendar, why>>

SaveHours ==
  /\ saver.pc = "idle" /\ Edit
  /\ \E rows \in Weeks :
       IF night.pc = "written"
       THEN saver' = [pc |-> "waiting", rows |-> rows] /\ UNCHANGED <<calendar, why, slips>>
       ELSE UpsertAndPush(rows)
  /\ UNCHANGED <<now, hours, closures, night, wanted, wanted_closures, told>>

\* A push that failed is logged, and the request succeeds.  A night that waits for
\* these rows runs into them.
Saved ==
  /\ saver.pc = "pushed"
  /\ hours' = saver.rows /\ wanted' = saver.rows /\ saver' = NoSave
  /\ why' = why \union (IF saver.ok THEN {} ELSE {"unpushed"})
                \union (IF night.pc # "idle" THEN {"overlap"} ELSE {})
  /\ told' = IF saver.ok THEN saver.closed \intersect wanted_closures ELSE told
  /\ night' \in {night} \union (IF night.pc = "read" THEN {NoNight} ELSE {})
  /\ UNCHANGED <<now, closures, calendar, wanted_closures, edits, slips>>

\* The commit fails, or the process dies: what was pushed stays in GHL.
SaveLost ==
  /\ saver.pc = "pushed" /\ Slip
  /\ saver' = NoSave
  /\ why' = IF saver.ok THEN why \union {"refused"} ELSE why
  /\ UNCHANGED <<now, hours, closures, calendar, night, wanted, wanted_closures, told, edits>>

------------------------------------------------------------------------------
(* The nightly job *)

NightReads ==
  /\ night.pc = "idle"
  /\ night' = [pc |-> "read", read |-> calendar]
  /\ why' = IF saver.pc = "pushed" THEN why \union {"overlap"} ELSE why
  /\ UNCHANGED <<now, hours, closures, calendar, saver, wanted, wanted_closures, told, edits, slips>>

\* Closures to come that GHL does not have.
GoneClosures(incoming, existing) == existing \ incoming

\* The rows of the merchant, and the transaction stays open for the other merchants'.
NightWrites ==
  /\ night.pc = "read" /\ saver.pc # "pushed"
  /\ LET incoming == {d \in night.read.overrides : d >= Today}
         existing == {d \in closures : d >= Today}
     IN  night' = [pc |-> "written", rows |-> FromGhlOpenHours(night.read.open),
                   gone |-> GoneClosures(incoming, existing), new |-> incoming \ existing]
  /\ \A d \in Weekdays : RowAccepted(FromGhlOpenHours(night.read.open)[d])
  /\ UNCHANGED <<now, hours, closures, calendar, saver, wanted, wanted_closures, told, why,
                 edits, slips>>

\* The save that waits runs into the rows that are now committed, and is refused.
NightCommits ==
  /\ night.pc = "written"
  /\ hours' = night.rows
  /\ closures' = (closures \ night.gone) \union night.new
  /\ night' = NoNight
  /\ saver' = IF saver.pc = "waiting" THEN NoSave ELSE saver
  /\ UNCHANGED <<now, calendar, wanted, wanted_closures, told, why, edits, slips>>

\* Hours that the table does not take break the transaction of all merchants; so does
\* another merchant, or a read that fails.
\* The save that waits goes on.
NightFails ==
  /\ \/ /\ night.pc = "read"
        /\ \E d \in Weekdays : ~RowAccepted(FromGhlOpenHours(night.read.open)[d])
        /\ UNCHANGED <<saver, calendar, why, slips>>
     \/ /\ night.pc # "idle" /\ saver.pc # "waiting" /\ Slip
        /\ UNCHANGED <<saver, calendar, why>>
     \/ /\ night.pc = "written" /\ saver.pc = "waiting"
        /\ UpsertAndPush(saver.rows)
  /\ night' = NoNight
  /\ UNCHANGED <<now, hours, closures, wanted, wanted_closures, told, edits>>

------------------------------------------------------------------------------
(* Closures, and changes made in GHL *)

AddClosure ==
  /\ Edit
  /\ \E d \in Days :
       /\ d >= Today /\ d \notin closures
       /\ night.pc = "written" => d \notin night.new
       /\ closures' = closures \union {d}
       /\ wanted_closures' = wanted_closures \union {d}
  /\ why' = IF night.pc # "idle" \/ saver.pc # "idle" THEN why \union {"overlap"} ELSE why
  /\ UNCHANGED <<now, hours, calendar, saver, night, wanted, told, slips>>

DeleteClosure ==
  /\ Edit
  /\ \E d \in closures :
       /\ night.pc = "written" => d \notin night.gone
       /\ closures' = closures \ {d}
       /\ wanted_closures' = wanted_closures \ {d}
       /\ told' = told \ {d}
  /\ UNCHANGED <<now, hours, calendar, saver, night, wanted, why, slips>>

EditInGhl ==
  /\ Edit
  /\ \/ \E o \in GhlWeeks : calendar' = [calendar EXCEPT !.open = o]
     \/ \E s \in SUBSET Days : Cardinality(s) <= 1 /\ calendar' = [calendar EXCEPT !.overrides = s]
  /\ why' = why \union {"edited"}
  /\ UNCHANGED <<now, hours, closures, saver, night, wanted, wanted_closures, told, slips>>

Tick ==
  /\ now < At(Max(Days) + 1, 0) - 1
  /\ now' = now + 1
  /\ wanted_closures' = {d \in wanted_closures : d >= DayOf(now')}
  /\ told' = {d \in told : d >= DayOf(now')}
  /\ UNCHANGED <<hours, closures, calendar, saver, night, wanted, why, edits, slips>>

SyncNext ==
  \/ SaveHours \/ Saved \/ SaveLost
  \/ NightReads \/ NightWrites \/ NightCommits \/ NightFails
  \/ AddClosure \/ DeleteClosure \/ EditInGhl \/ Tick

SyncSpec == SyncInit /\ [][SyncNext]_syncVars

------------------------------------------------------------------------------
(* Properties *)

\* When the assistant answers, said of the wall clock alone.
OpenByTheClock(m, week, closed) ==
  LET t == m % DayLength
      of(d) == IF d \in closed THEN {} ELSE ToSet(week[Weekday(d)])
  IN  \/ \E w \in of(DayOf(m)) : w[1] <= t /\ (t < w[2] \/ w[2] <= w[1])
      \/ \E w \in of(DayOf(m) - 1) : w[2] <= w[1] /\ t < w[2]

FirstOpening(m, week, closed) ==
  LET open == {n \in m..At(DayOf(m) + LookaheadDays + 1, 0) - 1 : OpenByTheClock(n, week, closed)}
  IN  IF open = {} THEN Never ELSE Min(open)

\* The intervals of the code say of every moment whether the assistant may answer, and
\* a question that is put off is put off to the first moment at which it may, for the
\* hours in the tables and for weeks with nights; a week that was migrated means what
\* the old setting meant.
HoursAreExact ==
  saver.pc = "idle" /\ night.pc = "idle" =>
  /\ \A week \in CustomWeeks \union {ResolvedWeek(hours)} :
       /\ IsOpenAt(now, week, closures) = OpenByTheClock(now, week, closures)
       /\ NextOpeningAfter(now, week, closures) = FirstOpening(now, week, closures)
  /\ \A spec \in {"always"} \union (SpecTimes \X SpecTimes) :
       IsWithinActiveHours(now, spec) = IsOpenAt(now, WeeklyFromActiveHours(spec), {})

\* A shop whose hours are all on the hour is given the first full hour at which it opens.
InHours(rows) ==
  \A d \in Weekdays : rows[d].is_open =>
    /\ \A t \in {rows[d].open, rows[d].close} : t % HourLength = 0
    /\ \/ NoTime \in {rows[d].bs, rows[d].be}
       \/ /\ rows[d].open < rows[d].bs /\ rows[d].bs < rows[d].be /\ rows[d].be < rows[d].close
          /\ rows[d].bs % HourLength = 0 /\ rows[d].be % HourLength = 0

FirstHour(m, rows) ==
  LET full == {h \in m + 1..At(DayOf(m) + SearchDays, 0) - 1 : h % HourLength = 0}
      open == {h \in full : OpenByTheClock(h, WeekWindows(rows), {})}
  IN  IF open = {} THEN Never ELSE Min(open)

AgendaHourIsOpen == InHours(hours) => NextBusinessHour(now, hours) = FirstHour(now, hours)

\* "Never open" is nobody's wish: hours that are missing do not silence the assistant, who
\* answers within a week.
NeverSilenced ==
  \E m \in now..now + WeekLength * DayLength : OpenByTheClock(m, ResolvedWeek(hours), {})

\* The hours that a merchant saves, and the closures that GHL was told of, are lost only
\* if the push failed, GHL was edited, or the night's job ran at the same time.
LostOnlyIf ==
  /\ HoursTypeOK
  /\ why = {} /\ saver.pc # "pushed" =>
       /\ WeekWindows(hours) = WeekWindows(wanted)
       /\ told \subseteq closures

\* The hours are those that were asked for, and the arithmetic on them is exact.
OpeningSafe == HoursAreExact /\ AgendaHourIsOpen /\ NeverSilenced /\ LostOnlyIf

\* What is saved in the panel comes back from GHL unchanged: so does a closure.
ClosureKept == why = {} /\ saver.pc # "pushed" => wanted_closures \subseteq closures

==============================================================================
