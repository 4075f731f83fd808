------------------------------- MODULE Reminders -------------------------------
(***************************************************************************)
(* The reminders of one appointment: its reminder_schedule, of which       *)
(* reminder_due_at holds the next entry, and the sweep                     *)
(* send_appointment_reminders, at every tick of the clock.                 *)
(*                                                                         *)
(* The sweep works from the snapshot of its scan.  It consumes an entry    *)
(* after the message is out, and does not when the message has to wait:    *)
(* an entry that is due is the queue.  Who moves the appointment decides   *)
(* what becomes of the schedule.                                           *)
(***************************************************************************)
EXTENDS Integers, FiniteSets

CONSTANTS LeadTicks,    \* the hours of booking.reminder_schedule
          DefaultLead,  \* the 24 of a move without GHL
          Starts,       \* when the appointment may start
          MaxClock,     \* bound: the ticks of the model
          MaxChanges,   \* bound: moves, cancellations, switches
          MaxCrashes    \* bound: sweeps that die

\* The dates are counted from an origin that lies before the first of them.
ASSUME RemindersAssumption ==
  /\ LeadTicks \subseteq Nat \ {0} /\ IsFiniteSet(LeadTicks)
  /\ DefaultLead \in Nat \ {0}
  /\ Starts \subseteq Nat
  /\ \A s \in Starts, h \in LeadTicks \union {DefaultLead} : h <= s
  /\ {MaxClock, MaxChanges, MaxCrashes} \subseteq Nat

Clock == 0..MaxClock
Closed == 0

VARIABLES
  clock,
  in_ghl,      \* the appointment has a GHL id
  \* appointments
  start,
  booked,
  schedule,    \* due_at and sent_at of every entry
  due_at,      \* reminder_due_at, Never for NULL
  \* the merchant
  opens,       \* Closed until then, at the tick of the next opening
  ready,       \* the flow is enabled and its template approved
  \* the sweep
  sweep,       \* what the scan has found
  swept,       \* the sweep of this tick is over
  \* history
  reminded,    \* messages: entry, the start they name, the tick
  moved,       \* the last change of start, of status, of hours or template
  bot_moved,   \* moved in GHL by the bot or in the agenda
  changes, crashes

Never == -1
NoSweep == [at |-> "none"]
remindersVars == <<clock, in_ghl, start, booked, schedule, due_at, opens, ready, sweep, swept,
                   reminded, moved, bot_moved, changes, crashes>>

Entry(due, sent) == [due |-> due, sent |-> sent]

RemindersTypeOK ==
  /\ clock \in Clock
  /\ in_ghl \in BOOLEAN /\ booked \in BOOLEAN /\ ready \in BOOLEAN /\ swept \in BOOLEAN
  /\ bot_moved \in BOOLEAN
  /\ start \in Starts
  /\ \A e \in schedule : e.due \in Int /\ e.sent \in BOOLEAN
  /\ due_at = Never \/ \E e \in schedule : e.due = due_at /\ ~e.sent
  /\ opens \in Clock \union {MaxClock + 1}
  /\ sweep.at \in {"none", "scanned", "sent"}
  /\ moved \in Clock
  /\ changes \in 0..MaxChanges
  /\ crashes \in 0..MaxCrashes

-----------------------------------------------------------------------------
(* The schedule. *)

\* build_reminder_schedule, whose dates may lie in the past.
BuildSchedule(s, leads) == {Entry(s - h, FALSE) : h \in leads}

\* Mutant: the entry that is the next one to come.
NextDueLatest(sch) ==
  IF \A e \in sch : e.sent THEN Never
  ELSE CHOOSE d \in {e.due : e \in {f \in sch : ~f.sent}} :
         \A e \in sch : ~e.sent => e.due <= d

\* next_reminder_due: the schedule is in order, the first that is not sent.
NextDue(sch) ==
  IF \A e \in sch : e.sent THEN Never
  ELSE CHOOSE d \in {e.due : e \in {f \in sch : ~f.sent}} :
         \A e \in sch : ~e.sent => d <= e.due

RemindersInit ==
  /\ clock = 0
  /\ in_ghl \in BOOLEAN
  /\ start \in Starts
  /\ booked = TRUE
  /\ schedule = BuildSchedule(start, LeadTicks)
  /\ due_at = NextDue(schedule)
  /\ opens = Closed
  /\ ready = TRUE
  /\ sweep = NoSweep
  /\ swept = FALSE
  /\ reminded = {}
  /\ moved = 0
  /\ bot_moved = FALSE
  /\ changes = 0
  /\ crashes = 0

Change == changes < MaxChanges /\ changes' = changes + 1 /\ moved' = clock

LocalSchedule(s) == BuildSchedule(s, {DefaultLead})

\* reschedule_appointment: what is in GHL keeps its schedule.
Reschedule(s) ==
  /\ Change
  /\ booked
  /\ s \in Starts \ {start}
  /\ start' = s
  /\ schedule' = IF in_ghl THEN schedule ELSE LocalSchedule(s)
  /\ due_at' = IF in_ghl THEN due_at ELSE NextDue(schedule')
  /\ bot_moved' = (in_ghl \/ bot_moved)
  /\ UNCHANGED <<clock, in_ghl, booked, opens, ready, sweep, swept, reminded, crashes>>

\* Mutant: the schedule of a row that is there is never reset.
PolledScheduleKept(s, standing) == schedule

\* upsert_by_ghl_id: reset when the start changes, for what stands.
PolledSchedule(s, standing) ==
  IF s = start THEN schedule ELSE IF standing THEN BuildSchedule(s, LeadTicks) ELSE {}

\* The poll brings a move or a cancellation made in GHL.
Polled(s, standing) ==
  /\ Change
  /\ in_ghl
  /\ s \in Starts
  /\ start' = s
  /\ booked' = standing
  /\ schedule' = PolledSchedule(s, standing)
  /\ due_at' = IF s = start THEN due_at ELSE NextDue(schedule')
  /\ bot_moved' = (bot_moved /\ s = start)
  /\ UNCHANGED <<clock, in_ghl, opens, ready, sweep, swept, reminded, crashes>>

\* cancel_appointment: only a row without GHL loses its date.
Cancel ==
  /\ Change
  /\ booked
  /\ booked' = FALSE
  /\ due_at' = IF in_ghl THEN due_at ELSE Never
  /\ UNCHANGED <<clock, in_ghl, start, schedule, opens, ready, sweep, swept, reminded,
                 bot_moved, crashes>>

\* Automation hours, the flow and its template.
Switch ==
  /\ Change
  /\ \/ opens' \in clock..(MaxClock + 1) /\ UNCHANGED ready
     \/ ready' = ~ready /\ UNCHANGED opens
  /\ UNCHANGED <<clock, in_ghl, start, booked, schedule, due_at, sweep, swept, reminded,
                 bot_moved, crashes>>

-----------------------------------------------------------------------------
(* The sweep. *)

\* Mutant: cancelled appointments are candidates too.
CandidateAny == due_at # Never /\ due_at <= clock

\* list_due_for_reminder.
Candidate == booked /\ due_at # Never /\ due_at <= clock

Scan ==
  /\ sweep = NoSweep
  /\ ~swept
  /\ IF Candidate
     THEN sweep' = [at |-> "scanned", start |-> start, due |-> due_at] /\ UNCHANGED swept
     ELSE swept' = TRUE /\ UNCHANGED sweep
  /\ UNCHANGED <<clock, in_ghl, start, booked, schedule, due_at, opens, ready, reminded, moved,
                 bot_moved, changes, crashes>>

IsOpen == opens <= clock

\* mark_reminded: the first one, as the row is by now.
Marked ==
  LET waiting == {e \in schedule : ~e.sent /\ e.due <= clock}
      first == {e \in waiting : \A f \in waiting : e.due <= f.due}
  IN (schedule \ first) \union {Entry(e.due, TRUE) : e \in first}

\* Mutant: reminder_due_at is not computed anew.
ConsumeEntryOnly ==
  /\ schedule' = Marked
  /\ UNCHANGED due_at

Consume ==
  /\ schedule' = Marked
  /\ due_at' = NextDue(Marked)

EndSweep == sweep' = NoSweep /\ swept' = TRUE

\* The hours put it off, or the flow is not ready: the entry stays due.
PutOff ==
  /\ sweep.at = "scanned"
  /\ IF IsOpen THEN ~ready ELSE opens < sweep.start
  /\ EndSweep
  /\ UNCHANGED <<clock, in_ghl, start, booked, schedule, due_at, opens, ready, reminded, moved,
                 bot_moved, changes, crashes>>

\* The merchant reopens when it is too late: the entry is consumed without a message.
DropEntry ==
  /\ sweep.at = "scanned"
  /\ ~IsOpen
  /\ opens >= sweep.start
  /\ Consume
  /\ EndSweep
  /\ UNCHANGED <<clock, in_ghl, start, booked, opens, ready, reminded, moved, bot_moved, changes,
                 crashes>>

\* The message goes out as of the scan; nothing is read again.
SendReminder ==
  /\ sweep.at = "scanned"
  /\ IsOpen
  /\ ready
  /\ reminded' = reminded \union {[due |-> sweep.due, start |-> sweep.start, at |-> clock]}
  /\ sweep' = [sweep EXCEPT !.at = "sent"]
  /\ UNCHANGED <<clock, in_ghl, start, booked, schedule, due_at, opens, ready, swept, moved,
                 bot_moved, changes, crashes>>

MarkSent ==
  /\ sweep.at = "sent"
  /\ Consume
  /\ EndSweep
  /\ UNCHANGED <<clock, in_ghl, start, booked, opens, ready, reminded, moved, bot_moved, changes,
                 crashes>>

\* The cron dies; what it has not committed is undone.
SweepDies ==
  /\ sweep # NoSweep
  /\ crashes < MaxCrashes
  /\ crashes' = crashes + 1
  /\ EndSweep
  /\ UNCHANGED <<clock, in_ghl, start, booked, schedule, due_at, opens, ready, reminded, moved,
                 bot_moved, changes>>

\* There is a sweep in every tick, and it ends in it.
NextTick ==
  /\ clock < MaxClock
  /\ swept
  /\ clock' = clock + 1
  /\ swept' = FALSE
  /\ UNCHANGED <<in_ghl, start, booked, schedule, due_at, opens, ready, sweep, reminded, moved,
                 bot_moved, changes, crashes>>

RemindersNext ==
  \/ Cancel \/ Switch
  \/ \E s \in Starts : Reschedule(s) \/ \E standing \in BOOLEAN : Polled(s, standing)
  \/ Scan \/ PutOff \/ DropEntry \/ SendReminder \/ MarkSent \/ SweepDies \/ NextTick

RemindersSpec == RemindersInit /\ [][RemindersNext]_remindersVars

-----------------------------------------------------------------------------
(* Properties. *)

\* An entry is one message, although it is consumed after the message: only a sweep
\* that dies in between, or a move, makes it two.
OneMessagePerEntry ==
  \A m, n \in reminded :
    m # n /\ m.due = n.due /\ m.start = n.start => crashes > 0 \/ moved >= m.at \/ moved >= n.at

\* A reminder names the start of an appointment that stands, unless that changed
\* under the sweep.
RemindedAsItStands ==
  \A m \in reminded :
    m.at = clock /\ moved < clock => booked /\ m.start = start

\* Of several entries that are due, one goes out with every tick; when nothing has
\* held it back since, none is still waiting after as many ticks as there are entries.
EntriesWorkedOff ==
  swept /\ booked /\ ready /\ IsOpen /\ crashes = 0 =>
    \A e \in schedule :
      (\A t \in {e.due, moved, opens} : clock >= t + Cardinality(schedule)) => e.sent

\* A move gives the appointment new reminders (ADR 0015: reschedule-aware).
ScheduleFollowsStart ==
  booked => schedule = {} \/ \E e \in schedule, h \in LeadTicks \union {DefaultLead} : e.due = start - h

\* The same, but for the moves of the bot and of the agenda in GHL.
ScheduleFollowsPoll == ~bot_moved => ScheduleFollowsStart

\* The reminders of an appointment go out once each, in time, and name it as it
\* stands.
RemindersSafe ==
  RemindersTypeOK /\ OneMessagePerEntry /\ RemindedAsItStands /\ EntriesWorkedOff /\ ScheduleFollowsPoll

=============================================================================
