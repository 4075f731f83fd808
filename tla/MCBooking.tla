------------------------------- MODULE MCBooking -------------------------------
(***************************************************************************)
(* One run for the appointments and their reminders.  A behaviour is one   *)
(* of the part in focus, and the other stands still: Reminders has the     *)
(* moves and cancellations of Booking and of the poll as its inputs.       *)
(***************************************************************************)
EXTENDS Booking, Reminders

VARIABLE focus

vars == <<focus, bookingVars, remindersVars>>

\* The part that stands still starts in one state.
Init ==
  /\ BookingInit /\ RemindersInit
  /\ \/ focus = "booking" /\ in_ghl /\ \A s \in Starts : start <= s
     \/ focus = "reminders" /\ linked

InBooking(A) == focus = "booking" /\ A /\ UNCHANGED <<focus, remindersVars>>
InReminders(A) == focus = "reminders" /\ A /\ UNCHANGED <<focus, bookingVars>>

Next == InBooking(BookingNext) \/ InReminders(RemindersNext)

\* BookingFairness.
FairSpec ==
  /\ Init /\ [][Next]_vars
  /\ WF_vars(InBooking(TurnStep))
  /\ \A o \in Operators : WF_vars(InBooking(ActorStep(o)))
  /\ WF_vars(InBooking(PollRead \/ PollWrite))

=============================================================================
