-------------------------------- MODULE Booking --------------------------------
(***************************************************************************)
(* Appointments of one lead: the actions book_slot, reschedule_slot and    *)
(* cancel_slot of the bot's turns, the same operations of a person in the  *)
(* merchant's agenda, and the poll that brings the calendar of GHL, the    *)
(* source of truth, into the table appointments.                           *)
(*                                                                         *)
(* A turn works in one transaction: it claims the lead's row, which it     *)
(* holds over its calls to GHL, and commits claim and row together.  The   *)
(* client repeats a call that fails, whatever it was and whatever became   *)
(* of it.  The poll reads all calendars and writes all rows in one         *)
(* transaction of its own; a person claims nothing.                        *)
(***************************************************************************)
EXTENDS Integers, FiniteSets

CONSTANTS Turns,       \* turns of the lead that end in a booking action
          Operators,   \* requests from the agenda
          Slots,
          Window,      \* window_s of claim_booking_action
          MaxTries,    \* stop_after_attempt
          MaxApps,     \* bound: appointments in GHL
          MaxNow,      \* bound: the instants of the model
          MaxEdits,    \* bound: edits by hand, in GHL or in the agenda
          MaxFaults    \* bound: answers lost, refusals, writes and processes that fail

\* Turns, requests and appointments do not share an id with one another.
ASSUME BookingAssumption ==
  /\ {MaxTries, MaxNow} \subseteq Nat \ {0}
  /\ {Window, MaxApps, MaxEdits, MaxFaults} \subseteq Nat
  /\ Turns \intersect (Operators \union Nat \union {"none", "hand"}) = {}
  /\ "no slot" \notin Slots

Actors == Turns \union Operators
Apps == 1..MaxApps
Refs == Apps \union Turns      \* a row without a GHL id is that of its turn
Instants == 0..MaxNow
NoSlot == "no slot"
NoRef == 0
None == [slot |-> NoSlot, status |-> "none"]
Nothing == [kind |-> "none", slot |-> NoSlot]
Wishes == [kind : {"book", "move"}, slot : Slots] \union [kind : {"cancel"}, slot : {NoSlot}]
Rows == [slot : Slots, status : {"booked", "cancelled"}] \union {None}

VARIABLES
  time,
  linked,      \* GHL is connected and has a calendar
  \* GHL
  crm,
  maker,       \* who made the appointment
  \* the database
  claimed_at,  \* leads.meta booking_action_claimed_at, 0 for none
  lock,        \* whose transaction holds the lead's row
  mirror,      \* appointments
  \* turns and requests
  apc,
  want,        \* kind and slot
  since,       \* the start of the transaction
  ref,         \* the appointment the actor has made or found
  loaded,      \* its row as it was read
  tries,
  outcome,     \* what the customer or the person is told
  \* the poll
  poll,        \* the events it has read, by id
  \* history
  lost,        \* actors of whom GHL did what it did not confirm
  hurt,        \* actors whose transaction or write of a row failed
  ended,       \* appointments that somebody cancelled
  edits, faults

actors == <<apc, want, since, ref, loaded, tries, outcome>>
bookingVars == <<time, linked, crm, maker, claimed_at, lock, mirror, actors, poll,
                 lost, hurt, ended, edits, faults>>

NoPoll == [n \in {} |-> None]

BookingTypeOK ==
  /\ time \in Instants
  /\ linked \in BOOLEAN
  /\ crm \in [Apps -> [slot : Slots \union {NoSlot}, status : {"none", "booked", "cancelled", "deleted"}]]
  /\ maker \in [Apps -> Actors \union {"none", "hand"}]
  /\ claimed_at \in Instants
  /\ lock \in SUBSET Turns
  /\ mirror \in [Refs -> Rows]
  /\ apc \in [Actors -> {"idle", "waiting", "calling", "answered", "done"}]
  /\ want \in [Actors -> Wishes \union {Nothing}]
  /\ since \in [Actors -> Instants]
  /\ ref \in [Actors -> Refs \union {NoRef}]
  /\ loaded \in [Actors -> Rows]
  /\ tries \in [Actors -> 0..MaxTries]
  /\ outcome \in [Actors -> {"none", "skipped", "ask", "booked", "saved", "local", "taken",
                             "error", "ok", "failed", "raised", "silent"}]
  /\ lost \in SUBSET Actors
  /\ hurt \in SUBSET Actors
  /\ ended \in SUBSET Refs

BookingInit ==
  /\ time = 1
  /\ linked \in BOOLEAN
  /\ crm = [n \in Apps |-> None]
  /\ maker = [n \in Apps |-> "none"]
  /\ claimed_at = 0
  /\ lock = {}
  /\ mirror = [r \in Refs |-> None]
  /\ apc = [a \in Actors |-> "idle"]
  /\ want = [a \in Actors |-> Nothing]
  /\ since = [a \in Actors |-> 0]
  /\ ref = [a \in Actors |-> NoRef]
  /\ loaded = [a \in Actors |-> None]
  /\ tries = [a \in Actors |-> 0]
  /\ outcome = [a \in Actors |-> "none"]
  /\ poll = NoPoll
  /\ lost = {}
  /\ hurt = {}
  /\ ended = {}
  /\ edits = 0
  /\ faults = 0

-----------------------------------------------------------------------------
(* A turn begins, and claims the lead. *)

\* Two turns of a burst decide on their actions independently.
Open(t) ==
  /\ apc[t] = "idle"
  /\ \E w \in Wishes : want' = [want EXCEPT ![t] = w]
  /\ apc' = [apc EXCEPT ![t] = "waiting"]
  /\ since' = [since EXCEPT ![t] = time]
  /\ UNCHANGED <<time, linked, crm, maker, claimed_at, lock, mirror, ref, loaded, tries, outcome,
                 poll, lost, hurt, ended, edits, faults>>

\* Mutant: the claim is read without waiting for the row.
RowFreeAlways == TRUE

\* The UPDATE waits for the transaction that holds the row.
RowFree == lock = {}

\* claim_booking_action: now() is the start of the transaction.
ClaimFree(t) == claimed_at = 0 \/ since[t] - claimed_at > Window

\* list_upcoming_for_lead.
Upcoming == {r \in Refs : mirror[r].status = "booked"}

\* What the claimed turn goes on with: to a call, or straight to its answer.
Go(t, next, r, answer) ==
  /\ lock' = {t}
  /\ apc' = [apc EXCEPT ![t] = next]
  /\ ref' = [ref EXCEPT ![t] = r]
  /\ loaded' = [loaded EXCEPT ![t] = IF r = NoRef THEN None ELSE mirror[r]]
  /\ outcome' = [outcome EXCEPT ![t] = answer]
  /\ UNCHANGED want

\* The claim is lost to another turn: nothing is written and nothing said.
Skip(t) ==
  /\ apc' = [apc EXCEPT ![t] = "done"]
  /\ outcome' = [outcome EXCEPT ![t] = "skipped"]
  /\ want' = [want EXCEPT ![t] = Nothing]
  /\ UNCHANGED <<lock, ref, loaded>>

\* book_slot: without a valid service it asks for one, without GHL it saves a row.
StartBook(t) ==
  \/ Go(t, "answered", NoRef, "ask")
  \/ IF linked THEN Go(t, "calling", NoRef, "none") ELSE Go(t, "answered", NoRef, "local")

\* reschedule_slot, cancel_slot: of the only appointment there is.
StartChange(t) ==
  IF Cardinality(Upcoming) # 1 THEN Go(t, "answered", NoRef, "ask")
  ELSE \E r \in Upcoming :
         IF r \in Turns THEN Go(t, "answered", r, "ok")
         ELSE IF linked THEN Go(t, "calling", r, "none")
         ELSE Go(t, "answered", NoRef, "failed")

Claim(t) ==
  /\ apc[t] = "waiting"
  /\ RowFree
  /\ IF ~ClaimFree(t) THEN Skip(t)
     ELSE IF want[t].kind = "book" THEN StartBook(t) ELSE StartChange(t)
  /\ UNCHANGED <<time, linked, crm, maker, claimed_at, mirror, since, tries, poll, lost, hurt,
                 ended, edits, faults>>

\* The agenda's request: of any row, whatever its status.
Request(o) ==
  /\ apc[o] = "idle"
  /\ edits < MaxEdits
  /\ edits' = edits + 1
  /\ \E r \in {q \in Refs : mirror[q] # None}, w \in {v \in Wishes : v.kind # "book"} :
       /\ want' = [want EXCEPT ![o] = w]
       /\ ref' = [ref EXCEPT ![o] = r]
       /\ loaded' = [loaded EXCEPT ![o] = mirror[r]]
       /\ IF r \in Apps
          THEN apc' = [apc EXCEPT ![o] = "calling"] /\ UNCHANGED outcome
          ELSE /\ apc' = [apc EXCEPT ![o] = "answered"]
               /\ outcome' = [outcome EXCEPT ![o] = "ok"]
  /\ UNCHANGED <<time, linked, crm, maker, claimed_at, lock, mirror, since, tries, poll, lost,
                 hurt, ended, faults>>

-----------------------------------------------------------------------------
(* The calls to GHL. *)

Taken(slot) == \E n \in Apps : crm[n].status = "booked" /\ crm[n].slot = slot
Unused == {n \in Apps : crm[n] = None}

\* What GHL does when it does what it is asked, and for which appointment.
Done(a, n) ==
  CASE want[a].kind = "book" ->
         /\ ~Taken(want[a].slot)
         /\ n \in Unused
         /\ crm' = [crm EXCEPT ![n] = [slot |-> want[a].slot, status |-> "booked"]]
         /\ maker' = [maker EXCEPT ![n] = a]
         /\ UNCHANGED ended
    [] want[a].kind = "move" ->
         /\ n = ref[a]
         /\ crm[n].status = "booked"
         /\ crm[n].slot = want[a].slot \/ ~Taken(want[a].slot)
         /\ crm' = [crm EXCEPT ![n].slot = want[a].slot]
         /\ UNCHANGED <<maker, ended>>
    [] OTHER ->
         /\ n = ref[a]
         /\ crm[n].status \in {"booked", "cancelled"}
         /\ crm' = [crm EXCEPT ![n].status = "deleted"]
         /\ ended' = ended \union {n}
         /\ UNCHANGED maker

\* Mutant: a call that fails after the booking is taken for a failed booking.
ReportedError(a) == IF want[a].kind = "book" THEN "error" ELSE "ok"

Reported(a) == IF want[a].kind = "book" THEN "booked" ELSE "ok"

CallDone(a) ==
  /\ apc[a] = "calling"
  /\ \E n \in Apps :
       /\ Done(a, n)
       /\ ref' = [ref EXCEPT ![a] = n]
  /\ apc' = [apc EXCEPT ![a] = "answered"]
  /\ outcome' = [outcome EXCEPT ![a] = Reported(a)]
  /\ UNCHANGED <<time, linked, claimed_at, lock, mirror, want, since, loaded, tries, poll, lost,
                 hurt, edits, faults>>

\* What the last of the attempts comes to: _is_slot_conflict for 4xx; httpx raises
\* what no handler of IntegrationError catches.
LastAnswer(a, answer) ==
  CASE answer = "timeout" -> IF want[a].kind = "book" THEN "raised" ELSE "silent"
    [] want[a].kind # "book" -> "failed"
    [] answer = "conflict" -> "taken"
    [] OTHER -> "error"

\* An attempt without success: the client tries again, and then gives up.
Attempted(a, answer) ==
  /\ tries' = [tries EXCEPT ![a] = @ + 1]
  /\ IF tries'[a] < MaxTries THEN UNCHANGED <<apc, outcome>>
     ELSE /\ apc' = [apc EXCEPT ![a] = "answered"]
          /\ outcome' = [outcome EXCEPT ![a] = LastAnswer(a, answer)]

\* GHL refuses what it cannot do.  (A calendar is full at MaxApps.)
CallRefused(a) ==
  /\ apc[a] = "calling"
  /\ IF want[a].kind = "cancel" THEN crm[ref[a]].status = "deleted"
     ELSE \/ Taken(want[a].slot)
          \/ want[a].kind = "book" /\ Unused = {}
          \/ want[a].kind = "move" /\ crm[ref[a]].status # "booked"
  /\ Attempted(a, "conflict")
  /\ UNCHANGED <<time, linked, crm, maker, claimed_at, lock, mirror, want, since, ref, loaded,
                 poll, lost, hurt, ended, edits, faults>>

\* A time-out or an error of the server, before or after GHL has done it.
CallErrs(a) ==
  /\ apc[a] = "calling"
  /\ faults < MaxFaults
  /\ faults' = faults + 1
  /\ \E answer \in {"timeout", "server"} : Attempted(a, answer)
  /\ \/ UNCHANGED <<crm, maker, lost, ended>>
     \/ /\ \E n \in Apps : Done(a, n)
        /\ lost' = lost \union {a}
  /\ UNCHANGED <<time, linked, claimed_at, lock, mirror, want, since, ref, loaded, poll, hurt,
                 edits>>

-----------------------------------------------------------------------------
(* The end of the transaction. *)

\* What the transaction knew goes with it.
Finish(a, answer) ==
  /\ apc' = [apc EXCEPT ![a] = "done"]
  /\ outcome' = [outcome EXCEPT ![a] = answer]
  /\ want' = [want EXCEPT ![a] = Nothing]
  /\ loaded' = [loaded EXCEPT ![a] = None]
  /\ tries' = [tries EXCEPT ![a] = 0]
  /\ lock' = lock \ {a}

\* release_booking_claim after booking_error; every other outcome keeps the claim.
Released(a) == IF outcome[a] = "error" THEN 0 ELSE since[a]

NewRow(a) == [slot |-> want[a].slot, status |-> "booked"]

\* The columns whose value is not the one that was read.
Changed(a) ==
  IF want[a].kind = "cancel"
  THEN IF loaded[a].status = "cancelled" THEN mirror[ref[a]]
       ELSE [mirror[ref[a]] EXCEPT !.status = "cancelled"]
  ELSE [slot |-> IF loaded[a].slot = want[a].slot THEN mirror[ref[a]].slot ELSE want[a].slot,
        status |-> IF loaded[a].status = "booked" THEN mirror[ref[a]].status ELSE "booked"]

\* The unique key of the row meets the one that the poll has inserted.
Clash(a) == outcome[a] = "booked" /\ mirror[ref[a]] # None

\* Mutant: what GHL could not book is not kept in the agenda.
WrittenNoFallback(a) ==
  CASE outcome[a] = "booked" -> [mirror EXCEPT ![ref[a]] = NewRow(a)]
    [] outcome[a] = "local" -> [mirror EXCEPT ![a] = NewRow(a)]
    [] outcome[a] = "ok" -> [mirror EXCEPT ![ref[a]] = Changed(a)]
    [] OTHER -> mirror

\* The rows that the transaction leaves.
Written(a) ==
  CASE outcome[a] = "booked" -> [mirror EXCEPT ![ref[a]] = NewRow(a)]
    [] outcome[a] \in {"local", "error"} -> [mirror EXCEPT ![a] = NewRow(a)]
    [] outcome[a] = "ok" -> [mirror EXCEPT ![ref[a]] = Changed(a)]
    [] OTHER -> mirror

Commit(a) ==
  /\ apc[a] = "answered"
  /\ outcome[a] \notin {"raised", "silent"}
  /\ ~Clash(a)
  /\ mirror' = Written(a)
  /\ claimed_at' = IF a \in Turns THEN Released(a) ELSE claimed_at
  /\ ended' = IF outcome[a] = "ok" /\ want[a].kind = "cancel" THEN ended \union {ref[a]} ELSE ended
  /\ Finish(a, IF outcome[a] = "error" THEN "saved" ELSE outcome[a])
  /\ UNCHANGED <<time, linked, crm, maker, since, ref, poll, lost, hurt,
                 edits, faults>>

\* The write of the row fails within its savepoint: of a booking without GHL the
\* customer hears the same as ever.
RowFails(a) ==
  /\ apc[a] = "answered"
  /\ outcome[a] \in {"local", "error"}
  /\ faults < MaxFaults
  /\ faults' = faults + 1
  /\ claimed_at' = Released(a)
  /\ hurt' = hurt \union {a}
  /\ Finish(a, IF outcome[a] = "local" THEN "local" ELSE "failed")
  /\ UNCHANGED <<time, linked, crm, maker, mirror, since, ref, poll, lost,
                 ended, edits>>

\* An exception: the transaction is undone, GHL is not.
Rollback(a) ==
  /\ apc[a] = "answered"
  /\ outcome[a] \in {"raised", "silent"} \/ Clash(a)
  /\ hurt' = hurt \union {a}
  /\ Finish(a, IF outcome[a] = "silent" THEN "silent" ELSE "raised")
  /\ UNCHANGED <<time, linked, crm, maker, claimed_at, mirror, since, ref,
                 poll, lost, ended, edits, faults>>

\* The process dies: nobody is told anything.
Die(a) ==
  /\ apc[a] \in {"calling", "answered"}
  /\ faults < MaxFaults
  /\ faults' = faults + 1
  /\ hurt' = hurt \union {a}
  /\ Finish(a, "silent")
  /\ UNCHANGED <<time, linked, crm, maker, claimed_at, mirror, since, ref,
                 poll, lost, ended, edits>>

-----------------------------------------------------------------------------
(* sync_appointments, and the people who work in GHL. *)

\* Mutant: what was deleted is listed too.
ListedAll == {n \in Apps : crm[n].status # "none"}

\* A deleted event is in no list.
Listed == {n \in Apps : crm[n].status \in {"booked", "cancelled"}}

PollRead ==
  /\ linked
  /\ poll = NoPoll
  /\ Listed # {}
  /\ poll' = [n \in Listed |-> crm[n]]
  /\ UNCHANGED <<time, linked, crm, maker, claimed_at, lock, mirror, actors, lost, hurt, ended,
                 edits, faults>>

\* Mutant: DO NOTHING on the rows that are there.
UpsertNew(r) == IF mirror[r] = None THEN poll[r] ELSE mirror[r]

\* upsert_by_ghl_id.
Upsert(r) == poll[r]

PollWrite ==
  /\ poll # NoPoll
  /\ mirror' = [r \in Refs |-> IF r \in DOMAIN poll THEN Upsert(r) ELSE mirror[r]]
  /\ poll' = NoPoll
  /\ UNCHANGED <<time, linked, crm, maker, claimed_at, lock, actors, lost, hurt, ended, edits,
                 faults>>

PollDies ==
  /\ poll # NoPoll
  /\ faults < MaxFaults
  /\ faults' = faults + 1
  /\ poll' = NoPoll
  /\ UNCHANGED <<time, linked, crm, maker, claimed_at, lock, mirror, actors, lost, hurt, ended,
                 edits>>

\* An appointment is made, moved, cancelled or deleted by hand.
Edit(n) ==
  /\ linked
  /\ edits < MaxEdits
  /\ edits' = edits + 1
  /\ \/ /\ crm[n] = None
        /\ \E slot \in Slots : ~Taken(slot) /\ crm' = [crm EXCEPT ![n] = [slot |-> slot, status |-> "booked"]]
        /\ maker' = [maker EXCEPT ![n] = "hand"]
        /\ UNCHANGED ended
     \/ /\ crm[n].status = "booked"
        /\ \E slot \in Slots : ~Taken(slot) /\ crm' = [crm EXCEPT ![n].slot = slot]
        /\ UNCHANGED <<maker, ended>>
     \/ /\ crm[n].status = "booked"
        /\ \E status \in {"cancelled", "deleted"} : crm' = [crm EXCEPT ![n].status = status]
        /\ ended' = ended \union {n}
        /\ UNCHANGED maker
  /\ UNCHANGED <<time, linked, claimed_at, lock, mirror, actors, poll, lost, hurt, faults>>

\* Only a turn that begins looks at the clock.
Pass ==
  /\ time < MaxNow
  /\ \E t \in Turns : apc[t] = "idle"
  /\ time' = time + 1
  /\ UNCHANGED <<linked, crm, maker, claimed_at, lock, mirror, actors, poll, lost, hurt, ended,
                 edits, faults>>

-----------------------------------------------------------------------------

BookingNext ==
  \/ Pass \/ PollRead \/ PollWrite \/ PollDies
  \/ \E n \in Apps : Edit(n)
  \/ \E t \in Turns : Open(t) \/ Claim(t) \/ RowFails(t)
  \/ \E o \in Operators : Request(o)
  \/ \E a \in Actors :
       CallDone(a) \/ CallRefused(a) \/ CallErrs(a) \/ Commit(a) \/ Rollback(a) \/ Die(a)

BookingSpec == BookingInit /\ [][BookingNext]_bookingVars

\* A call is answered at last, a transaction ends, the cron polls.  (One turn at a
\* time holds the lead's row, and only that one has a step.)
ActorStep(a) == CallDone(a) \/ CallRefused(a) \/ CallErrs(a) \/ Commit(a) \/ Rollback(a)
TurnStep == \E t \in Turns : ActorStep(t)

BookingFairness ==
  /\ WF_bookingVars(TurnStep)
  /\ \A o \in Operators : WF_bookingVars(ActorStep(o))
  /\ WF_bookingVars(PollRead \/ PollWrite)

BookingFairSpec == BookingSpec /\ BookingFairness

-----------------------------------------------------------------------------
(* Properties. *)

Confirmed(t) == outcome[t] \in {"booked", "local"} /\ apc[t] = "done"

\* A turn after the burst of t has taken its claim over and released it, with a booking
\* that failed in GHL: nothing tells a straggler of the burst any more.
Forgotten(t) ==
  \E v \in Turns :
    /\ since[v] - since[t] > Window
    /\ outcome[v] = "saved" \/ (outcome[v] = "failed" /\ v \in hurt)

\* Two turns of one burst end in one confirmation, in whatever order they open,
\* claim and commit (claim_booking_action), unless the claim was forgotten.
OneConfirmationPerBurst ==
  \A t, u \in Turns :
    t # u /\ Confirmed(t) /\ Confirmed(u) =>
      since[t] - since[u] \notin -Window..Window \/ Forgotten(t) \/ Forgotten(u)

\* Not so: three turns, of which the last releases what it took over, make two.
OneConfirmationInAll ==
  \A t, u \in Turns :
    t # u /\ Confirmed(t) /\ Confirmed(u) => since[t] - since[u] \notin -Window..Window

\* A confirmed appointment is on the agenda and stays there until somebody cancels
\* it, whatever polls and changes pass over it.
ConfirmedIsKept ==
  \A t \in Turns \ hurt :
    outcome[t] \in {"booked", "local", "saved"} /\ apc[t] = "done"
      => LET r == IF outcome[t] = "booked" THEN ref[t] ELSE t IN
         /\ mirror[r] # None
         /\ mirror[r].status = "booked" \/ r \in ended

\* An appointment in GHL of which its customer knows nothing has lost its answer or
\* its transaction.
NoneUnannounced ==
  \A n \in Apps, t \in Turns :
    maker[n] = t /\ apc[t] = "done" => outcome[t] = "booked" \/ t \in lost \union hurt

\* One request fills one row, unless the answer was lost or GHL made two.
OneRowPerRequest ==
  \A n \in Apps, t \in Turns :
    maker[n] = t /\ mirror[n] # None /\ mirror[t] # None => t \in lost

\* What the customer was told, the agenda and GHL go together, whatever turns,
\* requests, polls, lost answers and processes that die are interleaved.
BookingSafe ==
  BookingTypeOK /\ OneConfirmationPerBurst /\ ConfirmedIsKept /\ NoneUnannounced /\ OneRowPerRequest

\* When GHL, the turns and the requests come to rest, the agenda shows what GHL lists.
AgendaConverges ==
  <>[](linked => \A n \in Listed : mirror[n] = crm[n])

=============================================================================
