------------------------------- MODULE OffHours -------------------------------
(***************************************************************************)
(* Questions that arrive while the merchant is closed, and their answer at *)
(* the opening (ADR 0028).  The transaction that stores such a question    *)
(* leaves a marker on the conversation, off_hours_pending_at; a sweep that *)
(* runs every five minutes looks for marked conversations, and once the    *)
(* merchant is open claims one, answers all that was written since the     *)
(* marker, and clears it.  Two runs of the sweep may overlap.              *)
(*                                                                         *)
(* Timestamps are now() of the writing transaction, constant from its      *)
(* start: the transaction of a message is therefore two steps.  The notice *)
(* "we are closed" is not modelled: _send_off_hours_notice uses an         *)
(* attribute the service does not have, and swallows the exception.        *)
(***************************************************************************)
EXTENDS Integers, FiniteSets

CONSTANTS Messages,    \* inbound messages of the peer
          Sweeps,      \* runs of the sweep that may overlap
          MaxTime,     \* bound: timestamps
          MaxFaults,   \* bound: sweeps cut short
          Faults       \* which of {"send", "death"} may happen

ASSUME OffHoursAssumption ==
  /\ MaxTime \in Nat
  /\ MaxFaults \in Nat
  /\ Faults \subseteq {"send", "death"}

Times == 0..MaxTime

VARIABLES
  open,         \* the merchant is inside his response hours
  \* the conversations row
  auto_reply,   \* the bot owns the thread (Handoff)
  paused,       \* ai_disabled_until is in the future
  pending,      \* off_hours_pending_at, 0 for NULL
  resume_claim, \* meta.off_hours_resume_claimed_at: absent, or how old it is
  \* time
  clock,
  age,          \* more than a day since the last inbound, two weeks since the marker
  \* messages
  turn,         \* the job of each message
  created,      \* created_at of each message, 0 before its transaction
  human_at,     \* created_at of the last message a human sent
  \* the sweeps
  spc,          \* where each sweep is
  cand,         \* pending_since of its candidate
  batch,        \* what it is answering
  faults,
  \* history
  answers,      \* replies that took the message as their question
  resumed,      \* replies of the sweep, per marker
  ended,        \* why a sweep ended the wait of a message without a reply
  late          \* messages whose transaction overlapped a sweep or a newer one

row == <<auto_reply, paused, pending, resume_claim>>
time == <<clock, age>>
inbound == <<turn, created, late>>
sweep == <<spc, cand, batch, faults>>
hist == <<answers, resumed, ended>>
vars == <<open, row, time, inbound, human_at, sweep, hist>>

TypeOK ==
  /\ open \in BOOLEAN
  /\ auto_reply \in BOOLEAN
  /\ paused \in BOOLEAN
  /\ pending \in Times
  /\ resume_claim \in {"none", "fresh", "stale"}
  /\ clock \in Times
  /\ age \in {"hours", "days", "weeks"}
  /\ turn \in [Messages -> {"new", "open", "closed", "silent", "replying", "waiting", "done"}]
  /\ created \in [Messages -> Times]
  /\ human_at \in Times
  /\ spc \in [Sweeps -> {"idle", "scanned", "claimed", "drafting", "clearing", "releasing"}]
  /\ cand \in [Sweeps -> Times]
  /\ batch \in [Sweeps -> SUBSET Messages]
  /\ faults \in Nat
  /\ answers \in [Messages -> Nat]
  /\ resumed \in [Times -> Nat]
  /\ ended \in [Messages -> {"no", "human", "expired", "handoff"}]
  /\ late \in SUBSET Messages

Init ==
  /\ open = FALSE
  /\ auto_reply = TRUE
  /\ paused = FALSE
  /\ pending = 0
  /\ resume_claim = "none"
  /\ clock = 0
  /\ age = "hours"
  /\ turn = [m \in Messages |-> "new"]
  /\ created = [m \in Messages |-> 0]
  /\ human_at = 0
  /\ spc = [s \in Sweeps |-> "idle"]
  /\ cand = [s \in Sweeps |-> 0]
  /\ batch = [s \in Sweeps |-> {}]
  /\ faults = 0
  /\ answers = [m \in Messages |-> 0]
  /\ resumed = [p \in Times |-> 0]
  /\ ended = [m \in Messages |-> "no"]
  /\ late = {}

-----------------------------------------------------------------------------
(* A message. *)

Stored(m) == turn[m] \in {"replying", "waiting", "done"}

\* The gates but for the hours; willing is the verdict of the merchant's switch,
\* the opt-out, the automation scope and ai-pause.
WouldReply(willing) == auto_reply /\ ~paused /\ willing

\* handle_inbound_persist up to the INSERT: now() and the verdict are fixed.
Begin(m) ==
  /\ turn[m] = "new"
  /\ clock < MaxTime
  /\ clock' = clock + 1
  /\ created' = [created EXCEPT ![m] = clock + 1]
  /\ \E willing \in BOOLEAN :
       turn' = [turn EXCEPT ![m] =
                  IF ~WouldReply(willing) THEN "silent" ELSE IF open THEN "open" ELSE "closed"]
  /\ UNCHANGED <<open, row, age, late, human_at, sweep, hist>>

\* The transaction of m shares its time with a sweep or a newer message.
Overlaps(m) ==
  \/ \E s \in Sweeps : spc[s] # "idle"
  \/ \E n \in Messages : Stored(n) /\ created[n] > created[m]

\* mark_off_hours_pending: the first of a wait places the marker.
MarkPending(m) ==
  IF turn[m] = "closed" /\ pending = 0
  THEN pending' = created[m] /\ age' = "hours"
  ELSE UNCHANGED pending /\ age' = IF age = "weeks" THEN age ELSE "hours"

\* The media is stored, the marker placed, the transaction committed.
Commit(m) ==
  /\ turn[m] \in {"open", "closed", "silent"}
  /\ turn' = [turn EXCEPT ![m] =
                CASE turn[m] = "open" -> "replying"
                  [] turn[m] = "closed" -> "waiting"
                  [] OTHER -> "done"]
  /\ MarkPending(m)
  /\ late' = IF Overlaps(m) THEN late \union {m} ELSE late
  /\ UNCHANGED <<open, auto_reply, paused, resume_claim, clock, created, human_at, sweep,
                 hist>>

\* The turn of a message that came inside the hours: the marker is not looked at.
Reply(m) ==
  /\ turn[m] = "replying"
  /\ turn' = [turn EXCEPT ![m] = "done"]
  /\ \E willing \in BOOLEAN :
       answers' = [answers EXCEPT ![m] = IF WouldReply(willing) THEN @ + 1 ELSE @]
  /\ UNCHANGED <<open, row, time, created, late, human_at, sweep, resumed, ended>>

-----------------------------------------------------------------------------
(* The sweep. *)

\* list_off_hours_pending.
Scan(s) ==
  /\ spc[s] = "idle"
  /\ pending # 0
  /\ auto_reply
  /\ spc' = [spc EXCEPT ![s] = "scanned"]
  /\ cand' = [cand EXCEPT ![s] = pending]
  /\ UNCHANGED <<open, row, time, inbound, human_at, batch, faults, hist>>

\* Mutant: the claim goes, the marker's twin stays.
ClearMarkerOnly ==
  /\ pending' = 0
  /\ UNCHANGED resume_claim

\* clear_off_hours_pending: whatever the marker is by now.
Clear ==
  /\ pending' = 0
  /\ resume_claim' = "none"

\* Mutant: the message that opened the wait is left out.
InboundAfter(p) == {m \in Messages : Stored(m) /\ created[m] > p}

\* list_inbound_since.
InboundSince(p) == {m \in Messages : Stored(m) /\ created[m] >= p}

\* Mutant: only the takeover of the thread counts as a human's reply.
HumanRepliedNever(p) == FALSE

\* human_replied_since.
HumanReplied(p) == human_at > p

\* s is through with its candidate.
Leave(s) ==
  /\ spc' = [spc EXCEPT ![s] = "idle"]
  /\ cand' = [cand EXCEPT ![s] = 0]
  /\ batch' = [batch EXCEPT ![s] = {}]

\* What the sweep tells the messages of its candidate when it ends their wait.
EndWait(s, why) ==
  ended' = [m \in Messages |->
              IF m \in InboundSince(cand[s]) /\ answers[m] = 0 THEN why ELSE ended[m]]

\* The marker is over two weeks old, or free text is no longer allowed.
Expire(s) ==
  /\ spc[s] = "scanned"
  /\ \/ age = "weeks"
     \/ age = "days" /\ open /\ ~HumanReplied(cand[s])
  /\ Clear
  /\ EndWait(s, "expired")
  /\ Leave(s)
  /\ UNCHANGED <<open, auto_reply, paused, time, inbound, human_at, faults,
                 answers, resumed>>

LeaveToHuman(s) ==
  /\ spc[s] = "scanned"
  /\ age # "weeks"
  /\ open
  /\ HumanReplied(cand[s])
  /\ Clear
  /\ EndWait(s, "human")
  /\ Leave(s)
  /\ UNCHANGED <<open, auto_reply, paused, time, inbound, human_at, faults,
                 answers, resumed>>

\* Mutant: a claim is for ever.
ClaimFreeForever(p) == pending = p /\ resume_claim = "none"

\* Mutant: the marker is compared, the claim is not.
ClaimFreeAlways(p) == pending = p

\* The WHERE of claim_off_hours_resume.
ClaimFree(p) == pending = p /\ resume_claim # "fresh"

\* Nothing speaks against a resume: claim the conversation, or leave it to the
\* sweep that has.
Claim(s) ==
  /\ spc[s] = "scanned"
  /\ age = "hours"
  /\ open
  /\ ~HumanReplied(cand[s])
  /\ IF ClaimFree(cand[s])
     THEN /\ resume_claim' = "fresh"
          /\ spc' = [spc EXCEPT ![s] = "claimed"]
          /\ batch' = [batch EXCEPT ![s] = InboundSince(cand[s])]
          /\ UNCHANGED cand
     ELSE Leave(s) /\ UNCHANGED resume_claim
  /\ UNCHANGED <<open, auto_reply, paused, pending, time, inbound, human_at, faults, hist>>

StillClosed(s) ==
  /\ spc[s] = "scanned"
  /\ age # "weeks"
  /\ ~open
  /\ Leave(s)
  /\ UNCHANGED <<open, row, time, inbound, human_at, faults, hist>>

\* generate_and_send_reply reads the gates again; the hours are not among them.
Gate(s) ==
  /\ spc[s] = "claimed"
  /\ \E willing \in BOOLEAN :
       spc' = [spc EXCEPT ![s] = IF WouldReply(willing) THEN "drafting" ELSE "releasing"]
  /\ UNCHANGED <<open, row, time, inbound, human_at, cand, batch, faults, hist>>

\* The customer reads the answer to the batch of s.
Answered(s) ==
  /\ answers' = [m \in Messages |-> IF m \in batch[s] THEN answers[m] + 1 ELSE answers[m]]
  /\ resumed' = [resumed EXCEPT ![cand[s]] = @ + 1]

\* The reply goes out; it is silent when its handoff is lost to the human who
\* has taken the thread.
Resume(s) ==
  /\ spc[s] = "drafting"
  /\ spc' = [spc EXCEPT ![s] = "clearing"]
  /\ \/ Answered(s) /\ UNCHANGED ended
     \/ ~auto_reply /\ EndWait(s, "handoff") /\ UNCHANGED <<answers, resumed>>
  /\ UNCHANGED <<open, row, time, inbound, human_at, cand, batch, faults>>

ClearResumed(s) ==
  /\ spc[s] = "clearing"
  /\ Clear
  /\ Leave(s)
  /\ UNCHANGED <<open, auto_reply, paused, time, inbound, human_at, faults,
                 hist>>

\* Mutant: the release leaves a note instead of removing the key.
ReleaseNote(s) ==
  /\ spc[s] = "releasing"
  /\ resume_claim' = "released"
  /\ Leave(s)
  /\ UNCHANGED <<open, auto_reply, paused, pending, time, inbound, human_at,
                 faults, hist>>

\* release_off_hours_resume: whoever holds the claim.
Release(s) ==
  /\ spc[s] = "releasing"
  /\ resume_claim' = "none"
  /\ Leave(s)
  /\ UNCHANGED <<open, auto_reply, paused, pending, time, inbound, human_at,
                 faults, hist>>

\* The send raises: the candidate counts as failed, marker and claim stay.
SendFails(s) ==
  /\ "send" \in Faults
  /\ faults < MaxFaults
  /\ faults' = faults + 1
  /\ spc[s] = "drafting"
  /\ Leave(s)
  /\ Answered(s) \/ UNCHANGED <<answers, resumed>>
  /\ UNCHANGED <<open, row, time, inbound, human_at, ended>>

\* The job's timeout or a worker shutdown; a cron job is not run again.
Die(s) ==
  /\ "death" \in Faults
  /\ faults < MaxFaults
  /\ faults' = faults + 1
  /\ spc[s] # "idle"
  /\ Leave(s)
  /\ UNCHANGED <<open, row, time, inbound, human_at, hist>>

-----------------------------------------------------------------------------
(* Time and people. *)

\* A claim is stale after 15 minutes, the job that made it is over after 5.
ClaimGoesStale ==
  /\ resume_claim = "fresh"
  /\ \A s \in Sweeps : spc[s] \in {"idle", "scanned"}
  /\ resume_claim' = "stale"
  /\ UNCHANGED <<open, auto_reply, paused, pending, time, inbound, human_at, sweep, hist>>

\* The hours begin or end, or the merchant edits them.
HoursChange ==
  /\ open' = ~open
  /\ UNCHANGED <<row, time, inbound, human_at, sweep, hist>>

\* A day passes over the last message, or two weeks over the marker.
TimePasses ==
  /\ pending # 0
  /\ \A s \in Sweeps : spc[s] = "idle"
  /\ \/ age = "hours" /\ age' = "days"
     \/ age # "weeks" /\ age' = "weeks"
  /\ UNCHANGED <<open, row, clock, inbound, human_at, sweep, hist>>

\* A human's message gets its timestamp.
HumanWrites ==
  /\ clock < MaxTime
  /\ clock' = clock + 1
  /\ human_at' = clock + 1

\* The merchant answers from the phone: no handoff, only a pause.
PhoneEcho ==
  /\ HumanWrites
  /\ paused' = TRUE
  /\ UNCHANGED <<open, auto_reply, pending, resume_claim, age, inbound, sweep, hist>>

\* An answer from the composer takes the thread over, as the switch does.
OperatorTakesOver ==
  /\ HumanWrites \/ UNCHANGED <<clock, human_at>>
  /\ auto_reply' = FALSE
  /\ UNCHANGED <<open, paused, pending, resume_claim, age, inbound, sweep, hist>>

\* A claim and the gate are consecutive statements of one job: no pause that
\* begins in between ends in between.
NobodyAtGate == \A s \in Sweeps : spc[s] # "claimed"

PauseElapses ==
  /\ paused
  /\ NobodyAtGate
  /\ paused' = FALSE
  /\ UNCHANGED <<open, auto_reply, pending, resume_claim, time, inbound, human_at, sweep,
                 hist>>

\* ai-resume.
GiveBack ==
  /\ ~auto_reply
  /\ NobodyAtGate
  /\ auto_reply' = TRUE
  /\ paused' = FALSE
  /\ UNCHANGED <<open, pending, resume_claim, time, inbound, human_at, sweep, hist>>

-----------------------------------------------------------------------------
SweepStep(s) ==
  \/ Scan(s)
  \/ Expire(s) \/ LeaveToHuman(s) \/ Claim(s) \/ StillClosed(s)
  \/ Gate(s) \/ Resume(s) \/ ClearResumed(s) \/ Release(s)

Next ==
  \/ \E m \in Messages : Begin(m) \/ Commit(m) \/ Reply(m)
  \/ \E s \in Sweeps : SweepStep(s) \/ SendFails(s) \/ Die(s)
  \/ ClaimGoesStale \/ HoursChange \/ TimePasses
  \/ PhoneEcho \/ OperatorTakesOver \/ PauseElapses \/ GiveBack

Spec == Init /\ [][Next]_vars

\* The cron runs, its jobs go on, claims grow old.
FairSpec ==
  /\ Spec
  /\ \A s \in Sweeps : WF_vars(SweepStep(s))
  /\ WF_vars(ClaimGoesStale)

-----------------------------------------------------------------------------
(* Properties. *)

\* A question that waits: under the marker, or in the hands of a sweep.
Waits(m) ==
  \/ pending # 0 /\ created[m] >= pending
  \/ \E s \in Sweeps : spc[s] \in {"claimed", "drafting", "releasing"} /\ m \in batch[s]

\* A question asked out of hours is answered, still waits, or its wait was ended
\* for a reason; unless its transaction overlapped a sweep or a newer message.
QuestionsKept ==
  \A m \in Messages :
    turn[m] = "waiting" => answers[m] > 0 \/ Waits(m) \/ ended[m] # "no" \/ m \in late

\* The same, where the answer of a human only ends the wait of what it can have
\* answered: the question is older.
NoQuestionForgotten ==
  \A m \in Messages :
    turn[m] = "waiting" =>
      \/ answers[m] > 0 \/ Waits(m)
      \/ ended[m] \in {"expired", "handoff"} \/ human_at > created[m]
      \/ m \in late

\* The customer gets one answer to one wait, and one more for every sweep cut
\* short: overlapping sweeps do not answer the same marker twice, unless it was
\* placed under the hands of a sweep that was on another wait.
ResumedOnce ==
  \A m \in Messages : m \notin late => resumed[created[m]] <= 1 + faults

\* The opening brings one answer to a question.
OneAnswer == \A m \in Messages : answers[m] <= 1

\* No claim outlives its marker, to block the resume of another wait.
ClaimHasMarker == resume_claim # "none" => pending # 0

\* The sweep does not answer what a human has dealt with since it was asked, also
\* when he wrote between the check and the gate.
HumanNotTalkedOver ==
  [][\A s \in Sweeps : spc[s] = "claimed" /\ spc'[s] = "drafting" => ~(human_at > cand[s])]_vars

\* A wait ends: whichever sweep died with the claim, the marker is gone in the
\* end, unless the merchant is closed, a human has the thread or the gate refuses.
EventuallyResumed ==
  pending # 0 ~> \/ pending = 0
                 \/ ~open \/ ~auto_reply
                 \/ \E s \in Sweeps : spc[s] = "releasing"

=============================================================================
