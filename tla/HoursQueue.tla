------------------------------ MODULE HoursQueue ------------------------------
(***************************************************************************)
(* The automation messages held back outside of opening hours, for one     *)
(* automation, lead and node: one row of automation_hours_queue, that      *)
(* automation_run writes and flush_automation_hours_queue turns into a run *)
(* once the merchant has reopened.                                         *)
(*                                                                         *)
(* The row carries the anchor of the episode that asked for the message;   *)
(* the message is dropped when the lead has written after it.  A sweep     *)
(* scans in one transaction, claims in a second and deletes in a third,    *)
(* and sweeps overlap.  A claim is stale when its sweep is dead: a live    *)
(* one is cut off after 300 s, and a claim holds for 15 minutes.           *)
(***************************************************************************)
EXTENDS Integers, FiniteSets

CONSTANTS Sweeps,      \* sweeps that may overlap
          MaxInstant,  \* bound: episodes and replies of the lead
          MaxRows,     \* bound: rows ever inserted
          MaxLapses    \* bound: sweeps and runs cut short, keys run out

ASSUME HoursQueueAssumption == {MaxInstant, MaxRows, MaxLapses} \subseteq Nat

Ids == 1..MaxRows
Anchors == 0..MaxInstant
NoRow == [id |-> 0, anchor |-> 0, old |-> FALSE]
Rows == [id : Ids \union {0}, anchor : Anchors, old : BOOLEAN]

VARIABLES
  instant,      \* the last thing that happened to the lead
  open,         \* automation hours
  last_inbound,
  \* automation_hours_queue
  row,
  claimed_by,   \* {} or the sweep that holds the claim
  next_id,
  \* the sweeps
  sweep_at,
  sweep_row,    \* the snapshot of the scan
  \* ARQ and Redis
  resumes,      \* resumed runs in the queue
  taken,        \* rows whose run has its dedup key
  \* history
  sent_for,     \* messages, per row
  owed,         \* an episode still waits for the message
  overlapped,   \* the row was written when a sweep had it
  lapsed

sweeps == <<sweep_at, sweep_row>>
hoursVars == <<instant, open, last_inbound, row, claimed_by, next_id, sweeps,
               resumes, taken, sent_for, owed, overlapped, lapsed>>

HoursTypeOK ==
  /\ instant \in Anchors
  /\ open \in BOOLEAN
  /\ last_inbound \in Anchors
  /\ row \in Rows
  /\ claimed_by \in SUBSET Sweeps
  /\ next_id \in Ids \union {MaxRows + 1}
  /\ sweep_at \in [Sweeps -> {"idle", "scanned", "claimed", "enqueued"}]
  /\ sweep_row \in [Sweeps -> Rows]
  /\ resumes \in SUBSET (Ids \X Anchors)
  /\ taken \in SUBSET Ids
  /\ sent_for \in [Ids -> Nat]
  /\ owed \in BOOLEAN
  /\ overlapped \in BOOLEAN
  /\ lapsed \in 0..MaxLapses

HoursInit ==
  /\ instant = 0
  /\ open = FALSE
  /\ last_inbound = 0
  /\ row = NoRow
  /\ claimed_by = {}
  /\ next_id = 1
  /\ sweep_at = [s \in Sweeps |-> "idle"]
  /\ sweep_row = [s \in Sweeps |-> NoRow]
  /\ resumes = {}
  /\ taken = {}
  /\ sent_for = [i \in Ids |-> 0]
  /\ owed = FALSE
  /\ overlapped = FALSE
  /\ lapsed = 0

-----------------------------------------------------------------------------
(* The lead, the merchant, the walk. *)

\* The lead writes: the episode is over and nothing is owed.
Reply ==
  /\ instant < MaxInstant
  /\ instant' = instant + 1
  /\ last_inbound' = instant'
  /\ owed' = FALSE
  /\ UNCHANGED <<open, row, claimed_by, next_id, sweeps, resumes, taken, sent_for,
                 overlapped, lapsed>>

\* The clock, or the merchant edits the week.
Hours ==
  /\ open' = ~open
  /\ UNCHANGED <<instant, last_inbound, row, claimed_by, next_id, sweeps, resumes, taken,
                 sent_for, owed, overlapped, lapsed>>

\* Mutant: ON CONFLICT DO NOTHING.
RefreshedNot(anchor) == row.anchor

\* Mutant: an anchor that lies after its episode.
RefreshedLater(anchor) == anchor + 1

\* ON CONFLICT DO UPDATE SET episode_anchor.
Refreshed(anchor) == anchor

\* A sweep has the row and will delete it, or its run has been already.
InSweep(keys) == row.id \in keys \/ \E s \in Sweeps : sweep_row[s].id = row.id

\* enqueue: one row per automation, subject and nodes; its queued_at stays.
Upsert(anchor, keys) ==
  IF row = NoRow
  THEN /\ next_id <= MaxRows
       /\ row' = [id |-> next_id, anchor |-> anchor, old |-> FALSE]
       /\ next_id' = next_id + 1
       /\ UNCHANGED overlapped
  ELSE /\ row' = [row EXCEPT !.anchor = Refreshed(anchor)]
       /\ overlapped' = (overlapped \/ InSweep(keys))
       /\ UNCHANGED next_id

\* A walk of a new episode reaches the node: outside of hours it leaves the row.
Episode ==
  /\ instant < MaxInstant
  /\ instant' = instant + 1
  /\ IF open THEN UNCHANGED <<row, next_id, overlapped, owed>>
     ELSE Upsert(instant', taken) /\ owed' = TRUE
  /\ UNCHANGED <<open, last_inbound, claimed_by, sweeps, resumes, taken, sent_for, lapsed>>

\* _MAX_PENDING_AGE_HOURS go by.
Ages ==
  /\ row # NoRow
  /\ ~open
  /\ row' = [row EXCEPT !.old = TRUE]
  /\ UNCHANGED <<instant, open, last_inbound, claimed_by, next_id, sweeps, resumes, taken,
                 sent_for, owed, overlapped, lapsed>>

-----------------------------------------------------------------------------
(* The sweep: flush_automation_hours_queue, for the row. *)

StopSweep(s) ==
  /\ sweep_at' = [sweep_at EXCEPT ![s] = "idle"]
  /\ sweep_row' = [sweep_row EXCEPT ![s] = NoRow]

\* _scan: claimed rows are in it too.
Scan(s) ==
  /\ sweep_at[s] = "idle"
  /\ row # NoRow
  /\ sweep_at' = [sweep_at EXCEPT ![s] = "scanned"]
  /\ sweep_row' = [sweep_row EXCEPT ![s] = row]
  /\ UNCHANGED <<instant, open, last_inbound, row, claimed_by, next_id, resumes, taken,
                 sent_for, owed, overlapped, lapsed>>

Stands(s) == row # NoRow /\ row.id = sweep_row[s].id

\* DELETE ... WHERE id.
Deleted(s) ==
  /\ row' = IF Stands(s) THEN NoRow ELSE row
  /\ claimed_by' = IF Stands(s) THEN {} ELSE claimed_by

\* The row is too old: it is dropped before the hours are looked at.
Drop(s) ==
  /\ sweep_at[s] = "scanned"
  /\ sweep_row[s].old
  /\ Deleted(s)
  /\ owed' = IF Stands(s) THEN FALSE ELSE owed
  /\ StopSweep(s)
  /\ UNCHANGED <<instant, open, last_inbound, next_id, resumes, taken, sent_for,
                 overlapped, lapsed>>

\* Mutant: SELECT instead of a compare-and-swap.
ClaimWonAlways(s) == Stands(s)

\* A claim of a dead sweep is stale.
ClaimWon(s) ==
  Stands(s) /\ \A q \in claimed_by : sweep_at[q] \notin {"claimed", "enqueued"}

\* Still closed, already claimed, or claimed.
Claim(s) ==
  /\ sweep_at[s] = "scanned"
  /\ ~sweep_row[s].old
  /\ IF open /\ ClaimWon(s)
     THEN /\ claimed_by' = {s}
          /\ sweep_at' = [sweep_at EXCEPT ![s] = "claimed"]
          /\ UNCHANGED sweep_row
     ELSE StopSweep(s) /\ UNCHANGED claimed_by
  /\ UNCHANGED <<instant, open, last_inbound, row, next_id, resumes, taken, sent_for, owed,
                 overlapped, lapsed>>

\* The run is enqueued with the anchor of the scan.
EnqueueResume(s) ==
  /\ sweep_at[s] = "claimed"
  /\ resumes' = resumes \union {<<sweep_row[s].id, sweep_row[s].anchor>>}
  /\ sweep_at' = [sweep_at EXCEPT ![s] = "enqueued"]
  /\ UNCHANGED <<instant, open, last_inbound, row, claimed_by, next_id, sweep_row, taken,
                 sent_for, owed, overlapped, lapsed>>

\* Mutant: the row is deleted although its run is not out.
ReleaseDeletes(s) == Deleted(s)

\* release: the row stays.
Release(s) ==
  /\ claimed_by' = IF Stands(s) THEN {} ELSE claimed_by
  /\ UNCHANGED row

\* Redis refuses the job.
EnqueueFails(s) ==
  /\ sweep_at[s] = "claimed"
  /\ lapsed < MaxLapses
  /\ lapsed' = lapsed + 1
  /\ Release(s)
  /\ StopSweep(s)
  /\ UNCHANGED <<instant, open, last_inbound, next_id, resumes, taken, sent_for, owed, overlapped>>

DeleteRow(s) ==
  /\ sweep_at[s] = "enqueued"
  /\ Deleted(s)
  /\ StopSweep(s)
  /\ UNCHANGED <<instant, open, last_inbound, next_id, resumes, taken, sent_for, owed,
                 overlapped, lapsed>>

\* The cron is cut off; max_tries is 1.
SweepDies(s) ==
  /\ sweep_at[s] # "idle"
  /\ lapsed < MaxLapses
  /\ lapsed' = lapsed + 1
  /\ StopSweep(s)
  /\ UNCHANGED <<instant, open, last_inbound, row, claimed_by, next_id, resumes, taken,
                 sent_for, owed, overlapped>>

-----------------------------------------------------------------------------
(* The resumed run: automation_run from the node on.  A run that returns early or
   fails has its key for 300 s only, which is less than a claim takes to become
   stale: the key has gone before a second run of the row exists. *)

\* Mutant: the dedup key is that of the queue.
KeyOfQueue(id) == 1

\* offhours-resume:<row id>.
KeyOf(id) == id

\* Mutant: the guard of the episode is left out.
EpisodeEndedNever(anchor) == FALSE

EpisodeEnded(anchor) == last_inbound > anchor

Resume(id, anchor) ==
  /\ <<id, anchor>> \in resumes
  /\ resumes' = resumes \ {<<id, anchor>>}
  /\ IF KeyOf(id) \in taken
     THEN UNCHANGED <<row, next_id, taken, sent_for, owed, overlapped>>
     ELSE IF EpisodeEnded(anchor)
     THEN UNCHANGED <<row, next_id, taken, sent_for, owed, overlapped>>
     ELSE /\ taken' = taken \union {KeyOf(id)}
          /\ IF open
             THEN /\ sent_for' = [sent_for EXCEPT ![id] = @ + 1]
                  /\ owed' = FALSE
                  /\ UNCHANGED <<row, next_id, overlapped>>
             ELSE /\ Upsert(anchor, taken \union {KeyOf(id)})
                  /\ UNCHANGED <<sent_for, owed>>
  /\ UNCHANGED <<instant, open, last_inbound, claimed_by, sweeps, lapsed>>

\* The run raises: ARQ does not run it again.
ResumeFails(id, anchor) ==
  /\ <<id, anchor>> \in resumes
  /\ KeyOf(id) \notin taken
  /\ lapsed < MaxLapses
  /\ lapsed' = lapsed + 1
  /\ resumes' = resumes \ {<<id, anchor>>}
  /\ owed' = FALSE
  /\ UNCHANGED <<instant, open, last_inbound, row, claimed_by, next_id, sweeps, taken,
                 sent_for, overlapped>>

\* _DEDUP_TTL goes by: no sweep and no job is that old.
KeyRunsOut(id) ==
  /\ id \in taken
  /\ \A s \in Sweeps : sweep_row[s].id # id
  /\ \A anchor \in Anchors : <<id, anchor>> \notin resumes
  /\ lapsed < MaxLapses
  /\ lapsed' = lapsed + 1
  /\ taken' = taken \ {id}
  /\ UNCHANGED <<instant, open, last_inbound, row, claimed_by, next_id, sweeps, resumes,
                 sent_for, owed, overlapped>>

-----------------------------------------------------------------------------

HoursNext ==
  \/ Reply \/ Hours \/ Episode \/ Ages
  \/ \E s \in Sweeps :
       \/ Scan(s) \/ Drop(s) \/ Claim(s) \/ EnqueueResume(s)
       \/ EnqueueFails(s) \/ DeleteRow(s) \/ SweepDies(s)
  \/ \E id \in Ids :
       \/ \E anchor \in Anchors : Resume(id, anchor) \/ ResumeFails(id, anchor)
       \/ KeyRunsOut(id)

HoursSpec == HoursInit /\ [][HoursNext]_hoursVars

\* The cron sweeps; the worker works through its queue.
ScanStep == \E s \in Sweeps : Scan(s)
SweepStep(s) == Drop(s) \/ Claim(s) \/ EnqueueResume(s) \/ DeleteRow(s)
ResumeStep == \E id \in Ids, anchor \in Anchors : Resume(id, anchor)

HoursFairness ==
  /\ SF_hoursVars(ScanStep)
  /\ \A s \in Sweeps : WF_hoursVars(SweepStep(s))
  /\ WF_hoursVars(ResumeStep)

HoursFairSpec == HoursSpec /\ HoursFairness

-----------------------------------------------------------------------------
(* Properties. *)

\* Sweeps that overlap, fail and start again resume a row once; for a second message
\* a sweep has to die before it deletes the row and the key of its run has to run out.
OneMessagePerRow == lapsed < 2 => \A id \in Ids : sent_for[id] <= 1

\* A resumed message answers an episode that the lead has not closed, although row,
\* snapshot and job each carry a copy of its anchor.
SentToTheSilent ==
  [][\A id \in Ids :
       sent_for'[id] > sent_for[id]
         => \E anchor \in Anchors : <<id, anchor>> \in resumes /\ anchor >= last_inbound]_hoursVars

\* A message that is owed has a row, or a run that will not be taken for a
\* duplicate nor for the end of its episode, unless the row was written during a sweep.
OwedIsKept ==
  owed /\ ~overlapped =>
    \/ row # NoRow /\ row.anchor >= last_inbound
    \/ \E id \in Ids \ taken, anchor \in Anchors :
         <<id, anchor>> \in resumes /\ anchor >= last_inbound

\* The queue of the closed hours neither loses a message that is owed nor repeats one.
HoursSafe == HoursTypeOK /\ OneMessagePerRow /\ OwedIsKept

\* A merchant who is open owes nothing for long.
EventuallyResent == (owed /\ open) ~> (~owed \/ ~open \/ overlapped)

=============================================================================
