------------------------------ MODULE IdleSweeps ------------------------------
(***************************************************************************)
(* The sweeps over silent threads, for one lead and its conversation:      *)
(* followup_no_answer and reactivate_dormant_leads emit an event once per  *)
(* silence, on which the automations run, and close_idle_conversations     *)
(* closes the thread.                                                      *)
(*                                                                         *)
(* A silence has an anchor, the lead's last message.  The sweeps stamp it  *)
(* in the meta column of the conversation (per automation) and of the lead.*)
(* Whoever rewrites such a column from a copy undoes a stamp placed after  *)
(* the copy was read.                                                      *)
(***************************************************************************)
EXTENDS Integers, FiniteSets

CONSTANTS Automations,   \* no_answer automations of the merchant
          Filtered,      \* those with a source_template_id
          Delay,         \* delay_minutes, in ticks of the no-answer cron
          CloseAfter,    \* conversation.idle_close_minutes
          Grace,         \* _FOLLOWUP_GRACE_MINUTES
          DormantAfter,  \* days of the lead_dormant automation
          MaxTick,       \* bound: the ticks of the model
          MaxActs        \* bound: messages, switches, rewrites and cuts

\* _delay_minutes: a delay is positive, or the default.
ASSUME IdleAssumption ==
  /\ Delay \in [Automations -> Nat \ {0}]
  /\ {Grace, MaxTick} \subseteq Nat \ {0}
  /\ {CloseAfter, DormantAfter, MaxActs} \subseteq Nat
  /\ "lead_dormant" \notin Automations

Dormant == "lead_dormant"
Triggers == Automations \union {Dormant}
Ticks == 0..MaxTick

VARIABLES
  tick,
  acts,
  \* the conversation and the lead
  status,
  last_in,       \* last_inbound_at, 0 for never
  last_msg,      \* last_message_at
  from_template, \* the last message out was the template of the filters
  attended,         \* auto_reply is off, or a handoff is open
  opted_out,
  fired,         \* no_answer_fired_for and dormant_fired_for
  \* the merchant
  switched_on,
  \* the sweeps
  snap,          \* the candidate an emitting sweep has scanned
  lag,           \* ticks since the last no-answer sweep that was not cut short
  \* a rewriter of a meta column, and the stamps it has read
  rewriter,
  copied,
  \* the runs
  due,           \* events with their anchor
  \* history
  emitted,       \* per trigger and anchor
  undone,     \* triggers of which a stamp was undone
  steady         \* the last tick of a change that is not a message

silent_thread == <<status, last_in, last_msg, from_template, attended, opted_out>>
idleVars == <<tick, acts, silent_thread, fired, switched_on, snap, lag, rewriter, copied, due,
              emitted, undone, steady>>

Sweeps == {"silence", "dormancy"}
NoSnap == [sweep |-> "none"]
Started == 1  \* started_at, and the lead's created_at

IdleTypeOK ==
  /\ tick \in Ticks
  /\ status \in {"active", "closed"}
  /\ {last_in, last_msg, steady} \subseteq Ticks
  /\ from_template \in BOOLEAN /\ attended \in BOOLEAN /\ opted_out \in BOOLEAN
  /\ fired \in [Triggers -> Ticks]
  /\ switched_on \in SUBSET Triggers
  /\ acts \in 0..MaxActs
  /\ snap.sweep \in Sweeps \union {"none"}
  /\ lag \in 0..Grace
  /\ rewriter \in {"none", "conversation", "lead"}
  /\ copied \in [Triggers -> Ticks]
  /\ due \in SUBSET (Triggers \X Ticks)
  /\ emitted \in [Triggers \X Ticks -> Nat]
  /\ undone \in SUBSET Triggers

IdleInit ==
  /\ tick = Started
  /\ status = "active"
  /\ last_in = 0
  /\ last_msg = 0
  /\ from_template = FALSE
  /\ attended = FALSE
  /\ opted_out = FALSE
  /\ fired = [t \in Triggers |-> 0]
  /\ switched_on = Triggers
  /\ acts = 0
  /\ snap = NoSnap
  /\ lag = 0
  /\ rewriter = "none"
  /\ copied = [t \in Triggers |-> 0]
  /\ due = {}
  /\ emitted = [e \in Triggers \X Ticks |-> 0]
  /\ undone = {}
  /\ steady = 0

-----------------------------------------------------------------------------
(* Messages and switches. *)

Act == acts < MaxActs /\ acts' = acts + 1

\* The lead writes; a closed thread is reopened.  A STOP opts the lead out.
Inbound(stop) ==
  /\ Act
  /\ last_in < tick
  /\ last_in' = tick
  /\ last_msg' = tick
  /\ steady' = IF status = "closed" THEN tick ELSE steady
  /\ status' = "active"
  /\ opted_out' = (opted_out \/ stop)
  /\ UNCHANGED <<tick, from_template, attended, fired, switched_on, snap, lag, rewriter,
                 copied, due, emitted, undone>>

\* The merchant's side writes by hand, or a first contact goes out.
Outbound(template) ==
  /\ Act
  /\ last_msg < tick
  /\ last_msg' = tick
  /\ from_template' = template
  /\ UNCHANGED <<tick, status, last_in, attended, opted_out, fired, switched_on, snap,
                 lag, rewriter, copied, due, emitted, undone, steady>>

Switch ==
  /\ Act
  /\ steady' = tick
  /\ \/ attended' = ~attended /\ UNCHANGED switched_on
     \/ \E t \in Triggers :
          /\ switched_on' = IF t \in switched_on THEN switched_on \ {t} ELSE switched_on \union {t}
          /\ UNCHANGED attended
  /\ UNCHANGED <<tick, status, last_in, last_msg, from_template, opted_out, fired, snap, lag,
                 rewriter, copied, due, emitted, undone>>

-----------------------------------------------------------------------------
(* The emitting sweeps.  They share no stamp: one is under way at a time. *)

\* list_reminder_candidates.
ReminderCandidate == last_msg # 0 /\ ~attended /\ status = "active"

\* list_reactivation_candidates: of whatever status, but never after a STOP.
ReactivationCandidate == last_msg # 0 /\ ~attended /\ ~opted_out

\* What the scan of either cron returns.
Candidate(w) == IF w = "silence" THEN ReminderCandidate ELSE ReactivationCandidate

\* The no-answer cron runs at every tick, the dormancy cron now and then.
Scan(w) ==
  /\ snap = NoSnap
  /\ w = "silence" => lag > 0
  /\ lag' = IF w = "silence" /\ ~Candidate(w) THEN 0 ELSE lag
  /\ IF Candidate(w)
     THEN snap' = [sweep |-> w, tick |-> tick, last_in |-> last_in, last_msg |-> last_msg,
                   from_template |-> from_template, fired |-> fired]
     ELSE UNCHANGED snap
  /\ UNCHANGED <<acts, tick, silent_thread, fired, switched_on, rewriter, copied, due, emitted,
                 undone, steady>>

\* Mutant: the silence is anchored to the last message of either side.
AnchorMoves(c) == c.last_msg

\* Mutant: the stamp is the time at which the margin of the sweep ends.
AnchorAhead(c) == c.tick + Grace

\* _episode_anchor.
Anchor(c) == IF c.last_in # 0 THEN c.last_in ELSE Started

\* Mutant: one stamp for all the automations of a thread.
AlreadyFiredByAny(c, t) == \E u \in Triggers : c.fired[u] >= Anchor(c)

\* _already_fired.
AlreadyFired(c, t) == c.fired[t] >= Anchor(c)

\* _maybe_emit of the dormancy cron: the threshold of the enabled automations.
DormantFor(c) == c.tick - c.last_msg >= DormantAfter

Ripe(c, t) ==
  IF t = Dormant
  THEN DormantFor(c)
  ELSE /\ c.tick - c.last_msg >= Delay[t]
       /\ t \in Filtered => c.from_template  \* _source_matches

Listeners == switched_on \intersect (IF snap.sweep = "silence" THEN Automations ELSE {Dormant})

\* _maybe_emit: one transaction, over the snapshot but for the enabled automations.
Emit ==
  /\ snap # NoSnap
  /\ LET c == snap
         firing == {t \in Listeners : Ripe(c, t) /\ ~AlreadyFired(c, t)}
     IN /\ fired' = [t \in Triggers |-> IF t \in firing THEN Anchor(c) ELSE fired[t]]
        /\ due' = due \union {<<t, Anchor(c)>> : t \in firing}
        /\ emitted' = [e \in DOMAIN emitted |->
             IF e[1] \in firing /\ e[2] = Anchor(c) THEN emitted[e] + 1 ELSE emitted[e]]
  /\ snap' = NoSnap
  /\ lag' = IF snap.sweep = "silence" THEN 0 ELSE lag
  /\ UNCHANGED <<acts, tick, silent_thread, switched_on, rewriter, copied, undone, steady>>

\* A sweep is cut short; the next one comes with the next tick.
SweepCut ==
  /\ Act
  /\ snap # NoSnap
  /\ snap' = NoSnap
  /\ UNCHANGED <<tick, silent_thread, fired, switched_on, lag, rewriter, copied, due, emitted,
                 undone, steady>>

-----------------------------------------------------------------------------
(* close_idle_conversations. *)

\* Mutant: the shortest delay, not the longest.
FollowUpFloorMin ==
  {Delay[t] + Grace : t \in {u \in switched_on \intersect Automations :
     \A v \in switched_on \intersect Automations : Delay[u] <= Delay[v]}}

\* followup_floor_by_merchant, for every delay: the longest one decides.
FollowUpFloor == {Delay[t] + Grace : t \in switched_on \intersect Automations}

\* The thread is closed, whoever owns it.
Close ==
  /\ status = "active"
  /\ last_msg # 0
  /\ \A floor \in FollowUpFloor \union {CloseAfter} : tick - last_msg >= floor
  /\ status' = "closed"
  /\ UNCHANGED <<acts, tick, last_in, last_msg, from_template, attended, opted_out, fired, switched_on,
                 snap, lag, rewriter, copied, due, emitted, undone, steady>>

-----------------------------------------------------------------------------
(* Rewriters of a meta column: _ghl_summary with its call of a model in between,
   merge_content_signals. *)

Stamps(column) == IF column = "lead" THEN {Dormant} ELSE Automations

ReadMeta(column) ==
  /\ Act
  /\ rewriter = "none"
  /\ rewriter' = column
  /\ copied' = fired
  /\ UNCHANGED <<tick, silent_thread, fired, switched_on, snap, lag, due, emitted, undone, steady>>

WriteMeta ==
  /\ rewriter # "none"
  /\ fired' = [t \in Triggers |-> IF t \in Stamps(rewriter) THEN copied[t] ELSE fired[t]]
  /\ undone' = undone \union {t \in Stamps(rewriter) : copied[t] # fired[t]}
  /\ rewriter' = "none"
  /\ copied' = [t \in Triggers |-> 0]
  /\ UNCHANGED <<acts, tick, silent_thread, switched_on, snap, lag, due, emitted, steady>>

-----------------------------------------------------------------------------

\* Mutant: the guard of ADR 0015 is left out.
EpisodeEndedNever(anchor) == FALSE

EpisodeEnded(anchor) == last_in > anchor

\* automation_run of an event.
Run(t, anchor) ==
  /\ <<t, anchor>> \in due
  /\ due' = due \ {<<t, anchor>>}
  /\ IF t \notin switched_on \/ EpisodeEnded(anchor) \/ attended
     THEN UNCHANGED <<last_msg, from_template>>
     ELSE /\ last_msg' = tick
          /\ from_template' \in BOOLEAN
  /\ UNCHANGED <<acts, tick, status, last_in, attended, opted_out, fired, switched_on, snap, lag,
                 rewriter, copied, emitted, undone, steady>>

\* A sweep lasts less than a tick, and Grace covers the ticks that go without one.
NextTick ==
  /\ tick < MaxTick
  /\ snap = NoSnap
  /\ lag < Grace
  /\ tick' = tick + 1
  /\ lag' = lag + 1
  /\ UNCHANGED <<acts, silent_thread, fired, switched_on, snap, rewriter, copied, due, emitted,
                 undone, steady>>

IdleNext ==
  \/ NextTick \/ Switch \/ Close \/ WriteMeta \/ Emit \/ SweepCut
  \/ \E b \in BOOLEAN : Inbound(b) \/ Outbound(b)
  \/ \E w \in Sweeps : Scan(w)
  \/ \E column \in {"conversation", "lead"} : ReadMeta(column)
  \/ \E t \in Triggers, anchor \in Ticks : Run(t, anchor)

IdleSpec == IdleInit /\ [][IdleNext]_idleVars

-----------------------------------------------------------------------------
(* Properties. *)

\* Although its own messages keep the thread moving, a trigger fires once for a
\* silence; a second event takes a stamp that a rewriter undid.
OneEventPerSilence ==
  \A t \in Triggers \ undone, anchor \in Ticks : emitted[<<t, anchor>>] <= 1

\* Every automation has its own delay: on a thread that is left as it is, it has
\* fired when its delay and the margin of the sweep have gone by.
FollowedUp ==
  \A t \in (switched_on \intersect Automations) \ undone :
    /\ status = "active" /\ ~attended /\ last_msg # 0
    /\ t \in Filtered => from_template
    /\ steady <= last_msg
    /\ tick - last_msg >= Delay[t] + Grace
    => fired[t] >= (IF last_in # 0 THEN last_in ELSE Started)

\* A silence is followed up by every automation, once and in time.
IdleSafe == IdleTypeOK /\ OneEventPerSilence /\ FollowedUp

\* The thread is not closed before its last follow-up (ADR 0024).
ClosedAfterFollowUps ==
  [][status = "active" /\ status' = "closed" /\ ~attended /\ steady <= last_msg
       => \A t \in (switched_on \intersect Automations) \ undone :
            (t \in Filtered => from_template)
              => fired[t] >= (IF last_in # 0 THEN last_in ELSE Started)]_idleVars

\* A message of a cadence reaches a lead who has been silent since the event and
\* whom no person looks after, however late it runs.
NudgedInSilence ==
  [][\A t \in Triggers, anchor \in Ticks :
       (<<t, anchor>> \in due \ due' /\ last_msg' # last_msg)
         => last_in <= anchor /\ ~attended]_idleVars

\* A lead who opted out gets no automatic message any more.
OptedOutLeftAlone ==
  [][opted_out => \A t \in Triggers, anchor \in Ticks :
       <<t, anchor>> \in due \ due' => last_msg' = last_msg]_idleVars

=============================================================================
