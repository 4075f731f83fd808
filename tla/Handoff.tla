------------------------------- MODULE Handoff -------------------------------
(***************************************************************************)
(* Who answers a WhatsApp thread: the bot or a human operator.             *)
(*                                                                         *)
(* One row of the conversations table is shared by the customer turns (ARQ *)
(* jobs that hold no lock while the LLM writes and while the reply goes    *)
(* over the wire), the human_handoff node of the automations, the          *)
(* operator's inbox endpoints, the phone-app echo, the idle-close sweep    *)
(* and the handoff SLA sweep.  Every action below is one committed         *)
(* transaction, or one step outside of any transaction (send, dispatch).   *)
(***************************************************************************)
EXTENDS Integers

CONSTANTS Turns,        \* inbound customer messages, one ARQ job each
          StartStates,  \* current_state a thread may start from
          FsmEnabled,   \* caps.fsm_enabled of the merchant's playbook
          MaxEpisodes,  \* bound: handoffs an operator may give back
          MaxShutdowns, \* bound: worker shutdowns that interrupt a job
          Faults,       \* which of PossibleFaults may happen
          Listening     \* may an enabled automation listen to the SLA alert?

PossibleFaults == {"send", "dispatch", "shutdown"}

(* The part of next_state that depends on no handoff action: BOOKED and    *)
(* DEAD are never written by the code, so the funnel has five steps.       *)
FunnelStep ==
  [GREETING           |-> {"GREETING", "QUALIFYING", "OBJECTION_HANDLING", "CLOSING"},
   QUALIFYING         |-> {"QUALIFYING", "PITCHING", "OBJECTION_HANDLING", "CLOSING"},
   PITCHING           |-> {"PITCHING", "OBJECTION_HANDLING", "CLOSING"},
   OBJECTION_HANDLING |-> {"OBJECTION_HANDLING", "PITCHING", "CLOSING"},
   CLOSING            |-> {"CLOSING"}]

FunnelStates ==
  {"GREETING", "QUALIFYING", "PITCHING", "OBJECTION_HANDLING", "CLOSING"}
ConvStates == FunnelStates \union {"ESCALATED"}

ASSUME HandoffAssumption ==
  /\ StartStates \subseteq FunnelStates
  /\ FsmEnabled \in BOOLEAN
  /\ MaxEpisodes \in Nat
  /\ MaxShutdowns \in Nat
  /\ Faults \subseteq PossibleFaults
  /\ Listening \subseteq BOOLEAN

Episodes == 1..(MaxEpisodes + 1)

VARIABLES
  \* the conversations row
  auto_reply,         \* BOOLEAN: the bot owns the thread
  handoff_at,         \* timestamp of the last claim, 0 for NULL
  handoff_resolved,   \* handoff_resolved_at IS NOT NULL
  current_state,      \* FSM state
  state_before,       \* meta.state_before_handoff
  sla_fired_for,      \* meta.handoff_sla_fired_for, 0 for absent
  soft_paused,        \* ai_disabled_until is in the future
  active,             \* status = 'active'
  opted_out,          \* lead.opted_out_at is set
  \* time, as far as the sweep sees it
  clock,              \* now() of the last claim: no two claims share one
  age,                \* of the last handoff, against the SLA and the 24h floor
  \* local state of the jobs
  pc,                 \* where each turn is
  captured,           \* _ReplyContext.conv_current_state, CLOSING when no turn holds one
  speaks,             \* the turn has bubbles to send
  claim,              \* the episode the turn's own transaction opened, or 0
  shutdowns,          \* worker shutdowns so far
  candidate,          \* handoff_at of the sweep's scanned candidate, or 0
  \* what the outside world has seen (history)
  episode,            \* number of the current, or next, human episode
  opened,             \* episodes opened by the software
  announced,          \* conversation.escalated events, per episode
  told,               \* handoff messages the customer received, per episode
  overdue,            \* conversation.handoff_overdue events, per handoff_at
  manual              \* handoff_at values stamped by an operator's own takeover

row  == <<auto_reply, handoff_at, handoff_resolved, current_state, state_before>>
sla  == <<sla_fired_for, age, candidate, overdue>>
turn == <<pc, captured, speaks, claim>>
hist == <<episode, opened, announced, told, manual>>
vars == <<row, sla, turn, hist, soft_paused, active, opted_out, clock, shutdowns>>

TypeOK ==
  /\ auto_reply \in BOOLEAN
  /\ handoff_at \in Nat
  /\ handoff_resolved \in BOOLEAN
  /\ current_state \in ConvStates
  /\ state_before \in ConvStates
  /\ sla_fired_for \in Nat
  /\ soft_paused \in BOOLEAN
  /\ active \in BOOLEAN
  /\ opted_out \in BOOLEAN
  /\ clock \in Nat
  /\ age \in {"fresh", "overdue", "expired"}
  /\ pc \in [Turns -> {"new", "persisted", "drafting", "sending", "dispatching", "done"}]
  /\ captured \in [Turns -> ConvStates]
  /\ speaks \in [Turns -> BOOLEAN]
  /\ claim \in [Turns -> 0..(MaxEpisodes + 1)]
  /\ shutdowns \in Nat
  /\ candidate \in Nat
  /\ episode \in Episodes
  /\ opened \in SUBSET Episodes
  /\ announced \in [Episodes -> Nat]
  /\ told \in [Episodes -> Nat]
  /\ overdue \in [Episodes -> Nat]
  /\ manual \in SUBSET Nat

Init ==
  /\ auto_reply = TRUE
  /\ handoff_at = 0
  /\ handoff_resolved = FALSE
  /\ current_state \in StartStates
  /\ state_before = current_state
  /\ sla_fired_for = 0
  /\ soft_paused = FALSE
  /\ active = TRUE
  /\ opted_out = FALSE
  /\ clock = 0
  /\ age = "fresh"
  /\ pc = [t \in Turns |-> "new"]
  /\ captured = [t \in Turns |-> "CLOSING"]
  /\ speaks = [t \in Turns |-> FALSE]
  /\ claim = [t \in Turns |-> 0]
  /\ shutdowns = 0
  /\ candidate = 0
  /\ episode = 1
  /\ opened = {}
  /\ announced = [e \in Episodes |-> 0]
  /\ told = [e \in Episodes |-> 0]
  /\ overdue = [e \in Episodes |-> 0]
  /\ manual = {}

-----------------------------------------------------------------------------
(* The transactions on the row. *)

\* Mutant: a read-check-write on a stale copy instead of the guarded UPDATE.
ClaimUnguarded == TRUE

\* WHERE auto_reply = true: the row lock serialises claimants, one matches.
ClaimWins == auto_reply

\* Mutant: the claim leaves the timestamp of the previous resolution in place.
StampKeepsResolution ==
  /\ auto_reply' = FALSE
  /\ clock' = clock + 1
  /\ handoff_at' = clock + 1
  /\ UNCHANGED handoff_resolved
  /\ state_before' = current_state
  /\ age' = "fresh"

\* The UPDATE both claims share.
StampHandoff ==
  /\ auto_reply' = FALSE
  /\ clock' = clock + 1
  /\ handoff_at' = clock + 1
  /\ handoff_resolved' = FALSE
  /\ state_before' = current_state
  /\ age' = "fresh"

\* Mutant: the bot's own claim burns the SLA anchor, as the manual one does.
ClaimBurnsAnchor ==
  /\ StampHandoff
  /\ opened' = opened \union {episode}
  /\ sla_fired_for' = clock + 1
  /\ UNCHANGED manual

\* claim_handoff: an episode opened by the software.
ClaimHandoff ==
  /\ StampHandoff
  /\ opened' = opened \union {episode}
  /\ UNCHANGED <<sla_fired_for, manual>>

\* claim_manual_handoff: the SLA anchor is burned before anyone can scan it.
ClaimManualHandoff ==
  /\ StampHandoff
  /\ sla_fired_for' = clock + 1
  /\ manual' = manual \union {clock + 1}
  /\ UNCHANGED opened

\* conversation.escalated, on the account of episode e.
Announce(e) == announced' = [announced EXCEPT ![e] = @ + 1]

\* Mutant: only auto_reply is flipped back.
StateKept == current_state

\* The FSM value a give-back leaves behind.
RestoredState ==
  IF current_state # "ESCALATED" THEN current_state
  ELSE IF state_before # "ESCALATED" THEN state_before ELSE "QUALIFYING"

\* The field set of resolve_handoff and of resume_paused_bulk.
GiveBack ==
  /\ auto_reply' = TRUE
  /\ soft_paused' = FALSE
  /\ handoff_resolved' = TRUE
  /\ current_state' = RestoredState
  /\ episode' = IF auto_reply THEN episode ELSE episode + 1
  /\ UNCHANGED <<handoff_at, state_before, sla, turn, opened, announced, told,
                 manual, active, opted_out, clock, shutdowns>>

-----------------------------------------------------------------------------
(* A customer turn. *)

\* handle_inbound_persist.  The merchant's own switches (master, staleness,
\* scope, hours) may close the gate at any time: willing is their verdict.
\* A file the bot cannot read hands the thread off and announces it at once.
InboundPersist(t) ==
  /\ pc[t] = "new"
  /\ active' = TRUE
  /\ \E stop, unreadable, willing \in BOOLEAN :
       /\ opted_out' = (opted_out \/ stop)
       /\ pc' = [pc EXCEPT ![t] =
                   IF auto_reply /\ ~soft_paused /\ ~stop /\ willing /\ ~unreadable
                   THEN "persisted" ELSE "done"]
       /\ IF unreadable /\ ClaimWins
          THEN ClaimHandoff /\ Announce(episode)
          ELSE UNCHANGED <<auto_reply, clock, handoff_at, handoff_resolved, state_before,
                           age, opened, sla_fired_for, manual, announced>>
  /\ UNCHANGED <<current_state, soft_paused, captured, speaks, claim, shutdowns,
                 candidate, overdue, episode, told>>

\* generate_and_send_reply: the gate is read again, the FSM state is captured.
ReplyGate(t) ==
  /\ pc[t] = "persisted"
  /\ \E willing \in BOOLEAN :
       IF active /\ auto_reply /\ ~soft_paused /\ ~opted_out /\ willing
       THEN /\ pc' = [pc EXCEPT ![t] = "drafting"]
            /\ captured' = [captured EXCEPT ![t] = current_state]
       ELSE /\ pc' = [pc EXCEPT ![t] = "done"]
            /\ UNCHANGED captured
  /\ UNCHANGED <<row, sla, hist, speaks, claim, soft_paused, active, opted_out, clock,
                 shutdowns>>

\* Mutant: a booking turn writes BOOKED before the calendar has answered.
NextStatesBooked(state, kinds) ==
  IF state = "ESCALATED" THEN {state}
  ELSE IF "escalate_human" \in kinds THEN {"ESCALATED"}
  ELSE FunnelStep[state] \union {"BOOKED"}

\* next_state: what the turn's actions make of the captured FSM state.
NextStates(state, kinds) ==
  IF state = "ESCALATED" THEN {state}
  ELSE IF "escalate_human" \in kinds THEN {"ESCALATED"}
  ELSE FunnelStep[state]

\* update_state: only a state that differs from the captured one is written.
UpdateState(t, kinds) ==
  IF FsmEnabled
  THEN \E new \in NextStates(captured[t], kinds) :
         current_state' = IF new = captured[t] THEN current_state ELSE new
  ELSE UNCHANGED current_state

\* The transaction that ends the LLM phase moves the turn to the wire.
Deliver(t, e, talk) ==
  /\ pc' = [pc EXCEPT ![t] = "sending"]
  /\ claim' = [claim EXCEPT ![t] = e]
  /\ speaks' = [speaks EXCEPT ![t] = talk]

\* No handoff action is left: the model asked for none, or escalation is
\* locked off.  A booking turn is silent here, its handler speaks later.
Reply(t) ==
  /\ pc[t] = "drafting"
  /\ UpdateState(t, {})
  /\ \E talk \in BOOLEAN : Deliver(t, 0, talk)
  /\ UNCHANGED <<auto_reply, handoff_at, handoff_resolved, state_before, sla, hist,
                 captured, soft_paused, active, opted_out, clock, shutdowns>>

\* Mutant: the loser of the claim is silenced but keeps its action.
LoserKeepsAction(t) ==
  /\ pc[t] = "drafting"
  /\ ~ClaimWins
  /\ UpdateState(t, {})
  /\ Deliver(t, episode, FALSE)
  /\ UNCHANGED <<auto_reply, handoff_at, handoff_resolved, state_before, sla, hist,
                 captured, soft_paused, active, opted_out, clock, shutdowns>>

\* A handoff action whose claim is lost: the turn is silent, the action dropped.
HandoffLost(t) ==
  /\ pc[t] = "drafting"
  /\ ~ClaimWins
  /\ UpdateState(t, {})
  /\ Deliver(t, 0, FALSE)
  /\ UNCHANGED <<auto_reply, handoff_at, handoff_resolved, state_before, sla, hist,
                 captured, soft_paused, active, opted_out, clock, shutdowns>>

\* A handoff action that wins: handoff_human when the model asked for it (the
\* parser normalises the name), escalate_human when the turn is the fallback
\* for a failed LLM call or an empty reply.
HandoffWon(t) ==
  /\ pc[t] = "drafting"
  /\ ClaimWins
  /\ ClaimHandoff
  /\ \E kind \in {"handoff_human", "escalate_human"} : UpdateState(t, {kind})
  /\ \E talk \in BOOLEAN : Deliver(t, episode, talk)
  /\ UNCHANGED <<candidate, overdue, episode, announced, told, captured, soft_paused,
                 active, opted_out, shutdowns>>

\* told, once the customer has read the first bubble of turn t.
Told(t) ==
  IF speaks[t] /\ claim[t] # 0 THEN [told EXCEPT ![claim[t]] = @ + 1] ELSE told

\* The bubbles are on the wire; the customer has read the handoff message.
Send(t) ==
  /\ pc[t] = "sending"
  /\ pc' = [pc EXCEPT ![t] = "dispatching"]
  /\ told' = Told(t)
  /\ UNCHANGED <<row, sla, captured, speaks, claim, episode, opened, announced, manual,
                 soft_paused, active, opted_out, clock, shutdowns>>

\* What a job holds is gone when it ends.
Forget(t) ==
  /\ claim' = [claim EXCEPT ![t] = 0]
  /\ speaks' = [speaks EXCEPT ![t] = FALSE]
  /\ captured' = [captured EXCEPT ![t] = "CLOSING"]

\* The turn is over.
Finish(t) == pc' = [pc EXCEPT ![t] = "done"] /\ Forget(t)

\* WhatsApp refuses the first bubble, or a later one: the exception leaves the
\* job, ARQ does not retry it and the actions are never dispatched.
SendFails(t) ==
  /\ "send" \in Faults
  /\ pc[t] = "sending" /\ speaks[t]
  /\ told' \in {told, Told(t)}
  /\ Finish(t)
  /\ UNCHANGED <<row, sla, episode, opened, announced, manual, soft_paused, active,
                 opted_out, clock, shutdowns>>

\* Mutant: the handler reads escalation.enabled = False and skips the event.
DispatchSkipsDisabled(t) ==
  /\ pc[t] = "dispatching"
  /\ Finish(t)
  /\ UNCHANGED <<row, sla, hist, soft_paused, active, opted_out, clock, shutdowns>>

\* EscalateHumanHandler with handoff_claimed: it only has to announce.
Dispatch(t) ==
  /\ pc[t] = "dispatching"
  /\ Finish(t)
  /\ IF claim[t] # 0 THEN Announce(claim[t]) ELSE UNCHANGED announced
  /\ UNCHANGED <<row, sla, episode, opened, told, manual, soft_paused, active, opted_out,
                 clock, shutdowns>>

\* The handler raises and the dispatcher swallows the exception.
DispatchFails(t) ==
  /\ "dispatch" \in Faults
  /\ pc[t] = "dispatching"
  /\ Finish(t)
  /\ UNCHANGED <<row, sla, hist, soft_paused, active, opted_out, clock, shutdowns>>

\* Worker shutdown: ARQ runs the job again.  The inline job starts over, the
\* debounce flush finds the buffer it drained empty and ends.
Shutdown(t) ==
  /\ "shutdown" \in Faults
  /\ shutdowns < MaxShutdowns
  /\ shutdowns' = shutdowns + 1
  /\ pc[t] \in {"persisted", "drafting", "sending", "dispatching"}
  /\ \E again \in {"new", "done"} : pc' = [pc EXCEPT ![t] = again]
  /\ Forget(t)
  /\ told' \in IF pc[t] = "sending" THEN {told, Told(t)} ELSE {told}
  /\ UNCHANGED <<row, sla, episode, opened, announced, manual, soft_paused, active,
                 opted_out, clock>>

-----------------------------------------------------------------------------
(* The other writers of the row. *)

\* The human_handoff node of an automation: claim and event in one transaction.
HumanHandoffNode ==
  /\ ClaimWins
  /\ ClaimHandoff
  /\ Announce(episode)
  /\ UNCHANGED <<current_state, candidate, overdue, turn, episode, told, soft_paused,
                 active, opted_out, shutdowns>>

\* Mutant: the operator's own takeover raises conversation.escalated.
TakeoverAnnounces ==
  /\ ClaimWins
  /\ ClaimManualHandoff
  /\ Announce(episode)
  /\ UNCHANGED <<current_state, candidate, overdue, turn, episode, told,
                 soft_paused, active, opted_out, shutdowns>>

\* A message from the inbox composer, or the takeover switch.
OperatorTakesOver ==
  /\ ClaimWins
  /\ ClaimManualHandoff
  /\ UNCHANGED <<current_state, candidate, overdue, turn, episode, announced, told,
                 soft_paused, active, opted_out, shutdowns>>

\* ai-resume.
ResolveHandoff ==
  /\ auto_reply \/ episode <= MaxEpisodes
  /\ GiveBack

\* ai-resume-bulk: only the paused threads nobody ever handed off.
ResumePausedBulk ==
  /\ handoff_at = 0
  /\ soft_paused
  /\ GiveBack

\* ai-pause, or the merchant answering from the phone app.
SoftPause ==
  /\ \/ UNCHANGED active
     \/ active' = TRUE
  /\ soft_paused' = TRUE
  /\ UNCHANGED <<row, sla, turn, hist, opted_out, clock, shutdowns>>

\* ai_disabled_until passes.
PauseElapses ==
  /\ soft_paused
  /\ soft_paused' = FALSE
  /\ UNCHANGED <<row, sla, turn, hist, active, opted_out, clock, shutdowns>>

\* close_idle_active: a silent thread is closed, the handoff columns stay.
CloseIdle ==
  /\ active
  /\ active' = FALSE
  /\ UNCHANGED <<row, sla, turn, hist, soft_paused, opted_out, clock, shutdowns>>

-----------------------------------------------------------------------------
(* The SLA sweep. *)

HandoffOpen == handoff_at # 0 /\ ~handoff_resolved

\* list_overdue_handoffs.
OverdueCandidate ==
  /\ HandoffOpen
  /\ active
  /\ age = "overdue"
  /\ sla_fired_for < handoff_at

SlaScan ==
  /\ candidate = 0
  /\ OverdueCandidate
  /\ candidate' = handoff_at
  /\ UNCHANGED <<row, sla_fired_for, age, overdue, turn, hist, soft_paused, active,
                 opted_out, clock, shutdowns>>

\* Mutant: the alert goes out and the anchor is not burned.
SlaEmitUnanchored ==
  /\ TRUE \in Listening
  /\ candidate # 0
  /\ overdue' = [overdue EXCEPT ![candidate] = @ + 1]
  /\ candidate' = 0
  /\ UNCHANGED <<row, sla_fired_for, age, turn, hist, soft_paused, active, opted_out,
                 clock, shutdowns>>

\* _maybe_emit: the row is not read again.
SlaEmit ==
  /\ TRUE \in Listening
  /\ candidate # 0
  /\ sla_fired_for' = candidate
  /\ overdue' = [overdue EXCEPT ![candidate] = @ + 1]
  /\ candidate' = 0
  /\ UNCHANGED <<row, age, turn, hist, soft_paused, active, opted_out, clock, shutdowns>>

\* No enabled automation listens: nothing is emitted and no anchor is burned.
SlaNobodyListens ==
  /\ FALSE \in Listening
  /\ candidate # 0
  /\ candidate' = 0
  /\ UNCHANGED <<row, sla_fired_for, age, overdue, turn, hist, soft_paused, active,
                 opted_out, clock, shutdowns>>

\* Time passes over an open handoff: the SLA, then the 24 hours of the scan.
HandoffAges ==
  /\ HandoffOpen
  /\ \/ age = "fresh" /\ age' = "overdue"
     \/ age = "overdue" /\ age' = "expired"
  /\ UNCHANGED <<row, sla_fired_for, candidate, overdue, turn, hist, soft_paused, active,
                 opted_out, clock, shutdowns>>

-----------------------------------------------------------------------------
TurnStep(t) ==
  \/ InboundPersist(t) \/ ReplyGate(t)
  \/ Reply(t) \/ HandoffLost(t) \/ HandoffWon(t)
  \/ Send(t) \/ SendFails(t)
  \/ Dispatch(t) \/ DispatchFails(t)
  \/ Shutdown(t)

Next ==
  \/ \E t \in Turns : TurnStep(t)
  \/ HumanHandoffNode
  \/ OperatorTakesOver \/ ResolveHandoff \/ ResumePausedBulk
  \/ SoftPause \/ PauseElapses \/ CloseIdle
  \/ SlaScan \/ SlaEmit \/ SlaNobodyListens \/ HandoffAges

Spec == Init /\ [][Next]_vars

\* A job that ARQ has started goes on, and the cron runs: nothing else is owed.
JobProgress(t) == Reply(t) \/ HandoffLost(t) \/ HandoffWon(t) \/ Send(t) \/ Dispatch(t)

FairSpec ==
  /\ Spec
  /\ \A t \in Turns : WF_vars(JobProgress(t))
  /\ WF_vars(SlaScan)
  /\ WF_vars(SlaEmit \/ SlaNobodyListens)

-----------------------------------------------------------------------------
(* Properties. *)

\* The three columns a claim and a give-back write always agree: the bot is
\* off the thread exactly while a handoff is open.  The SLA sweep and the
\* ai_paused gate read the timestamps, the reply gates read auto_reply.
OwnershipConsistent == auto_reply <=> ~HandoffOpen

\* The bot never owns a thread whose FSM state tells the model that a human is
\* answering, whatever turns, takeovers and give-backs were interleaved.
BotThreadNotEscalated == auto_reply => current_state # "ESCALATED"

\* However many turns, nodes and retries race, the operators are told of one
\* human episode once (ADR 0017).
OneEscalationPerEpisode == \A e \in Episodes : announced[e] <= 1

\* The customer reads one handoff message per episode, also when jobs run again.
OneHandoffMessage == \A e \in Episodes : told[e] <= 1

\* A thread is not left mute: an episode the software opened has been announced
\* or its turn is still going to announce it.
AnnouncedOrInFlight ==
  \A e \in opened : announced[e] = 1 \/ \E t \in Turns : claim[t] = e

\* The sweep alerts once for one handoff_at, although it works on a snapshot.
OverdueOnce == \A a \in Episodes : overdue[a] <= 1

\* An operator who took the thread is never told that nobody picked it up.
ManualTakeoverNotAlerted == \A a \in Episodes : a \in manual => overdue[a] = 0

\* ESCALATED is terminal: only giving the thread back to the bot leaves it.
EscalatedIsSticky ==
  [][current_state = "ESCALATED" /\ current_state' # "ESCALATED" => ~auto_reply /\ auto_reply']_vars

\* The conversation row never reaches a combination that no gate expects:
\* every column has its type, auto_reply agrees with the handoff columns, and
\* the bot owns no thread that is ESCALATED.
Consistent == TypeOK /\ OwnershipConsistent /\ BotThreadNotEscalated

\* Whatever races, repeats or is cut short, an episode reaches people once:
\* one announcement to the operators, one handoff message to the customer, one
\* overdue alert (ADR 0017).
OncePerEpisode == OneEscalationPerEpisode /\ OneHandoffMessage /\ OverdueOnce

\* With no fault, every episode the software opens is announced in the end.
EventuallyAnnounced ==
  \A e \in Episodes : (e \in opened) ~> (announced[e] = 1)

\* A handoff of the bot's that stays open past the SLA raises its alert, unless it
\* is given back, closed, or older than the scan's floor.
EventuallyAlerted ==
  \A a \in Episodes :
    (handoff_at = a /\ HandoffOpen /\ age = "overdue" /\ a \notin manual)
      ~> (overdue[a] = 1 \/ handoff_at # a \/ ~HandoffOpen \/ ~active \/ age = "expired")

\* The row, the jobs and the events implement the ownership they promise.
Promise == INSTANCE Ownership WITH owner <- IF auto_reply THEN "bot" ELSE "human"
PromiseKept == Promise!Spec

=============================================================================
