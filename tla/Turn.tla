--------------------------------- MODULE Turn ---------------------------------
(***************************************************************************)
(* One turn of the bot after the inbound message has been stored: the      *)
(* model is asked, in a loop with its read tools, its answer is repaired   *)
(* and filtered, the reply policy decides what the customer reads, and the *)
(* bubbles and the actions go out.  Turns of the same conversation follow  *)
(* one another; a turn in another job may hand it over at any moment.      *)
(***************************************************************************)
EXTENDS Integers, FiniteSets

CONSTANTS MaxIterations,  \* agent.max_tool_iterations
          MaxBubbles,     \* bound: bubbles of a reply
          MaxTurnsTaken   \* bound: turns

ASSUME TurnAssumption ==
  {MaxIterations, MaxBubbles} \subseteq Nat \ {0} /\ MaxTurnsTaken \in Nat

ActionKinds == {"check_availability", "book_slot", "handoff_human", "move_pipeline"}
ReadToolKinds == {"check_availability"}
BookingKinds == {"book_slot"}

\* What a reply says: nothing, an ordinary text, a day or an hour, the line of a handoff.
Texts == {"nothing", "text", "time", "handoff_message"}
Parsed == [text : Texts \ {"handoff_message"}, kinds : SUBSET ActionKinds]
Nothing == [text |-> "nothing", kinds |-> {}]

VARIABLES
  settings,   \* of the merchant: executor, allowed, handoff_enabled, silent, fixed_message
  turn_step, runs, iteration,
  parsed,     \* the answer of the model
  ran_check_availability,
  llm_failed, suppress_reply, handoff_claimed,
  bubbles, out,   \* of the reply, and those that were sent
  row,        \* status of the row of the reply
  handed,     \* the conversation is with a human
  notified,   \* operators told of it
  turns_taken,
  \* history
  both,       \* the turn hands over and books at once
  forbidden,  \* the model asked for a booking that the playbook forbids
  send_error

asking == <<turn_step, runs, iteration, parsed, ran_check_availability>>
policy == <<llm_failed, suppress_reply, handoff_claimed, both, forbidden>>
sending == <<bubbles, out, row, send_error>>
shared == <<handed, notified, turns_taken>>
turnVars == <<settings, asking, policy, sending, shared>>

TurnTypeOK ==
  /\ settings \in [executor : BOOLEAN, allowed : SUBSET ActionKinds, handoff_enabled : BOOLEAN,
                   silent : BOOLEAN, fixed_message : BOOLEAN]
  /\ turn_step \in {"idle", "asking", "answered", "policy", "sending", "sent", "dispatching"}
  /\ runs \in {"first", "coherence", "empty"}
  /\ iteration \in 0..MaxIterations + 1
  /\ parsed.text \in Texts /\ parsed.kinds \subseteq ActionKinds
  /\ {ran_check_availability, llm_failed, suppress_reply, handoff_claimed, both, forbidden,
      send_error, handed} \subseteq BOOLEAN
  /\ bubbles \in 0..MaxBubbles /\ out \in 0..MaxBubbles
  /\ row \in {"none", "pending", "sent", "failed", "partial"}
  /\ notified \in Nat

\* The playbook allows bookings or not; handoffs and moves always.
TurnInit ==
  /\ settings \in [executor : BOOLEAN, allowed : {ActionKinds, ActionKinds \ BookingKinds},
                   handoff_enabled : BOOLEAN, silent : BOOLEAN, fixed_message : BOOLEAN]
  /\ turn_step = "idle" /\ runs = "first" /\ iteration = 0
  /\ parsed = Nothing /\ ran_check_availability = FALSE
  /\ llm_failed = FALSE /\ suppress_reply = FALSE /\ handoff_claimed = FALSE
  /\ both = FALSE /\ forbidden = FALSE
  /\ bubbles = 0 /\ out = 0 /\ row = "none" /\ send_error = FALSE
  /\ handed = FALSE /\ notified = 0 /\ turns_taken = 0

-----------------------------------------------------------------------------
(* The orchestrator. *)

\* generate_and_send_reply has found the bot in charge.
TakeTurn ==
  /\ turn_step = "idle"
  /\ ~handed
  /\ turns_taken < MaxTurnsTaken
  /\ turns_taken' = turns_taken + 1
  /\ turn_step' = "asking" /\ runs' = "first" /\ iteration' = 0
  /\ parsed' = Nothing /\ ran_check_availability' = FALSE
  /\ llm_failed' = FALSE /\ suppress_reply' = FALSE /\ handoff_claimed' = FALSE
  /\ both' = FALSE /\ forbidden' = FALSE
  /\ bubbles' = 0 /\ out' = 0 /\ row' = "none" /\ send_error' = FALSE
  /\ UNCHANGED <<settings, handed, notified>>

\* _parse_structured, by the shape of what came back: a conforming object, one with an
\* action that does not exist (the valid ones are kept), prose, and a broken object.
ParseStructured(shape, text, kinds, valid) ==
  CASE shape = "conforming" -> [text |-> text, kinds |-> kinds]
    [] shape = "invented" /\ text # "nothing" -> [text |-> text, kinds |-> kinds \intersect valid]
    [] shape = "prose" -> [text |-> text, kinds |-> {}]
    [] OTHER -> Nothing

Answers == {ParseStructured(s, t, k, ActionKinds) :
              s \in {"conforming", "invented", "prose", "broken"},
              t \in Texts \ {"handoff_message"}, k \in SUBSET ActionKinds}

IsLast == iteration + 1 >= IF settings.executor THEN MaxIterations ELSE 1

\* _complete, in run: the tools that were asked for are run, and the model is asked again.
Complete ==
  /\ turn_step = "asking"
  /\ iteration < MaxIterations
  /\ \E answer \in Answers :
       /\ parsed' = answer
       /\ IF answer.kinds \intersect ReadToolKinds = {} \/ IsLast
          THEN turn_step' = "answered" /\ UNCHANGED <<iteration, ran_check_availability>>
          ELSE /\ ran_check_availability' = TRUE
               /\ iteration' = iteration + 1
               /\ UNCHANGED turn_step
  /\ UNCHANGED <<settings, runs, policy, sending, shared>>

\* Mutant: a time is taken on trust.
TrustsTheModel == FALSE

\* _proposes_unverified_time, and no booking that verifies by itself.
Unverified ==
  /\ ~ran_check_availability
  /\ parsed.text = "time"
  /\ parsed.kinds \intersect BookingKinds = {}

\* The read is forced, and the model asked once more.
ForceRead ==
  /\ turn_step = "answered"
  /\ Unverified /\ settings.executor
  /\ \E answer \in Answers : parsed' = answer
  /\ ran_check_availability' = TRUE
  /\ UNCHANGED <<settings, turn_step, runs, iteration, policy, sending, shared>>

\* The read tools are stripped, and what the playbook forbids.
RunReturns ==
  /\ turn_step = "answered"
  /\ ~(Unverified /\ settings.executor)
  /\ turn_step' = "policy"
  /\ parsed' = [parsed EXCEPT !.kinds = (@ \ ReadToolKinds) \intersect settings.allowed]
  /\ forbidden' = ~(parsed.kinds \subseteq settings.allowed)
  /\ UNCHANGED <<settings, runs, iteration, ran_check_availability, llm_failed, suppress_reply,
                 handoff_claimed, both, sending, shared>>

\* The model, and the model to fall back on, fail: the handoff message, and a handoff.
Courtesy == [text |-> "handoff_message", kinds |-> {"handoff_human"}]

CompleteFails ==
  /\ turn_step \in {"asking", "answered"}
  /\ turn_step' = "policy"
  /\ IF runs = "empty" THEN parsed' = Nothing /\ UNCHANGED llm_failed
     ELSE parsed' = Courtesy /\ llm_failed' = TRUE
  /\ UNCHANGED <<settings, runs, iteration, ran_check_availability, suppress_reply, handoff_claimed,
                 both, forbidden, sending, shared>>

\* CoherenceGuard objects, once; or the reply is empty, once: the turn is run again.
RunAgain ==
  /\ turn_step = "policy"
  /\ ~llm_failed
  /\ \/ runs = "first" /\ runs' = "coherence"
     \/ runs # "empty" /\ parsed.text = "nothing" /\ runs' = "empty"
  /\ turn_step' = "asking"
  /\ iteration' = 0
  /\ ran_check_availability' = FALSE
  /\ parsed' = Nothing
  /\ forbidden' = FALSE
  /\ UNCHANGED <<settings, llm_failed, suppress_reply, handoff_claimed, both, sending, shared>>

-----------------------------------------------------------------------------
(* The reply policy. *)

\* Empty after both runs: a courtesy line and a handoff.
Usable == IF parsed.text = "nothing" THEN Courtesy ELSE parsed

\* Mutant: the claim of another turn does not count.
ClaimAlways == TRUE

claim_handoff == ~handed

\* Who speaks, and which actions stay.  A booking speaks for itself, later.
ReplyPolicy ==
  /\ turn_step = "policy"
  /\ parsed.text # "nothing" \/ runs = "empty"
  /\ LET reply == Usable
         hands == "handoff_human" \in reply.kinds
         off == hands /\ ~settings.handoff_enabled /\ ~llm_failed
         wins == hands /\ ~off /\ claim_handoff
         lost == hands /\ ~off /\ ~wins
         kinds == IF off \/ lost THEN reply.kinds \ {"handoff_human"} ELSE reply.kinds
         quiet == lost \/ (wins /\ settings.silent /\ ~llm_failed)
         books == kinds \intersect BookingKinds # {}
     IN /\ handoff_claimed' = wins
        /\ handed' = (handed \/ wins)
        /\ suppress_reply' = (quiet \/ books)
        /\ both' = (wins /\ books)
        /\ parsed' = [text |-> IF wins /\ settings.fixed_message /\ ~settings.silent /\ ~llm_failed
                              THEN "handoff_message" ELSE reply.text,
                     kinds |-> kinds]
        /\ row' = IF quiet \/ books THEN "none" ELSE "pending"
        /\ bubbles' \in IF quiet \/ books THEN {0} ELSE 1..MaxBubbles
  /\ turn_step' = "sending"
  /\ UNCHANGED <<settings, runs, iteration, ran_check_availability, llm_failed, forbidden, out,
                 send_error, notified, turns_taken>>

-----------------------------------------------------------------------------
(* Delivery, and the actions. *)

SendBubble ==
  /\ turn_step = "sending"
  /\ out < bubbles
  /\ out' = out + 1
  /\ UNCHANGED <<settings, asking, policy, bubbles, row, send_error, shared>>

\* Mutant: any error leaves a failed row.
FailedAlways == "failed"

FailedStatus == IF out = 0 THEN "failed" ELSE "partial"

\* The bubble is refused: the job fails, and with it the actions.
SendFails ==
  /\ turn_step = "sending"
  /\ out < bubbles
  /\ row' = FailedStatus
  /\ send_error' = TRUE
  /\ turn_step' = "idle"
  /\ UNCHANGED <<settings, runs, iteration, parsed, ran_check_availability, policy, bubbles, out,
                 shared>>

\* The row is promoted, the score and the pipeline move are added ...
Promote ==
  /\ turn_step = "sending"
  /\ out = bubbles
  /\ row' = IF bubbles = 0 THEN row ELSE "sent"
  /\ turn_step' = "dispatching"
  /\ UNCHANGED <<settings, runs, iteration, parsed, ran_check_availability, policy, bubbles, out,
                 send_error, shared>>

\* ... and the dispatcher runs the handlers: a failing one does not stop the next.
Dispatch_actions ==
  /\ turn_step = "dispatching"
  /\ notified' = notified + IF handoff_claimed THEN 1 ELSE 0
  /\ turn_step' = "idle"
  /\ UNCHANGED <<settings, runs, iteration, parsed, ran_check_availability, policy, sending, handed,
                 turns_taken>>

\* A turn in another job, or a human, takes the conversation.
TakenOver ==
  /\ ~handed
  /\ handed' = TRUE
  /\ notified' = notified + 1
  /\ UNCHANGED <<settings, asking, policy, sending, turns_taken>>

-----------------------------------------------------------------------------

TurnNext ==
  \/ TakeTurn \/ Complete \/ ForceRead \/ RunReturns \/ CompleteFails \/ RunAgain \/ ReplyPolicy
  \/ SendBubble \/ SendFails \/ Promote \/ Dispatch_actions \/ TakenOver

TurnSpec == TurnInit /\ [][TurnNext]_turnVars

-----------------------------------------------------------------------------
(* Properties. *)

TurnOver == turn_step = "idle" /\ turns_taken > 0

\* A customer who reads a time reads one that the calendar was asked for in that turn,
\* unless no tool can be run, or the turn asked for a booking that the playbook forbids:
\* that one kept the forced read from happening, and was dropped afterwards.  Nobody is left
\* without a word, unless the booking speaks, the conversation is with a human, silently,
\* or the sending failed.  The operator is told once, and the row says what was sent.
TurnSafe ==
  /\ TurnTypeOK
  /\ out > 0 /\ parsed.text = "time" =>
       ran_check_availability \/ ~settings.executor \/ forbidden
  /\ TurnOver /\ out = 0 => \/ send_error
                            \/ parsed.kinds \intersect BookingKinds # {}
                            \/ handed
  /\ TurnOver /\ handoff_claimed /\ out = 0 => settings.silent \/ both \/ send_error
  /\ notified <= 1
  /\ TurnOver => /\ row = "sent" => out = bubbles
                 /\ row = "failed" => out = 0
                 /\ row # "pending"

=============================================================================
