--------------------------- MODULE Handoff_proofs ---------------------------
(***************************************************************************)
(* Proofs about Handoff, for any set of turns, any number of episodes and  *)
(* any combination of faults.                                              *)
(***************************************************************************)
EXTENDS Handoff, TLAPS

-----------------------------------------------------------------------------
(* Types.  That an episode number stays in range rests on the agreement of *)
(* the handoff columns: the bulk resume never meets an open episode.       *)

\* handoff_at is the time of the last claim.
ClaimTime == handoff_at = clock

BaseInv == TypeOK /\ OwnershipConsistent /\ ClaimTime

\* The initial states satisfy the base invariant.
LEMMA BaseInit == Init => BaseInv
<1> SUFFICES ASSUME Init PROVE BaseInv
  OBVIOUS
<1>1. current_state \in ConvStates /\ state_before \in ConvStates
  BY HandoffAssumption DEF Init, ConvStates
<1>2. episode \in Episodes /\ claim \in [Turns -> 0..(MaxEpisodes + 1)]
  BY HandoffAssumption DEF Init, Episodes
<1>5. captured \in [Turns -> ConvStates]
  BY DEF Init, ConvStates, FunnelStates
<1>3. TypeOK
  BY <1>1, <1>2, <1>5 DEF Init, TypeOK
<1>4. OwnershipConsistent /\ ClaimTime
  BY DEF Init, OwnershipConsistent, HandoffOpen, ClaimTime
<1> QED BY <1>3, <1>4 DEF BaseInv

\* next_state stays among the states the code writes.
LEMMA NextStatesType ==
  ASSUME NEW state \in ConvStates, NEW kinds, NEW new \in NextStates(state, kinds)
  PROVE  new \in ConvStates
  BY DEF NextStates, FunnelStep, ConvStates, FunnelStates

\* A turn's write of the FSM state keeps its type.
LEMMA UpdateStateType ==
  ASSUME BaseInv, NEW t \in Turns, NEW kinds, UpdateState(t, kinds)
  PROVE  current_state' \in ConvStates
<1>1. captured[t] \in ConvStates /\ current_state \in ConvStates
  BY DEF BaseInv, TypeOK
<1>2. CASE FsmEnabled
  BY <1>1, <1>2, NextStatesType DEF UpdateState
<1>3. CASE ~FsmEnabled
  BY <1>1, <1>3 DEF UpdateState
<1> QED BY <1>2, <1>3

\* One more event of one episode keeps the type of a count.
LEMMA CountType ==
  ASSUME NEW f \in [Episodes -> Nat], NEW e
  PROVE  [f EXCEPT ![e] = @ + 1] \in [Episodes -> Nat]
<1>1. [f EXCEPT ![e] = @ + 1] = [d \in Episodes |-> IF d = e THEN f[d] + 1 ELSE f[d]]
  OBVIOUS
<1>2. \A d \in Episodes : (IF d = e THEN f[d] + 1 ELSE f[d]) \in Nat
  OBVIOUS
<1> QED BY <1>1, <1>2

LEMMA ToldType ==
  ASSUME told \in [Episodes -> Nat], NEW t \in Turns
  PROVE  Told(t) \in [Episodes -> Nat]
BY CountType DEF Told

\* What a turn is left with when it ends.
LEMMA ForgetType ==
  ASSUME TypeOK, NEW t \in Turns, Forget(t)
  PROVE  /\ claim' \in [Turns -> 0..(MaxEpisodes + 1)]
         /\ speaks' \in [Turns -> BOOLEAN]
         /\ captured' \in [Turns -> ConvStates]
<1>1. "CLOSING" \in ConvStates
  BY DEF ConvStates, FunnelStates
<1>2. 0 \in 0..(MaxEpisodes + 1)
  BY HandoffAssumption
<1> QED BY <1>1, <1>2 DEF Forget, TypeOK

\* The columns both claims write.
LEMMA StampHandoffType ==
  ASSUME BaseInv, StampHandoff
  PROVE  /\ auto_reply' \in BOOLEAN /\ handoff_at' \in Nat /\ clock' \in Nat
         /\ handoff_resolved' \in BOOLEAN /\ state_before' \in ConvStates
         /\ age' \in {"fresh", "overdue", "expired"}
         /\ OwnershipConsistent' /\ ClaimTime'
<1>1. clock \in Nat /\ current_state \in ConvStates
  BY DEF BaseInv, TypeOK
<1>2. handoff_at' = clock + 1 /\ clock' = clock + 1 /\ handoff_at' # 0
  BY <1>1 DEF StampHandoff
<1>3. HandoffOpen'
  BY <1>2 DEF StampHandoff, HandoffOpen
<1>4. OwnershipConsistent'
  BY <1>3 DEF StampHandoff, OwnershipConsistent
<1>5. auto_reply' \in BOOLEAN /\ handoff_resolved' \in BOOLEAN
  BY DEF StampHandoff
<1>6. state_before' \in ConvStates /\ age' \in {"fresh", "overdue", "expired"}
  BY <1>1 DEF StampHandoff
<1>7. handoff_at' \in Nat /\ clock' \in Nat /\ ClaimTime'
  BY <1>1, <1>2 DEF ClaimTime
<1> QED BY <1>4, <1>5, <1>6, <1>7

\* The episode a claim opens joins the opened ones.
LEMMA ClaimHandoffType ==
  ASSUME BaseInv, ClaimHandoff
  PROVE  opened' \in SUBSET Episodes /\ sla_fired_for' \in Nat /\ manual' \in SUBSET Nat
  BY DEF BaseInv, TypeOK, ClaimHandoff

\* What GiveBack restores is a state, and never the escalated one.
LEMMA RestoredStateType ==
  ASSUME BaseInv
  PROVE  RestoredState \in FunnelStates
  BY DEF BaseInv, TypeOK, RestoredState, ConvStates, FunnelStates

\* The steps of one turn.
LEMMA BaseTurn ==
  ASSUME BaseInv, NEW t \in Turns, TurnStep(t)
  PROVE  BaseInv'
<1> USE HandoffAssumption DEF BaseInv, TypeOK, OwnershipConsistent, ClaimTime, HandoffOpen,
                              row, sla, hist
<1>1. CASE InboundPersist(t)
  <2>1. PICK unreadable \in BOOLEAN :
          /\ opted_out' \in BOOLEAN
          /\ \E next \in {"persisted", "done"} : pc' = [pc EXCEPT ![t] = next]
          /\ IF unreadable /\ ClaimWins
             THEN ClaimHandoff /\ Announce(episode)
             ELSE UNCHANGED <<auto_reply, clock, handoff_at, handoff_resolved,
                              state_before, age, opened, sla_fired_for, manual, announced>>
    BY <1>1 DEF InboundPersist
  <2>2. pc' \in [Turns -> {"new", "persisted", "drafting", "sending", "dispatching", "done"}]
    BY <2>1
  <2>3. announced' \in [Episodes -> Nat]
    BY <2>1, CountType DEF Announce
  <2>4. CASE unreadable /\ ClaimWins
    BY <1>1, <2>1, <2>2, <2>3, <2>4, StampHandoffType, ClaimHandoffType
    DEF InboundPersist, ClaimHandoff
  <2>5. CASE ~(unreadable /\ ClaimWins)
    BY <1>1, <2>1, <2>2, <2>3, <2>5 DEF InboundPersist
  <2> QED BY <2>4, <2>5
<1>2. CASE ReplyGate(t)
  BY <1>2 DEF ReplyGate
<1>3. CASE Reply(t)
  <2>1. current_state' \in ConvStates BY <1>3, UpdateStateType DEF Reply
  <2> QED BY <1>3, <2>1 DEF Reply, Deliver
<1>4. CASE HandoffLost(t)
  <2>1. current_state' \in ConvStates BY <1>4, UpdateStateType DEF HandoffLost
  <2> QED BY <1>4, <2>1 DEF HandoffLost, Deliver
<1>5. CASE HandoffWon(t)
  <2>1. current_state' \in ConvStates BY <1>5, UpdateStateType DEF HandoffWon
  <2>2. episode \in 0..(MaxEpisodes + 1)
    BY DEF Episodes
  <2>3. /\ pc' \in [Turns -> {"new", "persisted", "drafting", "sending", "dispatching", "done"}]
        /\ claim' \in [Turns -> 0..(MaxEpisodes + 1)]
        /\ speaks' \in [Turns -> BOOLEAN]
    BY <1>5, <2>2 DEF HandoffWon, Deliver
  <2> QED BY <1>5, <2>1, <2>3, StampHandoffType, ClaimHandoffType
      DEF HandoffWon, ClaimHandoff
<1>6. CASE Send(t)
  <2>1. told' \in [Episodes -> Nat] BY <1>6, ToldType DEF Send
  <2> QED BY <1>6, <2>1 DEF Send
<1>7. CASE SendFails(t)
  <2>1. told' \in [Episodes -> Nat] BY <1>7, ToldType DEF SendFails
  <2> QED BY <1>7, <2>1, ForgetType DEF SendFails, Finish
<1>8. CASE Dispatch(t)
  <2>1. announced' \in [Episodes -> Nat] BY <1>8, CountType DEF Dispatch, Announce
  <2> QED BY <1>8, <2>1, ForgetType DEF Dispatch, Finish
<1>9. CASE DispatchFails(t)
  BY <1>9, ForgetType DEF DispatchFails, Finish
<1>10. CASE Shutdown(t)
  <2>1. told' \in [Episodes -> Nat] BY <1>10, ToldType DEF Shutdown
  <2> QED BY <1>10, <2>1, ForgetType DEF Shutdown
<1> QED BY <1>1, <1>2, <1>3, <1>4, <1>5, <1>6, <1>7, <1>8, <1>9, <1>10 DEF TurnStep

\* The steps of everybody else.
LEMMA BaseOthers ==
  ASSUME BaseInv, [Next]_vars, ~ \E t \in Turns : TurnStep(t)
  PROVE  BaseInv'
<1> USE HandoffAssumption DEF BaseInv, TypeOK, OwnershipConsistent, ClaimTime, HandoffOpen,
                              row, sla, turn, hist
<1>1. CASE HumanHandoffNode
  <2>1. announced' \in [Episodes -> Nat] BY <1>1, CountType DEF HumanHandoffNode, Announce
  <2> QED BY <1>1, <2>1, StampHandoffType, ClaimHandoffType
      DEF HumanHandoffNode, ClaimHandoff
<1>2. CASE OperatorTakesOver
  <2>1. sla_fired_for' \in Nat /\ manual' \in SUBSET Nat
    BY <1>2 DEF OperatorTakesOver, ClaimManualHandoff
  <2> QED BY <1>2, <2>1, StampHandoffType DEF OperatorTakesOver, ClaimManualHandoff
<1>3. CASE ResolveHandoff
  <2>1. episode' \in Episodes BY <1>3 DEF ResolveHandoff, GiveBack, Episodes
  <2>2. current_state' \in ConvStates
    BY <1>3, RestoredStateType DEF ResolveHandoff, GiveBack, ConvStates
  <2> QED BY <1>3, <2>1, <2>2 DEF ResolveHandoff, GiveBack
<1>4. CASE ResumePausedBulk
  <2>1. auto_reply
    BY <1>4 DEF ResumePausedBulk
  <2>2. current_state' \in ConvStates
    BY <1>4, RestoredStateType DEF ResumePausedBulk, GiveBack, ConvStates
  <2> QED BY <1>4, <2>1, <2>2 DEF ResumePausedBulk, GiveBack
<1>5. CASE SoftPause
  BY <1>5 DEF SoftPause
<1>6. CASE PauseElapses
  BY <1>6 DEF PauseElapses
<1>7. CASE CloseIdle
  BY <1>7 DEF CloseIdle
<1>8. CASE SlaScan
  BY <1>8 DEF SlaScan
<1>9. CASE SlaEmit
  <2>1. overdue' \in [Episodes -> Nat] BY <1>9, CountType DEF SlaEmit
  <2> QED BY <1>9, <2>1 DEF SlaEmit
<1>10. CASE SlaNobodyListens
  BY <1>10 DEF SlaNobodyListens
<1>11. CASE HandoffAges
  BY <1>11 DEF HandoffAges
<1>12. CASE UNCHANGED vars
  BY <1>12 DEF vars
<1> QED
  BY <1>1, <1>2, <1>3, <1>4, <1>5, <1>6, <1>7, <1>8, <1>9, <1>10, <1>11, <1>12 DEF Next

\* The base invariant holds in every reachable state.
LEMMA BaseCorrect == Spec => []BaseInv
<1>1. BaseInv /\ [Next]_vars => BaseInv'
  BY BaseTurn, BaseOthers
<1> QED BY BaseInit, <1>1, PTL DEF Spec

\* Every variable keeps its type.
THEOREM TypeCorrect == Spec => []TypeOK
<1>1. BaseInv => TypeOK BY DEF BaseInv
<1> QED BY BaseCorrect, <1>1, PTL

\* auto_reply is off exactly while a handoff is open.
THEOREM OwnershipCorrect == Spec => []OwnershipConsistent
<1>1. BaseInv => OwnershipConsistent BY DEF BaseInv
<1> QED BY BaseCorrect, <1>1, PTL

-----------------------------------------------------------------------------
(* The FSM.  A turn writes what it computed from the state it captured at   *)
(* its gate, so the invariant must also speak of the captured states.       *)

FsmInv ==
  /\ BotThreadNotEscalated
  /\ \A t \in Turns : captured[t] # "ESCALATED"

\* Without a handoff action no turn writes ESCALATED.
LEMMA UpdateStateFunnel ==
  ASSUME BaseInv, FsmInv, NEW t \in Turns, UpdateState(t, {})
  PROVE  current_state' = current_state \/ current_state' \in FunnelStates
<1>1. captured[t] \in FunnelStates
  BY DEF BaseInv, TypeOK, FsmInv, ConvStates
<1>2. \A new \in NextStates(captured[t], {}) : new \in FunnelStates
  BY <1>1 DEF NextStates, FunnelStep, FunnelStates
<1>3. CASE FsmEnabled
  BY <1>2, <1>3 DEF UpdateState
<1>4. CASE ~FsmEnabled
  BY <1>4 DEF UpdateState
<1> QED BY <1>3, <1>4

\* The FSM invariant is inductive on top of the base invariant.
LEMMA FsmStep ==
  ASSUME BaseInv, FsmInv, [Next]_vars
  PROVE  FsmInv'
<1> USE DEF FsmInv, BotThreadNotEscalated, row, sla, turn, hist
<1>0. "ESCALATED" \notin FunnelStates
  BY DEF FunnelStates
<1>1. ASSUME NEW t \in Turns, TurnStep(t) PROVE FsmInv'
  <2>1. CASE InboundPersist(t)
    <3>1. current_state' = current_state /\ captured' = captured /\ (auto_reply' => auto_reply)
      BY <2>1 DEF InboundPersist, ClaimHandoff, StampHandoff
    <3> QED BY <3>1
  <2>2. CASE ReplyGate(t)
    <3>1. /\ auto_reply' = auto_reply /\ current_state' = current_state
          /\ \/ captured' = captured
             \/ auto_reply /\ captured' = [captured EXCEPT ![t] = current_state]
      BY <2>2 DEF ReplyGate
    <3> QED BY <3>1 DEF BaseInv, TypeOK
  <2>3. CASE Reply(t)
    <3>1. auto_reply' = auto_reply /\ captured' = captured
      BY <2>3 DEF Reply
    <3> QED BY <1>0, <2>3, <3>1, UpdateStateFunnel DEF Reply
  <2>4. CASE HandoffLost(t)
    <3>1. auto_reply' = auto_reply /\ captured' = captured
      BY <2>4 DEF HandoffLost
    <3> QED BY <1>0, <2>4, <3>1, UpdateStateFunnel DEF HandoffLost
  <2>5. CASE HandoffWon(t)
    BY <2>5 DEF HandoffWon, ClaimHandoff, StampHandoff
  <2>6. CASE Send(t) \/ SendFails(t) \/ Dispatch(t) \/ DispatchFails(t) \/ Shutdown(t)
    <3>1. auto_reply' = auto_reply /\ current_state' = current_state
      BY <2>6 DEF Send, SendFails, Dispatch, DispatchFails, Shutdown
    <3>2. captured' = captured \/ captured' = [captured EXCEPT ![t] = "CLOSING"]
      BY <2>6 DEF Send, SendFails, Dispatch, DispatchFails, Shutdown, Finish, Forget
    <3> QED BY <3>1, <3>2 DEF BaseInv, TypeOK
  <2> QED BY <1>1, <2>1, <2>2, <2>3, <2>4, <2>5, <2>6 DEF TurnStep
<1>2. CASE HumanHandoffNode \/ OperatorTakesOver
  BY <1>2 DEF HumanHandoffNode, OperatorTakesOver, ClaimHandoff, ClaimManualHandoff,
              StampHandoff
<1>3. CASE ResolveHandoff \/ ResumePausedBulk
  <2>1. current_state' \in FunnelStates /\ captured' = captured
    BY <1>3, RestoredStateType DEF ResolveHandoff, ResumePausedBulk, GiveBack
  <2> QED BY <1>0, <2>1
<1>4. CASE SoftPause \/ PauseElapses \/ CloseIdle
  BY <1>4 DEF SoftPause, PauseElapses, CloseIdle
<1>5. CASE SlaScan \/ SlaEmit \/ SlaNobodyListens \/ HandoffAges
  <2>1. UNCHANGED <<row, turn>>
    BY <1>5 DEF SlaScan, SlaEmit, SlaNobodyListens, HandoffAges
  <2> QED BY <2>1
<1>6. CASE UNCHANGED vars
  BY <1>6 DEF vars
<1> QED BY <1>1, <1>2, <1>3, <1>4, <1>5, <1>6 DEF Next

\* A thread the bot owns is never in ESCALATED.
THEOREM FsmCorrect == Spec => []BotThreadNotEscalated
<1>1. Init => FsmInv
  BY HandoffAssumption DEF Init, FsmInv, BotThreadNotEscalated, FunnelStates
<1>2. BaseInv /\ FsmInv /\ [Next]_vars => FsmInv'
  BY FsmStep
<1>3. FsmInv => BotThreadNotEscalated
  BY DEF FsmInv
<1> QED BY BaseCorrect, <1>1, <1>2, <1>3, PTL DEF Spec

-----------------------------------------------------------------------------
(* Episodes.  The claims the turns hold are distinct, belong to opened      *)
(* episodes, and none of them has been announced yet.                       *)

ClaimsHeld ==
  \A t \in Turns : claim[t] # 0 =>
    /\ pc[t] \in {"sending", "dispatching"}
    /\ claim[t] \in opened
    /\ announced[claim[t]] = 0
    /\ pc[t] = "sending" => told[claim[t]] = 0

ClaimsDistinct ==
  \A t, u \in Turns : claim[t] # 0 /\ claim[t] = claim[u] => t = u

OpenedPast ==
  /\ \A e \in opened : e <= episode
  /\ auto_reply => episode \notin opened

EventsOfOpened ==
  \A e \in Episodes :
    /\ announced[e] <= 1
    /\ told[e] <= 1
    /\ e \notin opened => announced[e] = 0 /\ told[e] = 0

EpisodeInv == ClaimsHeld /\ ClaimsDistinct /\ OpenedPast /\ EventsOfOpened

\* A claim opens an episode that no turn holds and nobody has heard of.
LEMMA ClaimIsNew ==
  ASSUME BaseInv, EpisodeInv, ClaimWins
  PROVE  /\ episode \in Episodes /\ episode # 0 /\ episode \notin opened
         /\ announced[episode] = 0 /\ told[episode] = 0
         /\ \A t \in Turns : claim[t] # episode
<1>1. episode \in Episodes /\ episode # 0
  BY DEF BaseInv, TypeOK, Episodes
<1>2. episode \notin opened
  BY DEF EpisodeInv, OpenedPast, ClaimWins
<1> QED BY <1>1, <1>2 DEF EpisodeInv, ClaimsHeld, EventsOfOpened

\* A claim announced in its own transaction.
LEMMA ClaimAnnounced ==
  ASSUME BaseInv, EpisodeInv, ClaimWins, ClaimHandoff, Announce(episode),
         UNCHANGED <<claim, told, episode>>,
         \A t \in Turns : claim[t] # 0 => pc'[t] = pc[t]
  PROVE  EpisodeInv'
<1> USE ClaimIsNew DEF EpisodeInv, BaseInv, TypeOK, ClaimHandoff, StampHandoff, Announce
<1>1. ClaimsHeld'
  BY DEF ClaimsHeld
<1>2. ClaimsDistinct'
  BY DEF ClaimsDistinct
<1>3. OpenedPast'
  BY DEF OpenedPast, Episodes
<1>4. EventsOfOpened'
  BY DEF EventsOfOpened
<1> QED BY <1>1, <1>2, <1>3, <1>4

\* A turn that ends without an event lets go of its claim, told or not.
LEMMA ClaimDropped ==
  ASSUME BaseInv, EpisodeInv, NEW t \in Turns,
         claim' = [claim EXCEPT ![t] = 0],
         \A u \in Turns : u # t => pc'[u] = pc[u],
         told' = told \/ (pc[t] = "sending" /\ told' = Told(t)),
         UNCHANGED <<auto_reply, episode, opened, announced, manual>>
  PROVE  EpisodeInv'
<1> USE DEF EpisodeInv, BaseInv, TypeOK
<1>1. \/ told' = told
      \/ /\ claim[t] # 0
         /\ claim[t] \in opened
         /\ told[claim[t]] = 0
         /\ told' = [told EXCEPT ![claim[t]] = @ + 1]
  BY DEF Told, ClaimsHeld
<1>2. ClaimsHeld'
  BY <1>1 DEF ClaimsHeld, ClaimsDistinct
<1>3. ClaimsDistinct'
  BY DEF ClaimsDistinct
<1>4. OpenedPast'
  BY DEF OpenedPast
<1>5. EventsOfOpened'
  BY <1>1 DEF EventsOfOpened
<1> QED BY <1>2, <1>3, <1>4, <1>5

\* The episode invariant is inductive on top of the base invariant.
LEMMA EpisodeStep ==
  ASSUME BaseInv, EpisodeInv, [Next]_vars
  PROVE  EpisodeInv'
<1> USE DEF row, sla, turn, hist
<1>1. ASSUME NEW t \in Turns, TurnStep(t) PROVE EpisodeInv'
  <2> USE DEF BaseInv, TypeOK
  <2>1. CASE InboundPersist(t)
    <3>1. claim[t] = 0
      BY <2>1 DEF InboundPersist, EpisodeInv, ClaimsHeld
    <3>2. \A u \in Turns : claim[u] # 0 => pc'[u] = pc[u]
      BY <2>1, <3>1 DEF InboundPersist
    <3>3. CASE ClaimWins /\ ClaimHandoff /\ Announce(episode)
      BY <2>1, <3>2, <3>3, ClaimAnnounced DEF InboundPersist
    <3>4. CASE UNCHANGED <<auto_reply, opened, announced>>
      BY <2>1, <3>2, <3>4
      DEF InboundPersist, EpisodeInv, ClaimsHeld, ClaimsDistinct, OpenedPast, EventsOfOpened
    <3> QED BY <2>1, <3>3, <3>4 DEF InboundPersist
  <2>2. CASE ReplyGate(t)
    <3>1. claim[t] = 0
      BY <2>2 DEF ReplyGate, EpisodeInv, ClaimsHeld
    <3>2. \A u \in Turns : u # t => pc'[u] = pc[u]
      BY <2>2 DEF ReplyGate
    <3>3. UNCHANGED <<auto_reply, hist, claim>>
      BY <2>2 DEF ReplyGate
    <3> QED BY <3>1, <3>2, <3>3
      DEF EpisodeInv, ClaimsHeld, ClaimsDistinct, OpenedPast, EventsOfOpened
  <2>3. CASE Reply(t) \/ HandoffLost(t)
    <3>1. claim' = [claim EXCEPT ![t] = 0] /\ UNCHANGED <<auto_reply, hist>>
      BY <2>3 DEF Reply, HandoffLost, Deliver
    <3>2. \A u \in Turns : u # t => pc'[u] = pc[u]
      BY <2>3 DEF Reply, HandoffLost, Deliver
    <3> QED BY <3>1, <3>2, ClaimDropped
  <2>4. CASE HandoffWon(t)
    <3>1. /\ claim' = [claim EXCEPT ![t] = episode]
          /\ pc' = [pc EXCEPT ![t] = "sending"]
          /\ opened' = opened \union {episode}
          /\ ~auto_reply'
          /\ UNCHANGED <<announced, told, episode>>
      BY <2>4 DEF HandoffWon, Deliver, ClaimHandoff, StampHandoff
    <3>2. ClaimWins
      BY <2>4 DEF HandoffWon
    <3>3. ClaimsHeld'
      BY <3>1, <3>2, ClaimIsNew DEF EpisodeInv, ClaimsHeld
    <3>4. ClaimsDistinct'
      BY <3>1, <3>2, ClaimIsNew DEF EpisodeInv, ClaimsDistinct
    <3>5. OpenedPast'
      BY <3>1, <3>2, ClaimIsNew DEF EpisodeInv, OpenedPast, Episodes
    <3>6. EventsOfOpened'
      BY <3>1 DEF EpisodeInv, EventsOfOpened
    <3> QED BY <3>3, <3>4, <3>5, <3>6 DEF EpisodeInv
  <2>5. CASE Send(t)
    <3>1. /\ pc[t] = "sending"
          /\ pc' = [pc EXCEPT ![t] = "dispatching"]
          /\ \/ told' = told
             \/ claim[t] # 0 /\ told' = [told EXCEPT ![claim[t]] = @ + 1]
          /\ UNCHANGED <<auto_reply, episode, opened, announced, claim>>
      BY <2>5 DEF Send, Told
    <3>2. claim[t] # 0 => told[claim[t]] = 0 /\ claim[t] \in opened
      BY <3>1 DEF EpisodeInv, ClaimsHeld
    <3>3. ClaimsHeld'
      BY <3>1, <3>2 DEF EpisodeInv, ClaimsHeld, ClaimsDistinct
    <3>4. ClaimsDistinct' /\ OpenedPast'
      BY <3>1 DEF EpisodeInv, ClaimsDistinct, OpenedPast
    <3>5. EventsOfOpened'
      BY <3>1, <3>2 DEF EpisodeInv, EventsOfOpened
    <3> QED BY <3>3, <3>4, <3>5 DEF EpisodeInv
  <2>6. CASE SendFails(t) \/ DispatchFails(t) \/ Shutdown(t)
    <3>1. /\ claim' = [claim EXCEPT ![t] = 0]
          /\ told' = told \/ (pc[t] = "sending" /\ told' = Told(t))
          /\ UNCHANGED <<auto_reply, episode, opened, announced, manual>>
      BY <2>6 DEF SendFails, DispatchFails, Shutdown, Finish, Forget
    <3>2. \A u \in Turns : u # t => pc'[u] = pc[u]
      BY <2>6 DEF SendFails, DispatchFails, Shutdown, Finish, Forget
    <3> QED BY <3>1, <3>2, ClaimDropped
  <2>7. CASE Dispatch(t)
    <3>1. /\ claim' = [claim EXCEPT ![t] = 0]
          /\ \A u \in Turns : u # t => pc'[u] = pc[u]
          /\ UNCHANGED <<auto_reply, episode, opened, told>>
      BY <2>7 DEF Dispatch, Finish, Forget
    <3>2. \/ announced' = announced
          \/ claim[t] # 0 /\ announced' = [announced EXCEPT ![claim[t]] = @ + 1]
      BY <2>7 DEF Dispatch, Announce
    <3>3. claim[t] # 0 => announced[claim[t]] = 0 /\ claim[t] \in opened
      BY DEF EpisodeInv, ClaimsHeld
    <3>4. ClaimsHeld'
      BY <3>1, <3>2 DEF EpisodeInv, ClaimsHeld, ClaimsDistinct
    <3>5. ClaimsDistinct' /\ OpenedPast'
      BY <3>1 DEF EpisodeInv, ClaimsDistinct, OpenedPast
    <3>6. EventsOfOpened'
      BY <3>1, <3>2, <3>3 DEF EpisodeInv, EventsOfOpened
    <3> QED BY <3>4, <3>5, <3>6 DEF EpisodeInv
  <2> QED BY <1>1, <2>1, <2>2, <2>3, <2>4, <2>5, <2>6, <2>7 DEF TurnStep
<1> USE DEF EpisodeInv, ClaimsHeld, ClaimsDistinct, OpenedPast, EventsOfOpened
<1>2. CASE HumanHandoffNode
  BY <1>2, ClaimAnnounced DEF HumanHandoffNode
<1>3. CASE OperatorTakesOver
  <2>1. ~auto_reply' /\ UNCHANGED <<turn, episode, opened, announced, told>>
    BY <1>3 DEF OperatorTakesOver, ClaimManualHandoff, StampHandoff
  <2> QED BY <2>1
<1>4. CASE ResolveHandoff \/ ResumePausedBulk
  <2>1. /\ UNCHANGED <<turn, opened, announced, told>>
        /\ episode' = IF auto_reply THEN episode ELSE episode + 1
    BY <1>4 DEF ResolveHandoff, ResumePausedBulk, GiveBack
  <2>2. ClaimsHeld' /\ ClaimsDistinct' /\ EventsOfOpened'
    BY <2>1
  <2>3. OpenedPast'
    BY <2>1 DEF BaseInv, TypeOK, Episodes
  <2> QED BY <2>2, <2>3
<1>5. CASE SoftPause \/ PauseElapses \/ CloseIdle
  <2>1. UNCHANGED <<auto_reply, turn, hist>>
    BY <1>5 DEF SoftPause, PauseElapses, CloseIdle
  <2> QED BY <2>1
<1>6. CASE SlaScan \/ SlaEmit \/ SlaNobodyListens \/ HandoffAges
  <2>1. UNCHANGED <<auto_reply, turn, hist>>
    BY <1>6 DEF SlaScan, SlaEmit, SlaNobodyListens, HandoffAges
  <2> QED BY <2>1
<1>7. CASE UNCHANGED vars
  BY <1>7 DEF vars
<1> QED BY <1>1, <1>2, <1>3, <1>4, <1>5, <1>6, <1>7 DEF Next

\* The episode invariant holds in every reachable state.
LEMMA EpisodeCorrect == Spec => []EpisodeInv
<1>1. Init => EpisodeInv
  BY DEF Init, EpisodeInv, ClaimsHeld, ClaimsDistinct, OpenedPast, EventsOfOpened
<1>2. BaseInv /\ EpisodeInv /\ [Next]_vars => EpisodeInv'
  BY EpisodeStep
<1> QED BY BaseCorrect, <1>1, <1>2, PTL DEF Spec

\* The operators are told of one episode at most once.
THEOREM EscalationCorrect == Spec => []OneEscalationPerEpisode
<1>1. EpisodeInv => OneEscalationPerEpisode
  BY DEF EpisodeInv, EventsOfOpened, OneEscalationPerEpisode
<1> QED BY EpisodeCorrect, <1>1, PTL

\* The customer reads at most one handoff message per episode.
THEOREM HandoffMessageCorrect == Spec => []OneHandoffMessage
<1>1. EpisodeInv => OneHandoffMessage
  BY DEF EpisodeInv, EventsOfOpened, OneHandoffMessage
<1> QED BY EpisodeCorrect, <1>1, PTL

-----------------------------------------------------------------------------
(* The SLA alerts.  The anchor only stops a second alert while it is not    *)
(* older than the handoff; a candidate in flight has not been alerted.      *)

OverdueInv ==
  /\ candidate <= handoff_at
  /\ sla_fired_for <= handoff_at
  /\ \A a \in Episodes :
       /\ overdue[a] <= 1
       /\ a = candidate => overdue[a] = 0
       /\ a > handoff_at => overdue[a] = 0
       /\ a = handoff_at /\ overdue[a] # 0 => sla_fired_for = a /\ candidate = 0

\* A claim's timestamp has no alert yet, whatever the anchor becomes.
LEMMA OverdueClaim ==
  ASSUME BaseInv, OverdueInv, StampHandoff, UNCHANGED <<candidate, overdue>>,
         sla_fired_for' = sla_fired_for \/ sla_fired_for' = handoff_at'
  PROVE  OverdueInv'
  BY DEF BaseInv, TypeOK, OverdueInv, StampHandoff, ClaimTime, Episodes

\* The overdue invariant is inductive on top of the base invariant.
LEMMA OverdueStep ==
  ASSUME BaseInv, OverdueInv, [Next]_vars
  PROVE  OverdueInv'
<1>1. CASE UNCHANGED <<handoff_at, sla_fired_for, candidate, overdue>>
  BY <1>1 DEF OverdueInv
<1>2. CASE StampHandoff /\ UNCHANGED <<candidate, overdue>>
           /\ (sla_fired_for' = sla_fired_for \/ sla_fired_for' = handoff_at')
  BY <1>2, OverdueClaim
<1>3. CASE SlaScan
  <2>1. /\ candidate' = handoff_at
        /\ sla_fired_for < handoff_at
        /\ UNCHANGED <<handoff_at, sla_fired_for, overdue>>
    BY <1>3 DEF SlaScan, OverdueCandidate, row
  <2> QED BY <2>1 DEF BaseInv, TypeOK, OverdueInv
<1>4. CASE SlaEmit
  <2>1. /\ candidate # 0
        /\ sla_fired_for' = candidate
        /\ overdue' = [overdue EXCEPT ![candidate] = @ + 1]
        /\ candidate' = 0
        /\ handoff_at' = handoff_at
    BY <1>4 DEF SlaEmit, row
  <2> QED BY <2>1 DEF BaseInv, TypeOK, OverdueInv, Episodes
<1>5. CASE SlaNobodyListens
  <2>1. candidate' = 0 /\ UNCHANGED <<handoff_at, sla_fired_for, overdue>>
    BY <1>5 DEF SlaNobodyListens, row
  <2> QED BY <2>1 DEF BaseInv, TypeOK, OverdueInv, Episodes
<1> USE DEF row, sla
<1>6. CASE \E t \in Turns : TurnStep(t)
  <2>1. PICK t \in Turns : TurnStep(t)
    BY <1>6
  <2>2. CASE InboundPersist(t)
    BY <1>1, <1>2, <2>2 DEF InboundPersist, ClaimHandoff
  <2>3. CASE HandoffWon(t)
    BY <1>2, <2>3 DEF HandoffWon, ClaimHandoff
  <2>4. CASE ReplyGate(t) \/ Reply(t) \/ HandoffLost(t)
    BY <1>1, <2>4 DEF ReplyGate, Reply, HandoffLost
  <2>5. CASE Send(t) \/ SendFails(t) \/ Dispatch(t) \/ DispatchFails(t) \/ Shutdown(t)
    BY <1>1, <2>5 DEF Send, SendFails, Dispatch, DispatchFails, Shutdown
  <2> QED BY <2>1, <2>2, <2>3, <2>4, <2>5 DEF TurnStep
<1>7. CASE HumanHandoffNode
  BY <1>2, <1>7 DEF HumanHandoffNode, ClaimHandoff
<1>8. CASE OperatorTakesOver
  <2>1. sla_fired_for' = handoff_at'
    BY <1>8 DEF OperatorTakesOver, ClaimManualHandoff, StampHandoff
  <2> QED BY <1>2, <1>8, <2>1 DEF OperatorTakesOver, ClaimManualHandoff
<1>9. CASE ResolveHandoff \/ ResumePausedBulk
  BY <1>1, <1>9 DEF ResolveHandoff, ResumePausedBulk, GiveBack
<1>10. CASE SoftPause \/ PauseElapses \/ CloseIdle
  BY <1>1, <1>10 DEF SoftPause, PauseElapses, CloseIdle
<1>11. CASE HandoffAges
  BY <1>1, <1>11 DEF HandoffAges
<1>12. CASE UNCHANGED vars
  BY <1>1, <1>12 DEF vars
<1> QED
  BY <1>3, <1>4, <1>5, <1>6, <1>7, <1>8, <1>9, <1>10, <1>11, <1>12 DEF Next

\* The sweep alerts at most once for one handoff.
THEOREM OverdueCorrect == Spec => []OverdueOnce
<1>1. Init => OverdueInv
  BY DEF Init, OverdueInv, Episodes
<1>2. BaseInv /\ OverdueInv /\ [Next]_vars => OverdueInv'
  BY OverdueStep
<1>3. OverdueInv => OverdueOnce
  BY DEF OverdueInv, OverdueOnce
<1> QED BY BaseCorrect, <1>1, <1>2, <1>3, PTL DEF Spec

-----------------------------------------------------------------------------
(* The properties as the runs check them. *)

\* The row is never in a combination that no gate expects.
THEOREM ConsistentCorrect == Spec => []Consistent
<1>1. TypeOK /\ OwnershipConsistent /\ BotThreadNotEscalated => Consistent
  BY DEF Consistent
<1> QED BY TypeCorrect, OwnershipCorrect, FsmCorrect, <1>1, PTL

\* An episode is announced, told and alerted at most once.
THEOREM OncePerEpisodeCorrect == Spec => []OncePerEpisode
<1>1. OneEscalationPerEpisode /\ OneHandoffMessage /\ OverdueOnce => OncePerEpisode
  BY DEF OncePerEpisode
<1> QED BY EscalationCorrect, HandoffMessageCorrect, OverdueCorrect, <1>1, PTL

-----------------------------------------------------------------------------
(* The handoff keeps its promise: every step of the row, the jobs and the   *)
(* events is a step of Ownership, or changes nothing Ownership can see.     *)

\* One step of Handoff is one step of Ownership, or a stutter.
LEMMA PromiseStep ==
  ASSUME BaseInv, EpisodeInv, [Next]_vars
  PROVE  [Promise!Next]_(Promise!ownership)
<1> USE DEF Promise!ownership, Promise!Next, row, sla, turn, hist
<1>a. CASE UNCHANGED <<auto_reply, episode, opened, announced>>
  BY <1>a
<1>b. ASSUME ClaimWins, ClaimHandoff, episode' = episode,
             Announce(episode) \/ announced' = announced
      PROVE  Promise!HandOff
  <2>1. announced[episode] = 0
    BY <1>b, ClaimIsNew
  <2>2. Promise!Announced(episode) \/ UNCHANGED announced
    BY <1>b, <2>1 DEF Announce, Promise!Announced
  <2> QED BY <1>b, <2>2 DEF ClaimWins, ClaimHandoff, StampHandoff, Promise!HandOff
<1>1. ASSUME NEW t \in Turns, TurnStep(t) PROVE [Promise!Next]_(Promise!ownership)
  <2>1. CASE InboundPersist(t)
    BY <1>a, <1>b, <2>1 DEF InboundPersist
  <2>2. CASE ReplyGate(t) \/ Reply(t) \/ HandoffLost(t)
    BY <1>a, <2>2 DEF ReplyGate, Reply, HandoffLost
  <2>3. CASE HandoffWon(t)
    BY <1>b, <2>3 DEF HandoffWon
  <2>4. CASE Send(t) \/ SendFails(t) \/ DispatchFails(t) \/ Shutdown(t)
    BY <1>a, <2>4 DEF Send, SendFails, DispatchFails, Shutdown
  <2>5. CASE Dispatch(t)
    <3>1. CASE claim[t] = 0
      BY <1>a, <2>5, <3>1 DEF Dispatch
    <3>2. CASE claim[t] # 0
      <4>1. claim[t] \in opened /\ announced[claim[t]] = 0
        BY <3>2 DEF EpisodeInv, ClaimsHeld
      <4>2. claim[t] \in Promise!Episodes
        BY <4>1 DEF BaseInv, TypeOK, Episodes, Promise!Episodes
      <4>3. Promise!AnnounceLate(claim[t])
        BY <2>5, <3>2, <4>1 DEF Dispatch, Announce, Promise!AnnounceLate, Promise!Announced
      <4> QED BY <4>2, <4>3
    <3> QED BY <3>1, <3>2
  <2> QED BY <1>1, <2>1, <2>2, <2>3, <2>4, <2>5 DEF TurnStep
<1>2. CASE HumanHandoffNode
  BY <1>b, <1>2 DEF HumanHandoffNode
<1>3. CASE OperatorTakesOver
  <2>1. Promise!TakeOver
    BY <1>3 DEF OperatorTakesOver, ClaimWins, ClaimManualHandoff, StampHandoff, Promise!TakeOver
  <2> QED BY <2>1
<1>4. CASE ResolveHandoff \/ ResumePausedBulk
  <2>1. /\ auto_reply' = TRUE
        /\ episode' = IF auto_reply THEN episode ELSE episode + 1
        /\ UNCHANGED <<opened, announced>>
    BY <1>4 DEF ResolveHandoff, ResumePausedBulk, GiveBack
  <2>2. CASE auto_reply
    BY <1>a, <2>1, <2>2 DEF BaseInv, TypeOK
  <2>3. CASE ~auto_reply
    <3>1. Promise!GiveBack BY <2>1, <2>3 DEF Promise!GiveBack
    <3> QED BY <3>1
  <2> QED BY <2>2, <2>3
<1>5. CASE SoftPause \/ PauseElapses \/ CloseIdle
  BY <1>a, <1>5 DEF SoftPause, PauseElapses, CloseIdle
<1>6. CASE SlaScan \/ SlaEmit \/ SlaNobodyListens \/ HandoffAges
  BY <1>a, <1>6 DEF SlaScan, SlaEmit, SlaNobodyListens, HandoffAges
<1>7. CASE UNCHANGED vars
  BY <1>a, <1>7 DEF vars
<1> QED BY <1>1, <1>2, <1>3, <1>4, <1>5, <1>6, <1>7 DEF Next

\* Handoff implements Ownership.
THEOREM PromiseCorrect == Spec => PromiseKept
<1>1. Init => Promise!Init
  BY DEF Init, Promise!Init, Episodes, Promise!Episodes
<1>2. BaseInv /\ EpisodeInv /\ [Next]_vars => [Promise!Next]_(Promise!ownership)
  BY PromiseStep
<1> QED BY BaseCorrect, EpisodeCorrect, <1>1, <1>2, PTL DEF Spec, PromiseKept, Promise!Spec

=============================================================================
