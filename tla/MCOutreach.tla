------------------------------ MODULE MCOutreach ------------------------------
(***************************************************************************)
(* One run for what the bot sends and over which channel: the dispatch of  *)
(* events, the walk of a flow, the idle sweeps, the turn of a reply, the   *)
(* channels and the templates.  Each is the environment of the others by   *)
(* what its own module takes as an input, so a behaviour is one of the     *)
(* part in focus and the others stand still.                               *)
(***************************************************************************)
EXTENDS Dispatch, Outreach, Turn, Channels, SlackChannel, Templates, TLC

CONSTANTS t, k1, k2, k3, k4, a1, a2, e1, e2, p1, p2

VARIABLE focus

-----------------------------------------------------------------------------
(* The instance. *)

\* Flows with four nodes: conditions, waits, closed hours, branches that meet again,
\* a reply that is generated before something that locks.
Flow(ka, kb, kc, kd, es) ==
  [kind |-> t :> "trigger" @@ k1 :> ka @@ k2 :> kb @@ k3 :> kc @@ k4 :> kd, edges |-> es]
Edge(s, x, br) == [source |-> s, target |-> x, branch |-> br]
MCGraphs == {
  Flow("group", "send", "handoff", "reply",
       <<Edge(t, k1, "default"), Edge(k1, k2, "true"), Edge(k1, k3, "false"), Edge(k3, k4, "default"), Edge(k2, k4, "default")>>),
  Flow("score", "wait", "move", "send",
       <<Edge(t, k1, "default"), Edge(t, k2, "default"), Edge(k1, k3, "default"), Edge(k3, k4, "default"), Edge(k2, k4, "default")>>),
  Flow("reply", "notify", "until", "send",
       <<Edge(t, k1, "default"), Edge(k1, k2, "default"), Edge(k1, k3, "default"), Edge(k2, k4, "default"), Edge(k3, k4, "default")>>),
  Flow("profile", "handoff", "check", "outcome",
       <<Edge(t, k1, "default"), Edge(t, k2, "default"), Edge(k1, k3, "default"), Edge(k3, k4, "false")>>)
}

\* Two no-answer automations, of which the second waits longer and asks for its template.
MCDelay == a1 :> 1 @@ a2 :> 2

-----------------------------------------------------------------------------
(* The parts. *)

parts == <<dispatchVars, walkVars, turnVars, channelsVars, slackVars, templatesVars, idleVars>>
vars == <<focus, parts>>

\* The parts that stand still start in one state.
Init ==
  /\ focus \in {"dispatch", "walk", "turn", "channels", "slack", "templates", "idle"}
  /\ DispatchInit /\ WalkInit /\ TurnInit /\ ChannelsInit /\ SlackInit /\ TemplatesInit
  /\ IdleInit
  /\ focus # "walk" => ~window /\ ~retired /\ graph = CHOOSE g \in FlowGraphs : TRUE
  /\ focus # "turn" => settings.allowed = ActionKinds
                         /\ \A s \in DOMAIN settings \ {"allowed"} : ~settings[s]

InDispatch(A) ==
  /\ focus = "dispatch" /\ A
  /\ UNCHANGED <<focus, walkVars, turnVars, channelsVars, slackVars, templatesVars, idleVars>>
InWalk(A) ==
  /\ focus = "walk" /\ A
  /\ UNCHANGED <<focus, dispatchVars, turnVars, channelsVars, slackVars, templatesVars, idleVars>>
InTurn(A) ==
  /\ focus = "turn" /\ A
  /\ UNCHANGED <<focus, dispatchVars, walkVars, channelsVars, slackVars, templatesVars, idleVars>>
InChannels(A) ==
  /\ focus = "channels" /\ A
  /\ UNCHANGED <<focus, dispatchVars, walkVars, turnVars, slackVars, templatesVars, idleVars>>
InSlack(A) ==
  /\ focus = "slack" /\ A
  /\ UNCHANGED <<focus, dispatchVars, walkVars, turnVars, channelsVars, templatesVars, idleVars>>
InTemplates(A) ==
  /\ focus = "templates" /\ A
  /\ UNCHANGED <<focus, dispatchVars, walkVars, turnVars, channelsVars, slackVars, idleVars>>
InIdle(A) ==
  /\ focus = "idle" /\ A
  /\ UNCHANGED <<focus, dispatchVars, walkVars, turnVars, channelsVars, slackVars, templatesVars>>

Next ==
  \/ InDispatch(DispatchNext) \/ InWalk(WalkNext) \/ InTurn(TurnNext)
  \/ InChannels(ChannelsNext) \/ InSlack(SlackNext) \/ InTemplates(TemplatesNext)
  \/ InIdle(IdleNext)

Spec == Init /\ [][Next]_vars

=============================================================================
