---------------------------- MODULE SlackChannel ----------------------------
(***************************************************************************)
(* The Slack webhook of one merchant: connected by hand or through OAuth,  *)
(* with an automation that tells of a handoff, and given up when Slack     *)
(* refuses it for good.                                                    *)
(***************************************************************************)
EXTENDS Integers

CONSTANTS Owners,        \* requests of the merchant that may overlap
          MaxHooks,      \* bound: webhooks that Slack issues
          MaxHookDrops   \* bound: disconnections, webhooks that die

ASSUME SlackAssumption == {MaxHooks, MaxHookDrops} \subseteq Nat

NoHook == [present |-> FALSE]
Hook(s, st) == [present |-> TRUE, secret |-> s, status |-> st]

VARIABLES
  hooks,       \* webhooks issued
  live,        \* those that Slack honours
  slack,       \* integrations, provider slack
  automations, \* automations that notify Slack of a handoff
  opc, offered,
  posting, posted_to,
  crossed,     \* the webhook was replaced under a post
  hook_drops

slackVars == <<hooks, live, slack, automations, opc, offered, posting, posted_to, crossed,
               hook_drops>>

SlackTypeOK ==
  /\ hooks \in 0..MaxHooks
  /\ live \in SUBSET (1..hooks)
  /\ slack # NoHook => slack.secret \in 1..hooks /\ slack.status \in {"active", "error"}
  /\ automations \in Nat
  /\ opc \in [Owners -> {"idle", "seeding"}]
  /\ offered \in [Owners -> 0..MaxHooks]
  /\ posted_to \in 0..MaxHooks
  /\ {crossed, posting} \subseteq BOOLEAN
  /\ hook_drops \in 0..MaxHookDrops

SlackInit ==
  /\ hooks = 0
  /\ live = {}
  /\ slack = NoHook
  /\ automations = 0
  /\ opc = [o \in Owners |-> "idle"]
  /\ offered = [o \in Owners |-> 0]
  /\ posting = FALSE
  /\ posted_to = 0
  /\ crossed = FALSE
  /\ hook_drops = 0

HookDrop == hook_drops < MaxHookDrops /\ hook_drops' = hook_drops + 1

-----------------------------------------------------------------------------

\* slack_connect and slack_oauth_callback: a webhook that Slack issued is stored, and the
\* row stays locked ...
StoreHook(o) ==
  /\ opc[o] = "idle"
  /\ \A p \in Owners : opc[p] = "idle"
  /\ hooks < MaxHooks
  /\ hooks' = hooks + 1
  /\ live' = live \union {hooks + 1}
  /\ offered' = [offered EXCEPT ![o] = hooks + 1]
  /\ opc' = [opc EXCEPT ![o] = "seeding"]
  /\ UNCHANGED <<slack, automations, posting, posted_to, crossed, hook_drops>>

\* Mutant: any connection creates the automation.
SeedsAlways == TRUE

\* _seed_handoff_slack_automation: only if none notifies Slack yet.
Seeds == automations = 0

\* ... while the automation is seeded, if there is none.
SeedAutomation(o) ==
  /\ opc[o] = "seeding"
  /\ slack' = Hook(offered[o], "active")
  /\ automations' = IF Seeds THEN automations + 1 ELSE automations
  /\ crossed' = (crossed \/ posting)
  /\ opc' = [opc EXCEPT ![o] = "idle"]
  /\ offered' = [offered EXCEPT ![o] = 0]
  /\ UNCHANGED <<hooks, live, posting, posted_to, hook_drops>>

DisconnectSlack ==
  /\ HookDrop
  /\ slack # NoHook
  /\ \A o \in Owners : opc[o] = "idle"
  /\ slack' = NoHook
  /\ UNCHANGED <<hooks, live, automations, opc, offered, posting, posted_to, crossed>>

HookDies(h) ==
  /\ HookDrop
  /\ h \in live
  /\ live' = live \ {h}
  /\ UNCHANGED <<hooks, slack, automations, opc, offered, posting, posted_to, crossed>>

\* notify_slack: the webhook is resolved ...
Post ==
  /\ ~posting
  /\ slack # NoHook /\ slack.status = "active"
  /\ posting' = TRUE
  /\ posted_to' = slack.secret
  /\ crossed' = FALSE
  /\ UNCHANGED <<hooks, live, slack, automations, opc, offered, hook_drops>>

\* Mutant: a webhook that does not answer counts as one that is refused.
RefusedOrSilent(h) == TRUE

Refused(h) == h \notin live

\* ... and Slack answers, takes too long, or refuses it for good: mark_provider_broken
\* reads the row again, and gives up whatever webhook it holds.
Posted ==
  /\ posting
  /\ \A o \in Owners : opc[o] = "idle"
  /\ slack' = IF slack # NoHook /\ Refused(posted_to) THEN [slack EXCEPT !.status = "error"]
              ELSE slack
  /\ posting' = FALSE
  /\ posted_to' = 0
  /\ UNCHANGED <<hooks, live, automations, opc, offered, crossed, hook_drops>>

-----------------------------------------------------------------------------

SlackNext ==
  \/ \E o \in Owners : StoreHook(o) \/ SeedAutomation(o)
  \/ DisconnectSlack \/ Post \/ Posted
  \/ \E h \in live : HookDies(h)

SlackSpec == SlackInit /\ [][SlackNext]_slackVars

-----------------------------------------------------------------------------
(* Properties. *)

\* A webhook is given up only if Slack refuses it, or it replaced one under a post; and
\* Slack is told of a handoff by one automation, however often it is connected.
GivenUpIfRefused ==
  [][/\ SlackTypeOK
     /\ automations' <= 1
     /\ slack # NoHook /\ slack.status = "active" /\ slack' # NoHook /\ slack'.status = "error"
          => slack.secret \notin live \/ crossed]_slackVars

=============================================================================
