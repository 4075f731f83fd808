------------------------------- MODULE FlowPlan -------------------------------
(***************************************************************************)
(* The reminders that a merchant draws: a flow is drawn node by node and   *)
(* saved, a booking takes from it the hours before the appointment at      *)
(* which a reminder is due, and the sweep later finds in it the message    *)
(* that belongs to those hours.                                            *)
(*                                                                         *)
(* Two walks of the code read the same flow, one for the plan of all its   *)
(* sends and one for the n-th send, at different times: the booking        *)
(* answers the conditions with an empty context, the sweep with the        *)
(* customer's 24 hour window as it is then.                                *)
(***************************************************************************)
EXTENDS Naturals, Sequences, FiniteSets, SequencesExt

CONSTANTS Palette,        \* the nodes, good and bad, that the merchant draws
          DefaultHours,   \* booking.reminder_schedule
          MaxHours,       \* 168 hours ahead at most
          MaxNodes, MaxEdges  \* bounds: the size of a flow

VARIABLES drawn,      \* the flow on the canvas
          flow,       \* the flow that is saved and enabled
          reminders,  \* hours ahead of the entries that the booking has made
          planned     \* the flow that the booking read

planVars == <<drawn, flow, reminders, planned>>

None == 0
Plans == [nodes : Seq(Palette), edges : Seq([source : Nat, target : Nat, branch : {"default", "true", "false"}])]

\* The trigger is node 0 and carries nothing.
Empty == [nodes |-> <<>>, edges |-> <<>>]
Conditions == {"window", "group"}
KindOf(g, n) == g.nodes[n].kind

PlanTypeOK ==
  /\ drawn \in Plans /\ Len(drawn.nodes) <= MaxNodes /\ Len(drawn.edges) <= MaxEdges
  /\ flow \in Plans /\ planned \in Plans
  /\ \A h \in reminders : h \in 1..MaxHours

------------------------------------------------------------------------------
(* What may be saved *)

\* _action_config_errors
ActionConfigOK(x) ==
  CASE x.kind = "send" -> x.policy = "require_template" => x.template
    [] x.kind = "wait" -> x.number > 0
    [] x.kind = "until" -> x.number \in 1..MaxHours
    [] OTHER -> TRUE

\* _condition_config_errors: a group may hold clauses that this walk cannot answer.
ConditionConfigOK(x) ==
  x.kind = "group" => x.operator \in {"and", "or"} /\ x.clauses # <<>>

Savable(g) ==
  /\ \A n \in DOMAIN g.nodes : ActionConfigOK(g.nodes[n]) /\ ConditionConfigOK(g.nodes[n])
  /\ \A e \in ToSet(g.edges) : e.target # 0

------------------------------------------------------------------------------
(* The conditions, without an AI to ask.  A clause it cannot answer counts as *)
(* false, negated or not.                                                     *)

Clause(c, window) == c.type = "window" /\ (window # c.negate)

\* _evaluate_group
Passes(x, window) ==
  IF x.kind = "window" THEN window
  ELSE /\ x.clauses # <<>>
       /\ IF x.operator = "or" THEN \E i \in DOMAIN x.clauses : Clause(x.clauses[i], window)
                               ELSE \A i \in DOMAIN x.clauses : Clause(x.clauses[i], window)

\* outgoing_targets, in the order of the edges
Outgoing(g, n, branch) ==
  LET out == SelectSeq(g.edges, LAMBDA e : e.source = n /\ (branch = "default" \/ e.branch = branch))
  IN  [i \in DOMAIN out |-> out[i].target]

Follows(g, n, window) ==
  IF KindOf(g, n) \in Conditions
  THEN Outgoing(g, n, IF Passes(g.nodes[n], window) THEN "true" ELSE "false")
  ELSE Outgoing(g, n, "default")

------------------------------------------------------------------------------
(* resolve_send_plan *)

\* The delay of the waits on the way, which no reminder reads, is left out.
Planned(n, hours) == [node |-> n, hours |-> hours]

PlanStart(g) ==
  [todo |-> Outgoing(g, 0, "default"), visited |-> {}, hours |-> None, sends |-> <<>>]

Meets(g, s, n) ==
  CASE KindOf(g, n) = "send" ->
         [s EXCEPT !.sends = Append(@, Planned(n, s.hours)), !.hours = None]
    [] KindOf(g, n) = "until" -> [s EXCEPT !.hours = g.nodes[n].number]
    [] OTHER -> s

PlanStep(g, window, s) ==
  LET n == Head(s.todo)
      rest == [s EXCEPT !.todo = Tail(@)]
  IN  IF n \in s.visited THEN rest
      ELSE [Meets(g, [rest EXCEPT !.visited = @ \union {n}], n)
              EXCEPT !.todo = @ \o Follows(g, n, window)]

Plan(g, window) ==
  LET after[k \in 0..Len(g.edges)] ==
        IF k = 0 THEN PlanStart(g)
        ELSE LET s == after[k - 1] IN IF s.todo = <<>> THEN s ELSE PlanStep(g, window, s)
  IN  after[Len(g.edges)].sends

------------------------------------------------------------------------------
(* resolve_send_node_at *)

CountStep(g, window, index, s) ==
  LET n == Head(s.todo)
      rest == [s EXCEPT !.todo = Tail(@), !.visited = @ \union {n}]
  IN  IF n \in s.visited THEN rest
      ELSE IF KindOf(g, n) = "send" /\ s.seen = index THEN [rest EXCEPT !.found = n]
      ELSE [rest EXCEPT !.todo = @ \o Follows(g, n, window),
                        !.seen = IF KindOf(g, n) = "send" THEN @ + 1 ELSE @]

SendAt(g, window, index) ==
  LET after[k \in 0..Len(g.edges)] ==
        IF k = 0 THEN [todo |-> Outgoing(g, 0, "default"), visited |-> {}, seen |-> 0, found |-> None]
        ELSE LET s == after[k - 1]
             IN  IF s.todo = <<>> \/ s.found # None THEN s ELSE CountStep(g, window, index, s)
  IN  after[Len(g.edges)].found

------------------------------------------------------------------------------
(* Who uses them *)

\* Mutant: the booking takes the window for open.
LeadHoursInWindow(g) ==
  LET plan == Plan(g, TRUE)
      hours == {plan[i].hours : i \in DOMAIN plan} \ {None}
  IN  IF hours = {} THEN DefaultHours ELSE hours

\* _resolve_reminder_lead_hours: an empty context is one without the window.
LeadHours(g) ==
  LET plan == Plan(g, FALSE)
      hours == {plan[i].hours : i \in DOMAIN plan} \ {None}
  IN  IF hours = {} THEN DefaultHours ELSE hours

\* Mutant: every reminder sends the first message.
AlwaysFirst(g, window, h) == 0

\* _maybe_send: the first send planned for these hours, or else the first of all.
AttemptIndex(g, window, h) ==
  LET plan == Plan(g, window)
      at == {i \in DOMAIN plan : plan[i].hours = h}
  IN  IF at = {} THEN 0 ELSE (CHOOSE i \in at : \A j \in at : i <= j) - 1

\* _resolve_booking_step: the send of this reminder, None to skip it.
Reminder(g, window, h) == SendAt(g, window, AttemptIndex(g, window, h))

\* Bound: a flow is saved once before the booking and changed by one stroke after it.
Draws == flow = Empty \/ (planned # Empty /\ drawn = planned)

PlanInit == drawn = Empty /\ flow = Empty /\ planned = Empty /\ reminders = {}

\* A node is drawn with the edge that leads to it; bound: it comes from one of the last two.
DrawNode ==
  /\ Draws
  /\ Savable(drawn)
  /\ Len(drawn.nodes) < MaxNodes /\ Len(drawn.edges) < MaxEdges
  /\ \E x \in Palette, from \in {n \in 0..Len(drawn.nodes) : n + 1 >= Len(drawn.nodes)},
            branch \in {"default", "true", "false"} :
       /\ (branch = "default") = (from = 0 \/ KindOf(drawn, from) \notin Conditions)
       /\ drawn' = [nodes |-> Append(drawn.nodes, x),
                    edges |-> Append(drawn.edges, [source |-> from, target |-> Len(drawn.nodes) + 1,
                                                   branch |-> branch])]
  /\ UNCHANGED <<flow, reminders, planned>>

\* Branches may meet again.
DrawEdge ==
  /\ Draws
  /\ Savable(drawn)
  /\ Len(drawn.edges) < MaxEdges
  /\ \E to \in DOMAIN drawn.nodes, branch \in {"default", "true", "false"} : \E from \in 0..to - 1 :
       /\ (branch = "default") = (from = 0 \/ KindOf(drawn, from) \notin Conditions)
       /\ \A e \in ToSet(drawn.edges) : ~(e.source = from /\ e.target = to)
       /\ drawn' = [drawn EXCEPT !.edges = Append(@, [source |-> from, target |-> to, branch |-> branch])]
  /\ UNCHANGED <<flow, reminders, planned>>

Save ==
  /\ drawn # flow
  /\ Savable(drawn)
  /\ flow' = drawn
  /\ UNCHANGED <<drawn, reminders, planned>>

\* BookSlotHandler makes the schedule of the new appointment.
Book ==
  /\ flow # Empty /\ planned = Empty
  /\ planned' = flow /\ reminders' = LeadHours(flow)
  /\ UNCHANGED <<drawn, flow>>

\* The sweep sends the reminder of an entry that is due.
SendReminder ==
  \E h \in reminders, window \in BOOLEAN :
    /\ Reminder(flow, window, h) # None
    /\ reminders' = reminders \ {h}
    /\ UNCHANGED <<drawn, flow, planned>>

PlanNext == DrawNode \/ DrawEdge \/ Save \/ Book \/ SendReminder

PlanSpec == PlanInit /\ [][PlanNext]_planVars

------------------------------------------------------------------------------
(* Properties *)

\* The two walks agree: the n-th send of the one is the n-th of the other, and a flow has
\* no send beyond its plan.
WalksAgree ==
  \A window \in BOOLEAN :
    LET plan == Plan(flow, window)
    IN  /\ \A i \in DOMAIN plan : SendAt(flow, window, i - 1) = plan[i].node
        /\ SendAt(flow, window, Len(plan)) = None

\* One edge out of a node, or out of each side of a condition.
SinglePath(g) ==
  \A e, f \in ToSet(g.edges) : e.source = f.source /\ e.branch = f.branch => e = f

\* The nodes that lead to n on the path that the answers select.
Before(g, window, n) ==
  LET next(m) == ToSet(IF m = 0 THEN Outgoing(g, 0, "default") ELSE Follows(g, m, window))
      reach[k \in 0..MaxNodes] ==
        IF k = 0 THEN {0} ELSE LET r == reach[k - 1] IN r \union UNION {next(m) : m \in r}
      reached == reach[MaxNodes]
  IN  IF n \in reached THEN {m \in reached : m < n} ELSE {}

\* The hours that the merchant has drawn before a send: those of the last such node on the
\* way to it, after the send before it.
OwnHours(g, window, n) ==
  LET way == Before(g, window, n)
      timers == {m \in way : m # 0 /\ KindOf(g, m) = "until"
                               /\ \A k \in way : k > m => KindOf(g, k) # "send"}
  IN  IF timers = {} THEN None ELSE g.nodes[CHOOSE m \in timers : \A k \in timers : k <= m].number

SendsOn(g, window) ==
  {n \in DOMAIN g.nodes : KindOf(g, n) = "send" /\ Before(g, window, n) # {}}

\* Every message of a flow with a single path gets its reminder, and every reminder its own
\* message, as long as the flow and the answers to its conditions are those of the booking.
\* After that a reminder sends a message of the path as it is now, if there is one.
RemindersHaveTheirCopy ==
  /\ planned # Empty /\ planned = flow /\ SinglePath(flow) =>
       \A h \in reminders :
         LET own == {n \in SendsOn(flow, FALSE) : OwnHours(flow, FALSE, n) = h}
         IN  own # {} => Reminder(flow, FALSE, h) \in own
  /\ \A h \in reminders, window \in BOOLEAN :
       Reminder(flow, window, h) # None \/ SendsOn(flow, window) = {}

\* A message with hours of its own is in the schedule of every booking.
NoneForgotten ==
  SinglePath(flow) =>
    {OwnHours(flow, FALSE, n) : n \in SendsOn(flow, FALSE)} \ {None} \subseteq LeadHours(flow)

\* For every flow at the time it is saved, and every reminder later.
PlanSafe ==
  /\ PlanTypeOK /\ RemindersHaveTheirCopy
  /\ drawn = flow => WalksAgree /\ NoneForgotten

\* Without the condition on the paths, a flow that forks gives one branch the hours of
\* the other.
EveryBranchIsReminded ==
  {OwnHours(flow, FALSE, n) : n \in SendsOn(flow, FALSE)} \ {None} \subseteq LeadHours(flow)

===============================================================================
