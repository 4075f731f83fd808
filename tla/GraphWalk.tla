------------------------------- MODULE GraphWalk -------------------------------
(***************************************************************************)
(* A run of an automation walks its graph, breadth first, for one          *)
(* conversation: conditions choose a branch, a wait or the closed hours    *)
(* suspend one, and the other nodes act.                                   *)
(*                                                                         *)
(* All of it happens in ONE transaction of the run, over a context that    *)
(* was read at its start, while messages leave at once and the actions of  *)
(* a generated reply run in transactions of their own.  Between two nodes, *)
(* and while a reply is generated, the operator, the customer, the clock   *)
(* and the merchant move.                                                  *)
(*                                                                         *)
(* Claims and expiry of the run's own key are in AutomationRun, the queue   *)
(* of the closed hours is in HoursQueue; here a job is run at most once    *)
(* unless its run failed.                                                  *)
(***************************************************************************)
EXTENDS Integers, Sequences, FiniteSets, SequencesExt

CONSTANTS Nodes,
          FlowGraphs,   \* the graphs that the merchant saves
          MaxTurns,     \* bound: moves of the operator, the customer, the clock, the merchant
          MaxFailures   \* bound: sends that fail, processes that die

Kinds == {"absent", "trigger", "condition", "group", "check", "wait", "until", "send", "reply",
          "handoff", "score", "profile", "outcome", "notify", "move"}
Branches == {"default", "true", "false"}

\* _has_cycle: nodes that all have a successor among them.
HasCycle(present, arcs) ==
  \E loop \in SUBSET present \ {{}} : \A n \in loop : \E m \in loop : <<n, m>> \in arcs

\* validate_graph, the part that the walk relies on.
ValidGraph(g) ==
  LET present == {n \in Nodes : g.kind[n] # "absent"}
      arcs == {<<g.edges[i].source, g.edges[i].target>> : i \in DOMAIN g.edges}
      triggers == {n \in present : g.kind[n] = "trigger"}
  IN /\ Cardinality(triggers) = 1
     /\ \A a \in arcs : a[1] \in present /\ a[2] \in present \ triggers
     /\ ~HasCycle(present, arcs)

ASSUME GraphWalkAssumption ==
  /\ {MaxTurns, MaxFailures} \subseteq Nat
  /\ IsFiniteSet(Nodes)
  /\ FlowGraphs # {}
  /\ \A g \in FlowGraphs :
       /\ g \in [kind : [Nodes -> Kinds],
                  edges : Seq([source : Nodes, target : Nodes, branch : Branches])]
       /\ ValidGraph(g)

Trigger(g) == CHOOSE n \in Nodes : g.kind[n] = "trigger"

\* The k-th of some positions.
Nth(positions, k) == CHOOSE i \in positions : Cardinality({j \in positions : j <= i}) = k

\* outgoing_targets, in the order of the edges; "default" follows every edge.
Targets(g, n, branch) ==
  LET follows(e) == e.source = n /\ (branch = "default" \/ e.branch = branch)
      chosen == {i \in DOMAIN g.edges : follows(g.edges[i])}
  IN [k \in 1..Cardinality(chosen) |-> g.edges[Nth(chosen, k)].target]

CustomerFacing == {"send", "reply"}
Speaks(g) == \E n \in Nodes : g.kind[n] \in CustomerFacing

VARIABLES
  \* the automation
  graph, enabled,
  \* the conversation and its lead, as committed
  human,       \* the thread belongs to an operator
  window,      \* the customer wrote within 24 hours
  hours_open,
  reengaged,   \* the customer wrote after the episode's anchor
  retired,     \* the thread names a channel that the merchant replaced
  \* jobs: the event, continuations of waits, rows of the closed hours
  walk_jobs, off_hours_rows,
  \* the run
  wpc, job, ctx, to_visit, visited, ai_reply_fired, deferrals, off_hours, node, action,
  tx,          \* what its open transaction has written
  \* history
  reached,        \* nodes that the event reached
  acted,       \* nodes that had their turn
  excused,     \* a run failed or stopped, or the merchant changed the graph
  overtaken,   \* the thread changed hands during the run
  told,        \* messages of the run
  turns, failures

flow == <<graph, enabled>>
thread == <<human, window, hours_open, reengaged, retired>>
run == <<wpc, job, ctx, to_visit, visited, ai_reply_fired, deferrals, off_hours, node, action, tx>>
record == <<reached, acted, excused, overtaken, told, turns, failures>>
walkVars == <<flow, thread, walk_jobs, off_hours_rows, run, record>>

TheEvent == [of |-> Trigger(graph), keys |-> <<>>]
NoTx == [locks |-> {}, human |-> FALSE, healed |-> FALSE]
NoCtx == [paused |-> FALSE, window |-> FALSE, closed |-> FALSE]

WalkTypeOK ==
  /\ graph \in FlowGraphs
  /\ enabled \in BOOLEAN /\ human \in BOOLEAN /\ window \in BOOLEAN /\ hours_open \in BOOLEAN
  /\ reengaged \in BOOLEAN /\ retired \in BOOLEAN /\ ai_reply_fired \in BOOLEAN
  /\ excused \in BOOLEAN /\ overtaken \in BOOLEAN
  /\ walk_jobs \union deferrals \union {job} \subseteq [of : Nodes, keys : Seq(Nodes)]
  /\ off_hours_rows \in SUBSET SUBSET Nodes
  /\ wpc \in {"idle", "walking", "generating", "dispatching", "scheduling"}
  /\ ctx \in [paused : BOOLEAN, window : BOOLEAN, closed : BOOLEAN]
  /\ to_visit \in Seq(Nodes)
  /\ visited \union off_hours \union reached \union acted \union {node} \subseteq Nodes
  /\ action \in {"none", "escalate", "score", "move"}
  /\ tx \in [locks : SUBSET {"conversation", "lead"}, human : BOOLEAN, healed : BOOLEAN]
  /\ told \in Nat
  /\ turns \in 0..MaxTurns
  /\ failures \in 0..MaxFailures

WalkInit ==
  /\ graph \in FlowGraphs
  /\ enabled = TRUE
  /\ human = FALSE
  /\ window \in BOOLEAN
  /\ hours_open = TRUE
  /\ reengaged = FALSE
  /\ retired \in BOOLEAN
  /\ walk_jobs = {TheEvent}
  /\ off_hours_rows = {}
  /\ wpc = "idle"
  /\ job = TheEvent
  /\ ctx = NoCtx
  /\ to_visit = <<>>
  /\ visited = {}
  /\ ai_reply_fired = FALSE
  /\ deferrals = {}
  /\ off_hours = {}
  /\ node = Trigger(graph)
  /\ action = "none"
  /\ tx = NoTx
  /\ reached = ToSet(Targets(graph, Trigger(graph), "default"))
  /\ acted = {}
  /\ excused = FALSE
  /\ overtaken = FALSE
  /\ told = 0
  /\ turns = 0
  /\ failures = 0

-----------------------------------------------------------------------------
(* Around the run. *)

Turn == turns < MaxTurns /\ turns' = turns + 1
AroundOnly == UNCHANGED <<walk_jobs, off_hours_rows, run, reached, acted, told, failures>>

\* The operator takes the thread, or gives it back: an update of the conversation,
\* which waits for the run's transaction if that has updated it too.
OperatorActs ==
  /\ Turn
  /\ "conversation" \notin tx.locks
  /\ human' = ~human
  /\ overtaken' = TRUE
  /\ UNCHANGED <<flow, window, hours_open, reengaged, retired, excused>>
  /\ AroundOnly

CustomerWrites ==
  /\ Turn
  /\ "conversation" \notin tx.locks
  /\ window' = TRUE
  /\ reengaged' = TRUE
  /\ UNCHANGED <<flow, human, hours_open, retired, excused, overtaken>>
  /\ AroundOnly

WindowCloses ==
  /\ Turn
  /\ window
  /\ window' = FALSE
  /\ UNCHANGED <<flow, human, hours_open, reengaged, retired, excused, overtaken>>
  /\ AroundOnly

HoursTurn ==
  /\ Turn
  /\ hours_open' = ~hours_open
  /\ UNCHANGED <<flow, human, window, reengaged, retired, excused, overtaken>>
  /\ AroundOnly

\* update_automation: the graph is replaced as a whole, and the one of an enabled
\* automation is valid.  A walk that is under way keeps the one it loaded.
SaveGraph ==
  /\ Turn
  /\ wpc = "idle"
  /\ \/ graph' \in FlowGraphs \ {graph} /\ UNCHANGED enabled
     \/ enabled' = ~enabled /\ UNCHANGED graph
  /\ excused' = TRUE
  /\ UNCHANGED <<thread, overtaken>>
  /\ AroundOnly

-----------------------------------------------------------------------------
(* The run. *)

\* _resolve_context: the thread as it is now, for the whole walk.
Context == [paused |-> human, window |-> window, closed |-> Speaks(graph) /\ ~hours_open]

StartWalk(j) ==
  /\ wpc = "idle"
  /\ j \in walk_jobs
  /\ walk_jobs' = walk_jobs \ {j}
  /\ IF ~enabled \/ reengaged
     THEN /\ excused' = TRUE
          /\ UNCHANGED <<run, told, overtaken>>
     ELSE /\ wpc' = "walking"
          /\ job' = j
          /\ ctx' = Context
          /\ to_visit' = IF j.keys = <<>> THEN Targets(graph, Trigger(graph), "default") ELSE j.keys
          /\ visited' = {}
          /\ ai_reply_fired' = FALSE
          /\ deferrals' = {}
          /\ off_hours' = {}
          /\ tx' = IF retired /\ Speaks(graph)
                   THEN [NoTx EXCEPT !.locks = {"conversation"}, !.healed = TRUE] ELSE NoTx
          /\ told' = 0
          /\ overtaken' = FALSE
          /\ UNCHANGED <<node, action, excused>>
  /\ UNCHANGED <<flow, thread, off_hours_rows, reached, acted, turns, failures>>

\* The walk leaves node n for the nodes in next.
Follow(n, next) ==
  /\ to_visit' = Tail(to_visit) \o next
  /\ visited' = visited \union {n}
  /\ reached' = reached \union ToSet(next)
  /\ acted' = acted \union {n}

Arrive(n) == wpc = "walking" /\ to_visit # <<>> /\ n = Head(to_visit)
Fresh(n) == Arrive(n) /\ n \notin visited
WalkOnly == UNCHANGED <<flow, thread, walk_jobs, off_hours_rows, job, ctx, node, excused, overtaken,
                        turns, failures>>

\* A node that the walk has been at, or that a saved graph no longer has.
SkipNode(n) ==
  /\ Arrive(n)
  /\ n \in visited \/ graph.kind[n] = "absent"
  /\ to_visit' = Tail(to_visit)
  /\ visited' = visited \union {n}
  /\ WalkOnly
  /\ UNCHANGED <<wpc, ai_reply_fired, deferrals, off_hours, action, tx, reached, acted, told>>

\* evaluate_condition: the context that the run has read decides, one way or the other.
Verdicts(n) == BOOLEAN

\* _evaluate_ai_check: a model that fails, or that has no thread to read, says no.
Checked(n, answers) == IF answers THEN BOOLEAN ELSE {FALSE}

\* _evaluate_group_async: clauses in order, until one decides; each may be negated.
Grouped(n) == UNION {Verdicts(n), {~v : v \in Checked(n, FALSE)}}

Branch(n) ==
  /\ Fresh(n)
  /\ graph.kind[n] \in {"condition", "check", "group"}
  /\ \E passed \in CASE graph.kind[n] = "condition" -> Verdicts(n)
                     [] graph.kind[n] = "check" -> UNION {Checked(n, a) : a \in BOOLEAN}
                     [] graph.kind[n] = "group" -> Grouped(n) :
       Follow(n, Targets(graph, n, IF passed THEN "true" ELSE "false"))
  /\ WalkOnly
  /\ UNCHANGED <<wpc, ai_reply_fired, deferrals, off_hours, action, tx, told>>

\* The branch stops here, and goes on in a job of its own.
WaitMinutes(n) ==
  /\ Fresh(n)
  /\ graph.kind[n] = "wait"
  /\ LET next == Targets(graph, n, "default")
     IN /\ deferrals' = IF next = <<>> THEN deferrals
                        ELSE deferrals \union {[of |-> n, keys |-> next]}
        /\ reached' = reached \union ToSet(next)
  /\ acted' = acted \union {n}
  /\ visited' = visited \union {n}
  /\ to_visit' = Tail(to_visit)
  /\ WalkOnly
  /\ UNCHANGED <<wpc, ai_reply_fired, off_hours, action, tx, told>>

\* The branch of an appointment's reminders belongs to another scheduler.
WaitUntilBefore(n) ==
  /\ Fresh(n)
  /\ graph.kind[n] = "until"
  /\ Follow(n, <<>>)
  /\ WalkOnly
  /\ UNCHANGED <<wpc, ai_reply_fired, deferrals, off_hours, action, tx, told>>

\* Mutant: the branch of a postponed node goes on, as that of a skipped one does.
PostponeDropped(n) ==
  /\ to_visit' = Tail(to_visit)
  /\ UNCHANGED off_hours

\* The branch stops before the node, and resumes with it.
PostponeTo(n) ==
  /\ to_visit' = Tail(to_visit)
  /\ off_hours' = off_hours \union {n}

Postpone(n) ==
  /\ Fresh(n)
  /\ graph.kind[n] \in CustomerFacing
  /\ ctx.closed
  /\ PostponeTo(n)
  /\ visited' = visited \union {n}
  /\ WalkOnly
  /\ UNCHANGED <<wpc, ai_reply_fired, deferrals, action, tx, reached, acted, told>>

\* Mutant: only ai_reply asks whether a human owns the thread.
GatedReplyOnly(n) == graph.kind[n] = "reply" /\ (ctx.paused \/ ai_reply_fired)

\* A human owns the thread, or the run has had its one generated reply.
Gated(n) ==
  /\ graph.kind[n] \in CustomerFacing
  /\ ctx.paused \/ (graph.kind[n] = "reply" /\ ai_reply_fired)

Silenced(n) ==
  /\ Fresh(n)
  /\ Gated(n)
  /\ ~ctx.closed
  /\ ai_reply_fired' = (ai_reply_fired \/ graph.kind[n] = "reply")
  /\ Follow(n, Targets(graph, n, "default"))
  /\ WalkOnly
  /\ UNCHANGED <<wpc, deferrals, off_hours, action, tx, told>>

\* decide_outbound: within the window the text, outside it an approved template.
Decide(has_text, has_template) ==
  IF ctx.window /\ has_text THEN "text" ELSE IF has_template THEN "template" ELSE "skip"

\* send_and_persist_decision: the message leaves, and its row and the stamp on the
\* conversation are written in the run's transaction.
Deliver(mode) ==
  IF mode = "skip" THEN UNCHANGED <<tx, told>>
  ELSE /\ told' = told + 1
       /\ tx' = [tx EXCEPT !.locks = @ \union {"conversation"}]

SendNode(n) ==
  /\ Fresh(n)
  /\ graph.kind[n] = "send"
  /\ ~Gated(n) /\ ~ctx.closed
  /\ \E has_text, has_template \in BOOLEAN : Deliver(Decide(has_text, has_template))
  /\ Follow(n, Targets(graph, n, "default"))
  /\ WalkOnly
  /\ UNCHANGED <<wpc, ai_reply_fired, deferrals, off_hours, action>>

\* ai_reply: the model is asked for a text ...
Generate(n) ==
  /\ Fresh(n)
  /\ graph.kind[n] = "reply"
  /\ ~Gated(n) /\ ~ctx.closed
  /\ wpc' = "generating"
  /\ node' = n
  /\ ai_reply_fired' = TRUE
  /\ UNCHANGED <<flow, thread, walk_jobs, off_hours_rows, job, ctx, to_visit, visited, deferrals,
                 off_hours, action, tx, record>>

\* ... which is sent, and for actions, which are dispatched.
SendReply ==
  /\ wpc = "generating"
  /\ \E has_template \in BOOLEAN : Deliver(Decide(TRUE, has_template))
  /\ Follow(node, Targets(graph, node, "default"))
  /\ \E a \in {"none", "escalate", "score"} :
       /\ action' = a
       /\ wpc' = IF a = "none" THEN "walking" ELSE "dispatching"
  /\ WalkOnly
  /\ UNCHANGED <<ai_reply_fired, deferrals, off_hours>>

\* move_pipeline: its handler is called as the dispatcher would.
Move(n) ==
  /\ Fresh(n)
  /\ graph.kind[n] = "move"
  /\ Follow(n, Targets(graph, n, "default"))
  /\ action' = "move"
  /\ wpc' = "dispatching"
  /\ WalkOnly
  /\ UNCHANGED <<ai_reply_fired, deferrals, off_hours, tx, told>>

\* The row that the handler of an action updates, in a transaction of its own.
RowOf(a) == IF a = "escalate" THEN "conversation" ELSE "lead"

\* EscalateHumanHandler, MovePipelineHandler, the score: it waits for the row.  It leaves
\* the row alone if escalation is switched off, or GHL refuses; exceptions are swallowed.
Dispatched ==
  /\ wpc = "dispatching"
  /\ \/ RowOf(action) \notin tx.locks /\ human' = (human \/ action = "escalate")
     \/ action \in {"escalate", "move"} /\ UNCHANGED human
  /\ overtaken' = (overtaken \/ human' # human)
  /\ wpc' = "walking"
  /\ action' = "none"
  /\ UNCHANGED <<flow, window, hours_open, reengaged, retired, walk_jobs, off_hours_rows, job, ctx,
                 to_visit, visited, ai_reply_fired, deferrals, off_hours, node, tx, reached, acted,
                 excused, told, turns, failures>>

\* Mutant: a claim that is lost leaves the run as it was.
PausesIfWon == ctx.paused \/ ~human

PausesAlways == TRUE

\* human_handoff: the claim is in the run's transaction, and the run is silent from now
\* on whether it won it or not.
Handoff(n) ==
  /\ Fresh(n)
  /\ graph.kind[n] = "handoff"
  /\ ctx' = [ctx EXCEPT !.paused = PausesAlways]
  /\ tx' = IF human THEN tx
           ELSE [tx EXCEPT !.locks = @ \union {"conversation"}, !.human = TRUE]
  /\ Follow(n, Targets(graph, n, "default"))
  /\ UNCHANGED <<flow, thread, walk_jobs, off_hours_rows, wpc, job, ai_reply_fired, deferrals,
                 off_hours, node, action, excused, overtaken, told, turns, failures>>

\* A node of the house: what it writes waits for the commit.
Internal(n, locks) ==
  /\ Fresh(n)
  /\ tx' = [tx EXCEPT !.locks = @ \union locks]
  /\ Follow(n, Targets(graph, n, "default"))
  /\ WalkOnly
  /\ UNCHANGED <<wpc, ai_reply_fired, deferrals, off_hours, action, told>>

SetLeadField(n) == graph.kind[n] = "score" /\ Internal(n, {"lead"})
SetProfile(n) == graph.kind[n] = "profile" /\ Internal(n, {"conversation"})
EmitOutcome(n) == graph.kind[n] = "outcome" /\ Internal(n, {})

\* Posted at once (SlackChannel); nothing that it fails at stops the walk.
NotifySlack(n) == graph.kind[n] = "notify" /\ Internal(n, {})

\* The walk is over: rows of the closed hours go in with it.
CommitWalk ==
  /\ wpc = "walking"
  /\ to_visit = <<>>
  /\ human' = (human \/ tx.human)
  /\ retired' = (retired /\ ~tx.healed)
  /\ off_hours_rows' = IF off_hours = {} THEN off_hours_rows ELSE off_hours_rows \union {off_hours}
  /\ tx' = NoTx
  /\ wpc' = "scheduling"
  /\ UNCHANGED <<flow, window, hours_open, reengaged, walk_jobs, job, ctx, to_visit, visited,
                 ai_reply_fired, deferrals, off_hours, node, action, record>>

EndWalk ==
  /\ wpc' = "idle"
  /\ ctx' = NoCtx
  /\ to_visit' = <<>>
  /\ visited' = {}
  /\ ai_reply_fired' = FALSE
  /\ deferrals' = {}
  /\ off_hours' = {}
  /\ action' = "none"
  /\ tx' = NoTx
  /\ UNCHANGED <<job, node>>

\* Continuations are queued after the transaction.
ScheduleWaits ==
  /\ wpc = "scheduling"
  /\ walk_jobs' = walk_jobs \union deferrals
  /\ EndWalk
  /\ UNCHANGED <<flow, thread, off_hours_rows, record>>

\* A send that fails, a process that dies, the timeout of the job: what the run wrote is
\* rolled back, what it sent is not, and the event may be picked up again.
WalkFails ==
  /\ wpc # "idle"
  /\ failures < MaxFailures
  /\ failures' = failures + 1
  /\ \/ UNCHANGED walk_jobs
     \/ job.keys = <<>> /\ walk_jobs' = walk_jobs \union {job}
  /\ excused' = TRUE
  /\ EndWalk
  /\ UNCHANGED <<flow, thread, off_hours_rows, reached, acted, overtaken, told, turns>>

\* The sweep of the closed hours.
ResumeRow(keys) ==
  /\ hours_open
  /\ keys \in off_hours_rows
  /\ off_hours_rows' = off_hours_rows \ {keys}
  /\ walk_jobs' = walk_jobs \union {[of |-> CHOOSE n \in keys : TRUE, keys |-> SetToSeq(keys)]}
  /\ UNCHANGED <<flow, thread, run, record>>

WalkNext ==
  \/ OperatorActs \/ CustomerWrites \/ WindowCloses \/ HoursTurn \/ SaveGraph
  \/ \E j \in walk_jobs : StartWalk(j)
  \/ \E n \in Nodes :
       \/ SkipNode(n) \/ Branch(n) \/ WaitMinutes(n) \/ WaitUntilBefore(n) \/ Postpone(n)
       \/ Silenced(n) \/ SendNode(n) \/ Generate(n) \/ Move(n) \/ Handoff(n)
       \/ SetLeadField(n) \/ SetProfile(n) \/ EmitOutcome(n) \/ NotifySlack(n)
  \/ SendReply \/ Dispatched \/ CommitWalk \/ ScheduleWaits \/ WalkFails
  \/ \E keys \in off_hours_rows : ResumeRow(keys)

WalkSpec == WalkInit /\ [][WalkNext]_walkVars

-----------------------------------------------------------------------------
(* Properties. *)

\* Whatever suspends a branch, none gets lost: a node that the event reached has had its
\* turn, or it is ahead in the walk, in a job or in a row of the closed hours.
NoBranchLost ==
  \A n \in reached :
    \/ excused \/ TheEvent \in walk_jobs
    \/ n \in acted \union off_hours \union UNION off_hours_rows
    \/ wpc # "idle" /\ n \in ToSet(to_visit) \union {node}
    \/ \E j \in walk_jobs \union deferrals : n \in ToSet(j.keys)

\* No branch of a graph gets lost, wherever its walk is suspended.
WalkSafe == WalkTypeOK /\ NoBranchLost

\* A message of a run does not go out over the head of an operator, unless the thread
\* changed hands under the run, nor after a handoff node of the run, whoever won the claim.
NoMessageOverHuman ==
  [][told' > told =>
       /\ ~human \/ overtaken
       /\ \A n \in visited : graph.kind[n] # "handoff"]_walkVars

\* The escalation that a generated reply asks for is carried out: the handler "takes the
\* claim itself".  It cannot if it waits for a row of the very run that waits for it.
ClaimNotBlocked == wpc = "dispatching" /\ action = "escalate" => RowOf(action) \notin tx.locks

=============================================================================
