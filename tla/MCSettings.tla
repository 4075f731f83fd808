------------------------------ MODULE MCSettings ------------------------------
(***************************************************************************)
(* One run for what the merchant and the agency set up: the cascade of     *)
(* settings, the fine-tuned models and their experiments, the editor of    *)
(* templates, the reminders that are drawn as a flow, and the hours.  None *)
(* of them writes what another one reads, so a behaviour is one of the     *)
(* part in focus and the others stand still.                               *)
(***************************************************************************)
EXTENDS ConfigCascade, FineTuning, TemplateLint, FlowPlan, HoursSync, TLC

CONSTANTS t1, t2, w1, w2

VARIABLE focus

-----------------------------------------------------------------------------
(* The instance. *)

\* Nodes of a plan: messages, waits until some hours before (one of them refused by the
\* router), conditions on the window.
Drawing(k, n, p, o, cs) ==
  [kind |-> k, number |-> n, policy |-> p, template |-> FALSE, operator |-> o, clauses |-> cs]
MCPalette == {
  Drawing("send", 0, "auto", "", <<>>),
  Drawing("until", 24, "", "", <<>>), Drawing("until", 2, "", "", <<>>), Drawing("until", 0, "", "", <<>>),
  Drawing("window", 0, "", "", <<>>),
  Drawing("group", 0, "", "or", <<[type |-> "window", negate |-> TRUE], [type |-> "ai", negate |-> TRUE]>>)
}

\* Weeks of three days: a break, hours up to the last tick, nights, a day off, all days off.
Week(p, q, r) == 0 :> p @@ 1 :> q @@ 2 :> r
MCWeeks == {
  Week(OpenRow(2, 6), BreakRow(0, 2, 4, 6), Shut),
  Week(OpenRow(3, 5), BreakRow(1, 2, 3, 7), OpenRow(2, 4)),
  Week(Shut, Shut, Shut)
}
MCGhlWeeks == {
  Week(<<>>, <<<<0, 2>>, <<3, 4>>, <<5, 7>>>>, <<<<2, 6>>>>),
  Week(<<<<6, 2>>>>, <<>>, <<<<2, 4>>, <<5, 6>>>>)
}
MCCustom == {
  Week(<<<<6, 2>>, <<3, 5>>>>, <<<<0, 0>>>>, <<>>),
  Week(<<>>, <<<<2, 6>>, <<4, 7>>>>, <<<<7, 1>>>>)
}

\* Templates and writers are interchangeable: a template is only chosen when it is the one.
Interchangeable == Permutations({t1, t2}) \union Permutations({w1, w2})

-----------------------------------------------------------------------------
(* The parts. *)

vars == <<focus, cascadeVars, ftVars, lintVars, planVars, syncVars>>

\* The hours stand still as they are when the first night has read the calendar.
HoursAtRest ==
  /\ now = At(Today0, 0)
  /\ hours = Week(OpenRow(3, 5), BreakRow(1, 2, 3, 7), OpenRow(2, 4)) /\ wanted = hours
  /\ calendar = [open |-> ToGhlOpenHours(hours), overrides |-> {}]
  /\ saver = NoSave /\ night = [pc |-> "read", read |-> calendar]
  /\ closures = {} /\ wanted_closures = {} /\ told = {} /\ why = {}
  /\ edits = 0 /\ slips = 0

Init ==
  /\ focus \in {"cascade", "ft", "lint", "plan", "hours"}
  /\ CascadeInit /\ FtInit /\ LintInit /\ PlanInit
  /\ IF focus = "hours" THEN SyncInit ELSE HoursAtRest

InCascade(A) == focus = "cascade" /\ A /\ UNCHANGED <<focus, ftVars, lintVars, planVars, syncVars>>
InFt(A) == focus = "ft" /\ A /\ UNCHANGED <<focus, cascadeVars, lintVars, planVars, syncVars>>
InLint(A) == focus = "lint" /\ A /\ UNCHANGED <<focus, cascadeVars, ftVars, planVars, syncVars>>
InPlan(A) == focus = "plan" /\ A /\ UNCHANGED <<focus, cascadeVars, ftVars, lintVars, syncVars>>
InOpening(A) == focus = "hours" /\ A /\ UNCHANGED <<focus, cascadeVars, ftVars, lintVars, planVars>>

Next ==
  \/ InCascade(CascadeNext) \/ InFt(FtNext) \/ InLint(LintNext) \/ InPlan(PlanNext)
  \/ InOpening(SyncNext)

Spec == Init /\ [][Next]_vars

-----------------------------------------------------------------------------
(* Properties of two parts. *)

\* What the merchant composes is what the customer gets: both linters agree on a template
\* and it is sent as written (TemplateLint), and a flow of reminders gives each booking
\* its reminders and each reminder its message (FlowPlan).
DraftsSafe ==
  /\ focus = "lint" => LintSafe
  /\ focus = "plan" => PlanSafe

=============================================================================
