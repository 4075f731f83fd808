------------------------------- MODULE Templates -------------------------------
(***************************************************************************)
(* The life of a WhatsApp template: the row that the merchant edits and    *)
(* submits, what Meta holds of it, and the two ways its approval comes     *)
(* back: a webhook, and an hourly poll.                                    *)
(*                                                                         *)
(* Every submission has a name of its own (it carries the time), here its  *)
(* number, and an id from Meta, here the same number.  A body is a number: *)
(* the row and Meta hold the same text when it is the same one.            *)
(***************************************************************************)
EXTENDS Integers, FiniteSets, Sequences

CONSTANTS Submitters,  \* submit requests that may overlap
          MaxBodies,   \* bound: bodies that the merchant writes
          MaxSubs,     \* bound: submissions
          MaxVerdicts, \* bound: verdicts of Meta
          MaxStray     \* bound: submit requests that fail

ASSUME TemplatesAssumption == {MaxBodies, MaxSubs, MaxVerdicts, MaxStray} \subseteq Nat

Bodies == 1..MaxBodies
Subs == 1..MaxSubs
MetaStatuses == {"PENDING", "APPROVED", "REJECTED", "PAUSED", "DISABLED"}
NoTemplate == [status |-> "none", body |-> 0, name |-> 0, wid |-> 0]

VARIABLES
  template,    \* the row of whatsapp_templates
  bodies,      \* bodies written so far
  meta,        \* Meta: submissions in order, [body, status]
  tpl_events,  \* apply_template_status_event jobs: <<submission, event>>
  spc, tpl_read, sub,  \* submit requests, the row each one read, and its submission
  polled,      \* the poll, or a refresh: the submission it asks for, and the answer
  verdicts, stray,
  edited_under,  \* the row was edited while a submission of it was on its way
  answered,    \* submissions on which a verdict has reached the row
  late         \* one reached it that was on an older text

tpl_requests == <<spc, tpl_read, sub>>
tpl_past == <<edited_under, answered, late>>
tpl_bounds == <<verdicts, stray>>
templatesVars == <<template, bodies, meta, tpl_events, tpl_requests, polled, tpl_bounds,
                   tpl_past>>

TemplatesTypeOK ==
  /\ template.status \in {"none", "draft", "pending_approval", "approved", "rejected"}
  /\ {template.name, template.wid} \subseteq Subs \union {0}
  /\ bodies \in 0..MaxBodies
  /\ \A n \in DOMAIN meta : meta[n].status \in MetaStatuses /\ meta[n].body \in Bodies
  /\ tpl_events \subseteq Subs \X MetaStatuses
  /\ spc \in [Submitters -> {"idle", "read", "sent"}]
  /\ \A x \in polled : x.of \in Subs /\ x.answer \in MetaStatuses \union {"asked"}
  /\ {edited_under, late} \subseteq BOOLEAN /\ answered \subseteq Subs

TemplatesInit ==
  /\ template = NoTemplate
  /\ bodies = 0
  /\ meta = <<>>
  /\ tpl_events = {}
  /\ spc = [s \in Submitters |-> "idle"]
  /\ tpl_read = [s \in Submitters |-> NoTemplate]
  /\ sub = [s \in Submitters |-> 0]
  /\ polled = {}
  /\ verdicts = 0 /\ stray = 0
  /\ edited_under = FALSE /\ answered = {} /\ late = FALSE

Stray == stray < MaxStray /\ stray' = stray + 1 /\ UNCHANGED verdicts

-----------------------------------------------------------------------------
(* The router. *)

NewBody == bodies < MaxBodies /\ bodies' = bodies + 1

\* One row: the next template is made when nobody works on the last one.
NobodySubmits == \A s \in Submitters : spc[s] = "idle"

\* create_template, as a draft.
CreateDraft ==
  /\ template = NoTemplate
  /\ NobodySubmits
  /\ NewBody
  /\ template' = [status |-> "draft", body |-> bodies + 1, name |-> 0, wid |-> 0]
  /\ UNCHANGED <<meta, tpl_events, tpl_requests, polled, tpl_bounds, tpl_past>>

\* Mutant: a template under review may be edited.
EditableAlways(r) == r.status # "none"

Editable(r) == r.status \in {"draft", "rejected"}

\* update_template: only a row that Meta does not hold, and it is a draft again.
EditTemplate ==
  /\ Editable(template)
  /\ NewBody
  /\ template' = [template EXCEPT !.status = "draft", !.body = bodies + 1]
  /\ edited_under' = (edited_under \/ \E s \in Submitters : spc[s] # "idle")
  /\ UNCHANGED <<meta, tpl_events, tpl_requests, polled, tpl_bounds, answered, late>>

\* submit_template: the row is read, and linted ...
SubmitReads(s) ==
  /\ spc[s] = "idle"
  /\ Editable(template)
  /\ spc' = [spc EXCEPT ![s] = "read"]
  /\ tpl_read' = [tpl_read EXCEPT ![s] = template]
  /\ UNCHANGED <<template, bodies, meta, tpl_events, sub, polled, tpl_bounds, tpl_past>>

\* create_template, at once: the body goes to Meta before there is a row.
CreateSubmits(s) ==
  /\ template = NoTemplate
  /\ NobodySubmits
  /\ NewBody
  /\ spc' = [spc EXCEPT ![s] = "read"]
  /\ tpl_read' = [tpl_read EXCEPT ![s] = [NoTemplate EXCEPT !.body = bodies + 1]]
  /\ UNCHANGED <<template, meta, tpl_events, sub, polled, tpl_bounds, tpl_past>>

\* ... its body is posted, under a new name ...
SubmitPosts(s) ==
  /\ spc[s] = "read"
  /\ Len(meta) < MaxSubs
  /\ meta' = Append(meta, [body |-> tpl_read[s].body, status |-> "PENDING"])
  /\ spc' = [spc EXCEPT ![s] = "sent"]
  /\ sub' = [sub EXCEPT ![s] = Len(meta) + 1]
  /\ UNCHANGED <<template, bodies, tpl_events, tpl_read, polled, tpl_bounds, tpl_past>>

SubmitEnds(s) ==
  /\ spc' = [spc EXCEPT ![s] = "idle"]
  /\ tpl_read' = [tpl_read EXCEPT ![s] = NoTemplate]
  /\ sub' = [sub EXCEPT ![s] = 0]

\* ... and mark_submitted writes the columns that it changes: the body is not one of them.
\* A row that was deleted meanwhile fails the request.
SubmitCommits(s) ==
  /\ spc[s] = "sent"
  /\ template' =
       IF tpl_read[s].status # "none" /\ template.status = "none" THEN template
       ELSE [status |-> "pending_approval", name |-> sub[s], wid |-> sub[s],
             body |-> IF tpl_read[s].status = "none" THEN tpl_read[s].body ELSE template.body]
  /\ SubmitEnds(s)
  /\ UNCHANGED <<bodies, meta, tpl_events, polled, tpl_bounds, tpl_past>>

\* No answer (a second try is refused for its name), or the request dies.
SubmitFails(s) ==
  /\ Stray
  /\ spc[s] # "idle"
  /\ SubmitEnds(s)
  /\ UNCHANGED <<template, bodies, meta, tpl_events, polled, tpl_past>>

\* delete_template: at Meta as best it can, and the row, with which a refresh of it fails.
DeleteTemplate ==
  /\ template # NoTemplate
  /\ template' = NoTemplate
  /\ polled' = {x \in polled : ~x.row}
  /\ UNCHANGED <<bodies, meta, tpl_events, tpl_requests, tpl_bounds, tpl_past>>

-----------------------------------------------------------------------------
(* Meta, and the verdicts. *)

Decides(from) ==
  CASE from = "PENDING" -> {"APPROVED", "REJECTED"}
    [] from = "APPROVED" -> {"PAUSED", "DISABLED"}
    [] from = "PAUSED" -> {"APPROVED"}
    [] from = "REJECTED" -> {"APPROVED"}    \* after an appeal
    [] OTHER -> {}

\* A verdict, and its webhook, unless it is lost, or ARQ refuses the job because it knows
\* one of the same name and event.
MetaDecides(n) ==
  /\ n \in DOMAIN meta
  /\ verdicts < MaxVerdicts
  /\ verdicts' = verdicts + 1
  /\ \E v \in Decides(meta[n].status) :
       /\ meta' = [meta EXCEPT ![n].status = v]
       /\ tpl_events' \in {tpl_events, tpl_events \union {<<n, v>>}}
  /\ UNCHANGED <<template, bodies, tpl_requests, polled, stray, tpl_past>>

map_meta_status_to_local(v) ==
  CASE v = "APPROVED" -> "approved"
    [] v \in {"REJECTED", "DISABLED"} -> "rejected"
    [] OTHER -> "pending_approval"

\* Mutant: any row that is under review takes the verdict.
IsOfAny(n) == template.status = "pending_approval"

\* apply_status_by_name: by Meta's id, then by name.
IsOf(n) == template # NoTemplate /\ n \in {template.wid, template.name}

Applies(n, v) ==
  IF IsOf(n)
  THEN /\ template' = [template EXCEPT !.status = map_meta_status_to_local(v)]
       /\ late' = (late \/ (template.status = "draft" /\ n \in answered))
       /\ answered' = answered \union {n}
  ELSE UNCHANGED <<template, late, answered>>

ApplyEvent(x) ==
  /\ x \in tpl_events
  /\ tpl_events' = tpl_events \ {x}
  /\ Applies(x[1], x[2])
  /\ UNCHANGED <<bodies, meta, tpl_requests, polled, tpl_bounds, edited_under>>

\* template_status_sync: a template under review is asked for by its name.
SyncScan ==
  /\ polled = {}
  /\ template.status = "pending_approval"
  /\ polled' = {[of |-> template.name, row |-> FALSE, was |-> template.status, answer |-> "asked"]}
  /\ UNCHANGED <<template, bodies, meta, tpl_events, tpl_requests, tpl_bounds, tpl_past>>

\* sync_template: the merchant refreshes a template, whatever its status.
SyncOne ==
  /\ polled = {}
  /\ template.name # 0
  /\ polled' = {[of |-> template.name, row |-> TRUE, was |-> template.status, answer |-> "asked"]}
  /\ UNCHANGED <<template, bodies, meta, tpl_events, tpl_requests, tpl_bounds, tpl_past>>

\* fetch_template_status
SyncAsks ==
  /\ \E x \in polled :
       /\ x.answer = "asked"
       /\ polled' = {[x EXCEPT !.answer = meta[x.of].status]}
  /\ UNCHANGED <<template, bodies, meta, tpl_events, tpl_requests, tpl_bounds, tpl_past>>

\* apply_status, to the row that was read: only what differs from it is written, whatever
\* submission the row stands for by now.
AppliesToRow(x) ==
  LET v == map_meta_status_to_local(x.answer)
  IN IF v = x.was THEN UNCHANGED <<template, late, answered>>
     ELSE /\ template' = [template EXCEPT !.status = v]
          /\ late' = (late \/ template.name # x.of
                           \/ (template.status = "draft" /\ x.of \in answered))
          /\ answered' = answered \union {x.of}

SyncApplies ==
  /\ \E x \in polled :
       /\ x.answer # "asked"
       /\ IF x.row THEN AppliesToRow(x) ELSE Applies(x.of, x.answer)
  /\ polled' = {}
  /\ UNCHANGED <<bodies, meta, tpl_events, tpl_requests, tpl_bounds, edited_under>>

-----------------------------------------------------------------------------

TemplatesNext ==
  \/ CreateDraft \/ EditTemplate \/ DeleteTemplate \/ SyncScan \/ SyncOne \/ SyncAsks \/ SyncApplies
  \/ \E s \in Submitters :
       SubmitReads(s) \/ CreateSubmits(s) \/ SubmitPosts(s) \/ SubmitCommits(s) \/ SubmitFails(s)
  \/ \E n \in Subs : MetaDecides(n)
  \/ \E x \in tpl_events : ApplyEvent(x)

TemplatesSpec == TemplatesInit /\ [][TemplatesNext]_templatesVars

-----------------------------------------------------------------------------
(* Properties. *)

\* A template that flows may send (resolve_send_node: status approved) is one that Meta
\* has approved at some time, with the text and the variables that the row has, unless it
\* was edited while it was being submitted, or a verdict on an older submission came late:
\* one that Meta changed after the edit, or that a refresh asked for before the row was
\* submitted again.
TemplatesSafe ==
  /\ TemplatesTypeOK
  /\ template.status \in {"approved", "pending_approval"} /\ ~late /\ ~edited_under =>
       /\ template.name \in DOMAIN meta
       /\ meta[template.name].body = template.body
  /\ template.status = "approved" /\ ~late =>
       template.name \in DOMAIN meta /\ meta[template.name].status # "PENDING"

=============================================================================
