------------------------------- MODULE CrmEvents -------------------------------
(***************************************************************************)
(* The data webhooks of GoHighLevel, for one contact with a phone: what    *)
(* they make of the lead and of its conversation, and the trigger events   *)
(* that they emit.  The bot writes opportunities to the same CRM, and must *)
(* not take the webhook of its own for one of the merchant.                *)
(*                                                                         *)
(* The handler of a create and a mover read the lead, and commit later.    *)
(***************************************************************************)
EXTENDS Integers, FiniteSets, Sequences

CONSTANTS CrmWorkers,   \* handle_ghl_event jobs that may overlap
          Movers,       \* turns that move or book, and may overlap
          MaxOpps,      \* bound: opportunities
          MaxPosts,     \* bound: webhooks
          MaxCrmDrops   \* bound: redeliveries, results that expire, closures, commits lost

ASSUME CrmAssumption == {MaxOpps, MaxPosts, MaxCrmDrops} \subseteq Nat

NoOpp == 0
Opps == 1..MaxOpps
Posts == 1..MaxPosts
NoLead == [known |-> FALSE, contact |-> FALSE, opp |-> NoOpp]
NothingRead == [opp |-> NoOpp, thread |-> FALSE, of |-> 0]
Makers == {"merchant", "bot"}
Webhooks == [kind : {"ContactCreate", "OpportunityCreate", "OpportunityUpdate", "CallFailed"},
             opp : Opps \union {NoOpp}, phone : BOOLEAN]

VARIABLES
  \* GHL
  made_by,   \* who created each opportunity so far, in order
  posts,     \* webhooks so far, in order: [kind, opp, phone]
  \* Redis: jobs, and those requeued for want of a phone
  crm_jobs, requeued,
  \* leads, conversations
  lead, threads, open,
  \* handlers: the webhook, what was read, whether the lead was inserted
  wpc, post, lead_read, inserted,
  \* turns that write to the CRM
  mpc, opp_read, made,
  \* history
  heard,     \* opportunity.created events of each opportunity
  born,      \* lead.crm_created events
  handled,   \* opportunities of which a create was handled
  early,     \* the bot's, of which a create was read before a turn had noted them
  displaced, \* opportunities that another one displaced on the lead
  overtaken, \* opportunities that were on the lead before their create was handled
  forked,    \* two handlers, or a call, made threads side by side
  crm_drops

crm_ghl == <<made_by, posts>>
crm_arq == <<crm_jobs, requeued>>
crm_db == <<lead, threads, open>>
crm_workers == <<wpc, post, lead_read, inserted>>
crm_movers == <<mpc, opp_read, made>>
crm_past == <<heard, born, handled, early, displaced, overtaken, forked>>
crmVars == <<crm_ghl, crm_arq, crm_db, crm_workers, crm_movers, crm_past, crm_drops>>

CrmTypeOK ==
  /\ made_by \in Seq(Makers) /\ Len(made_by) <= MaxOpps
  /\ posts \in Seq(Webhooks) /\ Len(posts) <= MaxPosts
  /\ {crm_jobs, requeued} \subseteq SUBSET Posts
  /\ lead \in [known : BOOLEAN, contact : BOOLEAN, opp : Opps \union {NoOpp}]
  /\ threads \in Nat /\ open \in BOOLEAN
  /\ wpc \in [CrmWorkers -> {"idle", "writing"}]
  /\ post \in [CrmWorkers -> Nat] /\ inserted \in [CrmWorkers -> BOOLEAN]
  /\ lead_read \in [CrmWorkers -> [opp : Opps \union {NoOpp}, thread : BOOLEAN, of : Nat]]
  /\ mpc \in [Movers -> {"idle", "read", "made"}]
  /\ opp_read \in [Movers -> Opps \union {NoOpp}] /\ made \in [Movers -> Opps \union {NoOpp}]
  /\ heard \in [Opps -> Nat] /\ born \in Nat /\ forked \in BOOLEAN
  /\ {handled, early, displaced, overtaken} \subseteq SUBSET Opps
  /\ crm_drops \in 0..MaxCrmDrops

CrmInit ==
  /\ made_by = <<>> /\ posts = <<>>
  /\ crm_jobs = {} /\ requeued = {}
  /\ lead = NoLead /\ threads = 0 /\ open = FALSE
  /\ wpc = [w \in CrmWorkers |-> "idle"]
  /\ post = [w \in CrmWorkers |-> 1]
  /\ lead_read = [w \in CrmWorkers |-> NothingRead]
  /\ inserted = [w \in CrmWorkers |-> FALSE]
  /\ mpc = [m \in Movers |-> "idle"]
  /\ opp_read = [m \in Movers |-> NoOpp]
  /\ made = [m \in Movers |-> NoOpp]
  /\ heard = [o \in Opps |-> 0]
  /\ born = 0
  /\ handled = {} /\ early = {} /\ displaced = {} /\ overtaken = {}
  /\ forked = FALSE
  /\ crm_drops = 0

CrmDrop == crm_drops < MaxCrmDrops /\ crm_drops' = crm_drops + 1

-----------------------------------------------------------------------------
(* GHL and the webhook. *)

Create(who) == Len(made_by) < MaxOpps /\ made_by' = Append(made_by, who)

\* The webhook is enqueued with an id of its own (_ghl_event_dedup_key).
Deliver(x) ==
  /\ Len(posts) < MaxPosts
  /\ posts' = Append(posts, x)
  /\ crm_jobs' = crm_jobs \union {Len(posts) + 1}
  /\ UNCHANGED requeued

\* The merchant makes a contact or an opportunity, edits one, or calls in vain.
MerchantActs ==
  /\ \/ /\ UNCHANGED made_by
        /\ \/ Deliver([kind |-> "ContactCreate", opp |-> NoOpp, phone |-> TRUE])
           \/ Deliver([kind |-> "CallFailed", opp |-> NoOpp, phone |-> TRUE])
           \/ \E o \in DOMAIN made_by :
                Deliver([kind |-> "OpportunityUpdate", opp |-> o, phone |-> FALSE])
     \/ /\ Create("merchant")
        /\ \E phone \in BOOLEAN :
             Deliver([kind |-> "OpportunityCreate", opp |-> Len(made_by) + 1, phone |-> phone])
  /\ UNCHANGED <<crm_db, crm_workers, crm_movers, crm_past, crm_drops>>

\* GHL delivers again, after ARQ has forgotten the result: before, the id is refused.
Redelivery(i) ==
  /\ CrmDrop
  /\ i \in DOMAIN posts
  /\ i \notin crm_jobs \union requeued
  /\ \A w \in CrmWorkers : wpc[w] = "idle" \/ post[w] # i
  /\ crm_jobs' = crm_jobs \union {i}
  /\ UNCHANGED <<crm_ghl, requeued, crm_db, crm_workers, crm_movers, crm_past>>

-----------------------------------------------------------------------------
(* handle_ghl_event. *)

\* _resolve_lead: by contact id, then by phone.
ResolvesLead(x) == lead.known /\ (lead.contact \/ x.phone)

Creates(x) == x.kind \in {"ContactCreate", "OpportunityCreate"}

\* A job is taken from where it waits.
Takes(i, again) ==
  /\ i \in IF again THEN requeued ELSE crm_jobs
  /\ crm_jobs' = IF again THEN crm_jobs ELSE crm_jobs \ {i}
  /\ requeued' = IF again THEN requeued \ {i}
                 ELSE IF Creates(posts[i]) /\ ~posts[i].phone /\ ~ResolvesLead(posts[i])
                 THEN requeued \union {i} ELSE requeued

\* _retry_or_drop_crm_create: without a phone, and nobody to give it to, once more, later.
RetryOrDrop(i, again) ==
  /\ Takes(i, again)
  /\ Creates(posts[i]) /\ ~posts[i].phone /\ ~ResolvesLead(posts[i])
  /\ UNCHANGED <<crm_ghl, crm_db, crm_workers, crm_movers, crm_past, crm_drops>>

\* The insert of the lead by another transaction makes a second one wait.
Inserting == \E w \in CrmWorkers : inserted[w]

\* Mutant: a closed thread is not taken up.
FindsActiveThread == open

\* get_active_or_reopen_latest
FindsThread == threads > 0

\* Opportunities of the bot that no turn has noted, when their create is read.
Unnoted(x) == {o \in {x.opp} \ {NoOpp} : made_by[o] = "bot" /\ o \notin overtaken}

\* _handle_crm_create starts: it reads the lead, or inserts it, and looks for a thread.
HandleCreate(w, i, again) ==
  /\ wpc[w] = "idle"
  /\ Takes(i, again)
  /\ Creates(posts[i])
  /\ ResolvesLead(posts[i]) \/ (posts[i].phone /\ (lead.known \/ ~Inserting))
  /\ wpc' = [wpc EXCEPT ![w] = "writing"]
  /\ post' = [post EXCEPT ![w] = i]
  /\ inserted' = [inserted EXCEPT ![w] = ~lead.known]
  /\ lead_read' = [lead_read EXCEPT ![w] =
                     [opp |-> lead.opp, thread |-> FindsThread, of |-> threads]]
  /\ early' = early \union Unnoted(posts[i])
  /\ UNCHANGED <<crm_ghl, crm_db, crm_movers, heard, born, handled, displaced, overtaken, forked,
                 crm_drops>>

HandlerEnds(w) ==
  /\ wpc' = [wpc EXCEPT ![w] = "idle"]
  /\ post' = [post EXCEPT ![w] = 1]
  /\ lead_read' = [lead_read EXCEPT ![w] = NothingRead]
  /\ inserted' = [inserted EXCEPT ![w] = FALSE]

\* Mutant: an opportunity is heard whether or not it is on the lead.
EchoNever(w) == FALSE

Echo(w) == lead_read[w].opp = posts[post[w]].opp

Emits(w) ==
  IF posts[post[w]].kind = "OpportunityCreate" /\ ~Echo(w) THEN {posts[post[w]].opp} ELSE {}

\* Another opportunity takes the place of the one on the lead.
Displaces(o) == displaced' = displaced \union ({lead.opp} \ {NoOpp, o})

\* Mutant: the opportunity is not noted on the lead.
StashesNothing(o, contact) == lead' = [lead EXCEPT !.known = TRUE, !.contact = TRUE]

Stashes(o, contact) == lead' = [known |-> TRUE, contact |-> contact, opp |-> o]

\* The transaction of _handle_crm_create commits; it has opened the thread again, or made
\* one.
CreateCommits(w) ==
  /\ wpc[w] = "writing"
  /\ threads' = IF lead_read[w].thread THEN threads ELSE threads + 1
  /\ forked' = (forked \/ (threads # lead_read[w].of))
  /\ open' = TRUE
  /\ LET x == posts[post[w]]
         new == IF Emits(w) = {} THEN lead.opp ELSE x.opp
     IN /\ Stashes(new, TRUE)
        /\ Displaces(new)
        /\ heard' = [o \in Opps |-> heard[o] + IF o \in Emits(w) THEN 1 ELSE 0]
        /\ handled' = handled \union ({x.opp} \ {NoOpp})
  /\ born' = born + IF inserted[w] THEN 1 ELSE 0
  /\ HandlerEnds(w)
  /\ UNCHANGED <<crm_ghl, crm_arq, crm_movers, early, overtaken, crm_drops>>

\* handle_ghl_event, an update of an opportunity: one transaction, which needs a lead.
UpdateSyncs(i) ==
  /\ Takes(i, FALSE)
  /\ posts[i].kind = "OpportunityUpdate"
  /\ IF ResolvesLead(posts[i])
     THEN /\ Stashes(posts[i].opp, lead.contact)
          /\ Displaces(posts[i].opp)
          /\ overtaken' = overtaken \union ({posts[i].opp} \ handled)
     ELSE UNCHANGED <<lead, displaced, overtaken>>
  /\ UNCHANGED <<crm_ghl, threads, open, crm_workers, crm_movers, heard, born, handled, early,
                 forked, crm_drops>>

\* handle_call_outcome: an active thread, or a new one.
CallOutcome(i) ==
  /\ Takes(i, FALSE)
  /\ posts[i].kind = "CallFailed"
  /\ threads' = IF open THEN threads ELSE threads + 1
  /\ forked' = (forked \/ (threads > 0 /\ ~open))
  /\ open' = TRUE
  /\ UNCHANGED <<crm_ghl, lead, crm_workers, crm_movers, heard, born, handled, early, displaced,
                 overtaken, crm_drops>>

\* A job that dies, or whose transaction fails, is not run again.
HandlerFails(w) ==
  /\ CrmDrop
  /\ wpc[w] = "writing"
  /\ HandlerEnds(w)
  /\ UNCHANGED <<crm_ghl, crm_arq, crm_db, crm_movers, crm_past>>

-----------------------------------------------------------------------------
(* Conversations, and the turns that write to the CRM. *)

\* An inbound message: the lead is upserted by phone, its thread opened again or made.
Inbound_crm ==
  /\ ~Inserting
  /\ ~lead.known \/ ~open
  /\ \A w \in CrmWorkers : wpc[w] = "idle"
  /\ lead' = [lead EXCEPT !.known = TRUE]
  /\ threads' = IF threads = 0 THEN 1 ELSE threads
  /\ open' = TRUE
  /\ UNCHANGED <<crm_ghl, crm_arq, crm_workers, crm_movers, crm_past, crm_drops>>

CloseIdle_crm ==
  /\ CrmDrop
  /\ open
  /\ open' = FALSE
  /\ UNCHANGED <<crm_ghl, crm_arq, lead, threads, crm_workers, crm_movers, crm_past>>

\* MovePipelineHandler, BookSlotHandler: the opportunity on the lead is read ...
MoverReads(m) ==
  /\ mpc[m] = "idle"
  /\ lead.known /\ open
  /\ mpc' = [mpc EXCEPT ![m] = "read"]
  /\ opp_read' = [opp_read EXCEPT ![m] = lead.opp]
  /\ UNCHANGED <<crm_ghl, crm_arq, crm_db, crm_workers, made, crm_past, crm_drops>>

\* ... it is moved, or one is made; booking first searches those of the contact.
MoverCalls(m) ==
  /\ mpc[m] = "read"
  /\ mpc' = [mpc EXCEPT ![m] = "made"]
  /\ \/ /\ opp_read[m] = NoOpp
        /\ Create("bot")
        /\ made' = [made EXCEPT ![m] = Len(made_by) + 1]
        /\ Deliver([kind |-> "OpportunityCreate", opp |-> Len(made_by) + 1, phone |-> FALSE])
     \/ \E o \in IF opp_read[m] # NoOpp THEN {opp_read[m]} ELSE DOMAIN made_by :
          /\ made' = [made EXCEPT ![m] = o]
          /\ \/ Deliver([kind |-> "OpportunityUpdate", opp |-> o, phone |-> FALSE])
             \/ UNCHANGED <<posts, crm_arq>>
          /\ UNCHANGED made_by
  /\ UNCHANGED <<crm_db, crm_workers, opp_read, crm_past, crm_drops>>

MoverEnds(m) ==
  /\ mpc' = [mpc EXCEPT ![m] = "idle"]
  /\ opp_read' = [opp_read EXCEPT ![m] = NoOpp]
  /\ made' = [made EXCEPT ![m] = NoOpp]

\* ... and it is noted on the lead when the turn commits.
MoverCommits(m) ==
  /\ mpc[m] = "made"
  /\ Stashes(made[m], lead.contact)
  /\ Displaces(made[m])
  /\ overtaken' = overtaken \union ({made[m]} \ handled)
  /\ MoverEnds(m)
  /\ UNCHANGED <<crm_ghl, crm_arq, threads, open, crm_workers, heard, born, handled, early,
                 forked, crm_drops>>

\* The answer of GHL is lost, or the turn fails: what was made is not noted.
MoverFails(m) ==
  /\ CrmDrop
  /\ mpc[m] # "idle"
  /\ MoverEnds(m)
  /\ UNCHANGED <<crm_ghl, crm_arq, crm_db, crm_workers, crm_past>>

-----------------------------------------------------------------------------

CrmNext ==
  \/ MerchantActs \/ Inbound_crm \/ CloseIdle_crm
  \/ \E i \in Posts :
       \/ Redelivery(i) \/ UpdateSyncs(i) \/ CallOutcome(i)
       \/ \E again \in BOOLEAN :
            RetryOrDrop(i, again) \/ \E w \in CrmWorkers : HandleCreate(w, i, again)
  \/ \E w \in CrmWorkers : CreateCommits(w) \/ HandlerFails(w)
  \/ \E m \in Movers : MoverReads(m) \/ MoverCalls(m) \/ MoverCommits(m) \/ MoverFails(m)

CrmSpec == CrmInit /\ [][CrmNext]_crmVars

-----------------------------------------------------------------------------
(* Properties. *)

\* An opportunity starts its flows once, and one that the bot made never does, unless its
\* webhook was read before a turn had noted it on the lead, or another opportunity
\* displaced it on the lead; the merchant's starts them when its webhook is handled, unless
\* an update, or a turn of the bot that found it, had put it on the lead before.  The lead
\* is born once, and keeps one thread, unless two jobs at once, or a failed call, fork it.
CrmSafe ==
  /\ CrmTypeOK
  /\ \A o \in DOMAIN made_by :
       /\ heard[o] > (IF made_by[o] = "bot" THEN 0 ELSE 1) => o \in early \union displaced
       /\ made_by[o] = "merchant" /\ o \in handled \ overtaken =>
            heard[o] > 0
  /\ born <= 1
  /\ threads > 1 => forked

=============================================================================
