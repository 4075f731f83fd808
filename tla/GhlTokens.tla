------------------------------- MODULE GhlTokens -------------------------------
(***************************************************************************)
(* The OAuth tokens of GoHighLevel: one agency, its locations, and the     *)
(* merchant they are linked to.                                            *)
(*                                                                         *)
(* A token is the pair of an access token, which GHL honours for a while,  *)
(* and a refresh token, which it honours once: a refresh returns a new     *)
(* pair.  Every user of a location (an action of the bot, an agency page,  *)
(* the health probe) works with the pair it loaded, refreshes it when GHL  *)
(* answers 401, and writes the new one in a transaction of its own.        *)
(* Nobody holds a lock in between.                                         *)
(*                                                                         *)
(* A transaction on one row is one step here; a link touches two rows.     *)
(***************************************************************************)
EXTENDS Integers, FiniteSets

CONSTANTS Locations,
          Users,       \* calls to GHL that may overlap
          Installers,  \* handle_ghl_install jobs that may overlap
          Linkers,     \* link requests that may overlap
          MaxTokens,   \* bound: pairs that GHL issues
          MaxEvents,   \* bound: installs, uninstalls, links, expiries
          MaxMishaps   \* bound: answers lost, writes that fail, jobs that die

Agency == "agency"

\* There are locations, none of them the agency, and two pairs are out at the start.
ASSUME GhlTokensAssumption ==
  /\ {MaxTokens, MaxEvents, MaxMishaps} \subseteq Nat /\ MaxTokens >= 2
  /\ Locations # {} /\ Agency \notin Locations

Subjects == Locations \union {Agency}
NoToken == 0
NoRead == [none |-> TRUE]
Tokens == 1..MaxTokens
Statuses == {"none", "pending_link", "active", "error", "revoked"}
Uses == {"use", "name", "probe"}

VARIABLES
  \* GHL
  issued,     \* subject of each token that was issued, in order
  honoured,   \* refresh tokens that GHL still takes
  fresh,      \* access tokens that GHL still takes
  installed,  \* locations that have the app
  \* Redis: jobs of ARQ that are queued, or whose result is kept
  queued, kept,
  \* ghl_agency_installs, ghl_location_tokens
  stored,     \* the pair in the row of a subject
  status,
  linked_to,  \* the row is linked to the merchant
  lpc, seen,  \* link requests, and what each one read
  \* users
  upc, use, at, bundle,
  verdict,    \* of a probe
  \* installers
  ipc, target, agency_bundle, pair,
  \* history
  tangled,    \* a link was overtaken by another one, or by an uninstall
  spoiled,    \* subjects of which a pair was lost on the way, or that lost the app
  occurrences, mishaps

ghl == <<issued, honoured, fresh, installed>>
ghl_jobs == <<queued, kept>>
ghl_rows == <<stored, status, linked_to>>
links == <<lpc, seen, tangled>>
ghl_users == <<upc, use, at, bundle, verdict>>
installers == <<ipc, target, agency_bundle, pair>>
ghl_past == <<spoiled, occurrences, mishaps>>
ghlVars == <<ghl, ghl_jobs, ghl_rows, links, ghl_users, installers, ghl_past>>

GhlTypeOK ==
  /\ issued \in [1..Cardinality(DOMAIN issued) -> Subjects]
  /\ honoured \union fresh \subseteq DOMAIN issued
  /\ installed \in SUBSET Locations
  /\ {queued, kept} \subseteq SUBSET ({"INSTALL", "UNINSTALL"} \X Locations)
  /\ stored \in [Subjects -> Tokens \union {NoToken}]
  /\ status \in [Subjects -> Statuses]
  /\ linked_to \in SUBSET Locations
  /\ lpc \in [Linkers -> {"idle", "left"}]
  /\ \A r \in Linkers : seen[r] = NoRead \/ seen[r].status \in Statuses
  /\ tangled \in BOOLEAN
  /\ upc \in [Users -> {"idle", "calling", "rotated", "stamping"}]
  /\ use \in [Users -> Uses]
  /\ at \in [Users -> Locations]
  /\ bundle \in [Users -> Tokens \union {NoToken}]
  /\ verdict \in [Users -> {"none", "healthy", "failed", "dead"}]
  /\ ipc \in [Installers -> {"idle", "minting", "rotated", "again", "minted"}]
  /\ target \in [Installers -> Locations]
  /\ {agency_bundle, pair} \subseteq [Installers -> Tokens \union {NoToken}]
  /\ spoiled \in SUBSET Subjects
  /\ occurrences \in 0..MaxEvents
  /\ mishaps \in 0..MaxMishaps

First == CHOOSE l \in Locations : TRUE

\* The agency has connected, and one location is installed and linked.
GhlInit ==
  /\ issued = <<Agency, First>>
  /\ honoured = {1, 2}
  /\ fresh = {1, 2}
  /\ installed = {First}
  /\ queued = {}
  /\ kept = {}
  /\ stored = [s \in Subjects |-> IF s = Agency THEN 1 ELSE IF s = First THEN 2 ELSE NoToken]
  /\ status = [s \in Subjects |-> IF s \in {Agency, First} THEN "active" ELSE "none"]
  /\ linked_to = {First}
  /\ lpc = [r \in Linkers |-> "idle"]
  /\ seen = [r \in Linkers |-> NoRead]
  /\ tangled = FALSE
  /\ upc = [u \in Users |-> "idle"]
  /\ use = [u \in Users |-> "use"]
  /\ at = [u \in Users |-> First]
  /\ bundle = [u \in Users |-> NoToken]
  /\ verdict = [u \in Users |-> "none"]
  /\ ipc = [i \in Installers |-> "idle"]
  /\ target = [i \in Installers |-> First]
  /\ agency_bundle = [i \in Installers |-> NoToken]
  /\ pair = [i \in Installers |-> NoToken]
  /\ spoiled = {}
  /\ occurrences = 0
  /\ mishaps = 0

Occurs == occurrences < MaxEvents /\ occurrences' = occurrences + 1 /\ UNCHANGED mishaps
Mishap == mishaps < MaxMishaps /\ mishaps' = mishaps + 1 /\ UNCHANGED occurrences

-----------------------------------------------------------------------------
(* GHL. *)

NewToken == Cardinality(DOMAIN issued) + 1

\* A new pair for a subject; the refresh token it was bought with is spent.
Issue(s, spent) ==
  /\ NewToken \in Tokens
  /\ issued' = [t \in 1..NewToken |-> IF t = NewToken THEN s ELSE issued[t]]
  /\ honoured' = (honoured \ spent) \union {NewToken}
  /\ fresh' = fresh \union {NewToken}
  /\ UNCHANGED installed

AccessExpires(t) ==
  /\ t \in fresh
  /\ Occurs
  /\ fresh' = fresh \ {t}
  /\ UNCHANGED <<links, issued, honoured, installed, ghl_jobs, ghl_rows, ghl_users, installers,
                 spoiled>>

\* An event of the app and its webhook: ARQ refuses a job id that it knows.
Webhook(event, l) ==
  /\ Occurs
  /\ l \in installed <=> event = "UNINSTALL"
  /\ installed' = IF event = "INSTALL" THEN installed \union {l} ELSE installed \ {l}
  /\ LET dead == {t \in DOMAIN issued : event = "UNINSTALL" /\ issued[t] = l}
     IN honoured' = honoured \ dead /\ fresh' = fresh \ dead
  /\ queued' = IF <<event, l>> \in kept THEN queued ELSE queued \union {<<event, l>>}
  /\ kept' = kept \union {<<event, l>>}
  /\ spoiled' = IF event = "UNINSTALL" THEN spoiled \union {l} ELSE spoiled
  /\ UNCHANGED <<links, issued, ghl_rows, ghl_users, installers>>

ResultExpires(event, l) ==
  /\ <<event, l>> \in kept \ queued
  /\ event = "INSTALL" => \A i \in Installers : ipc[i] = "idle" \/ target[i] # l
  /\ kept' = kept \ {<<event, l>>}
  /\ UNCHANGED <<ghl, links, queued, ghl_rows, ghl_users, installers, ghl_past>>

-----------------------------------------------------------------------------
(* The rows. *)

\* Rows that an open link request has written.
Held == UNION {seen[r].leaves : r \in {r \in Linkers : lpc[r] # "idle"}}

\* Mutant: the pair is written only over a row that is in use.
TokenWrittenIfActive(l) == status[l] = "active"

TokenWritten(l) == status[l] # "none"

\* set_location_token.
SetLocationToken(l, t) ==
  IF TokenWritten(l)
  THEN /\ stored' = [stored EXCEPT ![l] = t]
       /\ status' = [status EXCEPT ![l] =
            IF @ = "revoked" THEN @ ELSE IF l \in linked_to THEN "active" ELSE "pending_link"]
       /\ UNCHANGED linked_to
  ELSE UNCHANGED ghl_rows

\* upsert_location_install: a revoked row is revived, its link is kept.
Installed(l) == [status EXCEPT ![l] = IF @ \in {"none", "revoked"} THEN "pending_link" ELSE @]

\* Mutant: the location that the merchant leaves keeps its status.
LeftBehindActive(l) == status[l]

LeftBehind(l) == IF status[l] = "active" THEN "pending_link" ELSE status[l]

Overtakes(l) == \E r \in Linkers : lpc[r] # "idle" /\ seen[r].to = l

\* link_location, of the one merchant: the row is read, the rows of the merchant's other
\* locations that are to be seen are written, and held ...
LeaveOthers(r, l) ==
  /\ Occurs
  /\ lpc[r] = "idle"
  /\ status[l] # "none"
  /\ (linked_to \ {l}) \intersect Held = {}
  /\ lpc' = [lpc EXCEPT ![r] = "left"]
  /\ seen' = [seen EXCEPT ![r] = [to |-> l, leaves |-> linked_to \ {l}, status |-> status[l],
                                  token |-> stored[l] # NoToken, linked |-> l \in linked_to]]
  /\ tangled' = (tangled \/ \E q \in Linkers : lpc[q] # "idle")
  /\ UNCHANGED <<ghl, ghl_jobs, ghl_rows, ghl_users, installers, spoiled>>

\* ... then the row, as far as it differs from what was read.
Link(r) ==
  /\ lpc[r] = "left"
  /\ LET it == seen[r]
     IN /\ \A q \in Linkers \ {r} : lpc[q] # "idle" => it.to \notin seen[q].leaves
        /\ linked_to' = (linked_to \ it.leaves) \union (IF it.linked THEN {} ELSE {it.to})
        /\ status' = [s \in Subjects |->
             IF s = it.to
             THEN IF it.token /\ it.status \notin {"revoked", "active"} THEN "active" ELSE status[s]
             ELSE IF s \in it.leaves THEN LeftBehind(s) ELSE status[s]]
  /\ lpc' = [lpc EXCEPT ![r] = "idle"]
  /\ seen' = [seen EXCEPT ![r] = NoRead]
  /\ UNCHANGED <<ghl, ghl_jobs, stored, tangled, ghl_users, installers, ghl_past>>

Unlink(l) ==
  /\ Occurs
  /\ l \in linked_to \ Held
  /\ linked_to' = linked_to \ {l}
  /\ status' = [status EXCEPT ![l] = LeftBehind(l)]
  /\ tangled' = (tangled \/ Overtakes(l))
  /\ UNCHANGED <<ghl, lpc, seen, ghl_jobs, stored, ghl_users, installers, spoiled>>

\* handle_ghl_uninstall: the row is revoked, the link is kept.
Revoke(l) ==
  /\ <<"UNINSTALL", l>> \in queued
  /\ l \notin Held
  /\ queued' = queued \ {<<"UNINSTALL", l>>}
  /\ tangled' = (tangled \/ Overtakes(l))
  /\ IF status[l] = "none" THEN UNCHANGED <<stored, status>>
     ELSE /\ stored' = [stored EXCEPT ![l] = NoToken]
          /\ status' = [status EXCEPT ![l] = "revoked"]
  /\ UNCHANGED <<ghl, lpc, seen, kept, linked_to, ghl_users, installers, ghl_past>>

\* The OAuth callback of the agency.
Connect ==
  /\ Occurs
  /\ Issue(Agency, {})
  /\ stored' = [stored EXCEPT ![Agency] = NewToken]
  /\ UNCHANGED <<links, ghl_jobs, status, linked_to, ghl_users, installers, spoiled>>

-----------------------------------------------------------------------------
(* A user of a location. *)

\* resolve_ghl
UsableByMerchant(l) == status[l] = "active" /\ l \in linked_to

\* resolve_location_token_any_status
UsableByAgency(l) == status[l] # "revoked"

\* list_health_checkable_locations
Checkable(l) == status[l] \in {"active", "error"} /\ l \in linked_to

Usable(w, l) ==
  /\ stored[l] # NoToken
  /\ CASE w = "use" -> UsableByMerchant(l)
       [] w = "name" -> UsableByAgency(l)
       [] w = "probe" -> Checkable(l)

Load(u, w, l) ==
  /\ upc[u] = "idle"
  /\ Usable(w, l)
  /\ upc' = [upc EXCEPT ![u] = "calling"]
  /\ use' = [use EXCEPT ![u] = w]
  /\ at' = [at EXCEPT ![u] = l]
  /\ bundle' = [bundle EXCEPT ![u] = stored[l]]
  /\ UNCHANGED <<ghl, links, ghl_jobs, ghl_rows, verdict, installers, ghl_past>>

\* The call is over: the probe goes on to its stamp, the others are done.
Over(u, v) ==
  /\ upc' = [upc EXCEPT ![u] = IF use[u] = "probe" THEN "stamping" ELSE "idle"]
  /\ verdict' = [verdict EXCEPT ![u] = IF use[u] = "probe" THEN v ELSE "none"]
  /\ bundle' = [bundle EXCEPT ![u] = IF use[u] = "probe" THEN @ ELSE NoToken]
  /\ UNCHANGED <<use, at>>

\* GHL answers; a name that it returns goes into the row by way of an upsert.
Answered(u) ==
  /\ upc[u] = "calling"
  /\ bundle[u] \in fresh
  /\ use[u] = "name" => at[u] \notin Held
  /\ Over(u, "healthy")
  /\ status' = IF use[u] = "name" THEN Installed(at[u]) ELSE status
  /\ UNCHANGED <<ghl, links, ghl_jobs, stored, linked_to, installers, ghl_past>>

\* 401, and a refresh that GHL takes.
Rotate(u) ==
  /\ upc[u] = "calling"
  /\ bundle[u] \in honoured \ fresh
  /\ Issue(at[u], {bundle[u]})
  /\ bundle' = [bundle EXCEPT ![u] = NewToken]
  /\ upc' = [upc EXCEPT ![u] = "rotated"]
  /\ UNCHANGED <<links, ghl_jobs, ghl_rows, use, at, verdict, installers, ghl_past>>

\* The answer is lost, or the process is killed: the new pair is nobody's.
RotateLost(u) ==
  /\ upc[u] = "calling"
  /\ bundle[u] \in honoured \ fresh
  /\ Mishap
  /\ Issue(at[u], {bundle[u]})
  /\ spoiled' = spoiled \union {at[u]}
  /\ UNCHANGED <<links, ghl_jobs, ghl_rows, ghl_users, installers>>

\* on_token_refresh, in a transaction of its own.
Persist(u) ==
  /\ upc[u] = "rotated" /\ at[u] \notin Held
  /\ SetLocationToken(at[u], bundle[u])
  /\ upc' = [upc EXCEPT ![u] = "calling"]
  /\ UNCHANGED <<ghl, links, ghl_jobs, use, at, bundle, verdict, installers, ghl_past>>

\* A failure to write is logged, and the call goes on.
PersistFails(u) ==
  /\ upc[u] = "rotated"
  /\ Mishap
  /\ spoiled' = spoiled \union {at[u]}
  /\ upc' = [upc EXCEPT ![u] = "calling"]
  /\ UNCHANGED <<ghl, links, ghl_jobs, ghl_rows, use, at, bundle, verdict, installers>>

\* 401, and GHL does not take the refresh token, at any of the attempts.
RefreshRefused(u) ==
  /\ upc[u] = "calling"
  /\ bundle[u] \notin fresh \union honoured
  /\ Over(u, "dead")
  /\ UNCHANGED <<ghl, links, ghl_jobs, ghl_rows, installers, ghl_past>>

\* Mutant: any failure of the call counts.
FlipsAlways(v) == v # "healthy"

\* _is_definitive_auth_failure.
Flips(v) == v = "dead"

\* A call that fails otherwise.
CallFails(u) ==
  /\ upc[u] = "calling"
  /\ Mishap
  /\ Over(u, "failed")
  /\ UNCHANGED <<ghl, links, ghl_jobs, ghl_rows, installers, spoiled>>

\* mark_location_health.
Stamp(u) ==
  /\ upc[u] = "stamping" /\ at[u] \notin Held
  /\ upc' = [upc EXCEPT ![u] = "idle"]
  /\ verdict' = [verdict EXCEPT ![u] = "none"]
  /\ bundle' = [bundle EXCEPT ![u] = NoToken]
  /\ status' = [status EXCEPT ![at[u]] =
       CASE Flips(verdict[u]) /\ @ = "active" -> "error"
         [] verdict[u] = "healthy" /\ @ = "error" /\ at[u] \in linked_to -> "active"
         [] OTHER -> @]
  /\ UNCHANGED <<ghl, links, ghl_jobs, stored, linked_to, use, at, installers, ghl_past>>

-----------------------------------------------------------------------------
(* handle_ghl_install. *)

Record(i, l) ==
  /\ ipc[i] = "idle"
  /\ <<"INSTALL", l>> \in queued /\ l \notin Held
  /\ queued' = queued \ {<<"INSTALL", l>>}
  /\ status' = Installed(l)
  /\ ipc' = [ipc EXCEPT ![i] = "minting"]
  /\ target' = [target EXCEPT ![i] = l]
  /\ agency_bundle' = [agency_bundle EXCEPT ![i] = stored[Agency]]
  /\ UNCHANGED <<ghl, links, kept, stored, linked_to, ghl_users, pair, ghl_past>>

\* mint_location_token, if the location still has the app.
Mint(i) ==
  /\ ipc[i] \in {"minting", "again"}
  /\ agency_bundle[i] \in fresh
  /\ target[i] \in installed
  /\ Issue(target[i], {})
  /\ pair' = [pair EXCEPT ![i] = NewToken]
  /\ ipc' = [ipc EXCEPT ![i] = "minted"]
  /\ UNCHANGED <<links, ghl_jobs, ghl_rows, ghl_users, target, agency_bundle, ghl_past>>

\* A rejected mint refreshes the agency's token, whatever it was rejected for.
RefreshAgency(i) ==
  /\ ipc[i] = "minting"
  /\ agency_bundle[i] \notin fresh \/ target[i] \notin installed
  /\ agency_bundle[i] \in honoured
  /\ Issue(Agency, {agency_bundle[i]})
  /\ agency_bundle' = [agency_bundle EXCEPT ![i] = NewToken]
  /\ ipc' = [ipc EXCEPT ![i] = "rotated"]
  /\ UNCHANGED <<links, ghl_jobs, ghl_rows, ghl_users, target, pair, ghl_past>>

PersistAgency(i) ==
  /\ ipc[i] = "rotated"
  /\ stored' = [stored EXCEPT ![Agency] = agency_bundle[i]]
  /\ ipc' = [ipc EXCEPT ![i] = "again"]
  /\ UNCHANGED <<ghl, links, ghl_jobs, status, linked_to, ghl_users, target, agency_bundle,
                 pair, ghl_past>>

Ended(i) ==
  /\ ipc' = [ipc EXCEPT ![i] = "idle"]
  /\ agency_bundle' = [agency_bundle EXCEPT ![i] = NoToken]
  /\ pair' = [pair EXCEPT ![i] = NoToken]
  /\ UNCHANGED target

\* mint_failed: the agency's refresh is refused, or the second mint is.
MintFails(i) ==
  /\ \/ ipc[i] = "minting" /\ agency_bundle[i] \notin fresh \union honoured
     \/ ipc[i] = "again" /\ (agency_bundle[i] \notin fresh \/ target[i] \notin installed)
  /\ Ended(i)
  /\ UNCHANGED <<ghl, links, ghl_jobs, ghl_rows, ghl_users, ghl_past>>

\* The name, if GHL returned one, by way of an upsert, and the token.
Store(i) ==
  /\ ipc[i] = "minted" /\ target[i] \notin Held
  /\ LET l == target[i]
     IN \E named \in BOOLEAN :
          /\ stored' = [stored EXCEPT ![l] = pair[i]]
          /\ status' = [status EXCEPT ![l] =
               IF @ = "revoked" /\ ~named THEN @
               ELSE IF l \in linked_to THEN "active" ELSE "pending_link"]
  /\ Ended(i)
  /\ UNCHANGED <<ghl, links, ghl_jobs, linked_to, ghl_users, ghl_past>>

\* A job that dies; a shutdown runs it again from the start.
InstallDies(i) ==
  /\ ipc[i] # "idle"
  /\ Mishap
  /\ spoiled' = spoiled \union (IF ipc[i] = "rotated" THEN {Agency} ELSE {})
  /\ \/ queued' = queued \union {<<"INSTALL", target[i]>>}
     \/ UNCHANGED queued
  /\ Ended(i)
  /\ UNCHANGED <<ghl, links, kept, ghl_rows, ghl_users>>

-----------------------------------------------------------------------------

GhlNext ==
  \/ Connect
  \/ \E t \in Tokens : AccessExpires(t)
  \/ \E l \in Locations :
       \/ Unlink(l) \/ Revoke(l)
       \/ \E r \in Linkers : LeaveOthers(r, l)
       \/ \E event \in {"INSTALL", "UNINSTALL"} : Webhook(event, l) \/ ResultExpires(event, l)
       \/ \E u \in Users, w \in Uses : Load(u, w, l)
       \/ \E i \in Installers : Record(i, l)
  \/ \E r \in Linkers : Link(r)
  \/ \E u \in Users :
       Answered(u) \/ Rotate(u) \/ RotateLost(u) \/ Persist(u) \/ PersistFails(u)
         \/ RefreshRefused(u) \/ CallFails(u) \/ Stamp(u)
  \/ \E i \in Installers :
       Mint(i) \/ RefreshAgency(i) \/ PersistAgency(i) \/ MintFails(i) \/ Store(i)
         \/ InstallDies(i)

GhlSpec == GhlInit /\ [][GhlNext]_ghlVars

-----------------------------------------------------------------------------
(* Properties. *)

\* resolve_location_by_merchant expects at most one row.
MerchantHasOne ==
  Cardinality({l \in Locations : status[l] = "active" /\ l \in linked_to}) <= 1

\* The merchant has one active location, and an active row has a token to work with,
\* unless a link was overtaken by another one, or by an uninstall.
OneActiveLocation ==
  /\ GhlTypeOK
  /\ tangled \/ /\ MerchantHasOne
                /\ \A l \in Locations : status[l] = "active" => stored[l] # NoToken /\ l \in linked_to

\* However many users refresh it at once, the pair of a row is the one GHL takes, or
\* its successor is on the way, unless that was lost or the app is gone.
StoredIsHonoured ==
  \A s \in Subjects \ spoiled :
    stored[s] # NoToken /\ s \in installed \union {Agency} =>
      \/ stored[s] \in honoured
      \/ \E u \in Users : upc[u] = "rotated" /\ at[u] = s /\ bundle[u] \in honoured
      \/ \E i \in Installers :
           \/ ipc[i] = "minted" /\ target[i] = s
           \/ ipc[i] = "rotated" /\ s = Agency /\ agency_bundle[i] \in honoured

\* The rows of the tokens are those that GHL and the merchant need.
GhlSafe == OneActiveLocation /\ StoredIsHonoured

\* A probe takes a location away only if GHL refuses the very token in its row, or if
\* another user has put a new one there meanwhile.
ErrorIfNotOvertaken ==
  [][\A l \in Locations :
       status[l] = "active" /\ status'[l] = "error"
         => stored[l] \notin fresh \union honoured
              \/ \E u \in Users : upc[u] = "stamping" /\ at[u] = l /\ bundle[u] # stored[l]]_ghlVars

=============================================================================
