----------------------------- MODULE Office_proofs -----------------------------
(***************************************************************************)
(* What comes from GoHighLevel and is kept, for every number of locations, *)
(* users, turns and requests: its tokens, a lead's appointments and their  *)
(* reminders, and what its webhooks make of a lead.                        *)
(***************************************************************************)
EXTENDS GhlTokens, Booking, Reminders, CrmEvents, FiniteSetTheorems, WellFoundedInduction, TLAPS

-----------------------------------------------------------------------------
(* The tokens of the agency and its locations. *)

\* The tokens issued are counted, and every copy of one is its subject's.
Owned ==
  /\ IsFiniteSet(DOMAIN issued) /\ DOMAIN issued \subseteq Tokens
  /\ \A s \in Subjects : stored[s] # NoToken => stored[s] \in DOMAIN issued /\ issued[stored[s]] = s
  /\ \A u \in Users : bundle[u] # NoToken => bundle[u] \in DOMAIN issued /\ issued[bundle[u]] = at[u]
  /\ \A u \in Users : upc[u] = "rotated" => bundle[u] # NoToken
  /\ \A i \in Installers :
       /\ agency_bundle[i] # NoToken => agency_bundle[i] \in DOMAIN issued /\ issued[agency_bundle[i]] = Agency
       /\ ipc[i] = "rotated" => agency_bundle[i] # NoToken
       /\ ipc[i] = "minted" => pair[i] \in DOMAIN issued /\ issued[pair[i]] = target[i]

\* A pair that is on its way to the row is in nobody else's hands.
InOneHand ==
  /\ \A u \in Users : upc[u] = "rotated" =>
       /\ \A s \in Subjects : stored[s] # bundle[u]
       /\ \A v \in Users : v # u => bundle[v] # bundle[u]
       /\ \A i \in Installers : ipc[i] = "minted" => pair[i] # bundle[u]
  /\ \A i \in Installers : ipc[i] = "minted" =>
       /\ \A s \in Subjects : stored[s] # pair[i]
       /\ \A v \in Users : bundle[v] # pair[i]
       /\ \A j \in Installers : j # i /\ ipc[j] = "minted" => pair[j] # pair[i]
  /\ \A i \in Installers : ipc[i] = "rotated" =>
       /\ \A s \in Subjects : stored[s] # agency_bundle[i]
       /\ \A j \in Installers : j # i => agency_bundle[j] # agency_bundle[i]

\* GHL takes what is on its way to the row, and the row's own pair if nothing is.
HonouredOnItsWay ==
  /\ \A u \in Users : upc[u] = "rotated" /\ at[u] \notin spoiled => bundle[u] \in honoured
  /\ \A i \in Installers :
       /\ ipc[i] = "minted" /\ target[i] \notin spoiled => pair[i] \in honoured
       /\ ipc[i] = "rotated" /\ Agency \notin spoiled => agency_bundle[i] \in honoured
  /\ \A s \in Subjects \ spoiled : stored[s] # NoToken =>
       \/ stored[s] \in honoured
       \/ \E u \in Users : upc[u] = "rotated" /\ at[u] = s
       \/ s = Agency /\ \E i \in Installers : ipc[i] = "rotated"

\* What an open link request has read.
Reading == [to : Locations, leaves : SUBSET Locations, status : Statuses, token : BOOLEAN, linked : BOOLEAN]
ReadsInHand ==
  /\ seen \in [Linkers -> Reading \cup {NoRead}]
  /\ \A r \in Linkers : lpc[r] = "left" => seen[r] \in Reading /\ seen[r].to \notin seen[r].leaves
  /\ \A l \in Locations : status[l] = "none" => stored[l] = NoToken

\* A link that nothing overtakes finds the rows as it has read them.
LinksInHand == ~tangled =>
  /\ \A l, k \in linked_to : l = k
  /\ \A l \in Locations : status[l] \in {"active", "error"} => stored[l] # NoToken
  /\ \A l \in Locations : status[l] = "active" => l \in linked_to
  /\ \A q, r \in Linkers : lpc[q] = "left" /\ lpc[r] = "left" => q = r
  /\ \A r \in Linkers : lpc[r] = "left" =>
       /\ linked_to \subseteq seen[r].leaves \cup {seen[r].to}
       /\ seen[r].linked <=> seen[r].to \in linked_to
       /\ seen[r].token => stored[seen[r].to] # NoToken

\* A token that GHL has refused stays refused.
DeadIsDead ==
  \A u \in Users : upc[u] = "stamping" /\ verdict[u] = "dead" => bundle[u] \notin fresh \cup honoured

GhlInv ==
  GhlTypeOK /\ Owned /\ InOneHand /\ HonouredOnItsWay /\ ReadsInHand /\ LinksInHand /\ DeadIsDead

LEMMA GhlInvInit == GhlInit => GhlInv
<1> SUFFICES ASSUME GhlInit PROVE GhlInv
  OBVIOUS
<1> USE GhlTokensAssumption
<1>0. First \in Locations
  BY DEF First
<1>1. /\ issued = <<Agency, First>> /\ DOMAIN issued = 1..2 /\ issued[1] = Agency /\ issued[2] = First
      /\ IsFiniteSet(1..2) /\ Cardinality(1..2) = 2
  <2>1. issued = <<Agency, First>>
    BY DEF GhlInit
  <2>2. DOMAIN issued = 1..2 /\ issued[1] = Agency /\ issued[2] = First
    BY <2>1
  <2>3. IsFiniteSet(1..2) /\ Cardinality(1..2) = 2
    <3>1. \A a, b \in Int : IsFiniteSet(a..b) /\ Cardinality(a..b) = IF a > b THEN 0 ELSE b - a + 1
      BY FS_Interval
    <3>0. 1 \in Int /\ 2 \in Int
      OBVIOUS
    <3>2. IsFiniteSet(1..2) /\ Cardinality(1..2) = IF 1 > 2 THEN 0 ELSE 2 - 1 + 1
      BY <3>0, <3>1, Zenon
    <3> QED BY <3>2
  <2> QED BY <2>1, <2>2, <2>3
<1>2. GhlTypeOK
  <2>1. issued \in [1..Cardinality(DOMAIN issued) -> Subjects] /\ honoured \cup fresh \subseteq DOMAIN issued
    BY <1>0, <1>1 DEF GhlInit, Subjects
  <2>2. /\ stored \in [Subjects -> Tokens \cup {NoToken}] /\ status \in [Subjects -> Statuses]
        /\ linked_to \in SUBSET Locations /\ installed \in SUBSET Locations
    BY <1>0 DEF GhlInit, Subjects, Tokens, Statuses
  <2>3. {queued, kept} \subseteq SUBSET ({"INSTALL", "UNINSTALL"} \X Locations)
    BY DEF GhlInit
  <2>4. lpc \in [Linkers -> {"idle", "left"}] /\ \A r \in Linkers : seen[r] = NoRead \/ seen[r].status \in Statuses
    BY DEF GhlInit
  <2>5. tangled = FALSE
    BY DEF GhlInit
  <2>6. /\ upc \in [Users -> {"idle", "calling", "rotated", "stamping"}] /\ use \in [Users -> Uses]
        /\ at \in [Users -> Locations] /\ bundle \in [Users -> Tokens \cup {NoToken}]
        /\ verdict \in [Users -> {"none", "healthy", "failed", "dead"}]
    BY <1>0 DEF GhlInit, Uses
  <2>7. /\ ipc \in [Installers -> {"idle", "minting", "rotated", "again", "minted"}]
        /\ target \in [Installers -> Locations]
        /\ {agency_bundle, pair} \subseteq [Installers -> Tokens \cup {NoToken}]
    BY <1>0 DEF GhlInit
  <2>8. spoiled \in SUBSET Subjects /\ occurrences \in 0..MaxEvents /\ mishaps \in 0..MaxMishaps
    BY DEF GhlInit
  <2> QED BY <2>1, <2>2, <2>3, <2>4, <2>5, <2>6, <2>7, <2>8 DEF GhlTypeOK
<1>3. Owned
  <2>1. IsFiniteSet(DOMAIN issued) /\ DOMAIN issued \subseteq Tokens
    BY <1>1 DEF Tokens
  <2>2. \A s \in Subjects : stored[s] # NoToken => stored[s] \in DOMAIN issued /\ issued[stored[s]] = s
    BY <1>0, <1>1 DEF GhlInit, Subjects, NoToken
  <2>3. /\ \A u \in Users : bundle[u] = NoToken /\ upc[u] = "idle"
        /\ \A i \in Installers : agency_bundle[i] = NoToken /\ ipc[i] = "idle"
    BY DEF GhlInit
  <2> QED BY <2>1, <2>2, <2>3 DEF Owned
<1>4. InOneHand /\ HonouredOnItsWay /\ DeadIsDead
  BY <1>0 DEF GhlInit, InOneHand, HonouredOnItsWay, DeadIsDead, Subjects
<1>5. ReadsInHand /\ LinksInHand
  BY <1>0 DEF GhlInit, ReadsInHand, LinksInHand, Subjects, NoToken
<1> QED BY <1>2, <1>3, <1>4, <1>5 DEF GhlInv

\* What a step keeps that leaves the tokens alone.
TokenVars == <<issued, honoured, fresh, stored, upc, at, bundle, verdict, ipc, target, agency_bundle, pair, spoiled>>
LEMMA TokensStand ==
  ASSUME GhlInv, UNCHANGED TokenVars
  PROVE  Owned' /\ InOneHand' /\ HonouredOnItsWay' /\ DeadIsDead'
<1> USE DEF GhlInv, TokenVars
<1>1. Owned'
  BY DEF Owned
<1>2. InOneHand'
  BY DEF InOneHand
<1>3. HonouredOnItsWay' /\ DeadIsDead'
  BY DEF HonouredOnItsWay, DeadIsDead
<1> QED BY <1>1, <1>2, <1>3

\* A step of no link request, that takes no pair out of a row, and gives it a status that
\* goes with its pair and its link.
LEMMA LinksStand ==
  ASSUME GhlInv, UNCHANGED <<lpc, seen, tangled, linked_to>>,
         \A l \in Locations :
           /\ stored[l] # NoToken => stored'[l] # NoToken
           /\ status'[l] = "none" => status[l] = "none" /\ stored'[l] = stored[l]
           /\ ~tangled /\ status'[l] \in {"active", "error"} => stored'[l] # NoToken
           /\ ~tangled /\ status'[l] = "active" => l \in linked_to
  PROVE  ReadsInHand' /\ LinksInHand'
<1> USE DEF GhlInv
<1>1. ReadsInHand'
  BY DEF ReadsInHand
<1>2. LinksInHand'
  <2> SUFFICES ASSUME ~tangled
               PROVE  /\ \A l, k \in linked_to : l = k
                      /\ \A l \in Locations : status'[l] \in {"active", "error"} => stored'[l] # NoToken
                      /\ \A l \in Locations : status'[l] = "active" => l \in linked_to
                      /\ \A q, r \in Linkers : lpc[q] = "left" /\ lpc[r] = "left" => q = r
                      /\ \A r \in Linkers : lpc[r] = "left" =>
                           /\ linked_to \subseteq seen[r].leaves \cup {seen[r].to}
                           /\ seen[r].linked <=> seen[r].to \in linked_to
                           /\ seen[r].token => stored'[seen[r].to] # NoToken
    BY DEF LinksInHand
  <2>1. ASSUME NEW r \in Linkers, lpc[r] = "left", seen[r].token PROVE stored'[seen[r].to] # NoToken
    <3>1. seen[r].to \in Locations /\ stored[seen[r].to] # NoToken
      BY <2>1 DEF LinksInHand, ReadsInHand, Reading
    <3> QED BY <3>1
  <2> QED BY <2>1 DEF LinksInHand
<1> QED BY <1>1, <1>2

LEMMA RowsStand ==
  ASSUME GhlInv, UNCHANGED <<lpc, seen, tangled, linked_to, stored, status>>
  PROVE  ReadsInHand' /\ LinksInHand'
BY LinksStand DEF GhlInv, LinksInHand

LEMMA Expiries ==
  ASSUME GhlInv,
         \/ \E t \in Tokens : AccessExpires(t)
         \/ \E l \in Locations, event \in {"INSTALL", "UNINSTALL"} : Webhook(event, l) \/ ResultExpires(event, l)
  PROVE  GhlInv'
<1> USE GhlTokensAssumption DEF GhlInv
<1>1. ASSUME NEW t \in Tokens, AccessExpires(t) PROVE GhlInv'
  <2>1. /\ UNCHANGED <<links, issued, honoured, installed, ghl_jobs, ghl_rows, ghl_users, installers, spoiled>>
        /\ occurrences < MaxEvents /\ occurrences' = occurrences + 1 /\ mishaps' = mishaps
        /\ fresh' \subseteq fresh
    BY <1>1 DEF AccessExpires, Occurs
  <2> USE DEF links, ghl_jobs, ghl_rows, ghl_users, installers
  <2>2. GhlTypeOK'
    BY <2>1 DEF GhlTypeOK
  <2>3. Owned' /\ InOneHand'
    BY <2>1 DEF Owned, InOneHand
  <2>4. HonouredOnItsWay' /\ DeadIsDead'
    BY <2>1 DEF HonouredOnItsWay, DeadIsDead
  <2>5. ReadsInHand' /\ LinksInHand'
    BY <2>1, RowsStand
  <2> QED BY <2>2, <2>3, <2>4, <2>5
<1>2. ASSUME NEW l \in Locations, NEW event \in {"INSTALL", "UNINSTALL"}, ResultExpires(event, l) PROVE GhlInv'
  <2>1. UNCHANGED <<ghl, links, queued, ghl_rows, ghl_users, installers, ghl_past>> /\ kept' \subseteq kept
    BY <1>2 DEF ResultExpires
  <2> USE DEF ghl, links, ghl_rows, ghl_users, installers, ghl_past
  <2>2. GhlTypeOK'
    BY <2>1 DEF GhlTypeOK
  <2>3. Owned' /\ InOneHand' /\ HonouredOnItsWay' /\ DeadIsDead'
    BY <2>1, TokensStand DEF TokenVars
  <2>4. ReadsInHand' /\ LinksInHand'
    BY <2>1, RowsStand
  <2> QED BY <2>2, <2>3, <2>4
<1>3. ASSUME NEW l \in Locations, NEW event \in {"INSTALL", "UNINSTALL"}, Webhook(event, l) PROVE GhlInv'
  <2> DEFINE dead == {t \in DOMAIN issued : event = "UNINSTALL" /\ issued[t] = l}
  <2>1. /\ UNCHANGED <<links, issued, ghl_rows, ghl_users, installers>>
        /\ occurrences < MaxEvents /\ occurrences' = occurrences + 1 /\ mishaps' = mishaps
        /\ installed' \in {installed \cup {l}, installed \ {l}}
        /\ honoured' = honoured \ dead /\ fresh' = fresh \ dead
        /\ queued' \in {queued, queued \cup {<<event, l>>}} /\ kept' = kept \cup {<<event, l>>}
        /\ spoiled' = IF event = "UNINSTALL" THEN spoiled \cup {l} ELSE spoiled
    BY <1>3 DEF Webhook, Occurs
  <2> HIDE DEF dead
  <2>0. /\ \A t \in dead : t \in DOMAIN issued /\ issued[t] \in spoiled'
        /\ spoiled \subseteq spoiled'
    BY <2>1 DEF dead
  <2> USE DEF links, ghl_rows, ghl_users, installers
  <2>2. GhlTypeOK'
    <3>1. /\ issued' \in [1..Cardinality(DOMAIN issued') -> Subjects]
          /\ honoured' \cup fresh' \subseteq DOMAIN issued' /\ installed' \in SUBSET Locations
      BY <2>1 DEF GhlTypeOK
    <3>2. {queued', kept'} \subseteq SUBSET ({"INSTALL", "UNINSTALL"} \X Locations)
      BY <2>1 DEF GhlTypeOK
    <3>3. spoiled' \in SUBSET Subjects /\ occurrences' \in 0..MaxEvents /\ mishaps' \in 0..MaxMishaps
      BY <2>1 DEF GhlTypeOK, Subjects
    <3> QED BY <2>1, <3>1, <3>2, <3>3 DEF GhlTypeOK
  <2>3. Owned' /\ InOneHand'
    BY <2>1 DEF Owned, InOneHand
  <2>4. HonouredOnItsWay'
    <3>1. ASSUME NEW u \in Users, upc[u] = "rotated", at[u] \notin spoiled' PROVE bundle[u] \in honoured'
      <4>1. bundle[u] \in honoured /\ issued[bundle[u]] = at[u]
        BY <2>0, <3>1 DEF HonouredOnItsWay, Owned
      <4> QED BY <2>0, <2>1, <3>1, <4>1
    <3>2. ASSUME NEW i \in Installers, ipc[i] = "minted", target[i] \notin spoiled' PROVE pair[i] \in honoured'
      <4>1. pair[i] \in honoured /\ issued[pair[i]] = target[i]
        BY <2>0, <3>2 DEF HonouredOnItsWay, Owned
      <4> QED BY <2>0, <2>1, <3>2, <4>1
    <3>3. ASSUME NEW i \in Installers, ipc[i] = "rotated", Agency \notin spoiled'
          PROVE  agency_bundle[i] \in honoured'
      <4>1. agency_bundle[i] \in honoured /\ issued[agency_bundle[i]] = Agency
        BY <2>0, <3>3 DEF HonouredOnItsWay, Owned
      <4> QED BY <2>0, <2>1, <3>3, <4>1
    <3>4. ASSUME NEW s \in Subjects \ spoiled', stored[s] # NoToken
          PROVE  \/ stored[s] \in honoured'
                 \/ \E u \in Users : upc[u] = "rotated" /\ at[u] = s
                 \/ s = Agency /\ \E i \in Installers : ipc[i] = "rotated"
      <4>1. issued[stored[s]] = s /\ s \notin spoiled
        BY <2>0, <3>4 DEF Owned
      <4>2. stored[s] \in honoured => stored[s] \in honoured'
        BY <2>0, <2>1, <3>4, <4>1
      <4> QED BY <3>4, <4>1, <4>2 DEF HonouredOnItsWay
    <3> QED BY <2>1, <3>1, <3>2, <3>3, <3>4 DEF HonouredOnItsWay
  <2>5. DeadIsDead'
    BY <2>1 DEF DeadIsDead
  <2>6. ReadsInHand' /\ LinksInHand'
    BY <2>1, RowsStand
  <2> QED BY <2>2, <2>3, <2>4, <2>5, <2>6
<1> QED BY <1>1, <1>2, <1>3

\* The steps of a link, and what may overtake it.
LEMMA LinkSteps ==
  ASSUME GhlInv,
         \/ \E r \in Linkers, l \in Locations : LeaveOthers(r, l)
         \/ \E r \in Linkers : Link(r)
         \/ \E l \in Locations : Unlink(l)
  PROVE  GhlInv'
<1> USE GhlTokensAssumption DEF GhlInv
<1>0. /\ lpc \in [Linkers -> {"idle", "left"}] /\ linked_to \subseteq Locations
      /\ status \in [Subjects -> Statuses] /\ occurrences \in 0..MaxEvents /\ mishaps \in 0..MaxMishaps
      /\ tangled \in BOOLEAN /\ Locations \subseteq Subjects
      /\ seen \in [Linkers -> Reading \cup {NoRead}] /\ stored \in [Subjects -> Tokens \cup {NoToken}]
  BY DEF GhlTypeOK, ReadsInHand, Subjects
<1>1. ASSUME NEW r \in Linkers, NEW l \in Locations, LeaveOthers(r, l) PROVE GhlInv'
  <2> DEFINE it == [to |-> l, leaves |-> linked_to \ {l}, status |-> status[l],
                    token |-> stored[l] # NoToken, linked |-> l \in linked_to]
  <2>1. /\ UNCHANGED <<ghl, ghl_jobs, ghl_rows, ghl_users, installers, spoiled>>
        /\ occurrences < MaxEvents /\ occurrences' = occurrences + 1 /\ mishaps' = mishaps
        /\ lpc[r] = "idle" /\ lpc' = [lpc EXCEPT ![r] = "left"]
        /\ seen' = [seen EXCEPT ![r] = it]
        /\ tangled' = (tangled \/ \E q \in Linkers : lpc[q] # "idle")
    BY <1>1 DEF LeaveOthers, Occurs
  <2>2. it \in Reading /\ it.to = l /\ it.leaves = linked_to \ {l} /\ it.token = (stored[l] # NoToken)
        /\ it.linked = (l \in linked_to) /\ it.status \in Statuses
    BY <1>0 DEF Reading
  <2> HIDE DEF it
  <2>3. /\ \A q \in Linkers : q # r => lpc'[q] = lpc[q] /\ seen'[q] = seen[q]
        /\ lpc'[r] = "left" /\ lpc' \in [Linkers -> {"idle", "left"}]
        /\ seen'[r] = it /\ seen' \in [Linkers -> Reading \cup {NoRead}]
    BY <1>0, <2>1, <2>2
  <2> USE DEF ghl, ghl_jobs, ghl_rows, ghl_users, installers
  <2>4. GhlTypeOK'
    <3>1. tangled' \in BOOLEAN
      BY <2>1
    <3>2. \A q \in Linkers : seen'[q] = NoRead \/ seen'[q].status \in Statuses
      BY <2>2, <2>3 DEF GhlTypeOK
    <3> QED BY <1>0, <2>1, <2>3, <3>1, <3>2 DEF GhlTypeOK
  <2>5. Owned' /\ InOneHand' /\ HonouredOnItsWay' /\ DeadIsDead'
    BY <2>1, TokensStand DEF TokenVars
  <2>6. ReadsInHand'
    BY <2>1, <2>2, <2>3 DEF ReadsInHand
  <2>7. LinksInHand'
    <3> SUFFICES ASSUME ~tangled'
                 PROVE  /\ \A q, p \in Linkers : lpc'[q] = "left" /\ lpc'[p] = "left" => q = p
                        /\ \A q \in Linkers : lpc'[q] = "left" =>
                             /\ linked_to \subseteq seen'[q].leaves \cup {seen'[q].to}
                             /\ seen'[q].linked <=> seen'[q].to \in linked_to
                             /\ seen'[q].token => stored[seen'[q].to] # NoToken
      <4>1. ~tangled' => ~tangled
        BY <2>1
      <4> QED BY <2>1, <4>1 DEF LinksInHand
    <3>1. \A q \in Linkers : q # r => lpc'[q] = "idle"
      BY <2>1, <2>3
    <3> QED BY <2>2, <2>3, <3>1
  <2> QED BY <2>4, <2>5, <2>6, <2>7
<1>2. ASSUME NEW r \in Linkers, Link(r) PROVE GhlInv'
  <2> DEFINE it == seen[r]
  <2>1. /\ UNCHANGED <<ghl, ghl_jobs, stored, tangled, ghl_users, installers, ghl_past>>
        /\ lpc[r] = "left" /\ lpc' = [lpc EXCEPT ![r] = "idle"]
        /\ seen' = [seen EXCEPT ![r] = NoRead]
        /\ linked_to' = (linked_to \ it.leaves) \cup (IF it.linked THEN {} ELSE {it.to})
        /\ status' = [s \in Subjects |->
             IF s = it.to
             THEN IF it.token /\ it.status \notin {"revoked", "active"} THEN "active" ELSE status[s]
             ELSE IF s \in it.leaves THEN LeftBehind(s) ELSE status[s]]
    BY <1>2 DEF Link
  <2>2. it \in Reading /\ it.to \in Locations /\ it.leaves \subseteq Locations /\ it.to \notin it.leaves
    BY <2>1 DEF ReadsInHand, Reading
  <2> HIDE DEF it
  <2>3. /\ \A q \in Linkers : q # r => lpc'[q] = lpc[q] /\ seen'[q] = seen[q]
        /\ lpc'[r] = "idle" /\ lpc' \in [Linkers -> {"idle", "left"}]
        /\ seen'[r] = NoRead /\ seen' \in [Linkers -> Reading \cup {NoRead}]
    BY <1>0, <2>1
  <2> USE DEF ghl, ghl_jobs, ghl_users, installers, ghl_past
  <2>4. \A s \in Subjects :
          /\ status'[s] \in Statuses
          /\ status'[s] = "none" => status[s] = "none"
          /\ status'[s] = "error" => status[s] = "error"
          /\ status'[s] = "active" =>
            (s = it.to /\ (it.token \/ status[s] = "active")) \/ (s \notin it.leaves /\ s # it.to /\ status[s] = "active")
    <3>1. \A s \in Subjects : status[s] \in Statuses
      BY <1>0
    <3>2. ASSUME NEW s \in Subjects
          PROVE  status'[s] = IF s = it.to
             THEN IF it.token /\ it.status \notin {"revoked", "active"} THEN "active" ELSE status[s]
             ELSE IF s \in it.leaves THEN LeftBehind(s) ELSE status[s]
      BY <2>1
    <3>3. \A s \in Subjects : LeftBehind(s) = IF status[s] = "active" THEN "pending_link" ELSE status[s]
      BY DEF LeftBehind
    <3>4. ASSUME NEW s \in Subjects, s = it.to
          PROVE  /\ status'[s] \in Statuses
                 /\ status'[s] = status[s] \/ (status'[s] = "active" /\ it.token)
      BY <3>1, <3>2, <3>4 DEF Statuses
    <3>5. ASSUME NEW s \in Subjects, s # it.to
          PROVE  /\ status'[s] \in Statuses
                 /\ status'[s] = status[s] \/ status'[s] = "pending_link"
                 /\ status'[s] = "active" => s \notin it.leaves
      BY <3>1, <3>2, <3>3, <3>5 DEF Statuses
    <3>6. ASSUME NEW s \in Subjects
          PROVE  /\ status'[s] \in Statuses
                 /\ status'[s] = "none" => status[s] = "none"
                 /\ status'[s] = "error" => status[s] = "error"
                 /\ status'[s] = "active" =>
                      (s = it.to /\ (it.token \/ status[s] = "active")) \/ (s \notin it.leaves /\ s # it.to /\ status[s] = "active")
      <4>1. CASE s = it.to
        <5>1. status'[s] = status[s] \/ (status'[s] = "active" /\ it.token)
          BY <3>4, <4>1
        <5>2. CASE status'[s] = status[s]
          BY <3>1, <4>1, <5>2
        <5>3. CASE status'[s] = "active" /\ it.token
          BY <4>1, <5>3 DEF Statuses
        <5> QED BY <5>1, <5>2, <5>3
      <4>2. CASE s # it.to
        BY <3>5, <4>2
      <4> QED BY <4>1, <4>2
    <3> QED BY <3>6
  <2>5. linked_to' \subseteq Locations /\ status' \in [Subjects -> Statuses]
    <3>1. status' = [s \in Subjects |-> status'[s]]
      BY <2>1
    <3> QED BY <1>0, <2>1, <2>2, <2>4, <3>1
  <2>6. GhlTypeOK'
    <3>1. \A q \in Linkers : seen'[q] = NoRead \/ seen'[q].status \in Statuses
      BY <2>3 DEF GhlTypeOK
    <3> QED BY <1>0, <2>1, <2>3, <2>5, <3>1 DEF GhlTypeOK
  <2>7. Owned' /\ InOneHand' /\ HonouredOnItsWay' /\ DeadIsDead'
    BY <2>1, TokensStand DEF TokenVars
  <2>8. ReadsInHand'
    BY <1>0, <2>1, <2>3, <2>4 DEF ReadsInHand
  <2>9. LinksInHand'
    <3> SUFFICES ASSUME ~tangled
                 PROVE  /\ \A l, k \in linked_to' : l = k
                        /\ \A l \in Locations : status'[l] \in {"active", "error"} => stored[l] # NoToken
                        /\ \A l \in Locations : status'[l] = "active" => l \in linked_to'
                        /\ \A q \in Linkers : lpc'[q] = "idle"
      BY <2>1 DEF LinksInHand
    <3>1. /\ linked_to \subseteq it.leaves \cup {it.to} /\ (it.linked <=> it.to \in linked_to)
          /\ it.token => stored[it.to] # NoToken
      BY <2>1 DEF LinksInHand, it
    <3>2. linked_to' = {it.to}
      BY <2>1, <2>2, <3>1
    <3>3. \A q \in Linkers : lpc'[q] = "idle"
      <4>1. \A q \in Linkers : q # r => lpc[q] = "idle"
        BY <1>0, <2>1 DEF LinksInHand
      <4> QED BY <2>3, <4>1
    <3>4. \A l \in Locations : status'[l] = "active" => l = it.to
      BY <1>0, <2>4, <3>1 DEF LinksInHand
    <3>5. \A l \in Locations : status'[l] \in {"active", "error"} => stored[l] # NoToken
      BY <1>0, <2>4, <3>1 DEF LinksInHand
    <3> QED BY <3>2, <3>3, <3>4, <3>5
  <2> QED BY <2>6, <2>7, <2>8, <2>9
<1>3. ASSUME NEW l \in Locations, Unlink(l) PROVE GhlInv'
  <2>1. /\ UNCHANGED <<ghl, lpc, seen, ghl_jobs, stored, ghl_users, installers, spoiled>>
        /\ occurrences < MaxEvents /\ occurrences' = occurrences + 1 /\ mishaps' = mishaps
        /\ l \in linked_to /\ l \notin Held
        /\ linked_to' = linked_to \ {l}
        /\ status' = [status EXCEPT ![l] = LeftBehind(l)]
        /\ tangled' = (tangled \/ Overtakes(l))
    BY <1>3 DEF Unlink, Occurs
  <2> USE DEF ghl, ghl_jobs, ghl_users, installers
  <2>2. /\ status' \in [Subjects -> Statuses] /\ tangled' \in BOOLEAN
        /\ status'[l] # "active" /\ (status'[l] = "none" => status[l] = "none")
        /\ status'[l] = "error" => status[l] = "error"
        /\ \A s \in Subjects : s # l => status'[s] = status[s]
    <3>1. tangled' \in BOOLEAN
      BY <2>1
    <3>2. status[l] \in Statuses /\ l \in Subjects
      BY <1>0
    <3>3. LeftBehind(l) \in Statuses
      BY <3>2 DEF LeftBehind, Statuses
    <3> QED BY <1>0, <2>1, <3>1, <3>2, <3>3 DEF LeftBehind
  <2>3. GhlTypeOK'
    BY <1>0, <2>1, <2>2 DEF GhlTypeOK
  <2>4. Owned' /\ InOneHand' /\ HonouredOnItsWay' /\ DeadIsDead'
    BY <2>1, TokensStand DEF TokenVars
  <2>5. ReadsInHand'
    BY <1>0, <2>1, <2>2 DEF ReadsInHand
  <2>6. LinksInHand'
    <3> SUFFICES ASSUME ~tangled'
                 PROVE  /\ \A j, k \in linked_to' : j = k
                        /\ \A k \in Locations : status'[k] \in {"active", "error"} => stored[k] # NoToken
                        /\ \A k \in Locations : status'[k] = "active" => k \in linked_to'
                        /\ \A q, r \in Linkers : lpc[q] = "left" /\ lpc[r] = "left" => q = r
                        /\ \A r \in Linkers : lpc[r] = "left" =>
                             /\ linked_to' \subseteq seen[r].leaves \cup {seen[r].to}
                             /\ seen[r].linked <=> seen[r].to \in linked_to'
                             /\ seen[r].token => stored[seen[r].to] # NoToken
      BY <2>1 DEF LinksInHand
    <3>1. ~tangled /\ \A r \in Linkers : lpc[r] # "idle" => seen[r].to # l
      BY <2>1 DEF Overtakes
    <3>2. \A r \in Linkers : lpc[r] = "left" => seen[r].to # l
      BY <1>0, <3>1
    <3>3. \A k \in Locations : status'[k] \in {"active", "error"} => stored[k] # NoToken
      BY <1>0, <2>2, <3>1 DEF LinksInHand
    <3>4. \A k \in Locations : status'[k] = "active" => k \in linked_to'
      BY <1>0, <2>1, <2>2, <3>1 DEF LinksInHand
    <3> QED BY <2>1, <3>1, <3>2, <3>3, <3>4 DEF LinksInHand
  <2> QED BY <2>3, <2>4, <2>5, <2>6
<1> QED BY <1>1, <1>2, <1>3

\* A new pair is nobody's yet; the others are whose they were.
LEMMA Issued ==
  ASSUME GhlInv, NEW s \in Subjects, NEW spent, Issue(s, spent)
  PROVE  /\ NewToken \in Tokens /\ NewToken \notin DOMAIN issued /\ NewToken # NoToken
         /\ DOMAIN issued' = DOMAIN issued \cup {NewToken}
         /\ IsFiniteSet(DOMAIN issued') /\ DOMAIN issued' \subseteq Tokens
         /\ issued'[NewToken] = s /\ \A t \in DOMAIN issued : issued'[t] = issued[t]
         /\ issued' \in [1..Cardinality(DOMAIN issued') -> Subjects]
         /\ honoured' = (honoured \ spent) \cup {NewToken} /\ fresh' = fresh \cup {NewToken}
         /\ honoured' \cup fresh' \subseteq DOMAIN issued'
         /\ honoured \cup fresh \subseteq DOMAIN issued
         /\ NoToken \notin DOMAIN issued
<1> USE GhlTokensAssumption DEF GhlInv
<1> DEFINE n == Cardinality(DOMAIN issued)
<1>1. /\ issued \in [1..n -> Subjects] /\ honoured \cup fresh \subseteq DOMAIN issued
      /\ IsFiniteSet(DOMAIN issued) /\ DOMAIN issued \subseteq Tokens
  BY DEF GhlTypeOK, Owned
<1>2. n \in Nat /\ DOMAIN issued = 1..n
  BY <1>1, FS_CardinalityType
<1> HIDE DEF n
<1>3. NewToken = n + 1
  BY DEF NewToken, n
<1>4. /\ n + 1 \in Tokens
      /\ issued' = [t \in 1..n + 1 |-> IF t = n + 1 THEN s ELSE issued[t]]
      /\ honoured' = (honoured \ spent) \cup {n + 1} /\ fresh' = fresh \cup {n + 1}
  BY <1>3 DEF Issue
<1>5. 1..n + 1 = 1..n \cup {n + 1} /\ n + 1 \notin 1..n /\ n + 1 # 0 /\ 0 \notin 1..n
  BY <1>2
<1>6. DOMAIN issued' = DOMAIN issued \cup {n + 1}
  BY <1>2, <1>4, <1>5
<1>7. Cardinality(DOMAIN issued') = n + 1 /\ IsFiniteSet(DOMAIN issued')
  <2>1. n + 1 \notin DOMAIN issued
    BY <1>2, <1>5
  <2> QED BY <1>1, <1>6, <2>1, FS_AddElement DEF n
<1>8. issued' \in [1..n + 1 -> Subjects]
  <2>1. \A t \in 1..n + 1 : (IF t = n + 1 THEN s ELSE issued[t]) \in Subjects
    BY <1>1, <1>2, <1>5
  <2> QED BY <1>4, <2>1
<1>9. issued'[n + 1] = s /\ \A t \in DOMAIN issued : issued'[t] = issued[t]
  BY <1>2, <1>4, <1>5
<1>10. honoured' \cup fresh' \subseteq DOMAIN issued'
  BY <1>1, <1>4, <1>6
<1>11. DOMAIN issued' \subseteq Tokens /\ NoToken \notin DOMAIN issued
  BY <1>1, <1>4, <1>6 DEF Tokens, NoToken
<1> QED BY <1>1, <1>2, <1>3, <1>4, <1>5, <1>6, <1>7, <1>8, <1>9, <1>10, <1>11 DEF NoToken

LEMMA Connects == GhlInv /\ Connect => GhlInv'
<1> SUFFICES ASSUME GhlInv, Connect PROVE GhlInv'
  OBVIOUS
<1> USE GhlTokensAssumption DEF GhlInv
<1> DEFINE n == NewToken
<1>0. Agency \in Subjects /\ Locations \subseteq Subjects /\ stored \in [Subjects -> Tokens \cup {NoToken}]
  BY DEF Subjects, GhlTypeOK
<1>1. /\ UNCHANGED <<links, ghl_jobs, status, linked_to, ghl_users, installers, spoiled, installed>>
      /\ occurrences < MaxEvents /\ occurrences' = occurrences + 1 /\ mishaps' = mishaps
      /\ Issue(Agency, {}) /\ stored' = [stored EXCEPT ![Agency] = n]
  BY DEF Connect, Occurs, Issue
<1>2. /\ n \in Tokens /\ n \notin DOMAIN issued /\ n # NoToken
      /\ DOMAIN issued' = DOMAIN issued \cup {n}
      /\ IsFiniteSet(DOMAIN issued') /\ DOMAIN issued' \subseteq Tokens
      /\ issued'[n] = Agency /\ \A t \in DOMAIN issued : issued'[t] = issued[t]
      /\ issued' \in [1..Cardinality(DOMAIN issued') -> Subjects]
      /\ honoured' = (honoured \ {}) \cup {n} /\ fresh' = fresh \cup {n}
      /\ honoured' \cup fresh' \subseteq DOMAIN issued'
  BY <1>0, <1>1, Issued
<1> HIDE DEF n
<1>3. /\ stored' \in [Subjects -> Tokens \cup {NoToken}] /\ stored'[Agency] = n
      /\ \A s \in Subjects : s # Agency => stored'[s] = stored[s]
  BY <1>0, <1>1, <1>2
<1> USE DEF links, ghl_jobs, ghl_users, installers
<1>4. GhlTypeOK'
  <2>1. occurrences' \in 0..MaxEvents
    BY <1>1 DEF GhlTypeOK
  <2> QED BY <1>1, <1>2, <1>3, <2>1 DEF GhlTypeOK
<1>5. Owned'
  <2>1. ASSUME NEW s \in Subjects, stored'[s] # NoToken
        PROVE  stored'[s] \in DOMAIN issued' /\ issued'[stored'[s]] = s
    <3>1. CASE s = Agency
      BY <1>2, <1>3, <3>1
    <3>2. CASE s # Agency
      <4>1. stored'[s] = stored[s] /\ stored[s] \in DOMAIN issued /\ issued[stored[s]] = s
        BY <1>3, <2>1, <3>2 DEF Owned
      <4>2. stored[s] \in DOMAIN issued' /\ issued'[stored[s]] = issued[stored[s]]
        BY <1>2, <4>1
      <4> QED BY <4>1, <4>2
    <3> QED BY <3>1, <3>2
  <2>2. /\ \A u \in Users : bundle[u] # NoToken => bundle[u] \in DOMAIN issued' /\ issued'[bundle[u]] = at[u]
        /\ \A i \in Installers :
             /\ agency_bundle[i] # NoToken =>
                  agency_bundle[i] \in DOMAIN issued' /\ issued'[agency_bundle[i]] = Agency
             /\ ipc[i] = "minted" => pair[i] \in DOMAIN issued' /\ issued'[pair[i]] = target[i]
    BY <1>2 DEF Owned
  <2> QED BY <1>1, <1>2, <2>1, <2>2 DEF Owned
<1>6. InOneHand'
  <2>1. /\ \A u \in Users : bundle[u] # n
        /\ \A i \in Installers : agency_bundle[i] # n /\ (ipc[i] = "minted" => pair[i] # n)
    BY <1>2 DEF Owned
  <2> QED BY <1>1, <1>3, <2>1 DEF InOneHand
<1>7. HonouredOnItsWay'
  BY <1>1, <1>2, <1>3 DEF HonouredOnItsWay
<1>8. ReadsInHand' /\ LinksInHand'
  <2>1. \A l \in Locations : stored'[l] = stored[l]
    BY <1>0, <1>3
  <2> QED BY <1>1, <2>1, LinksStand DEF LinksInHand
<1>9. DeadIsDead'
  BY <1>1, <1>2 DEF DeadIsDead, Owned
<1> QED BY <1>4, <1>5, <1>6, <1>7, <1>8, <1>9

-----------------------------------------------------------------------------
(* The users of a location. *)

\* The users in their types, one of them changed.
LEMMA UserSteps ==
  ASSUME GhlInv, NEW u \in Users
  PROVE  /\ upc \in [Users -> {"idle", "calling", "rotated", "stamping"}]
         /\ bundle \in [Users -> Tokens \cup {NoToken}] /\ at \in [Users -> Locations]
         /\ verdict \in [Users -> {"none", "healthy", "failed", "dead"}] /\ use \in [Users -> Uses]
         /\ at[u] \in Subjects /\ at[u] # Agency /\ Locations \subseteq Subjects
BY GhlTokensAssumption DEF GhlInv, GhlTypeOK, Subjects

LEMMA Loads ==
  ASSUME GhlInv, NEW u \in Users, NEW w \in Uses, NEW l \in Locations, Load(u, w, l)
  PROVE  GhlInv'
<1> USE GhlTokensAssumption DEF GhlInv
<1>0. /\ upc \in [Users -> {"idle", "calling", "rotated", "stamping"}]
      /\ bundle \in [Users -> Tokens \cup {NoToken}] /\ at \in [Users -> Locations]
      /\ use \in [Users -> Uses] /\ l \in Subjects /\ stored[l] \in Tokens \cup {NoToken}
  BY UserSteps DEF GhlTypeOK
<1>1. /\ UNCHANGED <<ghl, links, ghl_jobs, ghl_rows, verdict, installers, ghl_past>>
      /\ upc[u] = "idle" /\ stored[l] # NoToken
      /\ upc' = [upc EXCEPT ![u] = "calling"] /\ use' = [use EXCEPT ![u] = w]
      /\ at' = [at EXCEPT ![u] = l] /\ bundle' = [bundle EXCEPT ![u] = stored[l]]
  BY DEF Load, Usable
<1>2. /\ upc'[u] = "calling" /\ at'[u] = l /\ bundle'[u] = stored[l]
      /\ \A v \in Users : v # u => upc'[v] = upc[v] /\ at'[v] = at[v] /\ bundle'[v] = bundle[v]
      /\ upc' \in [Users -> {"idle", "calling", "rotated", "stamping"}]
      /\ bundle' \in [Users -> Tokens \cup {NoToken}] /\ at' \in [Users -> Locations]
      /\ use' \in [Users -> Uses]
  BY <1>0, <1>1
<1> USE DEF ghl, links, ghl_jobs, ghl_rows, installers, ghl_past
<1>3. GhlTypeOK'
  BY <1>1, <1>2 DEF GhlTypeOK
<1>4. Owned'
  <2>1. ASSUME NEW v \in Users
        PROVE  /\ bundle'[v] # NoToken => bundle'[v] \in DOMAIN issued /\ issued[bundle'[v]] = at'[v]
               /\ upc'[v] = "rotated" => bundle'[v] # NoToken
    <3>1. CASE v = u
      BY <1>0, <1>1, <1>2, <3>1 DEF Owned
    <3>2. CASE v # u
      BY <1>2, <3>2 DEF Owned
    <3> QED BY <3>1, <3>2
  <2> QED BY <1>1, <2>1 DEF Owned
<1>5. InOneHand'
  BY <1>0, <1>1, <1>2 DEF InOneHand
<1>6. HonouredOnItsWay'
  <2>1. \A v \in Users : upc[v] = "rotated" <=> upc'[v] = "rotated"
    BY <1>1, <1>2
  <2>2. \A v \in Users : upc[v] = "rotated" => at'[v] = at[v] /\ bundle'[v] = bundle[v]
    BY <1>1, <1>2
  <2> QED BY <1>1, <2>1, <2>2 DEF HonouredOnItsWay
<1>7. ReadsInHand' /\ LinksInHand'
  BY <1>1, RowsStand
<1>8. DeadIsDead'
  BY <1>1, <1>2 DEF DeadIsDead
<1> QED BY <1>3, <1>4, <1>5, <1>6, <1>7, <1>8

\* A call ends, with a verdict if it is a probe's; a refusal is GHL's.
LEMMA Ends ==
  ASSUME GhlInv, NEW u \in Users, NEW v \in {"healthy", "failed", "dead"}, Over(u, v), upc[u] = "calling",
         v = "dead" => bundle[u] \notin fresh \cup honoured,
         UNCHANGED <<ghl, links, ghl_jobs, stored, linked_to, installers, spoiled, occurrences>>,
         mishaps' \in 0..MaxMishaps, status' \in [Subjects -> Statuses], ReadsInHand', LinksInHand'
  PROVE  GhlInv'
<1> USE GhlTokensAssumption DEF GhlInv
<1>0. /\ upc \in [Users -> {"idle", "calling", "rotated", "stamping"}]
      /\ bundle \in [Users -> Tokens \cup {NoToken}]
      /\ verdict \in [Users -> {"none", "healthy", "failed", "dead"}]
  BY UserSteps
<1>1. /\ upc' = [upc EXCEPT ![u] = IF use[u] = "probe" THEN "stamping" ELSE "idle"]
      /\ verdict' = [verdict EXCEPT ![u] = IF use[u] = "probe" THEN v ELSE "none"]
      /\ bundle' = [bundle EXCEPT ![u] = IF use[u] = "probe" THEN @ ELSE NoToken]
      /\ UNCHANGED <<use, at>>
  BY DEF Over
<1>2. /\ upc'[u] \in {"stamping", "idle"} /\ bundle'[u] \in {bundle[u], NoToken}
      /\ upc'[u] = "stamping" => verdict'[u] = v /\ bundle'[u] = bundle[u]
      /\ \A x \in Users : x # u => upc'[x] = upc[x] /\ verdict'[x] = verdict[x] /\ bundle'[x] = bundle[x]
      /\ upc' \in [Users -> {"idle", "calling", "rotated", "stamping"}]
      /\ bundle' \in [Users -> Tokens \cup {NoToken}]
      /\ verdict' \in [Users -> {"none", "healthy", "failed", "dead"}]
  BY <1>0, <1>1
<1> USE DEF ghl, links, ghl_jobs, installers
<1>3. GhlTypeOK'
  BY <1>1, <1>2 DEF GhlTypeOK
<1>4. Owned'
  <2>1. ASSUME NEW x \in Users
        PROVE  /\ bundle'[x] # NoToken => bundle'[x] \in DOMAIN issued /\ issued[bundle'[x]] = at[x]
               /\ upc'[x] = "rotated" => bundle'[x] # NoToken
    <3>1. CASE x = u
      BY <1>2, <3>1 DEF Owned
    <3>2. CASE x # u
      BY <1>2, <3>2 DEF Owned
    <3> QED BY <3>1, <3>2
  <2> QED BY <1>1, <2>1 DEF Owned
<1>5. InOneHand'
  <2>1. /\ \A x \in Users : upc'[x] = "rotated" => x # u /\ upc[x] = "rotated" /\ bundle'[x] = bundle[x]
        /\ \A x \in Users : bundle'[x] \in {bundle[x], NoToken}
    BY <1>2
  <2>2. /\ \A x \in Users : upc[x] = "rotated" => bundle[x] # NoToken
        /\ \A i \in Installers : ipc[i] = "minted" => pair[i] # NoToken
    BY DEF Owned, Tokens, NoToken
  <2> QED BY <1>1, <2>1, <2>2 DEF InOneHand
<1>6. HonouredOnItsWay'
  <2>1. \A x \in Users : (upc[x] = "rotated" <=> upc'[x] = "rotated")
    BY <1>2
  <2>2. \A x \in Users : upc[x] = "rotated" => bundle'[x] = bundle[x]
    BY <1>2
  <2> QED BY <1>1, <2>1, <2>2 DEF HonouredOnItsWay
<1>7. DeadIsDead'
  <2>1. ASSUME NEW x \in Users, upc'[x] = "stamping", verdict'[x] = "dead"
        PROVE  bundle'[x] \notin fresh \cup honoured
    <3>1. CASE x = u
      BY <1>2, <2>1, <3>1
    <3>2. CASE x # u
      BY <1>2, <2>1, <3>2 DEF DeadIsDead
    <3> QED BY <3>1, <3>2
  <2> QED BY <2>1 DEF DeadIsDead
<1> QED BY <1>3, <1>4, <1>5, <1>6, <1>7

LEMMA AnsweredSteps ==
  ASSUME GhlInv, NEW u \in Users, Answered(u) \/ RefreshRefused(u) \/ CallFails(u)
  PROVE  GhlInv'
<1> USE GhlTokensAssumption DEF GhlInv
<1>0. /\ status \in [Subjects -> Statuses] /\ mishaps \in 0..MaxMishaps /\ at[u] \in Subjects
      /\ linked_to \subseteq Locations /\ Locations \subseteq Subjects
  BY UserSteps DEF GhlTypeOK
<1> USE DEF links, ghl_rows, ghl_past
<1>1. CASE RefreshRefused(u)
  <2>1. /\ upc[u] = "calling" /\ bundle[u] \notin fresh \cup honoured /\ Over(u, "dead")
        /\ UNCHANGED <<ghl, links, ghl_jobs, ghl_rows, installers, ghl_past>>
    BY <1>1 DEF RefreshRefused
  <2>2. ReadsInHand' /\ LinksInHand'
    BY <2>1, RowsStand
  <2> QED BY <1>0, <2>1, <2>2, Ends
<1>2. CASE CallFails(u)
  <2>1. /\ upc[u] = "calling" /\ Over(u, "failed")
        /\ mishaps < MaxMishaps /\ mishaps' = mishaps + 1 /\ occurrences' = occurrences
        /\ UNCHANGED <<ghl, links, ghl_jobs, ghl_rows, installers, spoiled>>
    BY <1>2 DEF CallFails, Mishap
  <2>2. ReadsInHand' /\ LinksInHand'
    BY <2>1, RowsStand
  <2>3. mishaps' \in 0..MaxMishaps
    BY <1>0, <2>1
  <2> QED BY <1>0, <2>1, <2>2, <2>3, Ends
<1>3. CASE Answered(u)
  <2>1. /\ upc[u] = "calling" /\ Over(u, "healthy")
        /\ status' = IF use[u] = "name" THEN Installed(at[u]) ELSE status
        /\ UNCHANGED <<ghl, links, ghl_jobs, stored, linked_to, installers, ghl_past>>
    BY <1>3 DEF Answered
  <2>2. /\ status' \in [Subjects -> Statuses]
        /\ \A l \in Subjects : status'[l] \in {status[l], "pending_link"}
    <3>1. /\ Installed(at[u]) \in [Subjects -> Statuses]
          /\ \A l \in Subjects : Installed(at[u])[l] \in {status[l], "pending_link"}
      BY <1>0 DEF Installed, Statuses
    <3> QED BY <1>0, <2>1, <3>1
  <2>3. ReadsInHand' /\ LinksInHand'
    BY <1>0, <2>1, <2>2, LinksStand DEF LinksInHand
  <2> QED BY <1>0, <2>1, <2>2, <2>3, Ends
<1> QED BY <1>1, <1>2, <1>3

\* A refresh that GHL takes spends the pair of nobody who is on the way to a row.
LEMMA Rotates ==
  ASSUME GhlInv, NEW u \in Users, Rotate(u) \/ RotateLost(u)
  PROVE  GhlInv'
<1> USE GhlTokensAssumption DEF GhlInv
<1> DEFINE n == NewToken
<1>0. /\ upc \in [Users -> {"idle", "calling", "rotated", "stamping"}]
      /\ bundle \in [Users -> Tokens \cup {NoToken}] /\ at[u] \in Subjects /\ at[u] # Agency
      /\ spoiled \subseteq Subjects /\ mishaps \in 0..MaxMishaps
  BY UserSteps DEF GhlTypeOK
<1>1. /\ UNCHANGED <<links, ghl_jobs, ghl_rows, use, at, verdict, installers, occurrences, installed>>
      /\ upc[u] = "calling" /\ bundle[u] \in honoured
      /\ Issue(at[u], {bundle[u]})
      /\ \/ /\ bundle' = [bundle EXCEPT ![u] = n] /\ upc' = [upc EXCEPT ![u] = "rotated"]
            /\ spoiled' = spoiled /\ mishaps' = mishaps
         \/ /\ UNCHANGED <<bundle, upc>> /\ spoiled' = spoiled \cup {at[u]}
            /\ mishaps' = mishaps + 1 /\ mishaps < MaxMishaps
  BY DEF Rotate, RotateLost, Mishap, Issue, ghl_past, ghl_users
<1>2. /\ n \in Tokens /\ n \notin DOMAIN issued /\ n # NoToken
      /\ DOMAIN issued' = DOMAIN issued \cup {n}
      /\ IsFiniteSet(DOMAIN issued') /\ DOMAIN issued' \subseteq Tokens
      /\ issued'[n] = at[u] /\ \A t \in DOMAIN issued : issued'[t] = issued[t]
      /\ issued' \in [1..Cardinality(DOMAIN issued') -> Subjects]
      /\ honoured' = (honoured \ {bundle[u]}) \cup {n} /\ fresh' = fresh \cup {n}
      /\ honoured' \cup fresh' \subseteq DOMAIN issued'
      /\ honoured \cup fresh \subseteq DOMAIN issued /\ NoToken \notin DOMAIN issued
  BY <1>0, <1>1, Issued
<1> HIDE DEF n
<1>3. /\ \A v \in Users : v # u => upc'[v] = upc[v] /\ bundle'[v] = bundle[v]
      /\ \/ upc'[u] = "rotated" /\ bundle'[u] = n
         \/ upc'[u] = "calling" /\ bundle'[u] = bundle[u] /\ at[u] \in spoiled'
      /\ upc' \in [Users -> {"idle", "calling", "rotated", "stamping"}]
      /\ bundle' \in [Users -> Tokens \cup {NoToken}]
      /\ spoiled \subseteq spoiled' /\ spoiled' \subseteq Subjects /\ mishaps' \in 0..MaxMishaps
  BY <1>0, <1>1, <1>2
<1>4. bundle[u] \in DOMAIN issued /\ issued[bundle[u]] = at[u] /\ bundle[u] # NoToken
  BY <1>1, <1>2 DEF Owned
<1>5. /\ \A s \in Subjects : stored[s] # NoToken => stored[s] \in DOMAIN issued' /\ issued'[stored[s]] = s
      /\ \A v \in Users : bundle[v] # NoToken => bundle[v] \in DOMAIN issued' /\ issued'[bundle[v]] = at[v]
      /\ \A i \in Installers :
           /\ agency_bundle[i] # NoToken => agency_bundle[i] \in DOMAIN issued' /\ issued'[agency_bundle[i]] = Agency
           /\ ipc[i] = "rotated" => agency_bundle[i] # NoToken
           /\ ipc[i] = "minted" => pair[i] \in DOMAIN issued' /\ issued'[pair[i]] = target[i]
  <2>1. \A t \in DOMAIN issued : t \in DOMAIN issued' /\ issued'[t] = issued[t]
    BY <1>2
  <2> HIDE <1>2
  <2> QED BY <2>1 DEF Owned
<1>6. /\ \A s \in Subjects : stored[s] # n
      /\ \A v \in Users : bundle[v] # n
      /\ \A i \in Installers : agency_bundle[i] # n /\ (ipc[i] = "minted" => pair[i] # n)
  BY <1>2 DEF Owned
<1> USE DEF links, ghl_jobs, ghl_rows, installers
<1>7. GhlTypeOK'
  BY <1>1, <1>2, <1>3 DEF GhlTypeOK
<1>8. Owned'
  <2>1. ASSUME NEW v \in Users
        PROVE  /\ bundle'[v] # NoToken => bundle'[v] \in DOMAIN issued' /\ issued'[bundle'[v]] = at[v]
               /\ upc'[v] = "rotated" => bundle'[v] # NoToken
    <3>1. CASE v = u
      BY <1>2, <1>3, <1>5, <3>1
    <3>2. CASE v # u
      BY <1>3, <1>5, <3>2 DEF Owned
    <3> QED BY <3>1, <3>2
  <2> QED BY <1>1, <1>2, <1>5, <2>1 DEF Owned
<1>9. InOneHand'
  <2>1. ASSUME NEW v \in Users, upc'[v] = "rotated"
        PROVE  /\ \A s \in Subjects : stored[s] # bundle'[v]
               /\ \A w \in Users : w # v => bundle'[w] # bundle'[v]
               /\ \A i \in Installers : ipc[i] = "minted" => pair[i] # bundle'[v]
    <3>1. CASE v = u
      BY <1>3, <1>6, <2>1, <3>1
    <3>2. CASE v # u
      BY <1>3, <1>6, <2>1, <3>2 DEF InOneHand
    <3> QED BY <3>1, <3>2
  <2>2. \A i \in Installers : ipc[i] = "minted" => \A v \in Users : bundle'[v] # pair[i]
    BY <1>3, <1>6 DEF InOneHand
  <2> QED BY <1>1, <2>1, <2>2 DEF InOneHand
<1>10. HonouredOnItsWay'
  <2>1. ASSUME NEW v \in Users, upc'[v] = "rotated", at[v] \notin spoiled' PROVE bundle'[v] \in honoured'
    <3>1. CASE v = u
      BY <1>2, <1>3, <2>1, <3>1
    <3>2. CASE v # u
      <4>1. bundle[v] \in honoured /\ bundle[v] # bundle[u]
        BY <1>3, <2>1, <3>2 DEF HonouredOnItsWay, InOneHand
      <4> QED BY <1>2, <1>3, <3>2, <4>1
    <3> QED BY <3>1, <3>2
  <2>2. ASSUME NEW i \in Installers, ipc[i] = "minted", target[i] \notin spoiled' PROVE pair[i] \in honoured'
    BY <1>2, <1>3, <2>2 DEF HonouredOnItsWay, InOneHand
  <2>3. ASSUME NEW i \in Installers, ipc[i] = "rotated", Agency \notin spoiled'
        PROVE  agency_bundle[i] \in honoured'
    <3>1. agency_bundle[i] \in honoured
      BY <1>3, <2>3 DEF HonouredOnItsWay
    <3>2. agency_bundle[i] # bundle[u]
      BY <1>0, <1>4, <2>3 DEF Owned
    <3> QED BY <1>2, <3>1, <3>2
  <2>4. ASSUME NEW s \in Subjects \ spoiled', stored[s] # NoToken
        PROVE  \/ stored[s] \in honoured'
               \/ \E v \in Users : upc'[v] = "rotated" /\ at[v] = s
               \/ s = Agency /\ \E i \in Installers : ipc[i] = "rotated"
    <3>1. CASE stored[s] = bundle[u]
      <4>1. s = at[u]
        BY <1>4, <2>4, <3>1 DEF Owned
      <4> QED BY <1>3, <2>4, <4>1
    <3>2. CASE stored[s] # bundle[u]
      <4>1. s \notin spoiled
        BY <1>3, <2>4
      <4>2. CASE stored[s] \in honoured
        BY <1>2, <3>2, <4>2
      <4>3. CASE \E v \in Users : upc[v] = "rotated" /\ at[v] = s
        BY <1>1, <1>3, <4>3
      <4> QED BY <2>4, <4>1, <4>2, <4>3 DEF HonouredOnItsWay
    <3> QED BY <3>1, <3>2
  <2> QED BY <1>1, <2>1, <2>2, <2>3, <2>4 DEF HonouredOnItsWay
<1>11. ReadsInHand' /\ LinksInHand'
  BY <1>1, RowsStand
<1>12. DeadIsDead'
  <2>1. ASSUME NEW v \in Users, upc'[v] = "stamping", verdict[v] = "dead"
        PROVE  bundle'[v] \notin fresh' \cup honoured'
    <3>1. v # u
      BY <1>3, <2>1
    <3> QED BY <1>2, <1>3, <1>6, <2>1, <3>1 DEF DeadIsDead
  <2> QED BY <1>1, <2>1 DEF DeadIsDead
<1> QED BY <1>7, <1>8, <1>9, <1>10, <1>11, <1>12

\* The new pair reaches the row, or its user goes on without.
LEMMA Persists ==
  ASSUME GhlInv, NEW u \in Users, Persist(u) \/ PersistFails(u)
  PROVE  GhlInv'
<1> USE GhlTokensAssumption DEF GhlInv
<1> DEFINE l == at[u]
<1>0. /\ upc \in [Users -> {"idle", "calling", "rotated", "stamping"}]
      /\ stored \in [Subjects -> Tokens \cup {NoToken}] /\ status \in [Subjects -> Statuses]
      /\ bundle[u] \in Tokens \cup {NoToken} /\ linked_to \subseteq Locations
      /\ l \in Locations /\ l \in Subjects /\ l # Agency /\ spoiled \subseteq Subjects
      /\ mishaps \in 0..MaxMishaps
  BY UserSteps DEF GhlTypeOK
<1>1. /\ UNCHANGED <<ghl, links, ghl_jobs, linked_to, use, at, bundle, verdict, installers, occurrences>>
      /\ upc[u] = "rotated" /\ upc' = [upc EXCEPT ![u] = "calling"]
      /\ \/ /\ SetLocationToken(l, bundle[u]) /\ spoiled' = spoiled /\ mishaps' = mishaps
         \/ /\ UNCHANGED ghl_rows /\ spoiled' = spoiled \cup {l}
            /\ mishaps' = mishaps + 1 /\ mishaps < MaxMishaps
  BY DEF Persist, PersistFails, Mishap, ghl_past, SetLocationToken, ghl_rows
<1>2. /\ bundle[u] # NoToken /\ bundle[u] \in DOMAIN issued /\ issued[bundle[u]] = l
      /\ l \notin spoiled => bundle[u] \in honoured
  BY <1>1 DEF Owned, HonouredOnItsWay
<1>3. /\ upc'[u] = "calling" /\ \A v \in Users : v # u => upc'[v] = upc[v]
      /\ upc' \in [Users -> {"idle", "calling", "rotated", "stamping"}]
      /\ spoiled \subseteq spoiled' /\ spoiled' \subseteq Subjects /\ mishaps' \in 0..MaxMishaps
  BY <1>0, <1>1
<1> HIDE DEF l
<1>4. /\ \/ stored'[l] = bundle[u]
         \/ stored' = stored /\ (l \in spoiled' \/ stored[l] = NoToken)
      /\ \A s \in Subjects : s # l => stored'[s] = stored[s]
      /\ stored' \in [Subjects -> Tokens \cup {NoToken}] /\ status' \in [Subjects -> Statuses]
      /\ \A s \in Subjects : s # l => status'[s] = status[s]
      /\ \/ status'[l] = status[l] /\ (stored' = stored \/ status[l] # "none")
         \/ status'[l] = "active" /\ l \in linked_to
         \/ status'[l] = "pending_link"
      /\ status'[l] # status[l] => stored'[l] # NoToken
  <2>1. CASE UNCHANGED ghl_rows /\ spoiled' = spoiled \cup {l}
    BY <1>0, <2>1 DEF ghl_rows
  <2>2. CASE SetLocationToken(l, bundle[u]) /\ status[l] = "none"
    <3>1. UNCHANGED ghl_rows /\ stored[l] = NoToken
      BY <1>0, <2>2 DEF SetLocationToken, TokenWritten, ReadsInHand
    <3> QED BY <1>0, <3>1 DEF ghl_rows
  <2>3. CASE SetLocationToken(l, bundle[u]) /\ status[l] # "none"
    <3>1. /\ stored' = [stored EXCEPT ![l] = bundle[u]]
          /\ status' = [status EXCEPT ![l] =
               IF @ = "revoked" THEN @ ELSE IF l \in linked_to THEN "active" ELSE "pending_link"]
      BY <2>3 DEF SetLocationToken, TokenWritten
    <3>2. "active" \in Statuses /\ "pending_link" \in Statuses
      BY DEF Statuses
    <3>3. stored' \in [Subjects -> Tokens \cup {NoToken}] /\ status' \in [Subjects -> Statuses]
      BY <1>0, <3>1, <3>2
    <3>4. stored'[l] = bundle[u] /\ \A s \in Subjects : s # l => stored'[s] = stored[s] /\ status'[s] = status[s]
      BY <1>0, <3>1
    <3>5. \/ status'[l] = status[l]
          \/ status'[l] = "active" /\ l \in linked_to
          \/ status'[l] = "pending_link"
      BY <1>0, <3>1
    <3> QED BY <1>2, <2>3, <3>3, <3>4, <3>5
  <2> QED BY <1>1, <2>1, <2>2, <2>3 DEF l
<1> USE DEF ghl, links, ghl_jobs, installers
<1>5. GhlTypeOK'
  BY <1>0, <1>1, <1>3, <1>4 DEF GhlTypeOK
<1>6. Owned'
  <2>1. ASSUME NEW s \in Subjects, stored'[s] # NoToken
        PROVE  stored'[s] \in DOMAIN issued /\ issued[stored'[s]] = s
    BY <1>2, <1>4, <2>1 DEF Owned
  <2>2. \A v \in Users : upc'[v] = "rotated" => bundle[v] # NoToken
    BY <1>3 DEF Owned
  <2> QED BY <1>1, <2>1, <2>2 DEF Owned
<1>7. InOneHand'
  <2>1. \A s \in Subjects : stored'[s] \in {stored[s], bundle[u]}
    BY <1>4
  <2>2. \A v \in Users : upc'[v] = "rotated" => v # u /\ upc[v] = "rotated"
    BY <1>3
  <2>3. \A v \in Users : upc'[v] = "rotated" => \A s \in Subjects : stored'[s] # bundle[v]
    BY <1>1, <2>1, <2>2 DEF InOneHand
  <2>4. \A i \in Installers : ipc[i] = "minted" => \A s \in Subjects : stored'[s] # pair[i]
    BY <2>1 DEF InOneHand
  <2>5. \A i \in Installers : ipc[i] = "rotated" => \A s \in Subjects : stored'[s] # agency_bundle[i]
    <3>1. \A i \in Installers : ipc[i] = "rotated" => agency_bundle[i] # bundle[u]
      BY <1>0, <1>2 DEF Owned
    <3> QED BY <2>1, <3>1 DEF InOneHand
  <2> QED BY <1>1, <2>2, <2>3, <2>4, <2>5 DEF InOneHand
<1>8. HonouredOnItsWay'
  <2>1. \A v \in Users : upc'[v] = "rotated" => upc[v] = "rotated"
    BY <1>3
  <2>2. ASSUME NEW s \in Subjects \ spoiled', stored'[s] # NoToken
        PROVE  \/ stored'[s] \in honoured
               \/ \E v \in Users : upc'[v] = "rotated" /\ at[v] = s
               \/ s = Agency /\ \E i \in Installers : ipc[i] = "rotated"
    <3>1. CASE s = l
      BY <1>2, <1>3, <1>4, <2>2, <3>1
    <3>2. CASE s # l
      <4>1. stored'[s] = stored[s] /\ s \notin spoiled
        BY <1>3, <1>4, <2>2, <3>2
      <4>2. CASE \E v \in Users : upc[v] = "rotated" /\ at[v] = s
        BY <1>3, <3>2, <4>2 DEF l
      <4> QED BY <2>2, <4>1, <4>2 DEF HonouredOnItsWay
    <3> QED BY <3>1, <3>2
  <2> QED BY <1>1, <1>3, <2>1, <2>2 DEF HonouredOnItsWay
<1>9. ReadsInHand' /\ LinksInHand'
  <2>1. ASSUME NEW k \in Locations
        PROVE  /\ stored[k] # NoToken => stored'[k] # NoToken
               /\ status'[k] = "none" => status[k] = "none" /\ stored'[k] = stored[k]
               /\ ~tangled /\ status'[k] \in {"active", "error"} => stored'[k] # NoToken
               /\ ~tangled /\ status'[k] = "active" => k \in linked_to
    <3>0. k \in Subjects
      BY DEF Subjects
    <3>1. CASE k = l
      <4>1. stored[k] # NoToken => stored'[k] # NoToken
        BY <1>2, <1>4, <3>1
      <4>2. status'[k] = "none" => status[k] = "none" /\ stored'[k] = stored[k]
        BY <1>4, <3>1
      <4> QED BY <1>4, <3>1, <4>1, <4>2 DEF LinksInHand
    <3>2. CASE k # l
      BY <1>4, <3>0, <3>2 DEF LinksInHand
    <3> QED BY <3>1, <3>2
  <2> QED BY <1>1, <2>1, LinksStand
<1>10. DeadIsDead'
  BY <1>1, <1>3 DEF DeadIsDead
<1> QED BY <1>5, <1>6, <1>7, <1>8, <1>9, <1>10

LEMMA Stamps ==
  ASSUME GhlInv, NEW u \in Users, Stamp(u)
  PROVE  GhlInv'
<1> USE GhlTokensAssumption DEF GhlInv
<1>0. /\ upc \in [Users -> {"idle", "calling", "rotated", "stamping"}]
      /\ bundle \in [Users -> Tokens \cup {NoToken}] /\ status \in [Subjects -> Statuses]
      /\ verdict \in [Users -> {"none", "healthy", "failed", "dead"}] /\ at[u] \in Subjects
      /\ Locations \subseteq Subjects
  BY UserSteps DEF GhlTypeOK
<1>1. /\ UNCHANGED <<ghl, links, ghl_jobs, stored, linked_to, use, at, installers, ghl_past>>
      /\ upc[u] = "stamping" /\ upc' = [upc EXCEPT ![u] = "idle"]
      /\ verdict' = [verdict EXCEPT ![u] = "none"] /\ bundle' = [bundle EXCEPT ![u] = NoToken]
      /\ status' = [status EXCEPT ![at[u]] =
           CASE Flips(verdict[u]) /\ @ = "active" -> "error"
             [] verdict[u] = "healthy" /\ @ = "error" /\ at[u] \in linked_to -> "active"
             [] OTHER -> @]
  BY DEF Stamp
<1>2. /\ upc'[u] = "idle" /\ verdict'[u] = "none" /\ bundle'[u] = NoToken
      /\ \A v \in Users : v # u => upc'[v] = upc[v] /\ verdict'[v] = verdict[v] /\ bundle'[v] = bundle[v]
      /\ upc' \in [Users -> {"idle", "calling", "rotated", "stamping"}]
      /\ verdict' \in [Users -> {"none", "healthy", "failed", "dead"}]
      /\ bundle' \in [Users -> Tokens \cup {NoToken}]
  BY <1>0, <1>1
<1>3. /\ status' \in [Subjects -> Statuses]
      /\ \A k \in Subjects : \/ status'[k] = status[k]
                             \/ status[k] = "active" /\ status'[k] = "error"
                             \/ status[k] = "error" /\ status'[k] = "active" /\ k \in linked_to
  <2>1. "active" \in Statuses /\ "error" \in Statuses
    BY DEF Statuses
  <2> DEFINE x == CASE Flips(verdict[u]) /\ status[at[u]] = "active" -> "error"
                    [] verdict[u] = "healthy" /\ status[at[u]] = "error" /\ at[u] \in linked_to -> "active"
                    [] OTHER -> status[at[u]]
  <2>2. \/ x = status[at[u]]
        \/ status[at[u]] = "active" /\ x = "error"
        \/ status[at[u]] = "error" /\ x = "active" /\ at[u] \in linked_to
    <3>1. CASE Flips(verdict[u]) /\ status[at[u]] = "active"
      <4>1. verdict[u] # "healthy"
        BY <3>1 DEF Flips
      <4>2. x = "error"
        BY <3>1, <4>1
      <4> QED BY <3>1, <4>2
    <3>2. CASE verdict[u] = "healthy" /\ status[at[u]] = "error" /\ at[u] \in linked_to
      <4>1. x = "active"
        BY <3>2 DEF Flips
      <4> QED BY <3>2, <4>1
    <3>3. CASE /\ ~(Flips(verdict[u]) /\ status[at[u]] = "active")
               /\ ~(verdict[u] = "healthy" /\ status[at[u]] = "error" /\ at[u] \in linked_to)
      <4>1. x = status[at[u]]
        BY <3>3
      <4> QED BY <4>1
    <3> QED BY <3>1, <3>2, <3>3
  <2>3. status' = [status EXCEPT ![at[u]] = x]
    BY <1>1
  <2> HIDE DEF x
  <2>4. x \in Statuses
    BY <1>0, <2>1, <2>2
  <2> QED BY <1>0, <2>2, <2>3, <2>4
<1> USE DEF ghl, links, ghl_jobs, installers, ghl_past
<1>4. GhlTypeOK'
  BY <1>1, <1>2, <1>3 DEF GhlTypeOK
<1>5. Owned'
  <2>1. ASSUME NEW v \in Users
        PROVE  /\ bundle'[v] # NoToken => bundle'[v] \in DOMAIN issued /\ issued[bundle'[v]] = at[v]
               /\ upc'[v] = "rotated" => bundle'[v] # NoToken
    BY <1>2 DEF Owned
  <2> QED BY <1>1, <2>1 DEF Owned
<1>6. InOneHand'
  <2>1. /\ \A x \in Users : upc'[x] = "rotated" => x # u /\ upc[x] = "rotated" /\ bundle'[x] = bundle[x]
        /\ \A x \in Users : bundle'[x] \in {bundle[x], NoToken}
    BY <1>2
  <2>2. /\ \A x \in Users : upc[x] = "rotated" => bundle[x] # NoToken
        /\ \A i \in Installers : ipc[i] = "minted" => pair[i] # NoToken
    BY DEF Owned, Tokens, NoToken
  <2> QED BY <1>1, <2>1, <2>2 DEF InOneHand
<1>7. HonouredOnItsWay'
  <2>1. \A x \in Users : (upc[x] = "rotated" <=> upc'[x] = "rotated")
    BY <1>1, <1>2
  <2>2. \A x \in Users : upc[x] = "rotated" => bundle'[x] = bundle[x]
    BY <1>1, <1>2
  <2> QED BY <1>1, <2>1, <2>2 DEF HonouredOnItsWay
<1>8. ReadsInHand' /\ LinksInHand'
  BY <1>0, <1>1, <1>3, LinksStand DEF LinksInHand
<1>9. DeadIsDead'
  BY <1>1, <1>2 DEF DeadIsDead
<1> QED BY <1>4, <1>5, <1>6, <1>7, <1>8, <1>9

\* An uninstall empties the row.
LEMMA Revokes ==
  ASSUME GhlInv, NEW l \in Locations, Revoke(l)
  PROVE  GhlInv'
<1> USE GhlTokensAssumption DEF GhlInv
<1>0. /\ lpc \in [Linkers -> {"idle", "left"}] /\ tangled \in BOOLEAN
      /\ stored \in [Subjects -> Tokens \cup {NoToken}] /\ status \in [Subjects -> Statuses]
      /\ l \in Subjects /\ Locations \subseteq Subjects
      /\ queued \subseteq {"INSTALL", "UNINSTALL"} \X Locations
  BY DEF GhlTypeOK, Subjects
<1>1. /\ UNCHANGED <<ghl, lpc, seen, kept, linked_to, ghl_users, installers, ghl_past>>
      /\ queued' \subseteq queued
      /\ tangled' = (tangled \/ Overtakes(l))
      /\ \/ UNCHANGED <<stored, status>>
         \/ stored' = [stored EXCEPT ![l] = NoToken] /\ status' = [status EXCEPT ![l] = "revoked"]
  BY DEF Revoke
<1>2. /\ stored' \in [Subjects -> Tokens \cup {NoToken}] /\ status' \in [Subjects -> Statuses]
      /\ \A s \in Subjects : \/ stored'[s] = stored[s] /\ status'[s] = status[s]
                             \/ s = l /\ stored'[s] = NoToken /\ status'[s] = "revoked"
  BY <1>0, <1>1 DEF Statuses
<1>3. tangled' \in BOOLEAN
  BY <1>1
<1> USE DEF ghl, ghl_users, installers, ghl_past
<1>4. GhlTypeOK'
  BY <1>0, <1>1, <1>2, <1>3 DEF GhlTypeOK
<1>5. Owned' /\ DeadIsDead'
  BY <1>1, <1>2 DEF Owned, DeadIsDead
<1>6. InOneHand'
  <2>1. \A s \in Subjects : stored'[s] \in {stored[s], NoToken}
    BY <1>2
  <2>2. /\ \A x \in Users : upc[x] = "rotated" => bundle[x] # NoToken
        /\ \A i \in Installers : /\ ipc[i] = "minted" => pair[i] # NoToken
                                 /\ ipc[i] = "rotated" => agency_bundle[i] # NoToken
    BY DEF Owned, Tokens, NoToken
  <2> QED BY <1>1, <2>1, <2>2 DEF InOneHand
<1>7. HonouredOnItsWay'
  BY <1>1, <1>2 DEF HonouredOnItsWay
<1>8. ReadsInHand'
  BY <1>0, <1>1, <1>2 DEF ReadsInHand
<1>9. LinksInHand'
  <2> SUFFICES ASSUME ~tangled'
               PROVE  /\ \A j, k \in linked_to : j = k
                      /\ \A k \in Locations : status'[k] \in {"active", "error"} => stored'[k] # NoToken
                      /\ \A k \in Locations : status'[k] = "active" => k \in linked_to
                      /\ \A q, r \in Linkers : lpc[q] = "left" /\ lpc[r] = "left" => q = r
                      /\ \A r \in Linkers : lpc[r] = "left" =>
                           /\ linked_to \subseteq seen[r].leaves \cup {seen[r].to}
                           /\ seen[r].linked <=> seen[r].to \in linked_to
                           /\ seen[r].token => stored'[seen[r].to] # NoToken
    BY <1>1 DEF LinksInHand
  <2>1. ~tangled /\ \A r \in Linkers : lpc[r] # "idle" => seen[r].to # l
    BY <1>1 DEF Overtakes
  <2>2. /\ \A k \in Locations : status'[k] \in {"active", "error"} => stored'[k] # NoToken
        /\ \A k \in Locations : status'[k] = "active" => k \in linked_to
    BY <1>0, <1>2, <2>1 DEF LinksInHand
  <2>3. ASSUME NEW r \in Linkers, lpc[r] = "left", seen[r].token PROVE stored'[seen[r].to] # NoToken
    <3>1. seen[r].to \in Locations /\ seen[r].to # l /\ stored[seen[r].to] # NoToken
      BY <2>1, <2>3 DEF LinksInHand, ReadsInHand, Reading
    <3> QED BY <1>0, <1>2, <3>1
  <2> QED BY <2>1, <2>2, <2>3 DEF LinksInHand
<1> QED BY <1>4, <1>5, <1>6, <1>7, <1>8, <1>9

-----------------------------------------------------------------------------
(* The installs. *)

\* The installers in their types, one of them changed.
LEMMA InstallerSteps ==
  ASSUME GhlInv, NEW i \in Installers
  PROVE  /\ ipc \in [Installers -> {"idle", "minting", "rotated", "again", "minted"}]
         /\ target \in [Installers -> Locations]
         /\ agency_bundle \in [Installers -> Tokens \cup {NoToken}]
         /\ pair \in [Installers -> Tokens \cup {NoToken}]
         /\ target[i] \in Locations /\ target[i] \in Subjects /\ target[i] # Agency
         /\ Agency \in Subjects /\ Locations \subseteq Subjects
BY GhlTokensAssumption DEF GhlInv, GhlTypeOK, Subjects

LEMMA Records ==
  ASSUME GhlInv, NEW i \in Installers, NEW l \in Locations, Record(i, l)
  PROVE  GhlInv'
<1> USE GhlTokensAssumption DEF GhlInv
<1>0. /\ ipc \in [Installers -> {"idle", "minting", "rotated", "again", "minted"}]
      /\ target \in [Installers -> Locations]
      /\ agency_bundle \in [Installers -> Tokens \cup {NoToken}]
      /\ Agency \in Subjects /\ Locations \subseteq Subjects
      /\ stored[Agency] \in Tokens \cup {NoToken} /\ status \in [Subjects -> Statuses]
      /\ queued \subseteq {"INSTALL", "UNINSTALL"} \X Locations
  BY InstallerSteps DEF GhlTypeOK
<1>1. /\ UNCHANGED <<ghl, links, kept, stored, linked_to, ghl_users, pair, ghl_past>>
      /\ ipc[i] = "idle" /\ queued' \subseteq queued
      /\ status' = Installed(l)
      /\ ipc' = [ipc EXCEPT ![i] = "minting"] /\ target' = [target EXCEPT ![i] = l]
      /\ agency_bundle' = [agency_bundle EXCEPT ![i] = stored[Agency]]
  BY DEF Record
<1>2. /\ ipc'[i] = "minting" /\ agency_bundle'[i] = stored[Agency]
      /\ \A j \in Installers : j # i =>
           ipc'[j] = ipc[j] /\ target'[j] = target[j] /\ agency_bundle'[j] = agency_bundle[j]
      /\ ipc' \in [Installers -> {"idle", "minting", "rotated", "again", "minted"}]
      /\ target' \in [Installers -> Locations]
      /\ agency_bundle' \in [Installers -> Tokens \cup {NoToken}]
  BY <1>0, <1>1
<1>3. /\ status' \in [Subjects -> Statuses]
      /\ \A s \in Subjects : status'[s] \in {status[s], "pending_link"}
  BY <1>0, <1>1 DEF Installed, Statuses
<1> USE DEF ghl, links, ghl_users, ghl_past
<1>4. GhlTypeOK'
  BY <1>0, <1>1, <1>2, <1>3 DEF GhlTypeOK
<1>5. Owned'
  <2>1. ASSUME NEW j \in Installers
        PROVE  /\ agency_bundle'[j] # NoToken =>
                    agency_bundle'[j] \in DOMAIN issued /\ issued[agency_bundle'[j]] = Agency
               /\ ipc'[j] = "rotated" => agency_bundle'[j] # NoToken
               /\ ipc'[j] = "minted" => pair[j] \in DOMAIN issued /\ issued[pair[j]] = target'[j]
    <3>1. CASE j = i
      BY <1>0, <1>2, <3>1 DEF Owned
    <3>2. CASE j # i
      BY <1>2, <3>2 DEF Owned
    <3> QED BY <3>1, <3>2
  <2> QED BY <1>1, <2>1 DEF Owned
<1>6. InOneHand'
  <2>1. \A j \in Installers : /\ ipc'[j] = "minted" => ipc[j] = "minted"
                              /\ ipc'[j] = "rotated" => j # i /\ ipc[j] = "rotated"
    BY <1>2
  <2>2. \A j, k \in Installers : ipc'[j] = "rotated" /\ k # j => agency_bundle'[k] # agency_bundle'[j]
    <3> SUFFICES ASSUME NEW j \in Installers, NEW k \in Installers, ipc'[j] = "rotated", k # j
                 PROVE  agency_bundle'[k] # agency_bundle'[j]
      OBVIOUS
    <3>1. agency_bundle'[j] = agency_bundle[j] /\ ipc[j] = "rotated"
      BY <1>2, <2>1
    <3>2. CASE k = i
      BY <1>0, <1>2, <3>1, <3>2 DEF InOneHand
    <3>3. CASE k # i
      BY <1>2, <3>1, <3>3 DEF InOneHand
    <3> QED BY <3>2, <3>3
  <2>3. \A j \in Installers : ipc'[j] = "rotated" => \A s \in Subjects : stored[s] # agency_bundle'[j]
    BY <1>2, <2>1 DEF InOneHand
  <2> QED BY <1>1, <2>1, <2>2, <2>3 DEF InOneHand
<1>7. HonouredOnItsWay'
  <2>1. \A j \in Installers : /\ ipc'[j] = "minted" => ipc[j] = "minted" /\ target'[j] = target[j]
                              /\ ipc[j] = "rotated" <=> ipc'[j] = "rotated"
                              /\ ipc[j] = "rotated" => agency_bundle'[j] = agency_bundle[j]
    BY <1>1, <1>2
  <2> QED BY <1>1, <2>1 DEF HonouredOnItsWay
<1>8. ReadsInHand' /\ LinksInHand'
  BY <1>0, <1>1, <1>3, LinksStand DEF LinksInHand
<1>9. DeadIsDead'
  BY <1>1 DEF DeadIsDead
<1> QED BY <1>4, <1>5, <1>6, <1>7, <1>8, <1>9

\* A mint makes a pair of the location, a refresh one of the agency that spends the one in hand.
LEMMA Mints ==
  ASSUME GhlInv, NEW i \in Installers, Mint(i) \/ RefreshAgency(i)
  PROVE  GhlInv'
<1> USE GhlTokensAssumption DEF GhlInv
<1> DEFINE n == NewToken
           spent == IF ipc'[i] = "minted" THEN {} ELSE {agency_bundle[i]}
<1>0. /\ ipc \in [Installers -> {"idle", "minting", "rotated", "again", "minted"}]
      /\ agency_bundle \in [Installers -> Tokens \cup {NoToken}]
      /\ pair \in [Installers -> Tokens \cup {NoToken}]
      /\ target[i] \in Subjects /\ target[i] # Agency /\ Agency \in Subjects
      /\ \A u \in Users : at[u] # Agency
      /\ \A j \in Installers : target[j] # Agency
  BY InstallerSteps DEF GhlTypeOK
<1>1. /\ UNCHANGED <<links, ghl_jobs, ghl_rows, ghl_users, target, ghl_past, installed>>
      /\ \/ /\ ipc[i] \in {"minting", "again"} /\ ipc' = [ipc EXCEPT ![i] = "minted"]
            /\ pair' = [pair EXCEPT ![i] = n] /\ agency_bundle' = agency_bundle
            /\ Issue(target[i], {})
         \/ /\ ipc[i] = "minting" /\ ipc' = [ipc EXCEPT ![i] = "rotated"]
            /\ agency_bundle' = [agency_bundle EXCEPT ![i] = n] /\ pair' = pair
            /\ agency_bundle[i] \in honoured
            /\ Issue(Agency, {agency_bundle[i]})
  BY DEF Mint, RefreshAgency, Issue
<1>2. /\ n \in Tokens /\ n \notin DOMAIN issued /\ n # NoToken
      /\ DOMAIN issued' = DOMAIN issued \cup {n}
      /\ IsFiniteSet(DOMAIN issued') /\ DOMAIN issued' \subseteq Tokens
      /\ \A t \in DOMAIN issued : issued'[t] = issued[t]
      /\ issued' \in [1..Cardinality(DOMAIN issued') -> Subjects]
      /\ honoured' = (honoured \ spent) \cup {n} /\ fresh' = fresh \cup {n}
      /\ honoured' \cup fresh' \subseteq DOMAIN issued'
      /\ honoured \cup fresh \subseteq DOMAIN issued /\ NoToken \notin DOMAIN issued
      /\ \/ ipc'[i] = "minted" /\ pair'[i] = n /\ issued'[n] = target[i] /\ agency_bundle'[i] = agency_bundle[i]
         \/ ipc'[i] = "rotated" /\ agency_bundle'[i] = n /\ issued'[n] = Agency /\ agency_bundle[i] \in honoured
  <2>1. CASE Issue(target[i], {}) /\ ipc' = [ipc EXCEPT ![i] = "minted"]
             /\ pair' = [pair EXCEPT ![i] = n] /\ agency_bundle' = agency_bundle
    <3>1. ipc'[i] = "minted" /\ pair'[i] = n /\ agency_bundle'[i] = agency_bundle[i]
      BY <1>0, <2>1
    <3> QED BY <1>0, <2>1, <3>1, Issued
  <2>2. CASE Issue(Agency, {agency_bundle[i]}) /\ ipc' = [ipc EXCEPT ![i] = "rotated"]
             /\ agency_bundle' = [agency_bundle EXCEPT ![i] = n] /\ agency_bundle[i] \in honoured
    <3>1. ipc'[i] = "rotated" /\ agency_bundle'[i] = n /\ spent = {agency_bundle[i]}
      BY <1>0, <2>2
    <3> QED BY <1>0, <2>2, <3>1, Issued
  <2> QED BY <1>1, <2>1, <2>2
<1>3. /\ \A j \in Installers : j # i =>
           ipc'[j] = ipc[j] /\ pair'[j] = pair[j] /\ agency_bundle'[j] = agency_bundle[j]
      /\ ipc' \in [Installers -> {"idle", "minting", "rotated", "again", "minted"}]
      /\ agency_bundle' \in [Installers -> Tokens \cup {NoToken}]
      /\ pair' \in [Installers -> Tokens \cup {NoToken}]
      /\ ipc[i] \notin {"minted", "rotated"}
  BY <1>0, <1>1, <1>2
<1>4. /\ ipc'[i] # "minted" => spent = {agency_bundle[i]} /\ ipc'[i] = "rotated"
      /\ ipc'[i] = "minted" => spent = {}
  BY <1>2
<1> HIDE DEF n, spent
<1>5. /\ \A s \in Subjects : stored[s] # n
      /\ \A v \in Users : bundle[v] # n
      /\ \A j \in Installers : agency_bundle[j] # n /\ (ipc[j] = "minted" => pair[j] # n)
  BY <1>2 DEF Owned
<1>6. \A t \in spent : t \in DOMAIN issued /\ issued[t] = Agency
  BY <1>2, <1>4 DEF Owned
<1>7. \A t \in DOMAIN issued : t \in DOMAIN issued' /\ issued'[t] = issued[t]
  BY <1>2
<1> USE DEF links, ghl_jobs, ghl_rows, ghl_users, ghl_past
<1>8. GhlTypeOK'
  BY <1>1, <1>2, <1>3 DEF GhlTypeOK
<1>9. Owned'
  <2>1. ASSUME NEW j \in Installers
        PROVE  /\ agency_bundle'[j] # NoToken =>
                    agency_bundle'[j] \in DOMAIN issued' /\ issued'[agency_bundle'[j]] = Agency
               /\ ipc'[j] = "rotated" => agency_bundle'[j] # NoToken
               /\ ipc'[j] = "minted" => pair'[j] \in DOMAIN issued' /\ issued'[pair'[j]] = target[j]
    <3>1. CASE j = i
      <4>1. n \in DOMAIN issued'
        BY <1>2
      <4>2. agency_bundle[i] # NoToken =>
              agency_bundle[i] \in DOMAIN issued' /\ issued'[agency_bundle[i]] = Agency
        BY <1>7 DEF Owned
      <4> QED BY <1>2, <3>1, <4>1, <4>2
    <3>2. CASE j # i
      BY <1>3, <1>7, <3>2 DEF Owned
    <3> QED BY <3>1, <3>2
  <2>2. \A s \in Subjects : stored[s] # NoToken => stored[s] \in DOMAIN issued' /\ issued'[stored[s]] = s
    BY <1>7 DEF Owned
  <2>3. \A v \in Users : bundle[v] # NoToken => bundle[v] \in DOMAIN issued' /\ issued'[bundle[v]] = at[v]
    BY <1>7 DEF Owned
  <2> QED BY <1>1, <1>2, <2>1, <2>2, <2>3 DEF Owned
<1>10. InOneHand'
  <2>1. ASSUME NEW j \in Installers, ipc'[j] = "minted"
        PROVE  /\ \A s \in Subjects : stored[s] # pair'[j]
               /\ \A v \in Users : bundle[v] # pair'[j]
               /\ \A k \in Installers : k # j /\ ipc'[k] = "minted" => pair'[k] # pair'[j]
    <3>1. CASE j = i
      BY <1>2, <1>3, <1>5, <2>1, <3>1
    <3>2. CASE j # i
      <4>1. ipc[j] = "minted" /\ pair'[j] = pair[j] /\ pair[j] # n
        BY <1>3, <1>5, <2>1, <3>2
      <4>2. ASSUME NEW k \in Installers, k # j, ipc'[k] = "minted" PROVE pair'[k] # pair'[j]
        <5>1. CASE k = i
          BY <1>2, <4>1, <4>2, <5>1
        <5>2. CASE k # i
          BY <1>3, <4>1, <4>2, <5>2 DEF InOneHand
        <5> QED BY <5>1, <5>2
      <4> QED BY <4>1, <4>2 DEF InOneHand
    <3> QED BY <3>1, <3>2
  <2>2. ASSUME NEW j \in Installers, ipc'[j] = "rotated"
        PROVE  /\ \A s \in Subjects : stored[s] # agency_bundle'[j]
               /\ \A k \in Installers : k # j => agency_bundle'[k] # agency_bundle'[j]
    <3>1. CASE j = i
      BY <1>2, <1>3, <1>5, <2>2, <3>1
    <3>2. CASE j # i
      <4>1. ipc[j] = "rotated" /\ agency_bundle'[j] = agency_bundle[j] /\ agency_bundle[j] # n
        BY <1>3, <1>5, <2>2, <3>2
      <4>2. ASSUME NEW k \in Installers, k # j PROVE agency_bundle'[k] # agency_bundle'[j]
        <5>1. agency_bundle'[k] \in {agency_bundle[k], n}
          BY <1>2, <1>3
        <5> QED BY <4>1, <4>2, <5>1 DEF InOneHand
      <4> QED BY <4>1, <4>2 DEF InOneHand
    <3> QED BY <3>1, <3>2
  <2>3. ASSUME NEW u \in Users, upc[u] = "rotated", NEW j \in Installers, ipc'[j] = "minted"
        PROVE  pair'[j] # bundle[u]
    BY <2>1, <2>3
  <2> QED BY <1>1, <2>1, <2>2, <2>3 DEF InOneHand
<1>11. HonouredOnItsWay'
  <2>1. \A t \in honoured : issued[t] # Agency => t \in honoured'
    BY <1>2, <1>6
  <2>2. n \in honoured'
    BY <1>2
  <2>3. ASSUME NEW u \in Users, upc[u] = "rotated", at[u] \notin spoiled PROVE bundle[u] \in honoured'
    BY <1>0, <2>1, <2>3 DEF HonouredOnItsWay, Owned
  <2>4. ASSUME NEW j \in Installers, ipc'[j] = "minted", target[j] \notin spoiled PROVE pair'[j] \in honoured'
    <3>1. CASE j = i
      BY <1>2, <2>2, <2>4, <3>1
    <3>2. CASE j # i
      BY <1>0, <1>3, <2>1, <2>4, <3>2 DEF HonouredOnItsWay, Owned
    <3> QED BY <3>1, <3>2
  <2>5. ASSUME NEW j \in Installers, ipc'[j] = "rotated", Agency \notin spoiled
        PROVE  agency_bundle'[j] \in honoured'
    <3>1. CASE j = i
      BY <1>2, <2>2, <2>5, <3>1
    <3>2. CASE j # i
      <4>1. agency_bundle[j] \in honoured /\ agency_bundle[j] # agency_bundle[i]
        BY <1>3, <2>5, <3>2 DEF HonouredOnItsWay, InOneHand
      <4>2. agency_bundle[j] \notin spent
        BY <1>2, <1>4, <4>1
      <4> QED BY <1>2, <1>3, <3>2, <4>1, <4>2
    <3> QED BY <3>1, <3>2
  <2>6. ASSUME NEW s \in Subjects \ spoiled, stored[s] # NoToken
        PROVE  \/ stored[s] \in honoured'
               \/ \E u \in Users : upc[u] = "rotated" /\ at[u] = s
               \/ s = Agency /\ \E j \in Installers : ipc'[j] = "rotated"
    <3>1. CASE stored[s] \in spent
      <4>1. s = Agency /\ ipc'[i] = "rotated"
        BY <1>4, <1>6, <2>6, <3>1 DEF Owned
      <4> QED BY <4>1
    <3>2. CASE stored[s] \notin spent
      <4>1. CASE stored[s] \in honoured
        BY <1>2, <3>2, <4>1
      <4>2. CASE s = Agency /\ \E j \in Installers : ipc[j] = "rotated"
        BY <1>3, <4>2
      <4> QED BY <2>6, <4>1, <4>2 DEF HonouredOnItsWay
    <3> QED BY <3>1, <3>2
  <2> QED BY <1>1, <2>3, <2>4, <2>5, <2>6 DEF HonouredOnItsWay
<1>12. ReadsInHand' /\ LinksInHand'
  BY <1>1, RowsStand
<1>13. DeadIsDead'
  BY <1>1, <1>2, <1>5 DEF DeadIsDead
<1> QED BY <1>8, <1>9, <1>10, <1>11, <1>12, <1>13

LEMMA AgencyPersists ==
  ASSUME GhlInv, NEW i \in Installers, PersistAgency(i)
  PROVE  GhlInv'
<1> USE GhlTokensAssumption DEF GhlInv
<1>0. /\ ipc \in [Installers -> {"idle", "minting", "rotated", "again", "minted"}]
      /\ agency_bundle \in [Installers -> Tokens \cup {NoToken}]
      /\ stored \in [Subjects -> Tokens \cup {NoToken}] /\ Agency \in Subjects
      /\ \A u \in Users : at[u] # Agency
      /\ \A j \in Installers : target[j] # Agency
      /\ \A l \in Locations : l \in Subjects /\ l # Agency
  BY InstallerSteps DEF GhlTypeOK
<1>1. /\ UNCHANGED <<ghl, links, ghl_jobs, status, linked_to, ghl_users, target, agency_bundle, pair, ghl_past>>
      /\ ipc[i] = "rotated" /\ ipc' = [ipc EXCEPT ![i] = "again"]
      /\ stored' = [stored EXCEPT ![Agency] = agency_bundle[i]]
  BY DEF PersistAgency
<1>2. /\ ipc'[i] = "again" /\ \A j \in Installers : j # i => ipc'[j] = ipc[j]
      /\ ipc' \in [Installers -> {"idle", "minting", "rotated", "again", "minted"}]
      /\ stored'[Agency] = agency_bundle[i] /\ \A s \in Subjects : s # Agency => stored'[s] = stored[s]
      /\ stored' \in [Subjects -> Tokens \cup {NoToken}]
  BY <1>0, <1>1
<1>3. /\ agency_bundle[i] \in DOMAIN issued /\ issued[agency_bundle[i]] = Agency
      /\ Agency \notin spoiled => agency_bundle[i] \in honoured
  BY <1>1 DEF Owned, HonouredOnItsWay
<1> USE DEF ghl, links, ghl_jobs, ghl_users, ghl_past
<1>4. GhlTypeOK'
  BY <1>1, <1>2 DEF GhlTypeOK
<1>5. Owned'
  <2>1. ASSUME NEW s \in Subjects, stored'[s] # NoToken
        PROVE  stored'[s] \in DOMAIN issued /\ issued[stored'[s]] = s
    BY <1>2, <1>3, <2>1 DEF Owned
  <2> QED BY <1>1, <1>2, <2>1 DEF Owned
<1>6. InOneHand'
  <2>1. \A s \in Subjects : stored'[s] \in {stored[s], agency_bundle[i]}
    BY <1>2
  <2>2. \A u \in Users : upc[u] = "rotated" => bundle[u] # agency_bundle[i]
    BY <1>0, <1>3 DEF Owned
  <2>3. \A j \in Installers : ipc[j] = "minted" => pair[j] # agency_bundle[i]
    BY <1>0, <1>3 DEF Owned
  <2>4. \A j \in Installers : /\ ipc'[j] = "minted" => ipc[j] = "minted"
                              /\ ipc'[j] = "rotated" => j # i /\ ipc[j] = "rotated"
    BY <1>2
  <2>5. \A u \in Users : upc[u] = "rotated" => \A s \in Subjects : stored'[s] # bundle[u]
    BY <2>1, <2>2 DEF InOneHand
  <2>6. \A j \in Installers : ipc'[j] = "minted" => \A s \in Subjects : stored'[s] # pair[j]
    BY <2>1, <2>3, <2>4 DEF InOneHand
  <2>7. \A j \in Installers : ipc'[j] = "rotated" => \A s \in Subjects : stored'[s] # agency_bundle[j]
    BY <2>1, <2>4 DEF InOneHand
  <2> QED BY <1>1, <2>4, <2>5, <2>6, <2>7 DEF InOneHand
<1>7. HonouredOnItsWay'
  <2>1. \A j \in Installers : /\ ipc'[j] = "minted" => ipc[j] = "minted"
                              /\ ipc'[j] = "rotated" => ipc[j] = "rotated"
    BY <1>2
  <2>2. ASSUME NEW s \in Subjects \ spoiled, stored'[s] # NoToken
        PROVE  \/ stored'[s] \in honoured
               \/ \E u \in Users : upc[u] = "rotated" /\ at[u] = s
               \/ s = Agency /\ \E j \in Installers : ipc'[j] = "rotated"
    BY <1>2, <1>3, <2>2 DEF HonouredOnItsWay
  <2> QED BY <1>1, <2>1, <2>2 DEF HonouredOnItsWay
<1>8. ReadsInHand' /\ LinksInHand'
  <2>1. \A l \in Locations : stored'[l] = stored[l]
    BY <1>0, <1>2
  <2> QED BY <1>1, <2>1, LinksStand DEF LinksInHand
<1>9. DeadIsDead'
  BY <1>1 DEF DeadIsDead
<1> QED BY <1>4, <1>5, <1>6, <1>7, <1>8, <1>9

\* A job ends without a pair for the row; what it loses of the agency's is noted.
LEMMA InstallEnds ==
  ASSUME GhlInv, NEW i \in Installers, Ended(i),
         UNCHANGED <<ghl, links, kept, ghl_rows, ghl_users, occurrences>>,
         spoiled \subseteq spoiled', spoiled' \subseteq Subjects, ipc[i] = "rotated" => Agency \in spoiled',
         queued' \subseteq {"INSTALL", "UNINSTALL"} \X Locations, mishaps' \in 0..MaxMishaps
  PROVE  GhlInv'
<1> USE GhlTokensAssumption DEF GhlInv
<1>0. /\ ipc \in [Installers -> {"idle", "minting", "rotated", "again", "minted"}]
      /\ agency_bundle \in [Installers -> Tokens \cup {NoToken}]
      /\ pair \in [Installers -> Tokens \cup {NoToken}]
  BY InstallerSteps
<1>1. /\ ipc' = [ipc EXCEPT ![i] = "idle"] /\ target' = target
      /\ agency_bundle' = [agency_bundle EXCEPT ![i] = NoToken] /\ pair' = [pair EXCEPT ![i] = NoToken]
  BY DEF Ended
<1>2. /\ ipc'[i] = "idle" /\ agency_bundle'[i] = NoToken
      /\ \A j \in Installers : j # i =>
           ipc'[j] = ipc[j] /\ agency_bundle'[j] = agency_bundle[j] /\ pair'[j] = pair[j]
      /\ ipc' \in [Installers -> {"idle", "minting", "rotated", "again", "minted"}]
      /\ agency_bundle' \in [Installers -> Tokens \cup {NoToken}]
      /\ pair' \in [Installers -> Tokens \cup {NoToken}]
  BY <1>0, <1>1 DEF NoToken
<1> USE DEF ghl, links, ghl_rows, ghl_users
<1>3. GhlTypeOK'
  BY <1>1, <1>2 DEF GhlTypeOK
<1>4. Owned'
  <2>1. ASSUME NEW j \in Installers
        PROVE  /\ agency_bundle'[j] # NoToken =>
                    agency_bundle'[j] \in DOMAIN issued /\ issued[agency_bundle'[j]] = Agency
               /\ ipc'[j] = "rotated" => agency_bundle'[j] # NoToken
               /\ ipc'[j] = "minted" => pair'[j] \in DOMAIN issued /\ issued[pair'[j]] = target[j]
    BY <1>2 DEF Owned
  <2> QED BY <1>1, <2>1 DEF Owned
<1>5. \A j \in Installers : /\ ipc'[j] = "minted" => ipc[j] = "minted" /\ pair'[j] = pair[j]
                            /\ ipc'[j] = "rotated" => ipc[j] = "rotated" /\ agency_bundle'[j] = agency_bundle[j]
                            /\ agency_bundle'[j] \in {agency_bundle[j], NoToken}
  BY <1>2
<1>6. InOneHand'
  <2>1. \A j \in Installers : ipc[j] = "rotated" => agency_bundle[j] # NoToken
    BY DEF Owned
  <2>2. \A j, k \in Installers : ipc'[j] = "rotated" /\ k # j => agency_bundle'[k] # agency_bundle'[j]
    BY <1>5, <2>1 DEF InOneHand
  <2>3. \A j, k \in Installers : j # k /\ ipc'[j] = "minted" /\ ipc'[k] = "minted" => pair'[k] # pair'[j]
    BY <1>5 DEF InOneHand
  <2>4. /\ \A u \in Users : upc[u] = "rotated" =>
             /\ \A s \in Subjects : stored[s] # bundle[u]
             /\ \A v \in Users : v # u => bundle[v] # bundle[u]
             /\ \A j \in Installers : ipc'[j] = "minted" => pair'[j] # bundle[u]
        /\ \A j \in Installers : ipc'[j] = "minted" =>
             /\ \A s \in Subjects : stored[s] # pair'[j]
             /\ \A v \in Users : bundle[v] # pair'[j]
        /\ \A j \in Installers : ipc'[j] = "rotated" => \A s \in Subjects : stored[s] # agency_bundle'[j]
    BY <1>5 DEF InOneHand
  <2> QED BY <1>1, <2>2, <2>3, <2>4 DEF InOneHand
<1>7. HonouredOnItsWay'
  <2>1. ASSUME NEW s \in Subjects \ spoiled', stored[s] # NoToken
        PROVE  \/ stored[s] \in honoured
               \/ \E u \in Users : upc[u] = "rotated" /\ at[u] = s
               \/ s = Agency /\ \E j \in Installers : ipc'[j] = "rotated"
    <3>1. CASE s = Agency /\ \E j \in Installers : ipc[j] = "rotated"
      <4>1. ipc[i] # "rotated"
        BY <2>1, <3>1
      <4> QED BY <1>2, <3>1, <4>1
    <3> QED BY <2>1, <3>1 DEF HonouredOnItsWay
  <2> QED BY <1>1, <1>5, <2>1 DEF HonouredOnItsWay
<1>8. ReadsInHand' /\ LinksInHand'
  BY <1>1, RowsStand
<1>9. DeadIsDead'
  BY <1>1 DEF DeadIsDead
<1> QED BY <1>3, <1>4, <1>6, <1>7, <1>8, <1>9

LEMMA InstallsEnd ==
  ASSUME GhlInv, NEW i \in Installers, MintFails(i) \/ InstallDies(i)
  PROVE  GhlInv'
<1> USE GhlTokensAssumption DEF GhlInv
<1>0. /\ queued \subseteq {"INSTALL", "UNINSTALL"} \X Locations /\ mishaps \in 0..MaxMishaps
      /\ spoiled \subseteq Subjects /\ target[i] \in Locations /\ Agency \in Subjects
  BY InstallerSteps DEF GhlTypeOK
<1> USE DEF ghl_jobs, ghl_past
<1>1. CASE MintFails(i)
  <2>1. /\ ipc[i] # "rotated" /\ Ended(i)
        /\ UNCHANGED <<ghl, links, ghl_jobs, ghl_rows, ghl_users, ghl_past>>
    BY <1>1 DEF MintFails
  <2> QED BY <1>0, <2>1, InstallEnds
<1>2. CASE InstallDies(i)
  <2>1. /\ Ended(i) /\ UNCHANGED <<ghl, links, kept, ghl_rows, ghl_users, occurrences>>
        /\ mishaps < MaxMishaps /\ mishaps' = mishaps + 1
        /\ spoiled' = spoiled \cup (IF ipc[i] = "rotated" THEN {Agency} ELSE {})
        /\ queued' \in {queued, queued \cup {<<"INSTALL", target[i]>>}}
    BY <1>2 DEF InstallDies, Mishap
  <2>2. queued' \subseteq {"INSTALL", "UNINSTALL"} \X Locations /\ mishaps' \in 0..MaxMishaps
    BY <1>0, <2>1
  <2>3. spoiled \subseteq spoiled' /\ spoiled' \subseteq Subjects /\ (ipc[i] = "rotated" => Agency \in spoiled')
    BY <1>0, <2>1
  <2> QED BY <2>1, <2>2, <2>3, InstallEnds
<1> QED BY <1>1, <1>2

LEMMA Stores ==
  ASSUME GhlInv, NEW i \in Installers, Store(i)
  PROVE  GhlInv'
<1> USE GhlTokensAssumption DEF GhlInv
<1> DEFINE l == target[i]
<1>0. /\ ipc \in [Installers -> {"idle", "minting", "rotated", "again", "minted"}]
      /\ agency_bundle \in [Installers -> Tokens \cup {NoToken}]
      /\ pair \in [Installers -> Tokens \cup {NoToken}]
      /\ stored \in [Subjects -> Tokens \cup {NoToken}] /\ status \in [Subjects -> Statuses]
      /\ l \in Locations /\ l \in Subjects /\ l # Agency /\ linked_to \subseteq Locations
  BY InstallerSteps DEF GhlTypeOK
<1>1. /\ UNCHANGED <<ghl, links, ghl_jobs, linked_to, ghl_users, target, ghl_past>>
      /\ ipc[i] = "minted" /\ ipc' = [ipc EXCEPT ![i] = "idle"]
      /\ agency_bundle' = [agency_bundle EXCEPT ![i] = NoToken] /\ pair' = [pair EXCEPT ![i] = NoToken]
      /\ stored' = [stored EXCEPT ![l] = pair[i]]
      /\ \E named \in BOOLEAN :
           status' = [status EXCEPT ![l] =
             IF @ = "revoked" /\ ~named THEN @
             ELSE IF l \in linked_to THEN "active" ELSE "pending_link"]
  BY DEF Store, Ended
<1>2. /\ pair[i] # NoToken /\ pair[i] \in DOMAIN issued /\ issued[pair[i]] = l
      /\ l \notin spoiled => pair[i] \in honoured
  BY <1>1 DEF Owned, HonouredOnItsWay, Tokens, NoToken
<1> HIDE DEF l
<1>3. /\ ipc'[i] = "idle" /\ agency_bundle'[i] = NoToken
      /\ \A j \in Installers : j # i =>
           ipc'[j] = ipc[j] /\ agency_bundle'[j] = agency_bundle[j] /\ pair'[j] = pair[j]
      /\ ipc' \in [Installers -> {"idle", "minting", "rotated", "again", "minted"}]
      /\ agency_bundle' \in [Installers -> Tokens \cup {NoToken}]
      /\ pair' \in [Installers -> Tokens \cup {NoToken}]
      /\ stored'[l] = pair[i] /\ \A s \in Subjects : s # l => stored'[s] = stored[s]
      /\ stored' \in [Subjects -> Tokens \cup {NoToken}]
  BY <1>0, <1>1 DEF NoToken
<1>4. /\ status' \in [Subjects -> Statuses] /\ \A s \in Subjects : s # l => status'[s] = status[s]
      /\ status'[l] \in {"revoked", "pending_link", "active"} /\ (status'[l] = "active" => l \in linked_to)
  <2>1. {"active", "revoked", "pending_link"} \subseteq Statuses
    BY DEF Statuses
  <2>2. PICK x \in {"active", "revoked", "pending_link"} :
          status' = [status EXCEPT ![l] = x] /\ (x = "active" => l \in linked_to)
    BY <1>0, <1>1
  <2> QED BY <1>0, <2>1, <2>2
<1> USE DEF ghl, links, ghl_jobs, ghl_users, ghl_past
<1>5. GhlTypeOK'
  BY <1>1, <1>3, <1>4 DEF GhlTypeOK
<1>6. \A j \in Installers : /\ ipc'[j] = "minted" => j # i /\ ipc[j] = "minted" /\ pair'[j] = pair[j]
                            /\ ipc'[j] = "rotated" => ipc[j] = "rotated" /\ agency_bundle'[j] = agency_bundle[j]
                            /\ agency_bundle'[j] \in {agency_bundle[j], NoToken}
  BY <1>3
<1>7. Owned'
  <2>1. ASSUME NEW j \in Installers
        PROVE  /\ agency_bundle'[j] # NoToken =>
                    agency_bundle'[j] \in DOMAIN issued /\ issued[agency_bundle'[j]] = Agency
               /\ ipc'[j] = "rotated" => agency_bundle'[j] # NoToken
               /\ ipc'[j] = "minted" => pair'[j] \in DOMAIN issued /\ issued[pair'[j]] = target[j]
    BY <1>6 DEF Owned
  <2>2. \A s \in Subjects : stored'[s] # NoToken => stored'[s] \in DOMAIN issued /\ issued[stored'[s]] = s
    BY <1>2, <1>3 DEF Owned
  <2> QED BY <1>1, <2>1, <2>2 DEF Owned
<1>8. InOneHand'
  <2>1. \A s \in Subjects : stored'[s] \in {stored[s], pair[i]}
    BY <1>3
  <2>2. \A j \in Installers : ipc[j] = "rotated" => agency_bundle[j] # NoToken /\ agency_bundle[j] # pair[i]
    BY <1>0, <1>2 DEF Owned
  <2>3. \A j, k \in Installers : ipc'[j] = "rotated" /\ k # j => agency_bundle'[k] # agency_bundle'[j]
    BY <1>6, <2>2 DEF InOneHand
  <2>4. \A j, k \in Installers : j # k /\ ipc'[j] = "minted" /\ ipc'[k] = "minted" => pair'[k] # pair'[j]
    BY <1>6 DEF InOneHand
  <2>5. \A u \in Users : upc[u] = "rotated" =>
          /\ \A s \in Subjects : stored'[s] # bundle[u]
          /\ \A v \in Users : v # u => bundle[v] # bundle[u]
          /\ \A j \in Installers : ipc'[j] = "minted" => pair'[j] # bundle[u]
    BY <1>1, <1>6, <2>1 DEF InOneHand
  <2>6. \A j \in Installers : ipc'[j] = "minted" =>
          /\ \A s \in Subjects : stored'[s] # pair'[j]
          /\ \A v \in Users : bundle[v] # pair'[j]
    BY <1>1, <1>6, <2>1 DEF InOneHand
  <2>7. \A j \in Installers : ipc'[j] = "rotated" => \A s \in Subjects : stored'[s] # agency_bundle'[j]
    BY <1>6, <2>1, <2>2 DEF InOneHand
  <2> QED BY <1>1, <2>3, <2>4, <2>5, <2>6, <2>7 DEF InOneHand
<1>9. HonouredOnItsWay'
  <2>1. ASSUME NEW s \in Subjects \ spoiled, stored'[s] # NoToken
        PROVE  \/ stored'[s] \in honoured
               \/ \E u \in Users : upc[u] = "rotated" /\ at[u] = s
               \/ s = Agency /\ \E j \in Installers : ipc'[j] = "rotated"
    <3>1. CASE s = l
      BY <1>2, <1>3, <2>1, <3>1
    <3>2. CASE s # l
      <4>1. \A j \in Installers : ipc[j] = "rotated" => ipc'[j] = "rotated"
        BY <1>1, <1>3
      <4> QED BY <1>3, <2>1, <3>2, <4>1 DEF HonouredOnItsWay
    <3> QED BY <3>1, <3>2
  <2> QED BY <1>1, <1>6, <2>1 DEF HonouredOnItsWay
<1>10. ReadsInHand' /\ LinksInHand'
  <2>1. ASSUME NEW k \in Locations
        PROVE  /\ stored[k] # NoToken => stored'[k] # NoToken
               /\ status'[k] = "none" => status[k] = "none" /\ stored'[k] = stored[k]
               /\ ~tangled /\ status'[k] \in {"active", "error"} => stored'[k] # NoToken
               /\ ~tangled /\ status'[k] = "active" => k \in linked_to
    <3>0. k \in Subjects
      BY DEF Subjects
    <3>1. CASE k = l
      BY <1>2, <1>3, <1>4, <3>1
    <3>2. CASE k # l
      BY <1>3, <1>4, <3>0, <3>2 DEF LinksInHand
    <3> QED BY <3>1, <3>2
  <2> QED BY <1>1, <2>1, LinksStand
<1>11. DeadIsDead'
  BY <1>1 DEF DeadIsDead
<1> QED BY <1>5, <1>7, <1>8, <1>9, <1>10, <1>11

-----------------------------------------------------------------------------

LEMMA GhlInvNext == GhlInv /\ [GhlNext]_ghlVars => GhlInv'
<1> SUFFICES ASSUME GhlInv, [GhlNext]_ghlVars PROVE GhlInv'
  OBVIOUS
<1>1. CASE Connect
  BY <1>1, Connects
<1>2. CASE \E t \in Tokens : AccessExpires(t)
  BY <1>2, Expiries
<1>3. ASSUME NEW l \in Locations, Unlink(l) \/ Revoke(l) \/ \E r \in Linkers : LeaveOthers(r, l)
      PROVE  GhlInv'
  BY <1>3, LinkSteps, Revokes
<1>4. CASE \E l \in Locations, event \in {"INSTALL", "UNINSTALL"} : Webhook(event, l) \/ ResultExpires(event, l)
  BY <1>4, Expiries
<1>5. ASSUME NEW l \in Locations, NEW u \in Users, NEW w \in Uses, Load(u, w, l) PROVE GhlInv'
  BY <1>5, Loads
<1>6. ASSUME NEW l \in Locations, NEW i \in Installers, Record(i, l) PROVE GhlInv'
  BY <1>6, Records
<1>7. CASE \E r \in Linkers : Link(r)
  BY <1>7, LinkSteps
<1>8. ASSUME NEW u \in Users,
             Answered(u) \/ Rotate(u) \/ RotateLost(u) \/ Persist(u) \/ PersistFails(u)
               \/ RefreshRefused(u) \/ CallFails(u) \/ Stamp(u)
      PROVE  GhlInv'
  BY <1>8, AnsweredSteps, Rotates, Persists, Stamps
<1>9. ASSUME NEW i \in Installers,
             Mint(i) \/ RefreshAgency(i) \/ PersistAgency(i) \/ MintFails(i) \/ Store(i) \/ InstallDies(i)
      PROVE  GhlInv'
  BY <1>9, Mints, AgencyPersists, InstallsEnd, Stores
<1>10. CASE UNCHANGED ghlVars
  <2> USE <1>10 DEF ghlVars, ghl, ghl_jobs, ghl_rows, links, ghl_users, installers, ghl_past
  <2>1. GhlTypeOK'
    BY DEF GhlInv, GhlTypeOK
  <2>2. Owned' /\ InOneHand' /\ HonouredOnItsWay' /\ DeadIsDead'
    BY TokensStand DEF TokenVars
  <2>3. ReadsInHand' /\ LinksInHand'
    BY RowsStand
  <2> QED BY <2>1, <2>2, <2>3 DEF GhlInv
<1> QED BY <1>1, <1>2, <1>3, <1>4, <1>5, <1>6, <1>7, <1>8, <1>9, <1>10 DEF GhlNext

\* One row at most is active and linked; it has a pair; and the pair is one that GHL takes.
LEMMA GhlInvSafe == GhlInv => GhlSafe
<1> SUFFICES ASSUME GhlInv PROVE GhlSafe
  OBVIOUS
<1> USE DEF GhlInv
<1>1. ASSUME ~tangled PROVE MerchantHasOne
  <2> DEFINE S == {l \in Locations : status[l] = "active" /\ l \in linked_to}
  <2>1. \A l, k \in S : l = k
    BY <1>1 DEF LinksInHand
  <2> HIDE DEF S
  <2>2. Cardinality(S) <= 1
    <3>1. CASE S = {}
      BY <3>1, FS_EmptySet
    <3>2. CASE S # {}
      <4>1. PICK x : S = {x}
        BY <2>1, <3>2
      <4>2. Cardinality({x}) = 1
        BY FS_Singleton
      <4> QED BY <4>1, <4>2
    <3> QED BY <3>1, <3>2
  <2> QED BY <2>2 DEF MerchantHasOne, S
<1>2. ASSUME ~tangled, NEW l \in Locations, status[l] = "active"
      PROVE  stored[l] # NoToken /\ l \in linked_to
  BY <1>2 DEF LinksInHand
<1>3. StoredIsHonoured
  BY DEF StoredIsHonoured, HonouredOnItsWay
<1> QED BY <1>1, <1>2, <1>3 DEF GhlSafe, OneActiveLocation

\* Unless a link was overtaken, the merchant has one active location, with a token that GHL takes
\* or whose successor is on the way: for every number of users, jobs and requests.
THEOREM GhlCorrect == GhlSpec => []GhlSafe
BY GhlInvInit, GhlInvNext, GhlInvSafe, PTL DEF GhlSpec

\* Only the stamp of a probe takes an active location away, and it has had its token refused.
LEMMA OnlyStamps ==
  ASSUME GhlInv, [GhlNext]_ghlVars, NEW l \in Locations, status[l] = "active", status'[l] = "error"
  PROVE  stored[l] \notin fresh \cup honoured
           \/ \E u \in Users : upc[u] = "stamping" /\ at[u] = l /\ bundle[u] # stored[l]
<1> USE GhlTokensAssumption DEF GhlInv
<1>0. status \in [Subjects -> Statuses] /\ Locations \subseteq Subjects /\ l \in Subjects
  BY DEF GhlTypeOK, Subjects
<1>1. status' # status
  OBVIOUS
<1>2. ASSUME NEW k \in Subjects PROVE ~(status' = Installed(k))
  <2>1. Installed(k)[l] # "error"
    BY <1>0 DEF Installed
  <2> QED BY <2>1
<1>3. ASSUME NEW k \in Subjects, NEW x, status' = [status EXCEPT ![k] = x], x # "error" PROVE FALSE
  BY <1>0, <1>3
<1>4. ASSUME NEW u \in Users, Stamp(u)
      PROVE  stored[l] \notin fresh \cup honoured
               \/ \E v \in Users : upc[v] = "stamping" /\ at[v] = l /\ bundle[v] # stored[l]
  <2>1. /\ upc[u] = "stamping"
        /\ status' = [status EXCEPT ![at[u]] =
             CASE Flips(verdict[u]) /\ @ = "active" -> "error"
               [] verdict[u] = "healthy" /\ @ = "error" /\ at[u] \in linked_to -> "active"
               [] OTHER -> @]
    BY <1>4 DEF Stamp
  <2>2. at[u] = l
    BY <1>0, <2>1
  <2>3. verdict[u] = "dead"
    <3>1. CASE Flips(verdict[u])
      BY <3>1 DEF Flips
    <3>2. CASE ~Flips(verdict[u])
      BY <1>0, <2>1, <2>2, <3>2
    <3> QED BY <3>1, <3>2
  <2>4. bundle[u] \notin fresh \cup honoured
    BY <2>1, <2>3 DEF DeadIsDead
  <2> QED BY <2>1, <2>2, <2>4
<1>5. ASSUME NEW k \in Locations, status' = [status EXCEPT ![k] = LeftBehind(k)] PROVE FALSE
  <2>1. CASE k = l
    BY <1>0, <1>5, <2>1 DEF LeftBehind
  <2>2. CASE k # l
    BY <1>0, <1>5, <2>2
  <2> QED BY <2>1, <2>2
<1>6. ASSUME NEW r \in Linkers, Link(r) PROVE FALSE
  BY <1>0, <1>6 DEF Link, LeftBehind
<1>7. ASSUME NEW u \in Users, Persist(u) PROVE FALSE
  <2>1. SetLocationToken(at[u], bundle[u])
    BY <1>7 DEF Persist
  <2> QED BY <1>0, <1>1, <2>1 DEF SetLocationToken, ghl_rows
<1>8. ASSUME NEW i \in Installers, Store(i) PROVE FALSE
  BY <1>0, <1>8 DEF Store
<1>9. ASSUME NEW k \in Locations, Revoke(k) PROVE FALSE
  BY <1>0, <1>9 DEF Revoke
<1>10. \/ \E u \in Users : Stamp(u) \/ Persist(u) \/ Answered(u)
       \/ \E r \in Linkers : Link(r)
       \/ \E k \in Locations : Unlink(k) \/ Revoke(k) \/ \E i \in Installers : Record(i, k)
       \/ \E i \in Installers : Store(i)
  BY <1>1 DEF GhlNext, ghlVars, ghl_rows, ghl_past, Connect, AccessExpires, LeaveOthers, Webhook, ResultExpires,
              Load, Rotate, RotateLost, PersistFails, RefreshRefused, CallFails, Mint, RefreshAgency,
              PersistAgency, MintFails, InstallDies
<1>11. ASSUME NEW u \in Users, Answered(u) PROVE FALSE
  <2>1. at[u] \in Subjects
    BY UserSteps
  <2> QED BY <1>1, <1>2, <1>11, <2>1 DEF Answered
<1>12. ASSUME NEW k \in Locations, NEW i \in Installers, Record(i, k) PROVE FALSE
  BY <1>0, <1>2, <1>12 DEF Record
<1>13. ASSUME NEW k \in Locations, Unlink(k) PROVE FALSE
  BY <1>5, <1>13 DEF Unlink
<1> QED BY <1>4, <1>6, <1>7, <1>8, <1>9, <1>10, <1>11, <1>12, <1>13

\* A probe takes a location away only if GHL refuses the token in its row, or a newer one is there.
THEOREM ProbeTakesAway == GhlSpec => ErrorIfNotOvertaken
<1>1. GhlInv /\ [GhlNext]_ghlVars
        => [\A l \in Locations :
              status[l] = "active" /\ status'[l] = "error"
                => stored[l] \notin fresh \union honoured
                     \/ \E u \in Users : upc[u] = "stamping" /\ at[u] = l /\ bundle[u] # stored[l]]_ghlVars
  BY OnlyStamps
<1> QED BY GhlInvInit, GhlInvNext, <1>1, PTL DEF GhlSpec, ErrorIfNotOvertaken

-----------------------------------------------------------------------------
(* The appointments of a lead. *)

\* What an actor has at each step.
ActorOK ==
  /\ time >= 1
  /\ \A t \in Turns : apc[t] # "idle" => since[t] >= 1
  /\ \A a \in Actors :
       /\ apc[a] \in {"idle", "waiting"} => tries[a] = 0
       /\ apc[a] = "calling" => tries[a] < MaxTries
       /\ apc[a] \in {"waiting", "calling", "answered"} => want[a] \in Wishes
       /\ want[a].kind = "book" => a \in Turns
       /\ apc[a] = "calling" /\ want[a].kind # "book" => ref[a] \in Apps /\ mirror[ref[a]] # None
       /\ apc[a] # "done" => a \notin hurt
       /\ outcome[a] = "saved" => apc[a] = "done"

\* What the outcome of an actor goes with.
OutcomeOK ==
  \A a \in Actors :
    /\ apc[a] \in {"answered", "done"} /\ outcome[a] = "booked" => ref[a] \in Apps
    /\ apc[a] = "answered" =>
         /\ outcome[a] \in {"booked", "local", "error"} => want[a].kind = "book"
         /\ outcome[a] = "ok" => want[a].kind # "book" /\ ref[a] \in Refs /\ mirror[ref[a]] # None

\* The turn that has claimed the lead is alone with it.
RowHeld == \A t \in Turns : apc[t] \in {"calling", "answered"} => lock = {t}

\* An appointment in GHL has a slot, in the calendar and in what the poll has read.
CrmOK ==
  /\ \A n \in Apps : crm[n].status # "none" => crm[n].slot \in Slots
  /\ \A n \in Apps : crm[n].status = "cancelled" => n \in ended
  /\ DOMAIN poll \subseteq Apps
  /\ \A n \in DOMAIN poll :
       /\ poll[n] \in [slot : Slots, status : {"booked", "cancelled"}]
       /\ poll[n].status = "cancelled" => n \in ended

\* Whose appointments and rows there are.
MadeBy(t) ==
  /\ \A n \in Apps : maker[n] = t =>
       /\ apc[t] \notin {"idle", "waiting"}
       /\ apc[t] = "calling" => t \in lost
       /\ apc[t] = "answered" => outcome[t] = "booked" \/ t \in lost
       /\ apc[t] = "done" => outcome[t] = "booked" \/ t \in lost \union hurt
  /\ mirror[t] # None => apc[t] = "done" /\ outcome[t] \in {"local", "saved"} /\ t \notin hurt

\* The claim of a confirmed turn stands until it is taken over, and what takes it over
\* is not of its burst, unless the claim was forgotten.
ClaimStands ==
  \A t \in Turns : Confirmed(t) /\ ~Forgotten(t) =>
    /\ claimed_at >= since[t]
    /\ \A u \in Turns : apc[u] \in {"calling", "answered"} => since[u] - since[t] > Window

BookingInv ==
  /\ BookingTypeOK /\ ActorOK /\ OutcomeOK /\ RowHeld /\ CrmOK
  /\ \A t \in Turns : MadeBy(t)
  /\ ClaimStands /\ OneConfirmationPerBurst /\ ConfirmedIsKept

LEMMA BookingConst ==
  /\ MaxTries \in Nat /\ MaxTries >= 1 /\ MaxNow \in Nat /\ MaxNow >= 1
  /\ Window \in Nat /\ MaxApps \in Nat
  /\ \A t \in Turns : t \notin Operators
  /\ \A t \in Turns : t \notin Apps /\ t # "none" /\ t # "hand" /\ t # NoRef
  /\ NoSlot \notin Slots
<1>1. MaxTries \in Nat /\ MaxTries >= 1 /\ MaxNow \in Nat /\ MaxNow >= 1 /\ Window \in Nat /\ MaxApps \in Nat
  <2>1. MaxTries \in Nat \ {0} /\ MaxNow \in Nat \ {0}
    BY BookingAssumption
  <2>2. Window \in Nat /\ MaxApps \in Nat
    BY BookingAssumption
  <2> QED BY <2>1, <2>2
<1>2. NoSlot \notin Slots
  BY BookingAssumption DEF NoSlot
<1>3. \A t \in Turns : t \notin Operators /\ t \notin Nat /\ t # "none" /\ t # "hand"
  BY BookingAssumption
<1>4. Apps \subseteq Nat /\ NoRef \in Nat
  BY <1>1 DEF Apps, NoRef
<1> QED BY <1>1, <1>2, <1>3, <1>4

LEMMA RowFacts ==
  /\ None \in Rows
  /\ \A r \in Rows : r # None => r.slot \in Slots /\ r.status \in {"booked", "cancelled"}
  /\ \A r \in Rows : r.status = "booked" => r # None
  /\ \A s \in Slots, x \in {"booked", "cancelled"} :
       [slot |-> s, status |-> x] \in Rows /\ [slot |-> s, status |-> x] # None
  /\ \A r \in [slot : Slots, status : {"booked", "cancelled"}] : r \in Rows /\ r # None
<1>1. None \in Rows
  BY DEF Rows
<1>2. None.status = "none"
  BY DEF None
<1>3. \A r \in Rows : r # None => r \in [slot : Slots, status : {"booked", "cancelled"}]
  BY DEF Rows
<1>4. \A s \in Slots, x \in {"booked", "cancelled"} :
        [slot |-> s, status |-> x] \in Rows /\ [slot |-> s, status |-> x].status = x
  BY DEF Rows
<1>5. \A r \in [slot : Slots, status : {"booked", "cancelled"}] : r \in Rows /\ r.status # "none"
  BY DEF Rows
<1> QED BY <1>1, <1>2, <1>3, <1>4, <1>5

\* A turn that has ended, and the claim that was forgotten, stay as they are.
EndsStay ==
  /\ \A a \in Actors : apc[a] = "done" =>
       apc'[a] = "done" /\ outcome'[a] = outcome[a] /\ ref'[a] = ref[a]
  /\ \A t \in Turns : apc[t] # "idle" => since'[t] = since[t]
  /\ hurt \subseteq hurt'
  /\ ended \subseteq ended'

LEMMA ForgottenStays ==
  ASSUME BookingInv, EndsStay, NEW t \in Turns, apc[t] # "idle", Forgotten(t)
  PROVE  Forgotten(t)'
<1>1. PICK v \in Turns : /\ since[v] - since[t] > Window
                         /\ outcome[v] = "saved" \/ (outcome[v] = "failed" /\ v \in hurt)
  BY DEF Forgotten
<1>2. v \in Actors /\ t \in Actors
  BY DEF Actors
<1>3. apc[v] = "done"
  BY <1>1, <1>2 DEF BookingInv, ActorOK
<1>4. since'[v] = since[v] /\ since'[t] = since[t] /\ outcome'[v] = outcome[v] /\ (v \in hurt => v \in hurt')
  BY <1>2, <1>3 DEF EndsStay
<1> QED BY <1>1, <1>4 DEF Forgotten

\* What a step that confirms nothing and leaves the claim keeps.
LEMMA BurstKept ==
  ASSUME BookingInv, EndsStay,
         \A t \in Turns : Confirmed(t)' => Confirmed(t),
         claimed_at' = claimed_at,
         \A t \in Turns : apc'[t] \in {"calling", "answered"} => apc[t] \in {"calling", "answered"}
  PROVE  ClaimStands' /\ OneConfirmationPerBurst'
<1>1. \A t \in Turns : Confirmed(t)' => /\ Confirmed(t)
                                        /\ since'[t] = since[t]
                                        /\ Forgotten(t) => Forgotten(t)'
  BY ForgottenStays DEF EndsStay, Confirmed
<1>2. \A u \in Turns : apc'[u] \in {"calling", "answered"} => since'[u] = since[u]
  BY DEF EndsStay
<1>3. ClaimStands'
  BY <1>1, <1>2 DEF ClaimStands, BookingInv
<1>4. OneConfirmationPerBurst'
  BY <1>1 DEF OneConfirmationPerBurst, BookingInv
<1> QED BY <1>3, <1>4

\* The row of what t has confirmed.
RowStands(t) ==
  LET r == IF outcome[t] = "booked" THEN ref[t] ELSE t IN
  mirror[r] # None /\ (mirror[r].status = "booked" \/ r \in ended)

\* What is confirmed is kept by a step that takes no row, if what it confirms has one.
LEMMA KeptKept ==
  ASSUME BookingInv, EndsStay,
         \A t \in Turns : apc'[t] = "done" /\ outcome'[t] \in {"booked", "local", "saved"} /\ t \notin hurt'
                            => apc[t] = "done" \/ RowStands(t)',
         \A r \in Refs : mirror[r] # None =>
             mirror'[r] # None /\ (mirror[r].status = "booked" \/ r \in ended => mirror'[r].status = "booked" \/ r \in ended')
  PROVE  ConfirmedIsKept'
<1> SUFFICES ASSUME NEW t \in Turns, t \notin hurt', outcome'[t] \in {"booked", "local", "saved"}, apc'[t] = "done",
                    apc[t] = "done"
             PROVE  RowStands(t)'
  BY DEF ConfirmedIsKept, RowStands
<1>1. outcome'[t] = outcome[t] /\ ref'[t] = ref[t] /\ t \notin hurt
  BY DEF EndsStay, Actors
<1>2. outcome[t] = "booked" => ref[t] \in Apps
  BY <1>1 DEF BookingInv, OutcomeOK, Actors
<1>3. t \in Refs /\ Apps \subseteq Refs
  BY DEF Refs
<1>4. RowStands(t) /\ (IF outcome[t] = "booked" THEN ref[t] ELSE t) \in Refs
  BY <1>1, <1>2, <1>3 DEF ConfirmedIsKept, BookingInv, RowStands
<1> QED BY <1>1, <1>4 DEF RowStands

\* A step of which the turns and requests see nothing but the agenda.
LEMMA OtherStep ==
  ASSUME BookingInv, UNCHANGED <<actors, claimed_at, lock, lost, hurt>>,
         time' \in Instants, time' >= time, linked' = linked, ended \subseteq ended', ended' \subseteq Refs,
         mirror' \in [Refs -> Rows],
         \A r \in Refs : mirror[r] # None =>
             mirror'[r] # None /\ (mirror[r].status = "booked" \/ r \in ended => mirror'[r].status = "booked" \/ r \in ended'),
         \A t \in Turns : mirror'[t] = mirror[t],
         crm' \in [Apps -> [slot : Slots \union {NoSlot}, status : {"none", "booked", "cancelled", "deleted"}]],
         maker' \in [Apps -> Actors \union {"none", "hand"}],
         \A n \in Apps : maker'[n] = maker[n] \/ maker'[n] = "hand",
         CrmOK'
  PROVE  BookingInv'
<1> USE BookingConst DEF actors
<1>1. BookingTypeOK'
  BY DEF BookingInv, BookingTypeOK
<1>2. EndsStay
  BY DEF EndsStay
<1>3. ActorOK'
  <2>1. time' >= 1
    BY DEF BookingInv, BookingTypeOK, ActorOK, Instants
  <2>2. \A r \in Apps : mirror[r] # None => mirror'[r] # None
    BY DEF Refs
  <2> QED BY <2>1, <2>2 DEF BookingInv, ActorOK
<1>4. OutcomeOK'
  BY DEF BookingInv, OutcomeOK
<1>5. RowHeld'
  BY DEF BookingInv, RowHeld
<1>6. ASSUME NEW t \in Turns PROVE MadeBy(t)'
  BY DEF BookingInv, MadeBy
<1>7. ClaimStands' /\ OneConfirmationPerBurst'
  BY <1>2, BurstKept DEF Confirmed
<1>8. ConfirmedIsKept'
  BY <1>2, KeptKept
<1> QED BY <1>1, <1>3, <1>4, <1>5, <1>6, <1>7, <1>8 DEF BookingInv

LEMMA PollSteps ==
  ASSUME BookingInv, Pass \/ PollRead \/ PollWrite \/ PollDies
  PROVE  BookingInv'
<1> USE DEF actors
<1>0. /\ time \in Instants /\ mirror \in [Refs -> Rows] /\ ended \subseteq Refs
      /\ crm \in [Apps -> [slot : Slots \union {NoSlot}, status : {"none", "booked", "cancelled", "deleted"}]]
      /\ maker \in [Apps -> Actors \union {"none", "hand"}]
      /\ Instants \subseteq Int /\ Apps \subseteq Refs
      /\ CrmOK
  BY BookingConst DEF BookingInv, BookingTypeOK, Instants, Refs
<1>1. CASE Pass
  <2>1. time' \in Instants /\ time' >= time
    BY <1>0, <1>1, BookingConst DEF Pass, Instants
  <2>2. CrmOK'
    BY <1>0, <1>1 DEF Pass, CrmOK
  <2> QED BY <1>0, <1>1, <2>1, <2>2, OtherStep DEF Pass
<1>2. CASE PollRead
  <2>1. CrmOK'
    <3>1. DOMAIN poll' = Listed /\ \A n \in Listed : poll'[n] = crm[n]
      BY <1>2 DEF PollRead
    <3>2. \A n \in Listed : crm[n] \in [slot : Slots, status : {"booked", "cancelled"}]
      BY <1>0 DEF Listed, CrmOK
    <3> QED BY <1>0, <1>2, <3>1, <3>2 DEF PollRead, Listed, CrmOK
  <2> QED BY <1>0, <1>2, <2>1, OtherStep DEF PollRead
<1>3. CASE PollDies
  <2>1. CrmOK'
    BY <1>0, <1>3 DEF PollDies, CrmOK, NoPoll
  <2> QED BY <1>0, <1>3, <2>1, OtherStep DEF PollDies
<1>4. CASE PollWrite
  <2>1. CrmOK'
    BY <1>0, <1>4 DEF PollWrite, CrmOK, NoPoll
  <2>2. \A n \in DOMAIN poll : /\ poll[n] \in Rows /\ poll[n] # None
                               /\ poll[n].status = "booked" \/ n \in ended
    BY <1>0, RowFacts DEF CrmOK
  <2>3. \A r \in Refs : mirror'[r] = IF r \in DOMAIN poll THEN poll[r] ELSE mirror[r]
    BY <1>4 DEF PollWrite, Upsert
  <2>4. mirror' \in [Refs -> Rows]
    BY <1>0, <1>4, <2>2 DEF PollWrite, Upsert
  <2>5. \A t \in Turns : mirror'[t] = mirror[t]
    BY <1>0, <2>3, BookingConst DEF CrmOK, Refs
  <2>6. ended' = ended
    BY <1>4 DEF PollWrite
  <2>7. \A r \in Refs : mirror[r] # None =>
             mirror'[r] # None /\ (mirror[r].status = "booked" \/ r \in ended => mirror'[r].status = "booked" \/ r \in ended')
    BY <2>2, <2>3, <2>6
  <2> QED BY <1>0, <1>4, <2>1, <2>4, <2>5, <2>7, OtherStep DEF PollWrite
<1> QED BY <1>1, <1>2, <1>3, <1>4

LEMMA EditStep ==
  ASSUME BookingInv, NEW n \in Apps, Edit(n)
  PROVE  BookingInv'
<1> USE DEF actors
<1>0. /\ time \in Instants /\ mirror \in [Refs -> Rows] /\ ended \subseteq Refs
      /\ crm \in [Apps -> [slot : Slots \union {NoSlot}, status : {"none", "booked", "cancelled", "deleted"}]]
      /\ maker \in [Apps -> Actors \union {"none", "hand"}]
      /\ Instants \subseteq Int /\ n \in Refs
      /\ CrmOK
  BY BookingConst DEF BookingInv, BookingTypeOK, Instants, Refs
<1>1. /\ crm' \in [Apps -> [slot : Slots \union {NoSlot}, status : {"none", "booked", "cancelled", "deleted"}]]
      /\ ended \subseteq ended' /\ ended' \subseteq Refs
      /\ CrmOK'
  <2>1. CASE \E slot \in Slots : crm' = [crm EXCEPT ![n] = [slot |-> slot, status |-> "booked"]] /\ UNCHANGED <<ended, poll>>
    BY <1>0, <2>1 DEF CrmOK
  <2>2. CASE \E slot \in Slots : crm' = [crm EXCEPT ![n].slot = slot] /\ UNCHANGED <<ended, poll>>
    BY <1>0, <2>2 DEF CrmOK
  <2>3. CASE /\ crm[n].status = "booked" /\ ended' = ended \union {n} /\ poll' = poll
             /\ \E ending \in {"cancelled", "deleted"} : crm' = [crm EXCEPT ![n].status = ending]
    BY <1>0, <2>3 DEF CrmOK
  <2> QED BY <1>0, <2>1, <2>2, <2>3 DEF Edit
<1>2. maker' \in [Apps -> Actors \union {"none", "hand"}] /\ \A m \in Apps : maker'[m] = maker[m] \/ maker'[m] = "hand"
  BY <1>0 DEF Edit
<1> QED BY <1>0, <1>1, <1>2, OtherStep DEF Edit

\* A step of one turn or request, until its end: the claim and the agenda stand.
LEMMA WorkStep ==
  ASSUME BookingInv, NEW a \in Actors, apc[a] # "done", apc'[a] # "done" \/ outcome'[a] = "skipped",
         \A b \in Actors \ {a} : /\ apc'[b] = apc[b] /\ want'[b] = want[b] /\ since'[b] = since[b]
                                 /\ ref'[b] = ref[b] /\ tries'[b] = tries[b] /\ outcome'[b] = outcome[b],
         apc[a] # "idle" => since'[a] = since[a],
         UNCHANGED <<claimed_at, hurt, mirror>>, ended \subseteq ended'
  PROVE  /\ EndsStay
         /\ ConfirmedIsKept'
         /\ OneConfirmationPerBurst'
         /\ (apc'[a] \in {"calling", "answered"} => apc[a] \in {"calling", "answered"}) => ClaimStands'
<1>1. EndsStay
  BY DEF EndsStay, Actors
<1>2. \A t \in Turns : Confirmed(t)' => Confirmed(t)
  BY DEF Confirmed, Actors
<1>3. ConfirmedIsKept'
  BY <1>1, KeptKept DEF Actors
<1>4. OneConfirmationPerBurst'
  <2>1. \A t \in Turns : Confirmed(t)' => /\ Confirmed(t)
                                          /\ since'[t] = since[t]
                                          /\ Forgotten(t) => Forgotten(t)'
    BY <1>1, <1>2, ForgottenStays DEF EndsStay, Confirmed
  <2> QED BY <2>1 DEF OneConfirmationPerBurst, BookingInv
<1>5. ASSUME apc'[a] \in {"calling", "answered"} => apc[a] \in {"calling", "answered"} PROVE ClaimStands'
  BY <1>1, <1>2, <1>5, BurstKept DEF Actors
<1> QED BY <1>1, <1>3, <1>4, <1>5

LEMMA OpenStep ==
  ASSUME BookingInv, NEW t \in Turns, Open(t)
  PROVE  BookingInv'
<1> USE DEF actors
<1>0. t \in Actors /\ t \notin Operators
  BY BookingConst DEF Actors
<1>1. PICK w \in Wishes : want' = [want EXCEPT ![t] = w]
  BY DEF Open
<1>2. BookingTypeOK'
  BY <1>0, <1>1 DEF Open, BookingInv, BookingTypeOK
<1>3. EndsStay /\ ConfirmedIsKept' /\ OneConfirmationPerBurst' /\ ClaimStands'
  BY <1>0, <1>1, WorkStep DEF Open, BookingInv, BookingTypeOK
<1>4. ActorOK'
  BY <1>0, <1>1 DEF Open, BookingInv, BookingTypeOK, ActorOK
<1>5. OutcomeOK'
  BY <1>0, <1>1 DEF Open, BookingInv, BookingTypeOK, OutcomeOK
<1>6. RowHeld' /\ CrmOK'
  BY <1>0 DEF Open, BookingInv, BookingTypeOK, RowHeld, CrmOK, Actors
<1>7. ASSUME NEW u \in Turns PROVE MadeBy(u)'
  BY <1>0 DEF Open, BookingInv, BookingTypeOK, MadeBy, Actors
<1> QED BY <1>2, <1>3, <1>4, <1>5, <1>6, <1>7 DEF BookingInv

LEMMA RequestStep ==
  ASSUME BookingInv, NEW o \in Operators, Request(o)
  PROVE  BookingInv'
<1> USE DEF actors
<1>0. o \in Actors /\ o \notin Turns
  BY BookingConst DEF Actors
<1>1. PICK r \in Refs, w \in Wishes :
        /\ mirror[r] # None /\ w.kind # "book"
        /\ want' = [want EXCEPT ![o] = w]
        /\ ref' = [ref EXCEPT ![o] = r]
        /\ loaded' = [loaded EXCEPT ![o] = mirror[r]]
        /\ \/ r \in Apps /\ apc' = [apc EXCEPT ![o] = "calling"] /\ UNCHANGED outcome
           \/ apc' = [apc EXCEPT ![o] = "answered"] /\ outcome' = [outcome EXCEPT ![o] = "ok"]
  BY DEF Request
<1>2. BookingTypeOK'
  BY <1>0, <1>1 DEF Request, BookingInv, BookingTypeOK
<1>3. EndsStay /\ ConfirmedIsKept' /\ OneConfirmationPerBurst'
  BY <1>0, <1>1, WorkStep DEF Request, BookingInv, BookingTypeOK
<1>4. ClaimStands'
  <2>1. \A t \in Turns : apc'[t] = apc[t] /\ outcome'[t] = outcome[t] /\ t \in Actors
    BY <1>0, <1>1 DEF BookingInv, BookingTypeOK, Actors
  <2> QED BY <1>3, <2>1, BurstKept DEF Request, Confirmed
<1>5. ActorOK'
  <2>1. /\ apc'[o] \in {"calling", "answered"} /\ tries'[o] = 0 /\ MaxTries > 0
        /\ want'[o] \in Wishes /\ want'[o].kind # "book" /\ o \notin hurt' /\ outcome'[o] # "saved"
        /\ apc'[o] = "calling" => ref'[o] \in Apps
        /\ mirror'[ref'[o]] # None
    BY <1>0, <1>1, BookingConst DEF Request, BookingInv, BookingTypeOK, ActorOK
  <2>2. \A b \in Actors \ {o} : /\ apc'[b] = apc[b] /\ want'[b] = want[b] /\ ref'[b] = ref[b]
                                 /\ outcome'[b] = outcome[b]
    BY <1>0, <1>1 DEF BookingInv, BookingTypeOK
  <2>3. UNCHANGED <<time, since, mirror, tries, hurt>>
    BY DEF Request
  <2>4. \A t \in Turns : t \in Actors /\ t # o
    BY <1>0 DEF Actors
  <2> QED BY <2>1, <2>2, <2>3, <2>4 DEF BookingInv, ActorOK
<1>6. OutcomeOK'
  BY <1>0, <1>1 DEF Request, BookingInv, BookingTypeOK, OutcomeOK
<1>7. RowHeld' /\ CrmOK'
  BY <1>0, <1>1 DEF Request, BookingInv, BookingTypeOK, RowHeld, CrmOK, Actors
<1>8. ASSUME NEW u \in Turns PROVE MadeBy(u)'
  BY <1>0, <1>1 DEF Request, BookingInv, BookingTypeOK, MadeBy, Actors
<1> QED BY <1>2, <1>3, <1>4, <1>5, <1>6, <1>7, <1>8 DEF BookingInv

\* The claim: what the turn goes on with, which is alone with the lead from then on.
LEMMA ClaimStep ==
  ASSUME BookingInv, NEW t \in Turns, Claim(t)
  PROVE  BookingInv'
<1> USE DEF actors
<1>0. /\ t \in Actors /\ apc[t] = "waiting" /\ lock = {}
      /\ UNCHANGED <<time, linked, crm, maker, claimed_at, mirror, since, tries, poll, lost, hurt, ended>>
  BY DEF Claim, Actors, RowFree
<1>T. BookingTypeOK /\ ActorOK /\ OutcomeOK /\ CrmOK /\ Instants \subseteq Int /\ Window \in Nat
  BY BookingConst DEF BookingInv, Instants
<1>1. CASE Skip(t)
  <2>1. BookingTypeOK'
    BY <1>0, <1>1, <1>T DEF Skip, BookingTypeOK
  <2>2. EndsStay /\ ConfirmedIsKept' /\ OneConfirmationPerBurst' /\ ClaimStands'
    BY <1>0, <1>1, <1>T, WorkStep DEF Skip, BookingTypeOK
  <2>3. ActorOK' /\ OutcomeOK' /\ CrmOK'
    BY <1>0, <1>1, <1>T DEF Skip, BookingTypeOK, ActorOK, OutcomeOK, CrmOK, Nothing
  <2>4. RowHeld'
    BY <1>0, <1>1, <1>T DEF Skip, BookingTypeOK, BookingInv, RowHeld, Actors
  <2>5. ASSUME NEW u \in Turns PROVE MadeBy(u)'
    BY <1>0, <1>1, <1>T DEF Skip, BookingInv, BookingTypeOK, MadeBy, Actors
  <2> QED BY <2>1, <2>2, <2>3, <2>4, <2>5 DEF BookingInv
<1>2. CASE ClaimFree(t) /\ \E next \in {"calling", "answered"}, r \in Refs \union {NoRef},
                              answer \in {"ask", "none", "local", "ok", "failed"} :
             /\ Go(t, next, r, answer)
             /\ next = "calling" /\ want[t].kind # "book" => r \in Apps /\ mirror[r] # None
             /\ answer = "local" => want[t].kind = "book"
             /\ answer = "ok" => want[t].kind # "book" /\ r \in Refs /\ mirror[r] # None
  <2> PICK next \in {"calling", "answered"}, r \in Refs \union {NoRef},
           answer \in {"ask", "none", "local", "ok", "failed"} :
             /\ Go(t, next, r, answer)
             /\ next = "calling" /\ want[t].kind # "book" => r \in Apps /\ mirror[r] # None
             /\ answer = "local" => want[t].kind = "book"
             /\ answer = "ok" => want[t].kind # "book" /\ r \in Refs /\ mirror[r] # None
    BY <1>2
  <2>0. /\ lock' = {t} /\ want' = want
        /\ apc' = [apc EXCEPT ![t] = next] /\ ref' = [ref EXCEPT ![t] = r]
        /\ outcome' = [outcome EXCEPT ![t] = answer]
        /\ loaded' = [loaded EXCEPT ![t] = IF r = NoRef THEN None ELSE mirror[r]]
    BY DEF Go
  <2>1. BookingTypeOK'
    <3>1. (IF r = NoRef THEN None ELSE mirror[r]) \in Rows
      BY <1>T, RowFacts DEF BookingTypeOK
    <3> QED BY <1>0, <1>T, <2>0, <3>1 DEF BookingTypeOK
  <2>2. EndsStay /\ ConfirmedIsKept' /\ OneConfirmationPerBurst'
    BY <1>0, <1>T, <2>0, WorkStep DEF BookingTypeOK
  <2>A. /\ apc'[t] = next /\ ref'[t] = r /\ outcome'[t] = answer
        /\ \A b \in Actors \ {t} : apc'[b] = apc[b] /\ ref'[b] = ref[b] /\ outcome'[b] = outcome[b]
    BY <1>0, <1>T, <2>0 DEF BookingTypeOK
  <2>3. ActorOK'
    <3>1. tries[t] < MaxTries
      BY <1>0, <1>T, BookingConst DEF ActorOK
    <3> QED BY <1>0, <1>T, <2>0, <2>A, <3>1 DEF ActorOK
  <2>4. OutcomeOK' /\ CrmOK'
    BY <1>0, <1>T, <2>0, <2>A DEF OutcomeOK, CrmOK
  <2>5. \A u \in Turns : apc'[u] \in {"calling", "answered"} => u = t
    BY <1>0, <1>T, <2>A DEF BookingInv, RowHeld, Actors
  <2>6. RowHeld'
    BY <2>0, <2>5 DEF RowHeld
  <2>7. ClaimStands'
    <3> SUFFICES ASSUME NEW u \in Turns, Confirmed(u)', ~Forgotten(u)'
                 PROVE  claimed_at' >= since'[u] /\ since'[t] - since'[u] > Window
      BY <2>5 DEF ClaimStands
    <3>1. u # t /\ u \in Actors /\ Confirmed(u)
      BY <1>0, <2>A DEF Confirmed, Actors
    <3>2. ~Forgotten(u)
      BY <2>2, <3>1, ForgottenStays DEF Confirmed
    <3>3. claimed_at >= since[u] /\ since[u] >= 1
      BY <1>T, <3>1, <3>2 DEF BookingInv, ClaimStands, ActorOK, Confirmed
    <3>4. claimed_at \in Int /\ since[u] \in Int /\ since[t] \in Int
      BY <1>0, <1>T, <3>1 DEF BookingTypeOK
    <3>5. since[t] - claimed_at > Window
      BY <1>2, <3>3, <3>4 DEF ClaimFree
    <3> QED BY <1>0, <1>T, <3>3, <3>4, <3>5
  <2>8. ASSUME NEW u \in Turns PROVE MadeBy(u)'
    BY <1>0, <1>T, <2>A DEF BookingInv, MadeBy, Actors
  <2> QED BY <2>1, <2>2, <2>3, <2>4, <2>6, <2>7, <2>8 DEF BookingInv
<1>3. CASE StartBook(t) /\ ClaimFree(t) /\ want[t].kind = "book"
  BY <1>2, <1>3 DEF StartBook
<1>4. CASE StartChange(t) /\ ClaimFree(t) /\ want[t].kind # "book"
  <2>1. \A r \in Upcoming : /\ r \in Refs /\ mirror[r] # None
                            /\ r \notin Turns => r \in Apps
    BY <1>T, RowFacts DEF Upcoming, BookingTypeOK, Refs
  <2>2. \/ Go(t, "answered", NoRef, "ask") \/ Go(t, "answered", NoRef, "failed")
        \/ \E r \in Upcoming : Go(t, "answered", r, "ok") \/ (r \in Apps /\ Go(t, "calling", r, "none"))
    BY <1>4, <2>1 DEF StartChange
  <2> QED BY <1>2, <1>4, <2>1, <2>2
<1> QED BY <1>1, <1>3, <1>4 DEF Claim

\* What GHL does when it is asked.
LEMMA GhlDoes ==
  ASSUME BookingInv, NEW a \in Actors, NEW n \in Apps, apc[a] = "calling", Done(a, n), poll' = poll
  PROVE  /\ crm' \in [Apps -> [slot : Slots \union {NoSlot}, status : {"none", "booked", "cancelled", "deleted"}]]
         /\ maker' \in [Apps -> Actors \union {"none", "hand"}]
         /\ \A m \in Apps : maker'[m] = maker[m] \/ (maker'[m] = a /\ want[a].kind = "book")
         /\ ended \subseteq ended' /\ ended' \subseteq Refs
         /\ CrmOK'
<1>0. /\ ended \subseteq Refs /\ n \in Refs
      /\ crm \in [Apps -> [slot : Slots \union {NoSlot}, status : {"none", "booked", "cancelled", "deleted"}]]
      /\ maker \in [Apps -> Actors \union {"none", "hand"}]
      /\ CrmOK /\ want[a] \in Wishes
  BY DEF BookingInv, BookingTypeOK, ActorOK, Refs
<1>1. CASE want[a].kind = "book"
  <2>1. want[a].slot \in Slots
    BY <1>0, <1>1 DEF Wishes
  <2>2. crm' = [crm EXCEPT ![n] = [slot |-> want[a].slot, status |-> "booked"]] /\ ended' = ended
        /\ maker' = [maker EXCEPT ![n] = a]
    BY <1>1 DEF Done
  <2> QED BY <1>0, <1>1, <2>1, <2>2 DEF CrmOK
<1>2. CASE want[a].kind = "move"
  <2>1. want[a].slot \in Slots
    BY <1>0, <1>2 DEF Wishes
  <2>2. crm' = [crm EXCEPT ![n].slot = want[a].slot] /\ ended' = ended /\ maker' = maker
    BY <1>2 DEF Done
  <2> QED BY <1>0, <2>1, <2>2 DEF CrmOK
<1>3. CASE want[a].kind \notin {"book", "move"}
  <2>1. /\ crm[n].status \in {"booked", "cancelled"} /\ maker' = maker
        /\ crm' = [crm EXCEPT ![n].status = "deleted"] /\ ended' = ended \union {n}
    BY <1>3 DEF Done
  <2> QED BY <1>0, <2>1 DEF CrmOK
<1> QED BY <1>1, <1>2, <1>3

\* The end of a call, or one more attempt.
LEMMA CallStep ==
  ASSUME BookingInv, NEW a \in Actors, apc[a] = "calling",
         apc' = [apc EXCEPT ![a] = apc'[a]], outcome' = [outcome EXCEPT ![a] = outcome'[a]],
         ref' = [ref EXCEPT ![a] = ref'[a]], tries' = [tries EXCEPT ![a] = tries'[a]],
         apc'[a] \in {"calling", "answered"}, ref'[a] \in Refs \union {NoRef}, tries'[a] \in 0..MaxTries,
         apc'[a] = "calling" => tries'[a] < MaxTries /\ outcome'[a] = outcome[a] /\ ref'[a] = ref[a],
         apc'[a] = "answered" => outcome'[a] \in {"booked", "ok", "raised", "silent", "failed", "taken", "error"},
         apc'[a] = "answered" /\ outcome'[a] \in {"booked", "error"} => want[a].kind = "book",
         apc'[a] = "answered" /\ outcome'[a] = "booked" => ref'[a] \in Apps,
         apc'[a] = "answered" /\ outcome'[a] = "ok" => want[a].kind # "book",
         want[a].kind # "book" => ref'[a] = ref[a],
         UNCHANGED <<time, linked, claimed_at, lock, mirror, want, since, loaded, poll, hurt>>,
         lost \subseteq lost', lost' \subseteq Actors,
         \A m \in Apps : maker'[m] = a /\ maker[m] # a => (apc'[a] = "answered" /\ outcome'[a] = "booked") \/ a \in lost',
         crm' \in [Apps -> [slot : Slots \union {NoSlot}, status : {"none", "booked", "cancelled", "deleted"}]],
         maker' \in [Apps -> Actors \union {"none", "hand"}],
         \A m \in Apps : maker'[m] = maker[m] \/ maker'[m] = a,
         ended \subseteq ended', ended' \subseteq Refs, CrmOK'
  PROVE  BookingInv'
<1>T. BookingTypeOK /\ ActorOK /\ OutcomeOK
  BY DEF BookingInv
<1>0. \A b \in Actors \ {a} : apc'[b] = apc[b] /\ ref'[b] = ref[b] /\ outcome'[b] = outcome[b] /\ tries'[b] = tries[b]
  BY <1>T DEF BookingTypeOK
<1>1. BookingTypeOK'
  <2>1. outcome'[a] \in {"none", "skipped", "ask", "booked", "saved", "local", "taken",
                             "error", "ok", "failed", "raised", "silent"}
    BY <1>T DEF BookingTypeOK
  <2>2. apc' \in [Actors -> {"idle", "waiting", "calling", "answered", "done"}]
    <3>1. apc \in [Actors -> {"idle", "waiting", "calling", "answered", "done"}]
      BY <1>T DEF BookingTypeOK
    <3> QED BY <3>1
  <2>4. outcome' \in [Actors -> {"none", "skipped", "ask", "booked", "saved", "local", "taken",
                                 "error", "ok", "failed", "raised", "silent"}]
    <3>1. outcome \in [Actors -> {"none", "skipped", "ask", "booked", "saved", "local", "taken",
                                  "error", "ok", "failed", "raised", "silent"}]
      BY <1>T DEF BookingTypeOK
    <3> QED BY <2>1, <3>1
  <2>3. ref' \in [Actors -> Refs \union {NoRef}] /\ tries' \in [Actors -> 0..MaxTries]
    BY <1>T DEF BookingTypeOK
  <2> QED BY <1>T, <2>2, <2>3, <2>4 DEF BookingTypeOK
<1>2. EndsStay /\ ConfirmedIsKept' /\ OneConfirmationPerBurst' /\ ClaimStands'
  BY <1>0, WorkStep
<1>3. ActorOK'
  <2>1. /\ apc'[a] \in {"calling", "answered"}
        /\ apc'[a] = "calling" => tries'[a] < MaxTries
        /\ want[a] \in Wishes /\ a \notin hurt /\ outcome'[a] # "saved"
        /\ want[a].kind # "book" => ref'[a] \in Apps /\ mirror[ref'[a]] # None
    BY <1>T DEF ActorOK
  <2>2. \A t \in Turns : t \in Actors /\ (apc'[t] # "idle" => apc[t] # "idle")
    BY <1>0 DEF Actors
  <2> QED BY <1>0, <1>T, <2>1, <2>2 DEF ActorOK
<1>4. OutcomeOK'
  <2>1. apc'[a] = "answered" /\ outcome'[a] = "ok" => ref[a] \in Refs /\ mirror[ref[a]] # None
    BY <1>T DEF ActorOK, Refs
  <2> QED BY <1>0, <1>T, <2>1 DEF OutcomeOK
<1>5. RowHeld'
  BY <1>0 DEF BookingInv, RowHeld, Actors
<1>6. ASSUME NEW u \in Turns PROVE MadeBy(u)'
  <2>1. u \in Actors
    BY DEF Actors
  <2>2. \A m \in Apps : maker'[m] = u /\ u # a => maker[m] = u
    OBVIOUS
  <2>3. MadeBy(u)
    BY DEF BookingInv
  <2>4. CASE u # a
    BY <1>0, <2>1, <2>2, <2>3, <2>4 DEF MadeBy
  <2>5. CASE u = a
    BY <1>0, <2>1, <2>3, <2>5 DEF MadeBy
  <2> QED BY <2>4, <2>5
<1> QED BY <1>1, <1>2, <1>3, <1>4, <1>5, <1>6 DEF BookingInv

LEMMA CallsStep ==
  ASSUME BookingInv, NEW a \in Actors, CallDone(a) \/ CallRefused(a) \/ CallErrs(a)
  PROVE  BookingInv'
<1> USE DEF actors
<1>T. BookingTypeOK /\ ActorOK /\ apc[a] = "calling" /\ want[a] \in Wishes /\ tries[a] < MaxTries
      /\ tries[a] \in Nat /\ MaxTries \in Nat /\ CrmOK
  <2>1. apc[a] = "calling"
    BY DEF CallDone, CallRefused, CallErrs
  <2>2. tries[a] \in 0..MaxTries
    BY DEF BookingInv, BookingTypeOK
  <2> QED BY <2>1, <2>2, BookingConst DEF BookingInv, ActorOK
<1>R. ref[a] \in Refs \union {NoRef} /\ Apps \subseteq Refs /\ tries[a] \in 0..MaxTries /\ tries[a] + 1 \in 0..MaxTries
  BY <1>T DEF BookingTypeOK, Refs
<1>1. CASE CallDone(a)
  <2> PICK n \in Apps : Done(a, n) /\ ref' = [ref EXCEPT ![a] = n]
    BY <1>1 DEF CallDone
  <2>0. /\ apc' = [apc EXCEPT ![a] = "answered"] /\ outcome' = [outcome EXCEPT ![a] = Reported(a)]
        /\ UNCHANGED <<time, linked, claimed_at, lock, mirror, want, since, loaded, tries, poll, lost, hurt>>
    BY <1>1 DEF CallDone
  <2>1. want[a].kind # "book" => n = ref[a]
    BY DEF Done
  <2>2. /\ apc'[a] = "answered" /\ outcome'[a] = Reported(a) /\ ref'[a] = n /\ tries'[a] = tries[a]
        /\ tries' = [tries EXCEPT ![a] = tries[a]]
    BY <1>T, <2>0 DEF BookingTypeOK
  <2>3. /\ Reported(a) \in {"booked", "ok"}
        /\ Reported(a) = "booked" => want[a].kind = "book"
        /\ Reported(a) = "ok" => want[a].kind # "book"
    BY DEF Reported
  <2>4. /\ crm' \in [Apps -> [slot : Slots \union {NoSlot}, status : {"none", "booked", "cancelled", "deleted"}]]
        /\ maker' \in [Apps -> Actors \union {"none", "hand"}]
        /\ \A m \in Apps : maker'[m] = maker[m] \/ (maker'[m] = a /\ want[a].kind = "book")
        /\ ended \subseteq ended' /\ ended' \subseteq Refs
        /\ CrmOK'
    BY <1>T, <2>0, GhlDoes
  <2>5. \A m \in Apps : maker'[m] = a /\ maker[m] # a => Reported(a) = "booked"
    BY <2>4 DEF Reported
  <2>6. lost \subseteq Actors /\ n \in Refs \union {NoRef}
    BY <1>T, <1>R DEF BookingTypeOK
  <2> HIDE DEF Reported
  <2> QED BY <1>T, <1>R, <2>0, <2>1, <2>2, <2>3, <2>4, <2>5, <2>6, CallStep
<1>2. ASSUME NEW answer \in {"conflict", "timeout", "server"}, Attempted(a, answer),
             UNCHANGED <<time, linked, claimed_at, lock, mirror, want, since, ref, loaded, poll, hurt>>,
             \/ UNCHANGED <<crm, maker, lost, ended>>
             \/ (\E n \in Apps : Done(a, n)) /\ lost' = lost \union {a}
      PROVE  BookingInv'
  <2>1. /\ crm' \in [Apps -> [slot : Slots \union {NoSlot}, status : {"none", "booked", "cancelled", "deleted"}]]
        /\ maker' \in [Apps -> Actors \union {"none", "hand"}]
        /\ \A m \in Apps : maker'[m] = maker[m] \/ maker'[m] = a
        /\ \A m \in Apps : maker'[m] = a /\ maker[m] # a => a \in lost'
        /\ ended \subseteq ended' /\ ended' \subseteq Refs
        /\ lost \subseteq lost' /\ lost' \subseteq Actors
        /\ CrmOK'
    <3>1. CASE UNCHANGED <<crm, maker, lost, ended>>
      BY <1>2, <1>T, <3>1 DEF BookingTypeOK, CrmOK
    <3>2. CASE (\E n \in Apps : Done(a, n)) /\ lost' = lost \union {a}
      BY <1>2, <1>T, <3>2, GhlDoes DEF BookingTypeOK
    <3> QED BY <1>2, <3>1, <3>2
  <2>2. /\ ref' = [ref EXCEPT ![a] = ref'[a]] /\ tries' = [tries EXCEPT ![a] = tries'[a]]
        /\ ref'[a] = ref[a] /\ tries'[a] = tries[a] + 1
    BY <1>2, <1>T, <1>R DEF BookingTypeOK, Attempted
  <2>3. \/ apc'[a] = "calling" /\ tries'[a] < MaxTries /\ outcome'[a] = outcome[a]
        \/ apc'[a] = "answered" /\ outcome'[a] = LastAnswer(a, answer)
    BY <1>2, <1>T, <2>2 DEF Attempted, BookingTypeOK
  <2>4. apc' = [apc EXCEPT ![a] = apc'[a]] /\ outcome' = [outcome EXCEPT ![a] = outcome'[a]]
    BY <1>2, <1>T DEF Attempted, BookingTypeOK
  <2>5. UNCHANGED <<time, linked, claimed_at, lock, mirror, want, since, loaded, poll, hurt>>
    BY <1>2
  <2>6. /\ LastAnswer(a, answer) \in {"raised", "silent", "failed", "taken", "error"}
        /\ LastAnswer(a, answer) = "error" => want[a].kind = "book"
    BY DEF LastAnswer
  <2>7. /\ apc'[a] \in {"calling", "answered"}
        /\ apc'[a] = "calling" => tries'[a] < MaxTries /\ outcome'[a] = outcome[a]
        /\ apc'[a] = "answered" => outcome'[a] \in {"raised", "silent", "failed", "taken", "error"}
        /\ apc'[a] = "answered" /\ outcome'[a] = "error" => want[a].kind = "book"
    BY <2>3, <2>6
  <2>8. apc[a] = "calling" /\ ref'[a] \in Refs \union {NoRef} /\ tries'[a] \in 0..MaxTries
    BY <1>T, <1>R, <2>2
  <2> QED BY <2>1, <2>2, <2>4, <2>5, <2>7, <2>8, CallStep
<1>3. CASE CallRefused(a)
  BY <1>2, <1>3 DEF CallRefused
<1>4. CASE CallErrs(a)
  BY <1>2, <1>4 DEF CallErrs
<1> QED BY <1>1, <1>3, <1>4

\* The end of a transaction, with the claim taken, left or released.
LEMMA EndStep ==
  ASSUME BookingInv, NEW a \in Actors, apc[a] \in {"calling", "answered"}, Finish(a, outcome'[a]),
         UNCHANGED <<time, linked, crm, maker, since, ref, poll, lost>>,
         outcome'[a] \in {"none", "skipped", "ask", "booked", "saved", "local", "taken",
                          "error", "ok", "failed", "raised", "silent"},
         hurt \subseteq hurt', hurt' \subseteq hurt \union {a},
         ended \subseteq ended', ended' \subseteq Refs,
         mirror' \in [Refs -> Rows],
         \A r \in Refs : mirror[r] # None =>
             mirror'[r] # None /\ (mirror[r].status = "booked" \/ r \in ended => mirror'[r].status = "booked" \/ r \in ended'),
         \A t \in Turns \ {a} : mirror[t] = None => mirror'[t] = None,
         a \in Turns /\ mirror'[a] # None => outcome'[a] \in {"local", "saved"} /\ a \notin hurt',
         outcome'[a] = "booked" => ref[a] \in Apps,
         a \in Turns /\ a \notin hurt' /\ outcome'[a] \in {"booked", "local", "saved"} => RowStands(a)',
         a \in Turns /\ (\E n \in Apps : maker[n] = a) => outcome'[a] = "booked" \/ a \in lost \union hurt',
         \/ claimed_at' = claimed_at /\ (a \in Turns => outcome'[a] \notin {"booked", "local"})
         \/ a \in Turns /\ claimed_at' = since[a]
         \/ /\ a \in Turns /\ claimed_at' = 0
            /\ outcome'[a] = "saved" \/ (outcome'[a] = "failed" /\ a \in hurt')
  PROVE  BookingInv'
<1>T. BookingTypeOK /\ ActorOK /\ OutcomeOK /\ \A t \in Turns : t \in Actors
  BY DEF BookingInv, Actors
<1>0. /\ apc' = [apc EXCEPT ![a] = "done"] /\ outcome' = [outcome EXCEPT ![a] = outcome'[a]]
      /\ want' = [want EXCEPT ![a] = Nothing] /\ tries' = [tries EXCEPT ![a] = 0]
      /\ loaded' = [loaded EXCEPT ![a] = None] /\ lock' = lock \ {a}
  BY DEF Finish
<1>1. /\ apc'[a] = "done" /\ want'[a] = Nothing /\ tries'[a] = 0
      /\ \A b \in Actors \ {a} : apc'[b] = apc[b] /\ want'[b] = want[b] /\ outcome'[b] = outcome[b] /\ tries'[b] = tries[b]
  BY <1>0, <1>T DEF BookingTypeOK
<1>2. BookingTypeOK'
  <2>1. outcome' \in [Actors -> {"none", "skipped", "ask", "booked", "saved", "local", "taken",
                                 "error", "ok", "failed", "raised", "silent"}]
    <3>1. outcome \in [Actors -> {"none", "skipped", "ask", "booked", "saved", "local", "taken",
                                  "error", "ok", "failed", "raised", "silent"}]
      BY <1>T DEF BookingTypeOK
    <3> QED BY <1>0, <3>1
  <2>2. claimed_at' \in Instants
    BY <1>T, BookingConst DEF BookingTypeOK, Instants
  <2>3. loaded' \in [Actors -> Rows]
    BY <1>0, <1>T, RowFacts DEF BookingTypeOK
  <2>4. tries' \in [Actors -> 0..MaxTries]
    BY <1>0, <1>T, BookingConst DEF BookingTypeOK
  <2>5. /\ apc' \in [Actors -> {"idle", "waiting", "calling", "answered", "done"}]
        /\ want' \in [Actors -> Wishes \union {Nothing}]
        /\ lock' \in SUBSET Turns /\ hurt' \in SUBSET Actors
    BY <1>0, <1>T DEF BookingTypeOK
  <2> QED BY <1>T, <2>1, <2>2, <2>3, <2>4, <2>5 DEF BookingTypeOK
<1>3. EndsStay
  BY <1>1, <1>T DEF EndsStay
<1>4. ActorOK'
  <2>1. \A r \in Apps : mirror[r] # None => mirror'[r] # None
    BY DEF Refs
  <2>2. Nothing.kind = "none"
    BY DEF Nothing
  <2>3. \A t \in Turns : apc'[t] # "idle" => apc[t] # "idle"
    BY <1>1, <1>T
  <2> QED BY <1>1, <1>T, <2>1, <2>2, <2>3 DEF ActorOK
<1>5. OutcomeOK'
  BY <1>1, <1>T DEF OutcomeOK
<1>6. RowHeld'
  BY <1>0, <1>1, <1>T DEF BookingInv, RowHeld
<1>7. CrmOK'
  BY DEF BookingInv, CrmOK
<1>8. ASSUME NEW t \in Turns PROVE MadeBy(t)'
  <2>1. MadeBy(t) /\ t \in Actors
    BY <1>T DEF BookingInv
  <2>2. CASE t = a
    BY <1>1, <2>2 DEF MadeBy
  <2>3. CASE t # a
    BY <1>1, <2>1, <2>3 DEF MadeBy
  <2> QED BY <2>2, <2>3
<1>9. ConfirmedIsKept'
  BY <1>1, <1>3, <1>T, KeptKept
<1>10. ASSUME NEW t \in Turns, t # a, Confirmed(t)'
       PROVE  Confirmed(t) /\ since'[t] = since[t] /\ (Forgotten(t) => Forgotten(t)')
  BY <1>1, <1>3, <1>10, <1>T, ForgottenStays DEF Confirmed
<1>11. ASSUME NEW t \in Turns, t # a, Confirmed(t), ~Forgotten(t), a \in Turns
       PROVE  since[a] - since[t] > Window
  BY <1>11 DEF BookingInv, ClaimStands
<1>12. Instants \subseteq Int /\ Window \in Nat /\ \A t \in Turns : since[t] \in Int
  BY <1>T, BookingConst DEF BookingTypeOK, Instants
<1>13. OneConfirmationPerBurst'
  <2> SUFFICES ASSUME NEW t \in Turns, NEW u \in Turns, t # u, Confirmed(t)', Confirmed(u)'
               PROVE  since[t] - since[u] \notin -Window..Window \/ Forgotten(t)' \/ Forgotten(u)'
    BY DEF OneConfirmationPerBurst
  <2>1. CASE t # a /\ u # a
    BY <1>10, <2>1 DEF OneConfirmationPerBurst, BookingInv
  <2>2. CASE t = a
    BY <1>10, <1>11, <1>12, <2>2
  <2>3. CASE u = a
    BY <1>10, <1>11, <1>12, <2>3
  <2> QED BY <2>1, <2>2, <2>3
<1>14. ClaimStands'
  <2> SUFFICES ASSUME NEW t \in Turns, Confirmed(t)', ~Forgotten(t)'
               PROVE  /\ claimed_at' >= since[t]
                      /\ \A u \in Turns : apc'[u] \in {"calling", "answered"} => since[u] - since[t] > Window
    BY DEF ClaimStands
  <2>1. CASE t = a
    <3>1. claimed_at' = since[a]
      BY <2>1 DEF Confirmed
    <3>2. \A u \in Turns : apc'[u] \notin {"calling", "answered"}
      BY <1>1, <1>T, <2>1 DEF BookingInv, RowHeld
    <3> QED BY <1>12, <2>1, <3>1, <3>2
  <2>2. CASE t # a
    <3>1. Confirmed(t) /\ ~Forgotten(t)
      BY <1>10, <2>2
    <3>2. /\ claimed_at >= since[t]
          /\ \A u \in Turns : apc[u] \in {"calling", "answered"} => since[u] - since[t] > Window
      BY <3>1 DEF BookingInv, ClaimStands
    <3>3. a \in Turns => claimed_at' # 0
      <4>1. since[t] >= 1 /\ (a \in Turns => since[a] >= 1)
        BY <1>T, <3>1 DEF ActorOK, Confirmed
      <4>2. claimed_at # 0
        BY <1>12, <3>2, <4>1
      <4> SUFFICES ASSUME a \in Turns, outcome'[a] = "saved" \/ (outcome'[a] = "failed" /\ a \in hurt') PROVE FALSE
        BY <4>1, <4>2
      <4> QED BY <1>11, <2>2, <3>1 DEF Forgotten
    <3>4. claimed_at' >= since[t]
      BY <1>11, <1>12, <2>2, <3>1, <3>2, <3>3
    <3> QED BY <1>1, <1>T, <3>2, <3>4
  <2> QED BY <2>1, <2>2
<1> QED BY <1>2, <1>4, <1>5, <1>6, <1>7, <1>8, <1>9, <1>13, <1>14 DEF BookingInv

LEMMA LostStep ==
  ASSUME BookingInv, NEW a \in Actors, Rollback(a) \/ Die(a) \/ (a \in Turns /\ RowFails(a))
  PROVE  BookingInv'
<1>T. /\ BookingTypeOK /\ ActorOK /\ OutcomeOK
      /\ a \in Turns => MadeBy(a)
  BY DEF BookingInv
<1>1. /\ apc[a] \in {"calling", "answered"} /\ hurt' = hurt \union {a} /\ Finish(a, outcome'[a])
      /\ UNCHANGED <<time, linked, crm, maker, since, ref, poll, lost, mirror, ended>>
      /\ outcome'[a] \in {"raised", "silent", "local", "failed"}
  BY <1>T DEF Rollback, Die, RowFails, Finish, BookingTypeOK
<1>2. \/ claimed_at' = claimed_at /\ outcome'[a] \notin {"booked", "local"}
      \/ a \in Turns /\ claimed_at' = since[a]
      \/ a \in Turns /\ claimed_at' = 0 /\ outcome'[a] = "failed" /\ a \in hurt'
  <2>1. CASE Rollback(a) \/ Die(a)
    BY <1>T, <2>1 DEF Rollback, Die, Finish, BookingTypeOK
  <2>2. CASE a \in Turns /\ RowFails(a)
    BY <1>T, <2>2 DEF RowFails, Finish, Released, BookingTypeOK
  <2> QED BY <2>1, <2>2
<1>3. a \in Turns => mirror'[a] = None
  BY <1>T, <1>1 DEF MadeBy
<1>4. mirror' \in [Refs -> Rows] /\ ended' \subseteq Refs
  BY <1>T, <1>1 DEF BookingTypeOK
<1> QED BY <1>1, <1>2, <1>3, <1>4, EndStep

LEMMA CommitStep ==
  ASSUME BookingInv, NEW a \in Actors, Commit(a)
  PROVE  BookingInv'
<1>T. /\ BookingTypeOK /\ ActorOK /\ OutcomeOK /\ Apps \subseteq Refs /\ Turns \subseteq Refs
      /\ mirror \in [Refs -> Rows] /\ ended \subseteq Refs
      /\ a \in Turns => MadeBy(a)
      /\ want[a] \in Wishes /\ apc[a] = "answered"
  BY DEF BookingInv, Commit, ActorOK, Refs, BookingTypeOK
<1>0. /\ outcome[a] \in {"none", "skipped", "ask", "booked", "saved", "local", "taken", "error", "ok", "failed"}
      /\ outcome[a] # "saved" /\ ~Clash(a)
      /\ outcome'[a] = IF outcome[a] = "error" THEN "saved" ELSE outcome[a]
  BY <1>T DEF Commit, Finish, BookingTypeOK, ActorOK
<1>1. /\ Finish(a, outcome'[a]) /\ mirror' = Written(a)
      /\ claimed_at' = IF a \in Turns THEN Released(a) ELSE claimed_at
      /\ ended' = IF outcome[a] = "ok" /\ want[a].kind = "cancel" THEN ended \union {ref[a]} ELSE ended
      /\ UNCHANGED <<time, linked, crm, maker, since, ref, poll, lost, hurt>>
  BY <1>0 DEF Commit
<1>2. want[a].kind = "book" => a \in Turns /\ NewRow(a) \in Rows /\ NewRow(a) # None /\ NewRow(a).status = "booked"
  <2>1. want[a].kind = "book" => want[a].slot \in Slots
    BY <1>T DEF Wishes
  <2> QED BY <1>T, <2>1, RowFacts DEF NewRow, ActorOK
<1>3. outcome[a] = "ok" =>
        /\ ref[a] \in Refs /\ mirror[ref[a]] # None
        /\ Changed(a) \in Rows /\ Changed(a) # None
        /\ mirror[ref[a]].status = "booked" \/ ref[a] \in ended => Changed(a).status = "booked" \/ ref[a] \in ended'
  <2> SUFFICES ASSUME outcome[a] = "ok"
               PROVE  /\ ref[a] \in Refs /\ mirror[ref[a]] # None
                      /\ Changed(a) \in Rows /\ Changed(a) # None
                      /\ mirror[ref[a]].status = "booked" \/ ref[a] \in ended
                           => Changed(a).status = "booked" \/ ref[a] \in ended'
    OBVIOUS
  <2>1. /\ ref[a] \in Refs /\ mirror[ref[a]] # None /\ want[a].kind # "book"
        /\ mirror[ref[a]] \in [slot : Slots, status : {"booked", "cancelled"}]
    BY <1>T DEF OutcomeOK, Rows
  <2>2. CASE want[a].kind = "cancel"
    <3>1. Changed(a) \in [slot : Slots, status : {"booked", "cancelled"}]
      BY <2>1, <2>2 DEF Changed
    <3> QED BY <1>1, <2>1, <2>2, <3>1, RowFacts
  <2>3. CASE want[a].kind = "move"
    <3>1. want[a].slot \in Slots
      BY <1>T, <2>3 DEF Wishes
    <3>2. /\ Changed(a) \in [slot : Slots, status : {"booked", "cancelled"}]
          /\ mirror[ref[a]].status = "booked" => Changed(a).status = "booked"
      BY <2>1, <2>3, <3>1 DEF Changed
    <3> QED BY <1>1, <2>1, <3>2, RowFacts
  <2> QED BY <1>T, <2>1, <2>2, <2>3 DEF Wishes
<1>4. /\ mirror' \in [Refs -> Rows] /\ ended \subseteq ended' /\ ended' \subseteq Refs
      /\ \A r \in Refs : mirror[r] # None =>
             mirror'[r] # None /\ (mirror[r].status = "booked" \/ r \in ended => mirror'[r].status = "booked" \/ r \in ended')
      /\ \A t \in Turns \ {a} : mirror[t] = None => mirror'[t] = None
      /\ a \in Turns /\ mirror'[a] # None => outcome'[a] \in {"local", "saved"}
      /\ a \in Turns /\ outcome'[a] \in {"booked", "local", "saved"} => RowStands(a)'
  <2>1. CASE outcome[a] = "booked"
    <3>1. /\ ref[a] \in Apps /\ want[a].kind = "book" /\ mirror[ref[a]] = None
          /\ mirror' = [mirror EXCEPT ![ref[a]] = NewRow(a)] /\ ended' = ended
      BY <1>T, <1>0, <1>1, <2>1 DEF OutcomeOK, Written, Clash
    <3>2. \A t \in Turns : ref[a] # t
      BY <3>1, BookingConst
    <3>3. a \in Turns => mirror[a] = None
      BY <1>T DEF MadeBy
    <3> QED BY <1>T, <1>0, <1>1, <1>2, <2>1, <3>1, <3>2, <3>3 DEF RowStands
  <2>2. CASE outcome[a] \in {"local", "error"}
    <3>1. /\ a \in Turns /\ want[a].kind = "book" /\ mirror[a] = None
          /\ mirror' = [mirror EXCEPT ![a] = NewRow(a)] /\ ended' = ended
      BY <1>T, <1>1, <1>2, <2>2 DEF OutcomeOK, Written, MadeBy
    <3> QED BY <1>T, <1>0, <1>1, <1>2, <2>2, <3>1 DEF RowStands
  <2>3. CASE outcome[a] = "ok"
    <3>1. mirror' = [mirror EXCEPT ![ref[a]] = Changed(a)]
      BY <1>1, <2>3 DEF Written
    <3>2. a \in Turns => mirror[a] = None
      BY <1>T DEF MadeBy
    <3> QED BY <1>T, <1>0, <1>1, <1>3, <2>3, <3>1, <3>2
  <2>4. CASE outcome[a] \notin {"booked", "local", "error", "ok"}
    <3>1. mirror' = mirror /\ ended' = ended
      BY <1>1, <2>4 DEF Written
    <3>2. a \in Turns => mirror[a] = None
      BY <1>T DEF MadeBy
    <3> QED BY <1>T, <1>0, <2>4, <3>1, <3>2
  <2> QED BY <2>1, <2>2, <2>3, <2>4
<1>5. a \in Turns /\ (\E n \in Apps : maker[n] = a) => outcome'[a] = "booked" \/ a \in lost \union hurt'
  BY <1>T, <1>0 DEF MadeBy
<1>6. /\ a \in Turns => a \notin hurt'
      /\ outcome'[a] = "booked" => ref[a] \in Apps
  BY <1>T, <1>0, <1>1 DEF ActorOK, OutcomeOK
<1>7. \/ claimed_at' = claimed_at /\ a \notin Turns
      \/ a \in Turns /\ claimed_at' = since[a]
      \/ a \in Turns /\ claimed_at' = 0 /\ outcome'[a] = "saved"
  BY <1>0, <1>1 DEF Released
<1>8. outcome'[a] \in {"none", "skipped", "ask", "booked", "saved", "local", "taken",
                       "error", "ok", "failed", "raised", "silent"}
  BY <1>0
<1> QED BY <1>T, <1>1, <1>4, <1>5, <1>6, <1>7, <1>8, EndStep

-----------------------------------------------------------------------------

LEMMA BookingInvInit == BookingInit => BookingInv
<1> SUFFICES ASSUME BookingInit PROVE BookingInv
  OBVIOUS
<1>0. 1 \in Instants /\ 0 \in Instants /\ 0 \in 0..MaxTries
  BY BookingConst DEF Instants
<1>1. BookingTypeOK
  <2>1. None \in [slot : Slots \union {NoSlot}, status : {"none", "booked", "cancelled", "deleted"}]
    BY DEF None
  <2> QED BY <1>0, <2>1, RowFacts DEF BookingInit, BookingTypeOK
<1>2. ActorOK
  <2>1. Nothing.kind = "none"
    BY DEF Nothing
  <2>2. \A t \in Turns : t \in Actors
    BY DEF Actors
  <2> QED BY <2>1, <2>2 DEF BookingInit, ActorOK
<1>3. OutcomeOK /\ RowHeld /\ ClaimStands /\ OneConfirmationPerBurst /\ ConfirmedIsKept
  BY DEF BookingInit, OutcomeOK, RowHeld, ClaimStands, OneConfirmationPerBurst, ConfirmedIsKept, Confirmed, Actors
<1>4. CrmOK
  BY DEF BookingInit, CrmOK, NoPoll, None
<1>5. \A t \in Turns : MadeBy(t)
  BY BookingConst DEF BookingInit, MadeBy, Refs
<1> QED BY <1>1, <1>2, <1>3, <1>4, <1>5 DEF BookingInv

LEMMA BookingInvNext == BookingInv /\ [BookingNext]_bookingVars => BookingInv'
<1> SUFFICES ASSUME BookingInv, [BookingNext]_bookingVars PROVE BookingInv'
  OBVIOUS
<1>1. CASE UNCHANGED bookingVars
  BY <1>1 DEF bookingVars, actors, BookingInv, BookingTypeOK, ActorOK, OutcomeOK, RowHeld, CrmOK, MadeBy,
              ClaimStands, OneConfirmationPerBurst, ConfirmedIsKept, Confirmed, Forgotten
<1>2. CASE Pass \/ PollRead \/ PollWrite \/ PollDies
  BY <1>2, PollSteps
<1>3. CASE \E n \in Apps : Edit(n)
  BY <1>3, EditStep
<1>4. CASE \E t \in Turns : Open(t) \/ Claim(t) \/ RowFails(t)
  BY <1>4, OpenStep, ClaimStep, LostStep DEF Actors
<1>5. CASE \E o \in Operators : Request(o)
  BY <1>5, RequestStep
<1>6. CASE \E a \in Actors :
             CallDone(a) \/ CallRefused(a) \/ CallErrs(a) \/ Commit(a) \/ Rollback(a) \/ Die(a)
  BY <1>6, CallsStep, CommitStep, LostStep
<1> QED BY <1>1, <1>2, <1>3, <1>4, <1>5, <1>6 DEF BookingNext

\* What the customer was told, the agenda and GHL go together, however many turns, requests,
\* polls and faults are interleaved: two turns of a burst do not both confirm unless the claim
\* was forgotten, what is confirmed stays on the agenda until somebody cancels it, and what
\* GHL has unannounced has lost its answer or its transaction.
THEOREM BookingCorrect == BookingSpec => []BookingSafe
<1>1. BookingInv => BookingSafe
  <2> SUFFICES ASSUME BookingInv PROVE BookingSafe
    OBVIOUS
  <2>1. NoneUnannounced
    BY DEF BookingInv, MadeBy, NoneUnannounced
  <2>2. OneRowPerRequest
    BY DEF BookingInv, MadeBy, OneRowPerRequest
  <2> QED BY <2>1, <2>2 DEF BookingInv, BookingSafe
<1> QED BY BookingInvInit, BookingInvNext, <1>1, PTL DEF BookingSpec

-----------------------------------------------------------------------------
(* The reminders of one appointment. *)

\* A schedule is a finite set of dates, each of which is sent or is not.
ScheduleSound ==
  /\ schedule \subseteq [due : Nat, sent : BOOLEAN] /\ IsFiniteSet(schedule)
  /\ \A e, f \in schedule : e.due = f.due => e = f
  /\ in_ghl \/ booked => due_at = NextDue(schedule)

\* What the sweep has in hand is the next entry of an appointment that nobody has touched
\* in this tick.
SweepSound ==
  /\ sweep = NoSweep \/ (sweep \in [at : {"scanned", "sent"}, start : Starts, due : Nat] /\ ~swept)
  /\ sweep # NoSweep /\ moved < clock =>
       booked /\ sweep.start = start /\ due_at = NextDue(schedule) /\ due_at = sweep.due /\ sweep.due <= clock

\* The entry of a message is consumed, or is about to be.
MessagesConsumed ==
  /\ moved <= clock
  /\ \A m \in reminded : m.at \in Nat /\ m.at <= clock
  /\ crashes = 0 => \A m \in reminded : moved < m.at =>
       \/ \A e \in schedule : e.due = m.due => e.sent
       \/ sweep.at = "sent" /\ m.at = clock /\ sweep.due = m.due

SentEntries(sch) == {e \in sch : e.sent}

\* An entry waits behind one that was sent, for every tick that it has waited through.
BehindOthers ==
  crashes = 0 /\ booked /\ ready =>
    \A e \in schedule, from \in Int :
      ~e.sent /\ (\A t \in {e.due, moved, opens} : t <= from)
        => clock - from <= Cardinality(SentEntries(schedule)) + (IF swept THEN 0 ELSE 1)

\* What is booked goes by its start, and so does the schedule of what was cancelled.
FollowsStart ==
  ~bot_moved => schedule = {} \/ \E e \in schedule, h \in LeadTicks \union {DefaultLead} : e.due = start - h

RemindersInv ==
  /\ RemindersTypeOK /\ RemindedAsItStands /\ OneMessagePerEntry
  /\ ScheduleSound /\ SweepSound /\ MessagesConsumed /\ BehindOthers /\ FollowsStart


LEMMA RemindersConst ==
  /\ MaxClock \in Nat /\ MaxChanges \in Nat /\ MaxCrashes \in Nat /\ Clock \subseteq Nat
  /\ Starts \subseteq Nat /\ IsFiniteSet(LeadTicks)
  /\ \A s \in Starts, h \in LeadTicks \union {DefaultLead} : s - h \in Nat
<1>1. \A h \in LeadTicks \union {DefaultLead} : h \in Nat
  BY RemindersAssumption
<1>2. \A s \in Starts : s \in Nat
  BY RemindersAssumption
<1>3. ASSUME NEW s \in Starts, NEW h \in LeadTicks \union {DefaultLead} PROVE s - h \in Nat
  <2>1. h <= s
    BY RemindersAssumption
  <2>2. h \in Nat /\ s \in Nat
    BY <1>1, <1>2
  <2> QED BY <2>1, <2>2
<1> QED BY <1>3, RemindersAssumption DEF Clock

LEMMA EarliestDate ==
  ASSUME NEW S \in SUBSET Nat, S # {}
  PROVE  \E d \in S : \A x \in S : d <= x
<1>1. PICK d \in S : \A x \in S : <<x, d>> \notin OpToRel(<, Nat)
  BY NatLessThanWellFounded, WFMin
<1>2. \A x \in S : ~(x < d)
  BY <1>1 DEF OpToRel
<1> QED BY <1>2

Entries == [due : Nat, sent : BOOLEAN]

\* next_reminder_due: the earliest date that is not sent, if there is one.
LEMMA NextDueIsEarliest ==
  ASSUME NEW sch \in SUBSET Entries
  PROVE  /\ (\A e \in sch : e.sent) => NextDue(sch) = Never
         /\ \A e \in sch : ~e.sent => NextDue(sch) <= e.due
         /\ NextDue(sch) = Never \/ \E e \in sch : e.due = NextDue(sch) /\ ~e.sent
         /\ \A e \in sch : ~e.sent => NextDue(sch) \in Nat
<1>1. CASE \A e \in sch : e.sent
  BY <1>1 DEF NextDue
<1>2. CASE \E e \in sch : ~e.sent
  <2> DEFINE dates == {e.due : e \in {f \in sch : ~f.sent}}
             earliest(d) == \A e \in sch : ~e.sent => d <= e.due
  <2>1. dates \in SUBSET Nat /\ dates # {}
    BY <1>2 DEF Entries
  <2>2. PICK d \in dates : \A x \in dates : d <= x
    <3> HIDE DEF dates
    <3> QED BY <2>1, EarliestDate
  <2>3. earliest(d)
    BY <2>2
  <2>4. NextDue(sch) = CHOOSE x \in dates : earliest(x)
    BY <1>2 DEF NextDue
  <2>5. NextDue(sch) \in dates /\ earliest(NextDue(sch))
    <3> HIDE DEF dates, earliest
    <3> QED BY <2>3, <2>4
  <2>6. NextDue(sch) \in Nat
    <3> HIDE DEF dates, earliest
    <3> QED BY <2>1, <2>5
  <2> QED BY <1>2, <2>5, <2>6
<1> QED BY <1>1, <1>2

LEMMA NeverIsNoDate == Never \notin Nat
BY DEF Never

\* build_reminder_schedule gives a schedule.
LEMMA BuiltScheduleSound ==
  ASSUME NEW s \in Starts, NEW leads, IsFiniteSet(leads), leads \subseteq LeadTicks \union {DefaultLead}
  PROVE  LET sch == BuildSchedule(s, leads) IN
         /\ sch \subseteq Entries /\ IsFiniteSet(sch)
         /\ \A e, f \in sch : e.due = f.due => e = f
         /\ sch = {} \/ \E e \in sch, h \in LeadTicks \union {DefaultLead} : e.due = s - h
<1> DEFINE sch == BuildSchedule(s, leads)
           entry == [h \in leads |-> Entry(s - h, FALSE)]
<1>0. ASSUME NEW e \in sch PROVE \E h \in leads : e = Entry(s - h, FALSE)
  BY DEF BuildSchedule
<1>1. ASSUME NEW e \in sch PROVE e \in Entries
  <2>1. PICK h \in leads : e = Entry(s - h, FALSE)
    BY <1>0
  <2>2. s - h \in Nat
    BY RemindersConst
  <2> QED BY <2>1, <2>2 DEF Entry, Entries
<1>2. ASSUME NEW e \in sch, NEW f \in sch, e.due = f.due PROVE e = f
  <2>1. PICK h \in leads, g \in leads : e = Entry(s - h, FALSE) /\ f = Entry(s - g, FALSE)
    BY <1>0
  <2>2. s - h = s - g
    BY <1>2, <2>1 DEF Entry
  <2> QED BY <2>1, <2>2
<1>3. entry \in Surjection(leads, sch)
  BY DEF Surjection, BuildSchedule
<1>4. IsFiniteSet(sch)
  <2> HIDE DEF sch, entry
  <2> QED BY <1>3, FS_Surjection
<1>5. sch = {} \/ \E e \in sch, h \in LeadTicks \union {DefaultLead} : e.due = s - h
  BY DEF BuildSchedule, Entry
<1> QED BY <1>1, <1>2, <1>4, <1>5

LEMMA RemindersTypes ==
  ASSUME RemindersInv
  PROVE  /\ clock \in Nat /\ moved \in Nat /\ moved <= clock /\ opens \in Nat /\ crashes \in Nat
         /\ start \in Starts /\ start \in Nat /\ schedule \in SUBSET Entries /\ IsFiniteSet(schedule)
         /\ in_ghl \in BOOLEAN /\ booked \in BOOLEAN /\ ready \in BOOLEAN /\ swept \in BOOLEAN /\ bot_moved \in BOOLEAN
         /\ NoSweep.at = "none"
<1>1. opens \in Nat
  BY RemindersConst DEF RemindersInv, RemindersTypeOK
<1>2. clock \in Nat /\ moved \in Nat /\ start \in Nat
  BY RemindersConst DEF RemindersInv, RemindersTypeOK
<1> QED
  BY <1>1, <1>2 DEF RemindersInv, RemindersTypeOK, ScheduleSound, MessagesConsumed, Entries, NoSweep

\* mark_reminded consumes the earliest entry that waits, and no other.
LEMMA MarkedIsEarliest ==
  ASSUME RemindersInv
  PROVE  \/ Marked = schedule /\ \A e \in schedule : ~e.sent => e.due > clock
         \/ \E f \in schedule :
              /\ ~f.sent /\ f.due <= clock /\ \A e \in schedule : ~e.sent => f.due <= e.due
              /\ Marked = (schedule \ {f}) \union {Entry(f.due, TRUE)}
<1> DEFINE waiting == {e \in schedule : ~e.sent /\ e.due <= clock}
           first == {e \in waiting : \A f \in waiting : e.due <= f.due}
<1>0. /\ schedule \in SUBSET Entries /\ clock \in Nat
      /\ \A e, f \in schedule : e.due = f.due => e = f
  BY RemindersTypes DEF RemindersInv, ScheduleSound
<1>1. Marked = (schedule \ first) \union {Entry(e.due, TRUE) : e \in first}
  BY DEF Marked
<1>2. CASE waiting = {}
  <2>1. first = {} /\ \A e \in schedule : ~e.sent => ~(e.due <= clock)
    BY <1>2
  <2>2. Marked = schedule
    BY <1>1, <2>1
  <2>3. ASSUME NEW e \in schedule, ~e.sent PROVE e.due > clock
    <3>1. e.due \in Nat
      BY <1>0 DEF Entries
    <3> QED BY <1>0, <2>1, <2>3, <3>1
  <2> QED BY <2>2, <2>3
<1>3. CASE waiting # {}
  <2> DEFINE dates == {e.due : e \in waiting}
  <2>1. dates \in SUBSET Nat /\ dates # {}
    BY <1>0, <1>3 DEF Entries
  <2>2. PICK d \in dates : \A x \in dates : d <= x
    <3> HIDE DEF dates
    <3> QED BY <2>1, EarliestDate
  <2>3. PICK f \in waiting : f.due = d
    OBVIOUS
  <2>4. \A e \in waiting : f.due <= e.due
    BY <2>2, <2>3
  <2>5. first = {f}
    <3>1. ASSUME NEW e \in first PROVE e = f
      <4>1. e.due <= f.due /\ f.due <= e.due /\ e \in schedule /\ f \in schedule
        BY <2>4
      <4> QED BY <1>0, <4>1 DEF Entries
    <3> QED BY <2>4, <3>1
  <2>6. Marked = (schedule \ {f}) \union {Entry(f.due, TRUE)}
    BY <1>1, <2>5
  <2>7. f \in schedule /\ ~f.sent /\ f.due <= clock
    OBVIOUS
  <2>8. ASSUME NEW e \in schedule, ~e.sent PROVE f.due <= e.due
    <3>1. CASE e \in waiting
      BY <2>4, <3>1
    <3>2. CASE ~(e.due <= clock)
      BY <1>0, <2>7, <3>2 DEF Entries
    <3> QED BY <2>8, <3>1, <3>2
  <2> QED BY <2>6, <2>7, <2>8
<1> QED BY <1>2, <1>3


\* What it leaves is a schedule of the same dates, with one more that is sent.
LEMMA MarkedSound ==
  ASSUME RemindersInv
  PROVE  /\ Marked \subseteq Entries /\ IsFiniteSet(Marked)
         /\ \A e, f \in Marked : e.due = f.due => e = f
         /\ \A e \in Marked : ~e.sent => e \in schedule
         /\ \A e \in schedule : \E f \in Marked : f.due = e.due
         /\ \A f \in Marked : \E e \in schedule : e.due = f.due
         /\ \A e \in Marked, f \in schedule : e.due = f.due /\ f.sent => e.sent
         /\ \A e \in Marked : NextDue(schedule) # Never /\ NextDue(schedule) <= clock /\ e.due = NextDue(schedule)
              => e.sent
<1>0. /\ schedule \in SUBSET Entries /\ IsFiniteSet(schedule)
      /\ \A e, f \in schedule : e.due = f.due => e = f
      /\ clock \in Nat
  BY RemindersTypes DEF RemindersInv, ScheduleSound
<1>n. /\ \A e \in schedule : e.due \in Nat /\ e.sent \in BOOLEAN
      /\ \A e \in schedule : ~e.sent => NextDue(schedule) <= e.due
      /\ NextDue(schedule) = Never \/ \E e \in schedule : e.due = NextDue(schedule) /\ ~e.sent
  BY <1>0, NextDueIsEarliest DEF Entries
<1>1. CASE Marked = schedule /\ \A e \in schedule : ~e.sent => e.due > clock
  <2>1. ASSUME NEW e \in schedule, NextDue(schedule) <= clock, e.due = NextDue(schedule) PROVE e.sent
    BY <1>0, <1>n, <1>1, <2>1
  <2> QED BY <1>0, <1>1, <2>1
<1>2. ASSUME NEW f \in schedule, ~f.sent, f.due <= clock, \A e \in schedule : ~e.sent => f.due <= e.due,
             Marked = (schedule \ {f}) \union {Entry(f.due, TRUE)}
      PROVE  /\ Marked \subseteq Entries /\ IsFiniteSet(Marked)
             /\ \A e, g \in Marked : e.due = g.due => e = g
             /\ \A e \in Marked : ~e.sent => e \in schedule
             /\ \A e \in schedule : \E g \in Marked : g.due = e.due
             /\ \A g \in Marked : \E e \in schedule : e.due = g.due
             /\ \A e \in Marked, g \in schedule : e.due = g.due /\ g.sent => e.sent
             /\ \A e \in Marked : NextDue(schedule) # Never /\ NextDue(schedule) <= clock /\ e.due = NextDue(schedule)
                  => e.sent
  <2> DEFINE done == Entry(f.due, TRUE)
  <2>1. done \in Entries /\ done.due = f.due /\ done.sent /\ done \in Marked
    BY <1>2, <1>n DEF Entry, Entries
  <2>2. \A e \in Marked : e = done \/ (e \in schedule /\ e # f)
    BY <1>2
  <2>3. \A e \in schedule : e = f \/ e \in Marked
    BY <1>2
  <2>4. IsFiniteSet(Marked)
    <3>1. IsFiniteSet(schedule \ {f})
      BY <1>0, FS_RemoveElement
    <3> QED BY <1>2, <3>1, FS_AddElement
  <2> HIDE DEF done
  <2>5. Marked \subseteq Entries /\ \A e \in Marked : ~e.sent => e \in schedule
    BY <1>0, <2>1, <2>2
  <2>6. \A e, g \in Marked : e.due = g.due => e = g
    BY <1>0, <2>1, <2>2
  <2>7. /\ \A e \in schedule : \E g \in Marked : g.due = e.due
        /\ \A g \in Marked : \E e \in schedule : e.due = g.due
    BY <2>1, <2>2, <2>3
  <2>8. \A e \in Marked, g \in schedule : e.due = g.due /\ g.sent => e.sent
    BY <1>0, <2>1, <2>2
  <2>9. ASSUME NEW e \in Marked, NextDue(schedule) # Never, e.due = NextDue(schedule) PROVE e.sent
    <3>1. NextDue(schedule) = f.due
      <4>1. PICK g \in schedule : g.due = NextDue(schedule) /\ ~g.sent
        BY <1>n, <2>9
      <4>2. f.due <= g.due /\ g.due <= f.due
        BY <1>2, <1>n, <4>1
      <4> QED BY <1>n, <4>1, <4>2
    <3> QED BY <1>0, <2>1, <2>2, <2>9, <3>1
  <2> QED BY <2>4, <2>5, <2>6, <2>7, <2>8, <2>9
<1> QED BY <1>1, <1>2, MarkedIsEarliest

LEMMA MarkedCounted ==
  ASSUME RemindersInv
  PROVE  /\ Cardinality(SentEntries(schedule)) \in Nat /\ Cardinality(SentEntries(Marked)) \in Nat
         /\ Cardinality(SentEntries(Marked)) >= Cardinality(SentEntries(schedule))
         /\ (\E e \in schedule : ~e.sent /\ e.due <= clock) =>
              Cardinality(SentEntries(Marked)) = Cardinality(SentEntries(schedule)) + 1
<1>0. /\ schedule \in SUBSET Entries /\ IsFiniteSet(schedule)
      /\ \A e, f \in schedule : e.due = f.due => e = f
      /\ clock \in Nat
  BY RemindersTypes DEF RemindersInv, ScheduleSound
<1>1. IsFiniteSet(SentEntries(schedule)) /\ Cardinality(SentEntries(schedule)) \in Nat
  BY <1>0, FS_Subset, FS_CardinalityType DEF SentEntries
<1>2. CASE Marked = schedule /\ \A e \in schedule : ~e.sent => e.due > clock
  <2>1. ~(\E e \in schedule : ~e.sent /\ e.due <= clock)
    BY <1>0, <1>2 DEF Entries
  <2> QED BY <1>1, <1>2, <2>1
<1>3. ASSUME NEW f \in schedule, ~f.sent, Marked = (schedule \ {f}) \union {Entry(f.due, TRUE)}
      PROVE  Cardinality(SentEntries(Marked)) = Cardinality(SentEntries(schedule)) + 1
  <2> DEFINE done == Entry(f.due, TRUE)
  <2>1. done.due = f.due /\ done.sent
    BY DEF Entry
  <2>2. SentEntries(Marked) = SentEntries(schedule) \union {done}
    <3>1. done \in SentEntries(Marked)
      BY <1>3, <2>1 DEF SentEntries
    <3> HIDE DEF done
    <3>2. Marked = (schedule \ {f}) \union {done}
      BY <1>3 DEF done
    <3> QED BY <1>3, <3>1, <3>2 DEF SentEntries
  <2>3. done \notin SentEntries(schedule)
    <3> HIDE DEF done
    <3> QED BY <1>0, <1>3, <2>1 DEF SentEntries
  <2> HIDE DEF done
  <2> QED BY <1>1, <2>2, <2>3, FS_AddElement
<1>4. CASE \E f \in schedule : ~f.sent /\ Marked = (schedule \ {f}) \union {Entry(f.due, TRUE)}
  <2>1. PICK f \in schedule : ~f.sent /\ Marked = (schedule \ {f}) \union {Entry(f.due, TRUE)}
    BY <1>4
  <2>2. Cardinality(SentEntries(Marked)) = Cardinality(SentEntries(schedule)) + 1
    BY <2>1, <1>3
  <2> QED BY <1>1, <2>2
<1> QED BY <1>2, <1>4, MarkedIsEarliest

LEMMA RemindersInvInit == RemindersInit => RemindersInv
<1> SUFFICES ASSUME RemindersInit PROVE RemindersInv
  OBVIOUS
<1>1. /\ schedule \subseteq Entries /\ IsFiniteSet(schedule)
      /\ \A e, f \in schedule : e.due = f.due => e = f
      /\ schedule = {} \/ \E e \in schedule, h \in LeadTicks \union {DefaultLead} : e.due = start - h
  BY BuiltScheduleSound, RemindersConst DEF RemindersInit
<1>2. due_at = Never \/ \E e \in schedule : e.due = due_at /\ ~e.sent
  BY <1>1, NextDueIsEarliest DEF RemindersInit
<1>3. RemindersTypeOK
  <2>1. clock \in Clock /\ moved \in Clock /\ changes \in 0..MaxChanges /\ crashes \in 0..MaxCrashes /\ opens \in Clock
    BY RemindersConst DEF RemindersInit, Clock, Closed
  <2>2. \A e \in schedule : e.due \in Int /\ e.sent \in BOOLEAN
    BY <1>1 DEF Entries
  <2> QED BY <1>2, <2>1, <2>2 DEF RemindersInit, RemindersTypeOK, NoSweep
<1>4. ScheduleSound /\ FollowsStart
  BY <1>1 DEF RemindersInit, ScheduleSound, FollowsStart, Entries
<1>5. SweepSound /\ MessagesConsumed /\ RemindedAsItStands /\ OneMessagePerEntry
  BY DEF RemindersInit, SweepSound, MessagesConsumed, RemindedAsItStands, OneMessagePerEntry
<1>6. BehindOthers
  <2>1. Cardinality(SentEntries(schedule)) \in Nat
    BY <1>1, FS_Subset, FS_CardinalityType DEF SentEntries
  <2> SUFFICES ASSUME NEW from \in Int, moved <= from
               PROVE  clock - from <= Cardinality(SentEntries(schedule)) + 1
    BY DEF RemindersInit, BehindOthers
  <2> QED BY <2>1 DEF RemindersInit
<1> QED BY <1>3, <1>4, <1>5, <1>6 DEF RemindersInv


\* A change in this tick lifts every promise but those about the schedule.
LEMMA Touched ==
  ASSUME RemindersInv, moved' = clock, UNCHANGED <<clock, sweep, swept, reminded, crashes>>,
         RemindersTypeOK', ScheduleSound', FollowsStart'
  PROVE  RemindersInv'
<1>1. SweepSound' /\ MessagesConsumed' /\ RemindedAsItStands' /\ OneMessagePerEntry'
  <2>1. clock \in Nat /\ \A m \in reminded : m.at \in Nat /\ m.at <= clock
    BY RemindersTypes DEF RemindersInv, MessagesConsumed
  <2>2. SweepSound'
    BY <2>1 DEF RemindersInv, SweepSound
  <2>3. MessagesConsumed'
    BY <2>1 DEF MessagesConsumed
  <2>4. RemindedAsItStands' /\ OneMessagePerEntry'
    BY <2>1 DEF RemindedAsItStands, OneMessagePerEntry
  <2> QED BY <2>2, <2>3, <2>4
<1>2. BehindOthers'
  <2>1. Cardinality(SentEntries(schedule')) \in Nat
    BY FS_Subset, FS_CardinalityType DEF ScheduleSound, SentEntries
  <2>2. clock \in Nat
    BY RemindersTypes
  <2> SUFFICES ASSUME NEW from \in Int, moved' <= from
               PROVE  clock' - from <= Cardinality(SentEntries(schedule')) + (IF swept' THEN 0 ELSE 1)
    BY DEF BehindOthers
  <2> QED BY <2>1, <2>2
<1> QED BY <1>1, <1>2 DEF RemindersInv

LEMMA RescheduleStep == ASSUME RemindersInv, NEW s \in Starts, Reschedule(s) PROVE RemindersInv'
<1>1. changes' \in 0..MaxChanges /\ moved' = clock /\ clock' = clock
  BY RemindersConst DEF Reschedule, Change, RemindersInv, RemindersTypeOK
<1>2. CASE in_ghl
  <2>1. schedule' = schedule /\ due_at' = due_at /\ bot_moved' /\ in_ghl' = in_ghl
    BY <1>2 DEF Reschedule
  <2>2. RemindersTypeOK'
    BY <1>1, <2>1 DEF Reschedule, RemindersInv, RemindersTypeOK
  <2>3. ScheduleSound' /\ FollowsStart'
    BY <1>2, <2>1 DEF Reschedule, RemindersInv, ScheduleSound, FollowsStart
  <2> QED BY <1>1, <2>2, <2>3, Touched DEF Reschedule
<1>3. CASE ~in_ghl
  <2>1. schedule' = BuildSchedule(s, {DefaultLead}) /\ due_at' = NextDue(schedule') /\ start' = s
    BY <1>3 DEF Reschedule, LocalSchedule
  <2>2. IsFiniteSet({DefaultLead})
    BY FS_Singleton
  <2>3. /\ schedule' \subseteq Entries /\ IsFiniteSet(schedule')
        /\ \A e, f \in schedule' : e.due = f.due => e = f
        /\ schedule' = {} \/ \E e \in schedule', h \in LeadTicks \union {DefaultLead} : e.due = s - h
    BY <2>1, <2>2, BuiltScheduleSound
  <2>4. due_at' = Never \/ \E e \in schedule' : e.due = due_at' /\ ~e.sent
    BY <2>1, <2>3, NextDueIsEarliest
  <2>5. \A e \in schedule' : e.due \in Int /\ e.sent \in BOOLEAN
    BY <2>3 DEF Entries
  <2>6. RemindersTypeOK'
    <3>1. bot_moved' \in BOOLEAN
      BY DEF Reschedule
    <3> QED BY <1>1, <2>1, <2>4, <2>5, <3>1 DEF Reschedule, RemindersInv, RemindersTypeOK
  <2>7. ScheduleSound' /\ FollowsStart'
    BY <2>1, <2>3 DEF ScheduleSound, FollowsStart, Entries
  <2> QED BY <1>1, <2>6, <2>7, Touched DEF Reschedule
<1> QED BY <1>2, <1>3

LEMMA PolledStep == ASSUME RemindersInv, NEW s \in Starts, NEW standing \in BOOLEAN, Polled(s, standing) PROVE RemindersInv'
<1>1. changes' \in 0..MaxChanges /\ moved' = clock /\ clock' = clock
  BY RemindersConst DEF Polled, Change, RemindersInv, RemindersTypeOK
<1>2. CASE s = start
  <2>1. schedule' = schedule /\ due_at' = due_at /\ bot_moved' = bot_moved /\ in_ghl' = in_ghl /\ in_ghl /\ start' = start
    <3>1. bot_moved \in BOOLEAN
      BY RemindersTypes
    <3> QED BY <1>2, <3>1 DEF Polled, PolledSchedule
  <2>2. RemindersTypeOK'
    BY <1>1, <2>1 DEF Polled, RemindersInv, RemindersTypeOK
  <2>3. ScheduleSound' /\ FollowsStart'
    BY <2>1 DEF RemindersInv, ScheduleSound, FollowsStart
  <2> QED BY <1>1, <2>2, <2>3, Touched DEF Polled
<1>3. CASE s # start
  <2>1. schedule' = (IF standing THEN BuildSchedule(s, LeadTicks) ELSE {}) /\ due_at' = NextDue(schedule') /\ start' = s
    BY <1>3 DEF Polled, PolledSchedule
  <2>3. /\ schedule' \subseteq Entries /\ IsFiniteSet(schedule')
        /\ \A e, f \in schedule' : e.due = f.due => e = f
        /\ schedule' = {} \/ \E e \in schedule', h \in LeadTicks \union {DefaultLead} : e.due = s - h
    BY <2>1, BuiltScheduleSound, RemindersConst, FS_EmptySet
  <2>4. due_at' = Never \/ \E e \in schedule' : e.due = due_at' /\ ~e.sent
    BY <2>1, <2>3, NextDueIsEarliest
  <2>5. \A e \in schedule' : e.due \in Int /\ e.sent \in BOOLEAN
    BY <2>3 DEF Entries
  <2>6. RemindersTypeOK'
    <3>1. bot_moved' \in BOOLEAN
      BY DEF Polled
    <3> QED BY <1>1, <2>1, <2>4, <2>5, <3>1 DEF Polled, RemindersInv, RemindersTypeOK
  <2>7. ScheduleSound' /\ FollowsStart'
    BY <2>1, <2>3 DEF ScheduleSound, FollowsStart, Entries
  <2> QED BY <1>1, <2>6, <2>7, Touched DEF Polled
<1> QED BY <1>2, <1>3

LEMMA CancelStep == ASSUME RemindersInv, Cancel PROVE RemindersInv'
<1>1. changes' \in 0..MaxChanges /\ moved' = clock /\ clock' = clock
  BY RemindersConst DEF Cancel, Change, RemindersInv, RemindersTypeOK
<1>2. schedule' = schedule /\ in_ghl' = in_ghl /\ booked' = FALSE /\ (in_ghl => due_at' = due_at) /\ due_at' \in {due_at, Never}
  BY DEF Cancel
<1>3. RemindersTypeOK'
  BY <1>1, <1>2 DEF Cancel, RemindersInv, RemindersTypeOK
<1>4. ScheduleSound' /\ FollowsStart'
  BY <1>2 DEF Cancel, RemindersInv, ScheduleSound, FollowsStart
<1> QED BY <1>1, <1>3, <1>4, Touched DEF Cancel

LEMMA ReminderSwitchStep == ASSUME RemindersInv, Switch PROVE RemindersInv'
<1>1. changes' \in 0..MaxChanges /\ moved' = clock /\ clock' = clock
  BY RemindersConst DEF Switch, Change, RemindersInv, RemindersTypeOK
<1>2. opens' \in Clock \union {MaxClock + 1} /\ ready' \in BOOLEAN
  <2>1. CASE opens' = opens /\ ready' = ~ready
    BY <2>1 DEF RemindersInv, RemindersTypeOK
  <2>2. CASE opens' \in clock..(MaxClock + 1) /\ ready' = ready
    <3>1. opens' \in Clock \union {MaxClock + 1}
      BY <2>2, RemindersTypes, RemindersConst DEF Clock
    <3> QED BY <2>2, <3>1, RemindersTypes
  <2> QED BY <2>1, <2>2 DEF Switch
<1>3. RemindersTypeOK'
  BY <1>1, <1>2 DEF Switch, RemindersInv, RemindersTypeOK
<1>4. ScheduleSound' /\ FollowsStart'
  BY DEF Switch, RemindersInv, ScheduleSound, FollowsStart
<1> QED BY <1>1, <1>3, <1>4, Touched DEF Switch


LEMMA ReminderScanStep == ASSUME RemindersInv, Scan PROVE RemindersInv'
<1>0. /\ UNCHANGED <<clock, in_ghl, start, booked, schedule, due_at, opens, ready, reminded, moved, bot_moved, changes, crashes>>
      /\ sweep = NoSweep /\ ~swept
  BY DEF Scan
<1>1. ScheduleSound' /\ FollowsStart' /\ RemindedAsItStands' /\ OneMessagePerEntry'
  BY <1>0 DEF RemindersInv, ScheduleSound, FollowsStart, RemindedAsItStands, OneMessagePerEntry
<1>n. /\ \A e \in schedule : e.due \in Nat
      /\ \A e \in schedule : ~e.sent => NextDue(schedule) <= e.due
      /\ NextDue(schedule) = Never \/ \E e \in schedule : e.due = NextDue(schedule) /\ ~e.sent
      /\ \A e \in schedule : ~e.sent => NextDue(schedule) \in Nat
  BY RemindersTypes, NextDueIsEarliest DEF Entries
<1>2. MessagesConsumed'
  <2>1. sweep.at # "sent"
    BY <1>0 DEF NoSweep
  <2> QED BY <1>0, <2>1 DEF RemindersInv, MessagesConsumed
<1>3. CASE Candidate
  <2>1. sweep' = [at |-> "scanned", start |-> start, due |-> due_at] /\ swept' = swept
    BY <1>3 DEF Scan
  <2>2. booked /\ due_at = NextDue(schedule) /\ due_at # Never /\ due_at <= clock
    BY <1>3 DEF Candidate, RemindersInv, ScheduleSound
  <2>3. due_at \in Nat
    BY <1>n, <2>2
  <2>4. RemindersTypeOK'
    BY <1>0, <2>1 DEF RemindersInv, RemindersTypeOK
  <2>5. SweepSound'
    BY <1>0, <2>1, <2>2, <2>3, RemindersTypes DEF SweepSound
  <2>6. BehindOthers'
    BY <1>0, <2>1 DEF RemindersInv, BehindOthers
  <2> QED BY <1>1, <1>2, <2>4, <2>5, <2>6 DEF RemindersInv
<1>4. CASE ~Candidate
  <2>1. sweep' = sweep /\ swept' = TRUE
    BY <1>4 DEF Scan
  <2>2. RemindersTypeOK'
    BY <1>0, <2>1 DEF RemindersInv, RemindersTypeOK
  <2>3. SweepSound'
    BY <1>0, <2>1 DEF SweepSound
  <2>4. BehindOthers'
    <3> SUFFICES ASSUME booked, NEW e \in schedule, NEW from \in Int, ~e.sent, e.due <= from
                 PROVE  clock - from <= Cardinality(SentEntries(schedule)) + 0
      BY <1>0, <2>1 DEF BehindOthers
    <3>1. clock \in Nat /\ e.due \in Nat /\ Cardinality(SentEntries(schedule)) \in Nat
      BY <1>n, RemindersTypes, MarkedCounted
    <3>2. due_at = NextDue(schedule)
      BY DEF RemindersInv, ScheduleSound
    <3>3. due_at # Never /\ due_at \in Nat /\ due_at <= e.due
      BY <1>n, <3>2, NeverIsNoDate
    <3>4. ~(due_at <= clock)
      BY <1>4, <3>3 DEF Candidate
    <3> QED BY <3>1, <3>3, <3>4
  <2> QED BY <1>1, <1>2, <2>2, <2>3, <2>4 DEF RemindersInv
<1> QED BY <1>3, <1>4


LEMMA PutOffStep == ASSUME RemindersInv, PutOff PROVE RemindersInv'
<1>0. /\ UNCHANGED <<clock, in_ghl, start, booked, schedule, due_at, opens, ready, reminded, moved, bot_moved, changes, crashes>>
      /\ sweep.at = "scanned" /\ sweep' = NoSweep /\ swept' = TRUE
  BY DEF PutOff, EndSweep
<1>1. ScheduleSound' /\ FollowsStart' /\ RemindedAsItStands' /\ OneMessagePerEntry'
  BY <1>0 DEF RemindersInv, ScheduleSound, FollowsStart, RemindedAsItStands, OneMessagePerEntry
<1>2. MessagesConsumed' /\ SweepSound' /\ RemindersTypeOK'
  <2>1. MessagesConsumed'
    BY <1>0 DEF RemindersInv, MessagesConsumed
  <2>2. RemindersTypeOK'
    BY <1>0 DEF RemindersInv, RemindersTypeOK, NoSweep
  <2> QED BY <1>0, <2>1, <2>2 DEF SweepSound
<1>3. BehindOthers'
  <2> SUFFICES ASSUME ready, NEW e \in schedule, NEW from \in Int, opens <= from
               PROVE  clock - from <= Cardinality(SentEntries(schedule)) + 0
    BY <1>0 DEF BehindOthers
  <2>1. ~(opens <= clock)
    BY DEF PutOff, IsOpen
  <2> QED BY <2>1, RemindersTypes, MarkedCounted
<1> QED BY <1>1, <1>2, <1>3 DEF RemindersInv

LEMMA SweepDiesStep == ASSUME RemindersInv, SweepDies PROVE RemindersInv'
<1>0. /\ UNCHANGED <<clock, in_ghl, start, booked, schedule, due_at, opens, ready, reminded, moved, bot_moved, changes>>
      /\ sweep' = NoSweep /\ swept' = TRUE /\ crashes' = crashes + 1 /\ crashes < MaxCrashes
  BY DEF SweepDies, EndSweep
<1>1. crashes' \in 0..MaxCrashes /\ crashes' > 0
  BY <1>0, RemindersConst, RemindersTypes DEF RemindersInv, RemindersTypeOK
<1>2. ScheduleSound' /\ FollowsStart' /\ RemindedAsItStands' /\ OneMessagePerEntry'
  BY <1>0, <1>1 DEF RemindersInv, ScheduleSound, FollowsStart, RemindedAsItStands, OneMessagePerEntry
<1>3. RemindersTypeOK'
  BY <1>0, <1>1 DEF RemindersInv, RemindersTypeOK, NoSweep
<1>4. MessagesConsumed' /\ SweepSound' /\ BehindOthers'
  BY <1>0, <1>1 DEF RemindersInv, MessagesConsumed, SweepSound, BehindOthers
<1> QED BY <1>2, <1>3, <1>4 DEF RemindersInv

\* The entry that is consumed is the one of the message: nothing else is earlier.
LEMMA ConsumeStep == ASSUME RemindersInv, DropEntry \/ MarkSent PROVE RemindersInv'
<1>0. /\ UNCHANGED <<clock, in_ghl, start, booked, opens, ready, reminded, moved, bot_moved, changes, crashes>>
      /\ sweep # NoSweep /\ sweep' = NoSweep /\ swept' = TRUE /\ ~swept
      /\ schedule' = Marked /\ due_at' = NextDue(Marked)
  BY DEF DropEntry, MarkSent, EndSweep, Consume, NoSweep, RemindersInv, SweepSound
<1>1. RemindersTypeOK'
  <2>1. due_at' = Never \/ \E e \in schedule' : e.due = due_at' /\ ~e.sent
    BY <1>0, MarkedSound, NextDueIsEarliest
  <2>2. \A e \in schedule' : e.due \in Int /\ e.sent \in BOOLEAN
    BY <1>0, MarkedSound DEF Entries
  <2> QED BY <1>0, <2>1, <2>2 DEF RemindersInv, RemindersTypeOK, NoSweep
<1>2. ScheduleSound'
  BY <1>0, MarkedSound DEF ScheduleSound, Entries
<1>3. FollowsStart'
  <2> SUFFICES ASSUME ~bot_moved, schedule' # {}
               PROVE  \E e \in schedule', h \in LeadTicks \union {DefaultLead} : e.due = start - h
    BY <1>0 DEF FollowsStart
  <2>1. schedule # {}
    BY <1>0, MarkedSound
  <2>2. PICK e \in schedule, h \in LeadTicks \union {DefaultLead} : e.due = start - h
    BY <2>1 DEF RemindersInv, FollowsStart
  <2>3. PICK f \in Marked : f.due = e.due
    BY MarkedSound
  <2> QED BY <1>0, <2>2, <2>3
<1>4. RemindedAsItStands' /\ OneMessagePerEntry' /\ SweepSound'
  BY <1>0 DEF RemindersInv, RemindedAsItStands, OneMessagePerEntry, SweepSound
<1>5. MessagesConsumed'
  <2> SUFFICES ASSUME crashes = 0, NEW m \in reminded, moved < m.at, NEW e \in Marked, e.due = m.due
               PROVE  e.sent
    BY <1>0 DEF RemindersInv, MessagesConsumed
  <2>1. CASE \A f \in schedule : f.due = m.due => f.sent
    <3>1. PICK f \in schedule : f.due = e.due
      BY MarkedSound
    <3> QED BY <2>1, <3>1, MarkedSound
  <2>2. CASE m.at = clock /\ sweep.due = m.due
    <3>1. due_at = NextDue(schedule) /\ due_at = sweep.due /\ sweep.due <= clock /\ sweep.due \in Nat
      BY <1>0, <2>2 DEF RemindersInv, SweepSound
    <3>2. NextDue(schedule) # Never
      BY <3>1, NeverIsNoDate
    <3> QED BY <2>2, <3>1, <3>2, MarkedSound
  <2> QED BY <2>1, <2>2 DEF RemindersInv, MessagesConsumed
<1>6. BehindOthers'
  <2> SUFFICES ASSUME crashes = 0, booked, ready, NEW e \in Marked, NEW from \in Int, ~e.sent,
                      \A t \in {e.due, moved, opens} : t <= from
               PROVE  clock - from <= Cardinality(SentEntries(Marked)) + 0
    BY <1>0 DEF BehindOthers
  <2>0. /\ Cardinality(SentEntries(schedule)) \in Nat /\ Cardinality(SentEntries(Marked)) \in Nat
        /\ clock \in Nat /\ e \in schedule /\ e.due \in Nat /\ e.due <= from
    BY RemindersTypes, MarkedCounted, MarkedSound DEF Entries
  <2>1. clock - from <= Cardinality(SentEntries(schedule)) + 1
    BY <1>0, <2>0 DEF RemindersInv, BehindOthers
  <2>2. CASE clock <= from
    BY <2>0, <2>2
  <2>3. CASE clock > from
    <3>1. e.due <= clock
      BY <2>0, <2>3
    <3>2. Cardinality(SentEntries(Marked)) = Cardinality(SentEntries(schedule)) + 1
      BY <2>0, <3>1, MarkedCounted
    <3> QED BY <2>0, <2>1, <3>2
  <2> QED BY <2>0, <2>2, <2>3
<1> QED BY <1>1, <1>2, <1>3, <1>4, <1>5, <1>6 DEF RemindersInv

LEMMA SendStep == ASSUME RemindersInv, SendReminder PROVE RemindersInv'
<1> DEFINE n == [due |-> sweep.due, start |-> sweep.start, at |-> clock]
<1>0. /\ UNCHANGED <<clock, in_ghl, start, booked, schedule, due_at, opens, ready, swept, moved, bot_moved, changes, crashes>>
      /\ sweep.at = "scanned" /\ reminded' = reminded \union {n}
      /\ sweep' = [sweep EXCEPT !.at = "sent"]
  BY DEF SendReminder
<1>1. /\ sweep \in [at : {"scanned", "sent"}, start : Starts, due : Nat] /\ ~swept /\ sweep # NoSweep
      /\ moved < clock => booked /\ sweep.start = start /\ due_at = NextDue(schedule) /\ due_at = sweep.due
                          /\ sweep.due <= clock
  BY <1>0 DEF RemindersInv, SweepSound, NoSweep
<1>2. /\ sweep' \in [at : {"scanned", "sent"}, start : Starts, due : Nat]
      /\ sweep'.at = "sent" /\ sweep'.due = sweep.due /\ sweep'.start = sweep.start
  BY <1>0, <1>1
<1>3. n.at = clock /\ n.due = sweep.due /\ n.start = sweep.start
  OBVIOUS
<1> HIDE DEF n
<1>4. RemindersTypeOK' /\ ScheduleSound' /\ FollowsStart' /\ BehindOthers'
  <2>1. RemindersTypeOK'
    BY <1>0, <1>2 DEF RemindersInv, RemindersTypeOK
  <2> QED BY <1>0, <2>1 DEF RemindersInv, ScheduleSound, FollowsStart, BehindOthers
<1>5. SweepSound' /\ RemindedAsItStands'
  BY <1>0, <1>1, <1>2, <1>3 DEF RemindersInv, SweepSound, RemindedAsItStands
<1>6. MessagesConsumed'
  <2>1. clock \in Nat /\ clock <= clock
    BY RemindersTypes
  <2>2. sweep.at # "sent"
    BY <1>0
  <2> QED BY <1>0, <1>2, <1>3, <2>1, <2>2 DEF RemindersInv, MessagesConsumed
<1>7. ASSUME NEW m \in reminded, m.due = n.due, crashes = 0, moved < m.at, moved < n.at PROVE FALSE
  <2>1. \A e \in schedule : e.due = m.due => e.sent
    BY <1>0, <1>7 DEF RemindersInv, MessagesConsumed
  <2>2. NextDue(schedule) = m.due /\ sweep.due \in Nat /\ m.due = sweep.due
    BY <1>1, <1>3, <1>7
  <2>3. NextDue(schedule) # Never
    BY <2>2, NeverIsNoDate
  <2>4. PICK e \in schedule : e.due = NextDue(schedule) /\ ~e.sent
    BY <2>3, RemindersTypes, NextDueIsEarliest
  <2> QED BY <2>1, <2>2, <2>4
<1>8. OneMessagePerEntry'
  <2>1. crashes \in Nat /\ moved \in Nat /\ n.at \in Nat /\ \A m \in reminded : m.at \in Nat
    BY <1>3, RemindersTypes DEF RemindersInv, MessagesConsumed
  <2>2. ASSUME NEW m \in reminded, m.due = n.due PROVE crashes > 0 \/ moved >= m.at \/ moved >= n.at
    BY <1>7, <2>1, <2>2
  <2> QED BY <1>0, <2>2 DEF RemindersInv, OneMessagePerEntry
<1> QED BY <1>4, <1>5, <1>6, <1>8 DEF RemindersInv

LEMMA ReminderTickStep == ASSUME RemindersInv, NextTick PROVE RemindersInv'
<1>0. /\ UNCHANGED <<in_ghl, start, booked, schedule, due_at, opens, ready, sweep, reminded, moved, bot_moved, changes, crashes>>
      /\ clock < MaxClock /\ clock' = clock + 1 /\ swept /\ swept' = FALSE /\ sweep = NoSweep
  BY DEF NextTick, RemindersInv, SweepSound
<1>1. clock \in Nat /\ clock' \in Nat /\ clock' \in Clock /\ moved \in Nat /\ moved <= clock'
  BY <1>0, RemindersTypes, RemindersConst DEF Clock
<1>2. RemindersTypeOK' /\ ScheduleSound' /\ FollowsStart' /\ OneMessagePerEntry' /\ SweepSound'
  <2>1. RemindersTypeOK'
    BY <1>0, <1>1 DEF RemindersInv, RemindersTypeOK
  <2> QED BY <1>0, <2>1 DEF RemindersInv, ScheduleSound, FollowsStart, OneMessagePerEntry, SweepSound
<1>3. MessagesConsumed' /\ RemindedAsItStands'
  <2>1. \A m \in reminded : m.at \in Nat /\ m.at <= clock' /\ m.at # clock'
    BY <1>0, <1>1 DEF RemindersInv, MessagesConsumed
  <2>2. sweep.at # "sent"
    BY <1>0 DEF NoSweep
  <2> QED BY <1>0, <1>1, <2>1, <2>2 DEF RemindersInv, MessagesConsumed, RemindedAsItStands
<1>4. BehindOthers'
  <2> SUFFICES ASSUME crashes = 0, booked, ready, NEW e \in schedule, NEW from \in Int, ~e.sent,
                      \A t \in {e.due, moved, opens} : t <= from
               PROVE  clock' - from <= Cardinality(SentEntries(schedule)) + 1
    BY <1>0 DEF BehindOthers
  <2>1. clock - from <= Cardinality(SentEntries(schedule)) + 0
    BY <1>0 DEF RemindersInv, BehindOthers
  <2> QED BY <1>0, <1>1, <2>1, MarkedCounted
<1> QED BY <1>2, <1>3, <1>4 DEF RemindersInv

LEMMA RemindersInvNext == RemindersInv /\ [RemindersNext]_remindersVars => RemindersInv'
<1> SUFFICES ASSUME RemindersInv, [RemindersNext]_remindersVars PROVE RemindersInv'
  OBVIOUS
<1>1. CASE UNCHANGED remindersVars
  <2>1. RemindersTypeOK' /\ SweepSound'
    BY <1>1 DEF remindersVars, RemindersInv, RemindersTypeOK, SweepSound
  <2> QED BY <1>1, <2>1 DEF remindersVars, RemindersInv, RemindedAsItStands, OneMessagePerEntry, ScheduleSound,
                            MessagesConsumed, BehindOthers, FollowsStart
<1>2. CASE RemindersNext
  BY <1>2, RescheduleStep, PolledStep, CancelStep, ReminderSwitchStep, ReminderScanStep, PutOffStep, ConsumeStep,
     SendStep, SweepDiesStep, ReminderTickStep DEF RemindersNext
<1> QED BY <1>1, <1>2

LEMMA InvWorkedOff == ASSUME RemindersInv PROVE EntriesWorkedOff
<1> SUFFICES ASSUME swept, booked, ready, crashes = 0, NEW e \in schedule, ~e.sent,
                    \A t \in {e.due, moved, opens} : clock >= t + Cardinality(schedule)
             PROVE  FALSE
  BY DEF EntriesWorkedOff
<1>0. /\ IsFiniteSet(schedule) /\ clock \in Nat /\ e.due \in Nat /\ moved \in Nat /\ opens \in Nat
  BY RemindersTypes DEF Entries
<1>1. Cardinality(schedule) \in Nat /\ Cardinality(SentEntries(schedule)) < Cardinality(schedule)
  <2>1. Cardinality(schedule \ {e}) = Cardinality(schedule) - 1 /\ IsFiniteSet(schedule \ {e}) /\ Cardinality(schedule) \in Nat
    BY <1>0, FS_RemoveElement, FS_CardinalityType
  <2>2. SentEntries(schedule) \in SUBSET (schedule \ {e})
    BY DEF SentEntries
  <2>3. Cardinality(SentEntries(schedule)) <= Cardinality(schedule \ {e})
    BY <2>1, <2>2, FS_Subset
  <2> QED BY <2>1, <2>3, MarkedCounted
<1> DEFINE from == clock - Cardinality(schedule)
<1>2. from \in Int /\ \A t \in {e.due, moved, opens} : t <= from
  BY <1>0, <1>1
<1>3. clock - from = Cardinality(schedule)
  BY <1>0, <1>1
<1> HIDE DEF from
<1>4. clock - from <= Cardinality(SentEntries(schedule)) + 0
  BY <1>2 DEF RemindersInv, BehindOthers
<1> QED BY <1>1, <1>3, <1>4, MarkedCounted

\* For every schedule and every start, and however moves, closed hours and the sweep are
\* interleaved: an entry is one message, which names the appointment as it stands; and when
\* nothing has held the entries back, each is sent within as many ticks as there are entries.
THEOREM RemindersCorrect == RemindersSpec => []RemindersSafe
<1>1. RemindersInv => RemindersSafe
  BY InvWorkedOff DEF RemindersInv, RemindersSafe, FollowsStart, ScheduleFollowsPoll, ScheduleFollowsStart
<1> QED BY RemindersInvInit, RemindersInvNext, <1>1, PTL DEF RemindersSpec

-----------------------------------------------------------------------------
(* The data webhooks of the CRM. *)

OnLead == {o \in Opps : lead.opp = o}

\* A webhook is of an opportunity that there is, and one of them tells of its creation.
PostsSound ==
  /\ \A i \in DOMAIN posts :
       /\ posts[i].opp <= Len(made_by)
       /\ posts[i].kind \in {"OpportunityCreate", "OpportunityUpdate"} => posts[i].opp # NoOpp
       /\ posts[i].kind \in {"ContactCreate", "CallFailed"} => posts[i].opp = NoOpp
  /\ \A i, j \in DOMAIN posts :
       posts[i].kind = "OpportunityCreate" /\ posts[j].kind = "OpportunityCreate"
         /\ posts[i].opp = posts[j].opp => i = j

\* A webhook waits in one queue, or one handler has it.
HandledByOne ==
  /\ crm_jobs \union requeued \subseteq DOMAIN posts
  /\ crm_jobs \intersect requeued = {}
  /\ \A w \in CrmWorkers : wpc[w] = "writing" =>
       /\ post[w] \in DOMAIN posts /\ Creates(posts[post[w]])
       /\ post[w] \notin crm_jobs \union requeued
       /\ \A v \in CrmWorkers : wpc[v] = "writing" /\ post[v] = post[w] => v = w

\* Opportunities are noted only if there are any.
NotedSound ==
  /\ lead.opp <= Len(made_by)
  /\ \A m \in Movers :
       /\ mpc[m] # "idle" => lead.known /\ opp_read[m] <= Len(made_by)
       /\ mpc[m] = "made" => made[m] # NoOpp /\ made[m] <= Len(made_by)
  /\ handled \subseteq DOMAIN made_by
  /\ \A o \in Opps : heard[o] > 0 => o \in DOMAIN made_by

\* What was on the lead once still is, or another one has displaced it.
Displaced ==
  \A o \in Opps : heard[o] > 0 \/ o \in overtaken => o \in OnLead \union displaced

\* What is on the lead came there with its event, or before its create was handled.
Announced ==
  /\ \A o \in OnLead \union handled : heard[o] > 0 \/ o \in overtaken
  /\ \A o \in Opps : heard[o] > 1 => o \in displaced
  /\ \A o \in Opps : heard[o] > 0 /\ made_by[o] = "bot" => o \in early \union displaced

\* What a handler has read of the lead.
ReadSound ==
  \A w \in CrmWorkers : wpc[w] = "writing" =>
    LET o == posts[post[w]].opp IN
      /\ lead_read[w].opp # NoOpp => heard[lead_read[w].opp] > 0 \/ lead_read[w].opp \in overtaken
      /\ o # NoOpp /\ lead_read[w].opp # o =>
           /\ heard[o] = 0 \/ o \in displaced
           /\ made_by[o] = "bot" => o \in early \union displaced

\* The lead is born once.
BornOnce ==
  /\ born <= 1 /\ (born > 0 => lead.known)
  /\ \A w \in CrmWorkers : wpc[w] = "writing" => inserted[w] \/ lead.known
  /\ \A w \in CrmWorkers : inserted[w] =>
       /\ wpc[w] = "writing" /\ ~lead.known
       /\ \A v \in CrmWorkers : inserted[v] => v = w

\* A second thread is made only beside another one.
OneThread ==
  /\ threads > 1 => forked
  /\ \A w \in CrmWorkers : wpc[w] = "writing" /\ lead_read[w].of > 0 => lead_read[w].thread

CrmInv ==
  /\ CrmTypeOK /\ PostsSound /\ HandledByOne /\ NotedSound /\ Displaced /\ Announced /\ ReadSound
  /\ BornOnce /\ OneThread


LEMMA CrmConst == MaxOpps \in Nat /\ MaxPosts \in Nat /\ MaxCrmDrops \in Nat
BY CrmAssumption

LEMMA CrmTypes ==
  ASSUME CrmInv
  PROVE  /\ made_by \in Seq(Makers) /\ Len(made_by) \in Nat /\ Len(made_by) <= MaxOpps
         /\ DOMAIN made_by = 1..Len(made_by)
         /\ posts \in Seq(Webhooks) /\ Len(posts) \in Nat /\ Len(posts) <= MaxPosts
         /\ DOMAIN posts = 1..Len(posts) /\ \A i \in DOMAIN posts : posts[i] \in Webhooks
         /\ crm_jobs \in SUBSET Posts /\ requeued \in SUBSET Posts
         /\ lead \in [known : BOOLEAN, contact : BOOLEAN, opp : Opps \union {NoOpp}]
         /\ threads \in Nat /\ open \in BOOLEAN
         /\ wpc \in [CrmWorkers -> {"idle", "writing"}]
         /\ post \in [CrmWorkers -> Nat] /\ inserted \in [CrmWorkers -> BOOLEAN]
         /\ lead_read \in [CrmWorkers -> [opp : Opps \union {NoOpp}, thread : BOOLEAN, of : Nat]]
         /\ mpc \in [Movers -> {"idle", "read", "made"}]
         /\ opp_read \in [Movers -> Opps \union {NoOpp}] /\ made \in [Movers -> Opps \union {NoOpp}]
         /\ heard \in [Opps -> Nat] /\ born \in Nat /\ forked \in BOOLEAN
         /\ handled \in SUBSET Opps /\ early \in SUBSET Opps /\ displaced \in SUBSET Opps
         /\ overtaken \in SUBSET Opps /\ crm_drops \in 0..MaxCrmDrops
         /\ lead.known \in BOOLEAN /\ lead.opp \in Opps \union {NoOpp}
BY DEF CrmInv, CrmTypeOK

LEMMA Appended ==
  ASSUME NEW S, NEW s \in Seq(S), NEW x \in S
  PROVE  /\ Append(s, x) \in Seq(S) /\ Len(Append(s, x)) = Len(s) + 1 /\ Len(s) \in Nat
         /\ DOMAIN Append(s, x) = DOMAIN s \union {Len(s) + 1} /\ DOMAIN s = 1..Len(s)
         /\ DOMAIN Append(s, x) = 1..(Len(s) + 1) /\ Append(s, x)[Len(s) + 1] = x /\ Len(s) + 1 \notin DOMAIN s
         /\ \A i \in DOMAIN s : Append(s, x)[i] = s[i]
OBVIOUS

LEMMA CountTypes ==
  ASSUME CrmInv
  PROVE  /\ made_by \in Seq(Makers) /\ Len(made_by) \in Nat /\ Len(made_by) <= MaxOpps /\ lead.opp \in Nat
         /\ \A m \in Movers : opp_read[m] \in Nat /\ made[m] \in Nat
         /\ \A o \in Opps : o \in Nat /\ heard[o] \in Nat
<1>1. Opps \union {NoOpp} \subseteq Nat
  BY CrmConst DEF Opps, NoOpp
<1>2. /\ lead.opp \in Opps \union {NoOpp} /\ heard \in [Opps -> Nat]
      /\ opp_read \in [Movers -> Opps \union {NoOpp}] /\ made \in [Movers -> Opps \union {NoOpp}]
  BY CrmTypes
<1> QED BY <1>1, <1>2, CrmTypes

\* An opportunity that is made is the next one.
LEMMA CreateNext ==
  ASSUME CrmInv, NEW who \in Makers, Create(who)
  PROVE  /\ made_by' \in Seq(Makers) /\ Len(made_by') = Len(made_by) + 1 /\ Len(made_by') \in Nat
         /\ Len(made_by') <= MaxOpps /\ DOMAIN made_by' = 1..Len(made_by')
         /\ \A o \in DOMAIN made_by : made_by'[o] = made_by[o]
         /\ Len(made_by) + 1 \in Opps /\ Len(made_by) + 1 # NoOpp
<1>1. made_by' = Append(made_by, who) /\ Len(made_by) < MaxOpps
  BY DEF Create
<1>2. made_by \in Seq(Makers) /\ Len(made_by) \in Nat
  BY CountTypes
<1>3. Len(made_by) + 1 \in Opps /\ Len(made_by) + 1 # NoOpp /\ Len(made_by) + 1 <= MaxOpps
  BY <1>1, <1>2, CrmConst DEF Opps, NoOpp
<1> QED BY <1>1, <1>2, <1>3, Appended

LEMMA CrmInvInit == CrmInit => CrmInv
<1> SUFFICES ASSUME CrmInit PROVE CrmInv
  OBVIOUS
<1>1. CrmTypeOK
  <2>1. /\ made_by \in Seq(Makers) /\ Len(made_by) = 0
        /\ posts \in Seq(Webhooks) /\ Len(posts) = 0
    BY DEF CrmInit
  <2>2. lead \in [known : BOOLEAN, contact : BOOLEAN, opp : Opps \union {NoOpp}]
    BY DEF CrmInit, NoLead
  <2>3. lead_read \in [CrmWorkers -> [opp : Opps \union {NoOpp}, thread : BOOLEAN, of : Nat]]
    BY DEF CrmInit, NothingRead
  <2>4. /\ wpc \in [CrmWorkers -> {"idle", "writing"}]
        /\ post \in [CrmWorkers -> Nat] /\ inserted \in [CrmWorkers -> BOOLEAN]
        /\ mpc \in [Movers -> {"idle", "read", "made"}] /\ heard \in [Opps -> Nat]
        /\ opp_read \in [Movers -> Opps \union {NoOpp}] /\ made \in [Movers -> Opps \union {NoOpp}]
    BY DEF CrmInit
  <2>5. Len(made_by) <= MaxOpps /\ Len(posts) <= MaxPosts /\ crm_drops \in 0..MaxCrmDrops
    BY <2>1, CrmConst DEF CrmInit
  <2>6. {crm_jobs, requeued} \subseteq SUBSET Posts /\ {handled, early, displaced, overtaken} \subseteq SUBSET Opps
    BY DEF CrmInit
  <2> QED BY <2>1, <2>2, <2>3, <2>4, <2>5, <2>6 DEF CrmInit, CrmTypeOK
<1>2. DOMAIN made_by = {} /\ DOMAIN posts = {} /\ Len(made_by) = 0 /\ lead.opp = 0 /\ OnLead = {}
  BY DEF CrmInit, NoLead, NoOpp, OnLead, Opps
<1>3. PostsSound /\ HandledByOne /\ NotedSound /\ Displaced
  BY <1>2 DEF CrmInit, PostsSound, HandledByOne, NotedSound, Displaced
<1>4. Announced /\ ReadSound /\ BornOnce /\ OneThread
  BY <1>2 DEF CrmInit, Announced, ReadSound, BornOnce, OneThread
<1> QED BY <1>1, <1>3, <1>4 DEF CrmInv

\* An opportunity is made, or not, and a webhook tells of one.
LEMMA PostedStep ==
  ASSUME CrmInv, NEW x \in Webhooks, Deliver(x),
         \/ made_by' = made_by /\ x.kind # "OpportunityCreate" /\ x.opp <= Len(made_by)
         \/ /\ \E who \in Makers : Create(who)
            /\ x.opp = Len(made_by) + 1,
         x.kind \in {"OpportunityCreate", "OpportunityUpdate"} <=> x.opp # NoOpp,
         UNCHANGED <<crm_db, crm_workers, crm_past, crm_drops>>,
         mpc' \in [Movers -> {"idle", "read", "made"}],
         opp_read' \in [Movers -> Opps \union {NoOpp}], made' \in [Movers -> Opps \union {NoOpp}],
         \A m \in Movers :
           /\ mpc'[m] # "idle" => lead.known /\ opp_read'[m] <= Len(made_by')
           /\ mpc'[m] = "made" => made'[m] # NoOpp /\ made'[m] <= Len(made_by')
  PROVE  CrmInv'
<1>0. /\ posts' = Append(posts, x) /\ Len(posts) < MaxPosts /\ crm_jobs' = crm_jobs \union {Len(posts) + 1}
      /\ requeued' = requeued
      /\ UNCHANGED <<lead, threads, open, wpc, post, lead_read, inserted, heard, born, handled, early, displaced,
                     overtaken, forked, crm_drops>>
  BY DEF Deliver, crm_db, crm_workers, crm_past
<1>1. /\ posts' \in Seq(Webhooks) /\ Len(posts') = Len(posts) + 1 /\ Len(posts) \in Nat
      /\ DOMAIN posts' = DOMAIN posts \union {Len(posts) + 1} /\ posts'[Len(posts) + 1] = x
      /\ DOMAIN posts = 1..Len(posts) /\ Len(posts) + 1 \notin DOMAIN posts
      /\ \A i \in DOMAIN posts : posts'[i] = posts[i]
  BY <1>0, CrmTypes, Appended
<1>2. /\ made_by' \in Seq(Makers) /\ Len(made_by') <= MaxOpps /\ Len(made_by') \in Nat
      /\ DOMAIN made_by = 1..Len(made_by) /\ DOMAIN made_by' = 1..Len(made_by') /\ Len(made_by) <= Len(made_by')
      /\ \A o \in DOMAIN made_by : made_by'[o] = made_by[o]
      /\ x.opp <= Len(made_by') /\ (x.kind = "OpportunityCreate" => x.opp > Len(made_by))
  <2>1. CASE made_by' = made_by /\ x.kind # "OpportunityCreate" /\ x.opp <= Len(made_by)
    BY <2>1, CrmTypes
  <2>2. CASE (\E who \in Makers : Create(who)) /\ x.opp = Len(made_by) + 1
    <3>1. PICK who \in Makers : Create(who)
      BY <2>2
    <3>2. /\ made_by' \in Seq(Makers) /\ Len(made_by') = Len(made_by) + 1 /\ Len(made_by') \in Nat
          /\ Len(made_by') <= MaxOpps /\ DOMAIN made_by' = 1..Len(made_by')
          /\ \A o \in DOMAIN made_by : made_by'[o] = made_by[o]
      BY <3>1, CreateNext
    <3>3. DOMAIN made_by = 1..Len(made_by) /\ Len(made_by) \in Nat
      BY CrmTypes
    <3>4. x.opp <= Len(made_by') /\ x.opp > Len(made_by) /\ Len(made_by) <= Len(made_by')
      BY <2>2, <3>2, <3>3
    <3> QED BY <3>2, <3>3, <3>4
  <2> QED BY <2>1, <2>2
<1>3. CrmTypeOK'
  <2>1. Len(posts') <= MaxPosts /\ crm_jobs' \in SUBSET Posts
    BY <1>0, <1>1, CrmTypes, CrmConst DEF Posts
  <2> QED BY <1>0, <1>1, <1>2, <2>1 DEF CrmInv, CrmTypeOK
<1>4. PostsSound'
  <2>1. \A i \in DOMAIN posts : posts[i].opp <= Len(made_by) /\ posts[i].opp \in Nat
    BY CrmTypes DEF CrmInv, PostsSound, Webhooks, Opps, NoOpp
  <2>2. ASSUME NEW i \in DOMAIN posts'
        PROVE  /\ posts'[i].opp <= Len(made_by')
               /\ posts'[i].kind \in {"OpportunityCreate", "OpportunityUpdate"} => posts'[i].opp # NoOpp
               /\ posts'[i].kind \in {"ContactCreate", "CallFailed"} => posts'[i].opp = NoOpp
    <3>1. CASE i \in DOMAIN posts
      BY <1>1, <1>2, <2>1, <3>1, CrmTypes DEF CrmInv, PostsSound
    <3>2. CASE i = Len(posts) + 1
      BY <1>1, <1>2, <3>2 DEF Webhooks
    <3> QED BY <1>1, <3>1, <3>2
  <2>3. ASSUME NEW i \in DOMAIN posts', NEW j \in DOMAIN posts', posts'[i].opp = posts'[j].opp,
               posts'[i].kind = "OpportunityCreate", posts'[j].kind = "OpportunityCreate"
        PROVE  i = j
    <3>1. ASSUME NEW k \in DOMAIN posts, x.kind = "OpportunityCreate" PROVE posts[k].opp # x.opp
      BY <1>2, <2>1, <3>1, CrmTypes
    <3>2. CASE i \in DOMAIN posts /\ j \in DOMAIN posts
      BY <1>1, <2>3, <3>2 DEF CrmInv, PostsSound
    <3>3. CASE i = Len(posts) + 1 \/ j = Len(posts) + 1
      BY <1>1, <2>3, <3>1, <3>3
    <3> QED BY <1>1, <3>2, <3>3
  <2> QED BY <2>2, <2>3 DEF PostsSound
<1>5. HandledByOne'
  <2>1. Len(posts) + 1 \notin crm_jobs \union requeued
    BY <1>1 DEF CrmInv, HandledByOne
  <2> QED BY <1>0, <1>1, <2>1 DEF CrmInv, HandledByOne, Creates
<1>6. NotedSound'
  <2>1. lead.opp <= Len(made_by')
    BY <1>2, CrmTypes DEF CrmInv, NotedSound, Opps, NoOpp
  <2>2. DOMAIN made_by \subseteq DOMAIN made_by'
    BY <1>2, CrmTypes
  <2> QED BY <1>0, <2>1, <2>2 DEF CrmInv, NotedSound
<1>7. OnLead' = OnLead
  BY <1>0 DEF OnLead
<1>8. Displaced' /\ BornOnce' /\ OneThread'
  BY <1>0, <1>7 DEF CrmInv, Displaced, BornOnce, OneThread
<1>9. Announced'
  <2>1. \A o \in Opps : heard[o] > 0 => made_by'[o] = made_by[o]
    BY <1>2 DEF CrmInv, NotedSound
  <2> QED BY <1>0, <1>7, <2>1 DEF CrmInv, Announced
<1>10. ReadSound'
  <2> SUFFICES ASSUME NEW w \in CrmWorkers, wpc[w] = "writing"
               PROVE  LET o == posts'[post[w]].opp IN
                        /\ lead_read[w].opp # NoOpp => heard[lead_read[w].opp] > 0 \/ lead_read[w].opp \in overtaken
                        /\ o # NoOpp /\ lead_read[w].opp # o =>
                             /\ heard[o] = 0 \/ o \in displaced
                             /\ made_by'[o] = "bot" => o \in early \union displaced
    BY <1>0 DEF ReadSound
  <2>1. posts'[post[w]] = posts[post[w]] /\ post[w] \in DOMAIN posts
    BY <1>1 DEF CrmInv, HandledByOne
  <2>2. posts[post[w]].opp # NoOpp => posts[post[w]].opp \in DOMAIN made_by
    BY <2>1, CrmTypes DEF CrmInv, PostsSound, Webhooks, Opps, NoOpp
  <2> QED BY <1>2, <2>1, <2>2 DEF CrmInv, ReadSound
<1> QED BY <1>3, <1>4, <1>5, <1>6, <1>8, <1>9, <1>10 DEF CrmInv

LEMMA MerchantActsStep == ASSUME CrmInv, MerchantActs PROVE CrmInv'
<1>1. /\ UNCHANGED <<crm_db, crm_workers, crm_movers, crm_past, crm_drops>>
      /\ UNCHANGED <<mpc, opp_read, made>>
  BY DEF MerchantActs, crm_movers
<1>2. /\ mpc' \in [Movers -> {"idle", "read", "made"}]
      /\ opp_read' \in [Movers -> Opps \union {NoOpp}] /\ made' \in [Movers -> Opps \union {NoOpp}]
  BY <1>1, CrmTypes
<1>3. ASSUME Len(made_by') \in Nat, Len(made_by') >= Len(made_by)
      PROVE  \A m \in Movers :
               /\ mpc'[m] # "idle" => lead.known /\ opp_read'[m] <= Len(made_by')
               /\ mpc'[m] = "made" => made'[m] # NoOpp /\ made'[m] <= Len(made_by')
  <2>1. \A m \in Movers : /\ mpc[m] # "idle" => lead.known /\ opp_read[m] <= Len(made_by)
                          /\ mpc[m] = "made" => made[m] # NoOpp /\ made[m] <= Len(made_by)
    BY DEF CrmInv, NotedSound
  <2>2. /\ mpc' = mpc /\ opp_read' = opp_read /\ made' = made
        /\ \A m \in Movers : opp_read[m] \in Nat /\ made[m] \in Nat
        /\ Len(made_by) \in Nat
    BY <1>1, CountTypes
  <2>3. \A n \in Nat : n <= Len(made_by) => n <= Len(made_by')
    BY <1>3, <2>2
  <2> SUFFICES ASSUME NEW m \in Movers
               PROVE  /\ mpc[m] # "idle" => lead.known /\ opp_read[m] <= Len(made_by')
                      /\ mpc[m] = "made" => made[m] # NoOpp /\ made[m] <= Len(made_by')
    BY <2>2
  <2> QED BY <2>1, <2>2, <2>3
<1>4. CASE UNCHANGED made_by
  <2>1. PICK x \in Webhooks :
          /\ Deliver(x) /\ x.kind # "OpportunityCreate" /\ x.opp <= Len(made_by)
          /\ x.kind \in {"OpportunityCreate", "OpportunityUpdate"} <=> x.opp # NoOpp
    <3>0. NoOpp <= Len(made_by)
      BY CrmTypes DEF NoOpp
    <3>1. CASE Deliver([kind |-> "ContactCreate", opp |-> NoOpp, phone |-> TRUE])
      <4> DEFINE x == [kind |-> "ContactCreate", opp |-> NoOpp, phone |-> TRUE]
      <4>1. x \in Webhooks /\ x.kind = "ContactCreate" /\ x.opp = NoOpp /\ Deliver(x)
        BY <3>1 DEF Webhooks
      <4> HIDE DEF x
      <4> QED BY <3>0, <4>1
    <3>2. CASE Deliver([kind |-> "CallFailed", opp |-> NoOpp, phone |-> TRUE])
      <4> DEFINE x == [kind |-> "CallFailed", opp |-> NoOpp, phone |-> TRUE]
      <4>1. x \in Webhooks /\ x.kind = "CallFailed" /\ x.opp = NoOpp /\ Deliver(x)
        BY <3>2 DEF Webhooks
      <4> HIDE DEF x
      <4> QED BY <3>0, <4>1
    <3>3. CASE \E o \in DOMAIN made_by : Deliver([kind |-> "OpportunityUpdate", opp |-> o, phone |-> FALSE])
      <4>1. PICK o \in DOMAIN made_by : Deliver([kind |-> "OpportunityUpdate", opp |-> o, phone |-> FALSE])
        BY <3>3
      <4>2. o \in Opps /\ o # NoOpp /\ o <= Len(made_by)
        BY CrmTypes, CrmConst DEF Opps, NoOpp
      <4> DEFINE x == [kind |-> "OpportunityUpdate", opp |-> o, phone |-> FALSE]
      <4>3. x \in Webhooks /\ x.kind = "OpportunityUpdate" /\ x.opp = o /\ Deliver(x)
        BY <4>1, <4>2 DEF Webhooks
      <4> HIDE DEF x
      <4> QED BY <4>2, <4>3
    <3>4. ASSUME NEW who \in Makers, Create(who) PROVE FALSE
      BY <1>4, <3>4, CountTypes, CreateNext
    <3>5. ~Create("merchant")
      BY <3>4, <1>4, CountTypes, CreateNext DEF Makers
    <3> QED BY <3>1, <3>2, <3>3, <3>5 DEF MerchantActs
  <2>2. Len(made_by') \in Nat /\ Len(made_by') >= Len(made_by)
    BY <1>4, CrmTypes
  <2> QED BY <1>1, <1>2, <1>3, <1>4, <2>1, <2>2, PostedStep
<1>5. CASE Create("merchant") /\ \E phone \in BOOLEAN :
             Deliver([kind |-> "OpportunityCreate", opp |-> Len(made_by) + 1, phone |-> phone])
  <2>1. PICK phone \in BOOLEAN : Deliver([kind |-> "OpportunityCreate", opp |-> Len(made_by) + 1, phone |-> phone])
    BY <1>5
  <2>2. /\ Len(made_by) + 1 \in Opps /\ Len(made_by) + 1 # NoOpp /\ Len(made_by') = Len(made_by) + 1
        /\ Len(made_by) \in Nat /\ Len(made_by') \in Nat /\ \E who \in Makers : Create(who)
    BY <1>5, CountTypes, CreateNext DEF Makers
  <2> DEFINE x == [kind |-> "OpportunityCreate", opp |-> Len(made_by) + 1, phone |-> phone]
  <2>3. x \in Webhooks /\ x.kind = "OpportunityCreate" /\ x.opp = Len(made_by) + 1 /\ Deliver(x)
    BY <2>1, <2>2 DEF Webhooks
  <2>4. Len(made_by') >= Len(made_by)
    BY <2>2
  <2> HIDE DEF x
  <2> QED BY <1>1, <1>2, <1>3, <2>2, <2>3, <2>4, PostedStep
<1> QED BY <1>4, <1>5 DEF MerchantActs

\* A turn has made an opportunity, or moved one.
LEMMA CalledStep ==
  ASSUME CrmInv, NEW m \in Movers, mpc[m] = "read", mpc' = [mpc EXCEPT ![m] = "made"],
         UNCHANGED <<crm_db, crm_workers, opp_read, crm_past, crm_drops>>,
         NEW o \in Opps, o # NoOpp, made' = [made EXCEPT ![m] = o],
         o <= Len(made_by'), Len(made_by') \in Nat, Len(made_by') >= Len(made_by),
         \/ /\ \E who \in Makers : Create(who)
            /\ o = Len(made_by) + 1
            /\ Deliver([kind |-> "OpportunityCreate", opp |-> o, phone |-> FALSE])
         \/ /\ \/ Deliver([kind |-> "OpportunityUpdate", opp |-> o, phone |-> FALSE])
               \/ UNCHANGED <<posts, crm_arq>>
            /\ UNCHANGED made_by
  PROVE  CrmInv'
<1>1. /\ mpc' \in [Movers -> {"idle", "read", "made"}]
      /\ opp_read' \in [Movers -> Opps \union {NoOpp}] /\ made' \in [Movers -> Opps \union {NoOpp}]
  BY CrmTypes
<1>2. \A n \in Movers :
        /\ mpc'[n] # "idle" => lead.known /\ opp_read'[n] <= Len(made_by')
        /\ mpc'[n] = "made" => made'[n] # NoOpp /\ made'[n] <= Len(made_by')
  <2> SUFFICES ASSUME NEW n \in Movers
               PROVE  /\ mpc'[n] # "idle" => lead.known /\ opp_read'[n] <= Len(made_by')
                      /\ mpc'[n] = "made" => made'[n] # NoOpp /\ made'[n] <= Len(made_by')
    OBVIOUS
  <2>1. /\ mpc[n] # "idle" => lead.known /\ opp_read[n] <= Len(made_by)
        /\ mpc[n] = "made" => made[n] # NoOpp /\ made[n] <= Len(made_by)
    BY DEF CrmInv, NotedSound
  <2>2. /\ mpc[n] # "idle" => lead.known /\ opp_read[n] <= Len(made_by')
        /\ mpc[n] = "made" => made[n] # NoOpp /\ made[n] <= Len(made_by')
    BY <2>1, CountTypes
  <2>3. CASE n = m
    BY <2>2, <2>3, CrmTypes
  <2>4. CASE n # m
    <3>1. mpc'[n] = mpc[n] /\ made'[n] = made[n] /\ opp_read'[n] = opp_read[n]
      BY <2>4, CrmTypes
    <3> QED BY <2>2, <3>1
  <2> QED BY <2>3, <2>4
<1>3. CASE (\E who \in Makers : Create(who)) /\ o = Len(made_by) + 1
           /\ Deliver([kind |-> "OpportunityCreate", opp |-> o, phone |-> FALSE])
  <2> DEFINE x == [kind |-> "OpportunityCreate", opp |-> o, phone |-> FALSE]
  <2>1. x \in Webhooks /\ x.kind = "OpportunityCreate" /\ x.opp = o /\ Deliver(x)
    BY <1>3 DEF Webhooks
  <2> HIDE DEF x
  <2> QED BY <1>1, <1>2, <1>3, <2>1, PostedStep
<1>4. CASE Deliver([kind |-> "OpportunityUpdate", opp |-> o, phone |-> FALSE]) /\ UNCHANGED made_by
  <2> DEFINE x == [kind |-> "OpportunityUpdate", opp |-> o, phone |-> FALSE]
  <2>1. x \in Webhooks /\ x.kind = "OpportunityUpdate" /\ x.opp = o /\ Deliver(x)
    BY <1>4 DEF Webhooks
  <2> HIDE DEF x
  <2> QED BY <1>1, <1>2, <1>4, <2>1, PostedStep
<1>5. CASE UNCHANGED <<posts, crm_arq>> /\ UNCHANGED made_by
  <2>1. UNCHANGED <<made_by, posts, crm_jobs, requeued, lead, threads, open, wpc, post, lead_read, inserted, heard,
                    born, handled, early, displaced, overtaken, forked, crm_drops>>
    BY <1>5 DEF crm_arq, crm_db, crm_workers, crm_past
  <2>2. CrmTypeOK'
    BY <1>1, <2>1 DEF CrmInv, CrmTypeOK
  <2>3. NotedSound'
    BY <1>2, <2>1 DEF CrmInv, NotedSound
  <2>4. PostsSound' /\ HandledByOne' /\ Displaced' /\ Announced' /\ ReadSound' /\ BornOnce' /\ OneThread'
    BY <2>1 DEF CrmInv, PostsSound, HandledByOne, Displaced, Announced, ReadSound, BornOnce, OneThread, OnLead, Creates
  <2> QED BY <2>2, <2>3, <2>4 DEF CrmInv
<1> QED BY <1>3, <1>4, <1>5

LEMMA MoverCallsStep == ASSUME CrmInv, NEW m \in Movers, MoverCalls(m) PROVE CrmInv'
<1>1. /\ mpc[m] = "read" /\ mpc' = [mpc EXCEPT ![m] = "made"]
      /\ UNCHANGED <<crm_db, crm_workers, opp_read, crm_past, crm_drops>>
  BY DEF MoverCalls
<1>2. CASE /\ Create("bot")
           /\ made' = [made EXCEPT ![m] = Len(made_by) + 1]
           /\ Deliver([kind |-> "OpportunityCreate", opp |-> Len(made_by) + 1, phone |-> FALSE])
  <2>1. /\ Len(made_by) + 1 \in Opps /\ Len(made_by) + 1 # NoOpp /\ Len(made_by') = Len(made_by) + 1
        /\ Len(made_by) \in Nat /\ Len(made_by') \in Nat /\ \E who \in Makers : Create(who)
    BY <1>2, CountTypes, CreateNext DEF Makers
  <2>2. Len(made_by') >= Len(made_by) /\ Len(made_by) + 1 <= Len(made_by')
    BY <2>1
  <2> QED BY <1>1, <1>2, <2>1, <2>2, CalledStep
<1>3. ASSUME NEW o \in IF opp_read[m] # NoOpp THEN {opp_read[m]} ELSE DOMAIN made_by,
             made' = [made EXCEPT ![m] = o],
             \/ Deliver([kind |-> "OpportunityUpdate", opp |-> o, phone |-> FALSE])
             \/ UNCHANGED <<posts, crm_arq>>,
             UNCHANGED made_by
      PROVE  CrmInv'
  <2>1. o \in Opps /\ o # NoOpp /\ o <= Len(made_by)
    <3>1. CASE opp_read[m] # NoOpp
      BY <1>1, <3>1, CrmTypes DEF CrmInv, NotedSound
    <3>2. CASE ~(opp_read[m] # NoOpp)
      BY <3>2, CrmTypes, CrmConst DEF Opps, NoOpp
    <3> QED BY <3>1, <3>2
  <2>2. o <= Len(made_by') /\ Len(made_by') \in Nat /\ Len(made_by') >= Len(made_by)
    BY <1>3, <2>1, CountTypes
  <2> QED BY <1>1, <1>3, <2>1, <2>2, CalledStep
<1> QED BY <1>2, <1>3 DEF MoverCalls


\* A handler that a step leaves alone has read what it had read.
LEMMA ReadKept ==
  ASSUME CrmInv, UNCHANGED <<crm_ghl, crm_workers>>,
         \A o \in Opps : heard[o] > 0 => heard'[o] > 0,
         \A o \in Opps : heard'[o] > 0 => heard[o] > 0,
         early \subseteq early', displaced \subseteq displaced', overtaken \subseteq overtaken',
         heard' \in [Opps -> Nat]
  PROVE  ReadSound'
<1>1. UNCHANGED <<made_by, posts, wpc, post, lead_read, inserted>>
  BY DEF crm_ghl, crm_workers
<1> SUFFICES ASSUME NEW w \in CrmWorkers, wpc[w] = "writing"
             PROVE  LET o == posts[post[w]].opp IN
                      /\ lead_read[w].opp # NoOpp => heard'[lead_read[w].opp] > 0 \/ lead_read[w].opp \in overtaken'
                      /\ o # NoOpp /\ lead_read[w].opp # o =>
                           /\ heard'[o] = 0 \/ o \in displaced'
                           /\ made_by[o] = "bot" => o \in early' \union displaced'
  BY <1>1 DEF ReadSound
<1> DEFINE o == posts[post[w]].opp
           r == lead_read[w].opp
<1>2. o \in Opps \union {NoOpp} /\ r \in Opps \union {NoOpp}
  BY CrmTypes DEF CrmInv, HandledByOne, Webhooks
<1>3. /\ r # NoOpp => heard[r] > 0 \/ r \in overtaken
      /\ o # NoOpp /\ r # o =>
           /\ heard[o] = 0 \/ o \in displaced
           /\ made_by[o] = "bot" => o \in early \union displaced
  BY DEF CrmInv, ReadSound
<1> HIDE DEF o, r
<1>4. r # NoOpp => heard'[r] > 0 \/ r \in overtaken'
  BY <1>2, <1>3
<1>5. o # NoOpp /\ r # o => heard'[o] = 0 \/ o \in displaced'
  <2>1. o \in Opps => heard'[o] \in Nat /\ heard[o] \in Nat
    BY CrmTypes
  <2>2. o \in Opps /\ heard'[o] # 0 => heard[o] # 0
    <3>1. \A n \in Nat : n # 0 <=> n > 0
      OBVIOUS
    <3> QED BY <2>1, <3>1
  <2> QED BY <1>2, <1>3, <2>2
<1>6. o # NoOpp /\ r # o => (made_by[o] = "bot" => o \in early' \union displaced')
  BY <1>3
<1> QED BY <1>4, <1>5, <1>6 DEF o, r

\* A job that is taken waits nowhere, or once more, and no handler has it.
LEMMA JobTaken ==
  ASSUME CrmInv, NEW i, NEW again \in BOOLEAN, Takes(i, again)
  PROVE  /\ i \in DOMAIN posts /\ crm_jobs' \union requeued' \subseteq crm_jobs \union requeued
         /\ crm_jobs' \intersect requeued' = {}
         /\ crm_jobs' \in SUBSET Posts /\ requeued' \in SUBSET Posts
         /\ ~(Creates(posts[i]) /\ ~posts[i].phone /\ ~ResolvesLead(posts[i])) => i \notin crm_jobs' \union requeued'
         /\ \A w \in CrmWorkers : wpc[w] = "writing" => post[w] # i
<1>1. /\ crm_jobs \union requeued \subseteq DOMAIN posts /\ crm_jobs \intersect requeued = {}
      /\ \A w \in CrmWorkers : wpc[w] = "writing" => post[w] \notin crm_jobs \union requeued
      /\ crm_jobs \in SUBSET Posts /\ requeued \in SUBSET Posts
  BY CrmTypes DEF CrmInv, HandledByOne
<1>2. CASE again
  BY <1>1, <1>2 DEF Takes
<1>3. CASE ~again
  BY <1>1, <1>3 DEF Takes
<1> QED BY <1>2, <1>3

LEMMA RedeliveryStep == ASSUME CrmInv, NEW i, Redelivery(i) PROVE CrmInv'
<1>1. /\ crm_drops < MaxCrmDrops /\ crm_drops' = crm_drops + 1 /\ i \in DOMAIN posts
      /\ i \notin crm_jobs \union requeued /\ crm_jobs' = crm_jobs \union {i} /\ requeued' = requeued
      /\ \A w \in CrmWorkers : wpc[w] = "idle" \/ post[w] # i
      /\ UNCHANGED <<made_by, posts, lead, threads, open, wpc, post, lead_read, inserted, mpc, opp_read, made, heard,
                     born, handled, early, displaced, overtaken, forked>>
      /\ UNCHANGED <<crm_ghl, crm_workers>>
  BY DEF Redelivery, CrmDrop, crm_ghl, crm_db, crm_workers, crm_movers, crm_past
<1>2. CrmTypeOK'
  <2>1. crm_jobs' \in SUBSET Posts /\ crm_drops' \in 0..MaxCrmDrops
    BY <1>1, CrmTypes, CrmConst DEF Posts
  <2> QED BY <1>1, <2>1 DEF CrmInv, CrmTypeOK
<1>3. HandledByOne'
  <2>1. crm_jobs' \union requeued' \subseteq DOMAIN posts /\ crm_jobs' \intersect requeued' = {}
    BY <1>1 DEF CrmInv, HandledByOne
  <2> QED BY <1>1, <2>1 DEF CrmInv, HandledByOne, Creates
<1>4. PostsSound' /\ NotedSound' /\ Displaced' /\ Announced' /\ BornOnce' /\ OneThread'
  BY <1>1 DEF CrmInv, PostsSound, NotedSound, Displaced, Announced, BornOnce, OneThread, OnLead
<1>5. ReadSound'
  BY <1>1, CrmTypes, ReadKept
<1> QED BY <1>2, <1>3, <1>4, <1>5 DEF CrmInv

LEMMA RetryStep == ASSUME CrmInv, NEW i, NEW again \in BOOLEAN, RetryOrDrop(i, again) PROVE CrmInv'
<1>1. /\ Takes(i, again)
      /\ UNCHANGED <<made_by, posts, lead, threads, open, wpc, post, lead_read, inserted, mpc, opp_read, made, heard,
                     born, handled, early, displaced, overtaken, forked, crm_drops>>
      /\ UNCHANGED <<crm_ghl, crm_workers>>
  BY DEF RetryOrDrop, crm_ghl, crm_db, crm_workers, crm_movers, crm_past
<1>2. CrmTypeOK'
  BY <1>1, JobTaken DEF CrmInv, CrmTypeOK
<1>3. HandledByOne'
  BY <1>1, JobTaken DEF CrmInv, HandledByOne, Creates
<1>4. PostsSound' /\ NotedSound' /\ Displaced' /\ Announced' /\ BornOnce' /\ OneThread'
  BY <1>1 DEF CrmInv, PostsSound, NotedSound, Displaced, Announced, BornOnce, OneThread, OnLead
<1>5. ReadSound'
  BY <1>1, CrmTypes, ReadKept
<1> QED BY <1>2, <1>3, <1>4, <1>5 DEF CrmInv

\* A create is read: what is not on the lead now was not heard of, was displaced, or is a
\* turn's that has not committed.
LEMMA HandleCreateStep ==
  ASSUME CrmInv, NEW w \in CrmWorkers, NEW i, NEW again \in BOOLEAN, HandleCreate(w, i, again)
  PROVE  CrmInv'
<1>1. /\ wpc[w] = "idle" /\ Takes(i, again) /\ Creates(posts[i])
      /\ (ResolvesLead(posts[i]) \/ (posts[i].phone /\ (lead.known \/ ~Inserting)))
      /\ wpc' = [wpc EXCEPT ![w] = "writing"] /\ post' = [post EXCEPT ![w] = i]
      /\ inserted' = [inserted EXCEPT ![w] = ~lead.known]
      /\ lead_read' = [lead_read EXCEPT ![w] = [opp |-> lead.opp, thread |-> threads > 0, of |-> threads]]
      /\ early' = early \union Unnoted(posts[i])
      /\ UNCHANGED <<made_by, posts, lead, threads, open, mpc, opp_read, made, heard, born, handled, displaced,
                     overtaken, forked, crm_drops>>
  BY DEF HandleCreate, FindsThread, crm_ghl, crm_db, crm_movers
<1>2. /\ i \in DOMAIN posts /\ crm_jobs' \union requeued' \subseteq crm_jobs \union requeued
      /\ crm_jobs' \intersect requeued' = {} /\ crm_jobs' \in SUBSET Posts /\ requeued' \in SUBSET Posts
      /\ i \notin crm_jobs' \union requeued' /\ \A v \in CrmWorkers : wpc[v] = "writing" => post[v] # i
  <2>1. ~(Creates(posts[i]) /\ ~posts[i].phone /\ ~ResolvesLead(posts[i]))
    BY <1>1
  <2> QED BY <1>1, <2>1, JobTaken
<1>3. /\ wpc'[w] = "writing" /\ post'[w] = i /\ inserted'[w] = ~lead.known
      /\ lead_read'[w] = [opp |-> lead.opp, thread |-> threads > 0, of |-> threads]
      /\ \A v \in CrmWorkers : v # w => /\ wpc'[v] = wpc[v] /\ post'[v] = post[v] /\ inserted'[v] = inserted[v]
                                        /\ lead_read'[v] = lead_read[v]
  BY <1>1, CrmTypes
<1>4. posts[i] \in Webhooks /\ posts[i].opp \in Opps \union {NoOpp} /\ Unnoted(posts[i]) \subseteq Opps
  BY <1>2, CrmTypes DEF Webhooks, Unnoted
<1>5. CrmTypeOK'
  <2>1. /\ post' \in [CrmWorkers -> Nat] /\ wpc' \in [CrmWorkers -> {"idle", "writing"}]
        /\ inserted' \in [CrmWorkers -> BOOLEAN] /\ early' \in SUBSET Opps
    BY <1>1, <1>2, <1>4, CrmTypes
  <2>2. [opp |-> lead.opp, thread |-> threads > 0, of |-> threads] \in [opp : Opps \union {NoOpp}, thread : BOOLEAN, of : Nat]
    BY CrmTypes
  <2>3. lead_read' \in [CrmWorkers -> [opp : Opps \union {NoOpp}, thread : BOOLEAN, of : Nat]]
    BY <1>1, <2>2, CrmTypes
  <2> QED BY <1>1, <1>2, <2>1, <2>3 DEF CrmInv, CrmTypeOK
<1>6. HandledByOne'
  <2>1. crm_jobs' \union requeued' \subseteq DOMAIN posts
    BY <1>2 DEF CrmInv, HandledByOne
  <2>2. ASSUME NEW v \in CrmWorkers, wpc'[v] = "writing"
        PROVE  /\ post'[v] \in DOMAIN posts /\ Creates(posts[post'[v]]) /\ post'[v] \notin crm_jobs' \union requeued'
               /\ \A u \in CrmWorkers : wpc'[u] = "writing" /\ post'[u] = post'[v] => u = v
    <3>1. CASE v = w
      BY <1>1, <1>2, <1>3, <3>1
    <3>2. CASE v # w
      BY <1>1, <1>2, <1>3, <2>2, <3>2 DEF CrmInv, HandledByOne
    <3> QED BY <3>1, <3>2
  <2> QED BY <1>1, <1>2, <2>1, <2>2 DEF HandledByOne, Creates
<1>7. PostsSound' /\ NotedSound' /\ Displaced' /\ Announced'
  BY <1>1 DEF CrmInv, PostsSound, NotedSound, Displaced, Announced, OnLead
<1>8. ReadSound'
  <2> SUFFICES ASSUME NEW v \in CrmWorkers, wpc'[v] = "writing"
               PROVE  LET o == posts[post'[v]].opp IN
                        /\ lead_read'[v].opp # NoOpp => heard[lead_read'[v].opp] > 0 \/ lead_read'[v].opp \in overtaken
                        /\ o # NoOpp /\ lead_read'[v].opp # o =>
                             /\ heard[o] = 0 \/ o \in displaced
                             /\ made_by[o] = "bot" => o \in early' \union displaced
    BY <1>1 DEF ReadSound
  <2>1. CASE v # w
    BY <1>1, <1>3, <2>1 DEF CrmInv, ReadSound
  <2>2. CASE v = w
    <3> DEFINE o == posts[i].opp
    <3>1. lead_read'[v].opp = lead.opp /\ posts[post'[v]].opp = o /\ o \in Opps \union {NoOpp}
      BY <1>3, <1>4, <2>2
    <3>2. lead.opp # NoOpp => heard[lead.opp] > 0 \/ lead.opp \in overtaken
      BY CrmTypes DEF CrmInv, Announced, OnLead
    <3>3. o # NoOpp /\ lead.opp # o => ~(heard[o] > 0 \/ o \in overtaken) \/ o \in displaced
      BY <3>1 DEF CrmInv, Displaced, OnLead
    <3>4. o # NoOpp => heard[o] > 0 \/ heard[o] = 0
      BY <3>1, CountTypes
    <3>5. o # NoOpp /\ made_by[o] = "bot" /\ o \notin overtaken => o \in early'
      BY <1>1 DEF Unnoted
    <3> HIDE DEF o
    <3>6. o # NoOpp /\ lead.opp # o =>
             /\ heard[o] = 0 \/ o \in displaced
             /\ made_by[o] = "bot" => o \in early' \union displaced
      BY <3>3, <3>4, <3>5
    <3> QED BY <3>1, <3>2, <3>6
  <2> QED BY <2>1, <2>2
<1>9. BornOnce'
  <2>0. /\ born' = born /\ lead' = lead /\ born <= 1 /\ (born > 0 => lead.known)
        /\ \A v \in CrmWorkers : wpc'[v] = "writing" => inserted'[v] \/ lead.known
    <3>1. \A v \in CrmWorkers : wpc[v] = "writing" => inserted[v] \/ lead.known
      BY DEF CrmInv, BornOnce
    <3>2. \A v \in CrmWorkers : wpc'[v] = "writing" => inserted'[v] \/ lead.known
      BY <1>3, <3>1
    <3> QED BY <1>1, <3>2 DEF CrmInv, BornOnce
  <2>1. CASE lead.known
    <3>1. \A v \in CrmWorkers : ~inserted'[v]
      BY <1>1, <1>3, <2>1 DEF CrmInv, BornOnce
    <3> QED BY <2>0, <3>1 DEF BornOnce
  <2>2. CASE ~lead.known
    <3>1. \A v \in CrmWorkers : ~inserted[v]
      BY <1>1, <2>2 DEF ResolvesLead, Inserting
    <3>2. \A v \in CrmWorkers : inserted'[v] => v = w
      BY <1>3, <3>1
    <3> QED BY <1>3, <2>0, <2>2, <3>2 DEF BornOnce
  <2> QED BY <2>1, <2>2
<1>10. OneThread'
  BY <1>1, <1>3, CrmTypes DEF CrmInv, OneThread
<1> QED BY <1>5, <1>6, <1>7, <1>8, <1>9, <1>10 DEF CrmInv


\* An opportunity is noted on the lead, by an update or by a turn.
LEMMA NotedStep ==
  ASSUME CrmInv, NEW o \in Opps, o <= Len(made_by), o # NoOpp, lead.known, NEW contact \in BOOLEAN,
         Stashes(o, contact), Displaces(o), overtaken' = overtaken \union ({o} \ handled),
         UNCHANGED <<crm_ghl, threads, open, crm_workers, heard, born, handled, early, forked, crm_drops>>,
         crm_jobs' \in SUBSET Posts, requeued' \in SUBSET Posts, HandledByOne',
         mpc' \in [Movers -> {"idle", "read", "made"}],
         opp_read' \in [Movers -> Opps \union {NoOpp}], made' \in [Movers -> Opps \union {NoOpp}],
         \A m \in Movers : UNCHANGED <<mpc[m], opp_read[m], made[m]>> \/ mpc'[m] = "idle"
  PROVE  CrmInv'
<1>0. /\ lead' = [known |-> TRUE, contact |-> contact, opp |-> o]
      /\ displaced' = displaced \union ({lead.opp} \ {NoOpp, o}) /\ overtaken' = overtaken \union ({o} \ handled)
      /\ UNCHANGED <<made_by, posts, threads, open, wpc, post, lead_read, inserted, heard, born, handled, early,
                     forked, crm_drops>>
  BY DEF Stashes, Displaces, crm_ghl, crm_workers
<1>1. CrmTypeOK'
  <2>1. lead' \in [known : BOOLEAN, contact : BOOLEAN, opp : Opps \union {NoOpp}]
    BY <1>0
  <2>2. displaced' \in SUBSET Opps /\ overtaken' \in SUBSET Opps
    BY <1>0, CrmTypes
  <2> QED BY <1>0, <2>1, <2>2 DEF CrmInv, CrmTypeOK
<1>2. OnLead' = {o} /\ lead'.opp = o /\ lead'.known
  BY <1>0 DEF OnLead
<1>3. \A p \in OnLead : p \in {o} \union displaced'
  BY <1>0, CrmTypes DEF OnLead, Opps, NoOpp
<1>4. Displaced'
  <2>1. \A p \in Opps : heard[p] > 0 \/ p \in overtaken => p \in OnLead \union displaced
    BY DEF CrmInv, Displaced
  <2>2. \A p \in Opps : p \in OnLead \union displaced => p \in {o} \union displaced'
    BY <1>0, <1>3
  <2> QED BY <1>0, <1>2, <2>1, <2>2 DEF Displaced
<1>5. Announced'
  <2>1. o \in handled => heard[o] > 0 \/ o \in overtaken
    BY DEF CrmInv, Announced
  <2>2. heard[o] > 0 \/ o \in overtaken'
    BY <1>0, <2>1
  <2>3. /\ \A p \in handled : heard[p] > 0 \/ p \in overtaken
        /\ \A p \in Opps : heard[p] > 1 => p \in displaced
        /\ \A p \in Opps : heard[p] > 0 /\ made_by[p] = "bot" => p \in early \union displaced
    BY DEF CrmInv, Announced
  <2> QED BY <1>0, <1>2, <2>2, <2>3 DEF Announced
<1>6. ReadSound'
  <2>1. heard' = heard /\ early \subseteq early' /\ displaced \subseteq displaced' /\ overtaken \subseteq overtaken'
    BY <1>0
  <2> QED BY <2>1, CrmTypes, ReadKept
<1>7. NotedSound'
  <2>1. \A m \in Movers : /\ mpc[m] # "idle" => lead.known /\ opp_read[m] <= Len(made_by)
                          /\ mpc[m] = "made" => made[m] # NoOpp /\ made[m] <= Len(made_by)
    BY DEF CrmInv, NotedSound
  <2>2. \A m \in Movers : /\ mpc'[m] # "idle" => opp_read'[m] <= Len(made_by)
                          /\ mpc'[m] = "made" => made'[m] # NoOpp /\ made'[m] <= Len(made_by)
    BY <2>1
  <2> QED BY <1>0, <1>2, <2>2 DEF CrmInv, NotedSound
<1>8. PostsSound' /\ BornOnce' /\ OneThread'
  BY <1>0, <1>2 DEF CrmInv, PostsSound, BornOnce, OneThread
<1> QED BY <1>1, <1>4, <1>5, <1>6, <1>7, <1>8 DEF CrmInv

LEMMA TakenByNone ==
  ASSUME CrmInv, NEW i, Takes(i, FALSE), UNCHANGED <<posts, crm_workers>>
  PROVE  HandledByOne'
<1>1. /\ crm_jobs' \union requeued' \subseteq crm_jobs \union requeued /\ crm_jobs' \intersect requeued' = {}
  BY JobTaken
<1>2. UNCHANGED <<posts, wpc, post>>
  BY DEF crm_workers
<1> QED BY <1>1, <1>2 DEF CrmInv, HandledByOne, Creates

LEMMA UpdateSyncsStep == ASSUME CrmInv, NEW i, UpdateSyncs(i) PROVE CrmInv'
<1>1. /\ Takes(i, FALSE) /\ posts[i].kind = "OpportunityUpdate"
      /\ UNCHANGED <<crm_ghl, threads, open, crm_workers, crm_movers, heard, born, handled, early, forked, crm_drops>>
      /\ UNCHANGED <<made_by, posts, wpc, post, lead_read, inserted, mpc, opp_read, made>>
  BY DEF UpdateSyncs, crm_ghl, crm_workers, crm_movers
<1>2. i \in DOMAIN posts /\ crm_jobs' \in SUBSET Posts /\ requeued' \in SUBSET Posts /\ HandledByOne'
  BY <1>1, JobTaken, TakenByNone
<1>3. posts[i].opp \in Opps /\ posts[i].opp # NoOpp /\ posts[i].opp <= Len(made_by)
  BY <1>1, <1>2, CrmTypes DEF CrmInv, PostsSound, Webhooks
<1>4. CASE ResolvesLead(posts[i])
  <2>1. /\ Stashes(posts[i].opp, lead.contact) /\ Displaces(posts[i].opp)
        /\ overtaken' = overtaken \union ({posts[i].opp} \ handled)
    BY <1>4 DEF UpdateSyncs
  <2>2. lead.known /\ lead.contact \in BOOLEAN
    BY <1>4, CrmTypes DEF ResolvesLead
  <2> QED BY <1>1, <1>2, <1>3, <2>1, <2>2, CrmTypes, NotedStep
<1>5. CASE ~ResolvesLead(posts[i])
  <2>1. UNCHANGED <<lead, displaced, overtaken>>
    BY <1>5 DEF UpdateSyncs
  <2>2. CrmTypeOK'
    BY <1>1, <1>2, <2>1 DEF CrmInv, CrmTypeOK
  <2>3. PostsSound' /\ NotedSound' /\ Displaced' /\ Announced' /\ BornOnce' /\ OneThread'
    BY <1>1, <2>1 DEF CrmInv, PostsSound, NotedSound, Displaced, Announced, BornOnce, OneThread, OnLead
  <2>4. ReadSound'
    BY <1>1, <2>1, CrmTypes, ReadKept
  <2> QED BY <1>2, <2>2, <2>3, <2>4 DEF CrmInv
<1> QED BY <1>4, <1>5

LEMMA MoverEnded ==
  ASSUME CrmInv, NEW m \in Movers, MoverEnds(m)
  PROVE  /\ mpc' \in [Movers -> {"idle", "read", "made"}]
         /\ opp_read' \in [Movers -> Opps \union {NoOpp}] /\ made' \in [Movers -> Opps \union {NoOpp}]
         /\ \A n \in Movers : UNCHANGED <<mpc[n], opp_read[n], made[n]>> \/ mpc'[n] = "idle"
BY CrmTypes DEF MoverEnds

LEMMA MoverCommitsStep == ASSUME CrmInv, NEW m \in Movers, MoverCommits(m) PROVE CrmInv'
<1>1. /\ mpc[m] = "made" /\ Stashes(made[m], lead.contact) /\ Displaces(made[m])
      /\ overtaken' = overtaken \union ({made[m]} \ handled) /\ MoverEnds(m)
      /\ UNCHANGED <<crm_ghl, threads, open, crm_workers, heard, born, handled, early, forked, crm_drops>>
      /\ UNCHANGED <<crm_jobs, requeued, posts, wpc, post>>
  BY DEF MoverCommits, crm_arq, crm_ghl, crm_workers
<1>2. made[m] \in Opps /\ made[m] # NoOpp /\ made[m] <= Len(made_by) /\ lead.known /\ lead.contact \in BOOLEAN
  BY <1>1, CrmTypes DEF CrmInv, NotedSound
<1>3. HandledByOne' /\ crm_jobs' \in SUBSET Posts /\ requeued' \in SUBSET Posts
  BY <1>1, CrmTypes DEF CrmInv, HandledByOne, Creates
<1> QED BY <1>1, <1>2, <1>3, MoverEnded, NotedStep

LEMMA MoverElsewhereStep ==
  ASSUME CrmInv, NEW m \in Movers, MoverReads(m) \/ MoverFails(m)
  PROVE  CrmInv'
<1>1. /\ UNCHANGED <<made_by, posts, crm_jobs, requeued, lead, threads, open, wpc, post, lead_read, inserted, heard,
                     born, handled, early, displaced, overtaken, forked>>
      /\ UNCHANGED <<crm_ghl, crm_workers>>
  BY DEF MoverReads, MoverFails, crm_ghl, crm_arq, crm_db, crm_workers, crm_past
<1>2. crm_drops' \in 0..MaxCrmDrops
  BY CrmTypes, CrmConst DEF MoverReads, MoverFails, CrmDrop
<1>3. /\ mpc' \in [Movers -> {"idle", "read", "made"}]
      /\ opp_read' \in [Movers -> Opps \union {NoOpp}] /\ made' \in [Movers -> Opps \union {NoOpp}]
      /\ \A n \in Movers : \/ UNCHANGED <<mpc[n], opp_read[n], made[n]>> \/ mpc'[n] = "idle"
                           \/ mpc'[n] = "read" /\ opp_read'[n] = lead.opp /\ lead.known
  <2>1. CASE MoverReads(m)
    BY <2>1, CrmTypes DEF MoverReads
  <2>2. CASE MoverFails(m)
    BY <2>2, MoverEnded DEF MoverFails
  <2> QED BY <2>1, <2>2
<1>4. CrmTypeOK'
  BY <1>1, <1>2, <1>3 DEF CrmInv, CrmTypeOK
<1>5. NotedSound'
  BY <1>1, <1>3 DEF CrmInv, NotedSound
<1>6. PostsSound' /\ HandledByOne' /\ Displaced' /\ Announced' /\ BornOnce' /\ OneThread'
  BY <1>1 DEF CrmInv, PostsSound, HandledByOne, Displaced, Announced, BornOnce, OneThread, OnLead, Creates
<1>7. ReadSound'
  BY <1>1, CrmTypes, ReadKept
<1> QED BY <1>4, <1>5, <1>6, <1>7 DEF CrmInv

\* A call, a message, a closure: the lead keeps its opportunity.
LEMMA ThreadsStep ==
  ASSUME CrmInv, (\E i \in Posts : CallOutcome(i)) \/ Inbound_crm \/ CloseIdle_crm
  PROVE  CrmInv'
<1>1. /\ UNCHANGED <<made_by, posts, wpc, post, lead_read, inserted, mpc, opp_read, made, heard,
                     born, handled, early, displaced, overtaken>>
      /\ UNCHANGED <<crm_ghl, crm_workers>>
  BY DEF CallOutcome, Inbound_crm, CloseIdle_crm, crm_ghl, crm_db, crm_workers, crm_movers, crm_past
<1>2. crm_drops' \in 0..MaxCrmDrops /\ open' \in BOOLEAN /\ threads' \in Nat /\ forked' \in BOOLEAN
      /\ (threads' > 1 => forked')
  <2>1. threads \in Nat /\ open \in BOOLEAN /\ forked \in BOOLEAN /\ (threads > 1 => forked)
        /\ crm_drops \in 0..MaxCrmDrops
    BY CrmTypes DEF CrmInv, OneThread
  <2>2. CASE \E i \in Posts : CallOutcome(i)
    <3>1. PICK i \in Posts : CallOutcome(i)
      BY <2>2
    <3>2. /\ threads' = (IF open THEN threads ELSE threads + 1) /\ open' = TRUE /\ crm_drops' = crm_drops
          /\ (forked' <=> forked \/ (threads > 0 /\ ~open)) /\ forked' \in BOOLEAN
      BY <3>1 DEF CallOutcome
    <3>3. forked' \in BOOLEAN /\ open' \in BOOLEAN /\ threads' \in Nat /\ crm_drops' \in 0..MaxCrmDrops
      BY <2>1, <3>2
    <3>4. CASE open
      BY <2>1, <3>2, <3>3, <3>4
    <3>5. CASE ~open
      <4>1. threads > 0 => forked'
        BY <3>2, <3>5
      <4>2. threads' = threads + 1
        BY <3>2, <3>5
      <4> QED BY <2>1, <3>3, <4>1, <4>2
    <3> QED BY <3>4, <3>5
  <2>3. CASE Inbound_crm
    BY <2>1, <2>3 DEF Inbound_crm, crm_past
  <2>4. CASE CloseIdle_crm
    <3>1. /\ crm_drops < MaxCrmDrops /\ crm_drops' = crm_drops + 1 /\ open' = FALSE
          /\ threads' = threads /\ forked' = forked
      BY <2>4 DEF CloseIdle_crm, CrmDrop, crm_past
    <3>2. crm_drops' \in 0..MaxCrmDrops
      BY <2>1, <3>1, CrmConst
    <3> QED BY <2>1, <3>1, <3>2
  <2> QED BY <2>2, <2>3, <2>4
<1>3. HandledByOne' /\ crm_jobs' \in SUBSET Posts /\ requeued' \in SUBSET Posts
  <2>1. CASE \E i \in Posts : CallOutcome(i)
    BY <1>1, <2>1, JobTaken, TakenByNone DEF CallOutcome
  <2>2. CASE Inbound_crm \/ CloseIdle_crm
    <3>1. UNCHANGED <<crm_jobs, requeued>>
      BY <2>2 DEF Inbound_crm, CloseIdle_crm, crm_arq
    <3> QED BY <1>1, <3>1, CrmTypes DEF CrmInv, HandledByOne, Creates
  <2> QED BY <2>1, <2>2
<1>4. /\ lead' \in [known : BOOLEAN, contact : BOOLEAN, opp : Opps \union {NoOpp}] /\ lead'.opp = lead.opp
      /\ (lead.known => lead'.known) /\ (Inserting => lead'.known = lead.known)
  BY CrmTypes DEF CallOutcome, Inbound_crm, CloseIdle_crm, crm_db
<1>5. CrmTypeOK'
  BY <1>1, <1>2, <1>3, <1>4 DEF CrmInv, CrmTypeOK
<1>6. PostsSound' /\ NotedSound' /\ Displaced' /\ Announced'
  BY <1>1, <1>4 DEF CrmInv, PostsSound, NotedSound, Displaced, Announced, OnLead
<1>7. BornOnce' /\ OneThread'
  BY <1>1, <1>2, <1>4 DEF CrmInv, BornOnce, OneThread, Inserting
<1>8. ReadSound'
  BY <1>1, CrmTypes, ReadKept
<1> QED BY <1>3, <1>5, <1>6, <1>7, <1>8 DEF CrmInv

LEMMA HandlerEnded ==
  ASSUME CrmInv, NEW w \in CrmWorkers, HandlerEnds(w)
  PROVE  /\ wpc' \in [CrmWorkers -> {"idle", "writing"}] /\ post' \in [CrmWorkers -> Nat]
         /\ inserted' \in [CrmWorkers -> BOOLEAN]
         /\ lead_read' \in [CrmWorkers -> [opp : Opps \union {NoOpp}, thread : BOOLEAN, of : Nat]]
         /\ wpc'[w] = "idle" /\ ~inserted'[w]
         /\ \A v \in CrmWorkers : v # w => UNCHANGED <<wpc[v], post[v], inserted[v], lead_read[v]>>
<1>1. NothingRead \in [opp : Opps \union {NoOpp}, thread : BOOLEAN, of : Nat]
  BY DEF NothingRead
<1> QED BY <1>1, CrmTypes DEF HandlerEnds

LEMMA OthersHandle ==
  ASSUME CrmInv, NEW w \in CrmWorkers, HandlerEnds(w), UNCHANGED <<crm_jobs, requeued, posts>>
  PROVE  HandledByOne'
BY HandlerEnded DEF CrmInv, HandledByOne, Creates

LEMMA HandlerFailsStep == ASSUME CrmInv, NEW w \in CrmWorkers, HandlerFails(w) PROVE CrmInv'
<1>1. /\ UNCHANGED <<made_by, posts, crm_jobs, requeued, lead, threads, open, mpc, opp_read, made, heard, born,
                     handled, early, displaced, overtaken, forked>>
      /\ HandlerEnds(w) /\ crm_drops < MaxCrmDrops /\ crm_drops' = crm_drops + 1
  BY DEF HandlerFails, CrmDrop, crm_ghl, crm_arq, crm_db, crm_movers, crm_past
<1>2. CrmTypeOK'
  <2>1. crm_drops' \in 0..MaxCrmDrops
    BY <1>1, CrmTypes, CrmConst
  <2> QED BY <1>1, <2>1, HandlerEnded DEF CrmInv, CrmTypeOK
<1>3. HandledByOne'
  BY <1>1, OthersHandle
<1>4. PostsSound' /\ NotedSound' /\ Displaced' /\ Announced'
  BY <1>1 DEF CrmInv, PostsSound, NotedSound, Displaced, Announced, OnLead
<1>5. ReadSound' /\ BornOnce' /\ OneThread'
  <2>1. \A v \in CrmWorkers : wpc'[v] = "writing" \/ inserted'[v]
          => v # w /\ UNCHANGED <<wpc[v], post[v], inserted[v], lead_read[v]>>
    BY <1>1, HandlerEnded
  <2> QED BY <1>1, <2>1 DEF CrmInv, ReadSound, BornOnce, OneThread
<1> QED BY <1>2, <1>3, <1>4, <1>5 DEF CrmInv


\* The create of an opportunity is over: its event goes out, unless it was on the lead.
LEMMA CreateCommitsStep == ASSUME CrmInv, NEW w \in CrmWorkers, CreateCommits(w) PROVE CrmInv'
<1> DEFINE x == posts[post[w]]
           read == lead_read[w].opp
           told == Emits(w) # {}
           new == IF Emits(w) = {} THEN lead.opp ELSE x.opp
<1>1. /\ wpc[w] = "writing" /\ HandlerEnds(w)
      /\ lead' = [known |-> TRUE, contact |-> TRUE, opp |-> new]
      /\ displaced' = displaced \union ({lead.opp} \ {NoOpp, new})
      /\ heard' = [o \in Opps |-> heard[o] + IF o \in Emits(w) THEN 1 ELSE 0]
      /\ handled' = handled \union ({x.opp} \ {NoOpp})
      /\ born' = born + (IF inserted[w] THEN 1 ELSE 0)
      /\ threads' = (IF lead_read[w].thread THEN threads ELSE threads + 1)
      /\ (forked' <=> forked \/ threads # lead_read[w].of) /\ open' = TRUE
      /\ UNCHANGED <<made_by, posts, crm_jobs, requeued, mpc, opp_read, made, early, overtaken, crm_drops>>
  BY DEF CreateCommits, Stashes, Displaces, crm_ghl, crm_arq, crm_movers
<1>2. /\ post[w] \in DOMAIN posts /\ x \in Webhooks /\ Creates(x) /\ x.opp <= Len(made_by)
      /\ x.opp \in Opps \union {NoOpp} /\ (x.kind = "OpportunityCreate" <=> x.opp # NoOpp)
  <2>1. post[w] \in DOMAIN posts /\ Creates(x)
    BY <1>1 DEF CrmInv, HandledByOne
  <2>2. x \in Webhooks /\ x.kind \in {"ContactCreate", "OpportunityCreate"}
    BY <2>1, CrmTypes DEF Creates
  <2> HIDE DEF x
  <2>3. x.opp \in Opps \union {NoOpp}
    BY <2>2 DEF Webhooks
  <2>4. /\ x.opp <= Len(made_by)
        /\ x.kind \in {"OpportunityCreate", "OpportunityUpdate"} => x.opp # NoOpp
        /\ x.kind \in {"ContactCreate", "CallFailed"} => x.opp = NoOpp
    BY <2>1 DEF CrmInv, PostsSound, x
  <2> QED BY <2>1, <2>2, <2>3, <2>4
<1>3. Emits(w) = IF x.opp # NoOpp /\ read # x.opp THEN {x.opp} ELSE {}
  BY <1>2 DEF Emits, Echo
<1>4. read # NoOpp => heard[read] > 0 \/ read \in overtaken
  BY <1>1 DEF CrmInv, ReadSound
<1>5. x.opp # NoOpp /\ read # x.opp => /\ heard[x.opp] = 0 \/ x.opp \in displaced
                                       /\ made_by[x.opp] = "bot" => x.opp \in early \union displaced
  BY <1>1 DEF CrmInv, ReadSound
<1>6. told => x.opp # NoOpp /\ read # x.opp /\ Emits(w) = {x.opp} /\ new = x.opp /\ x.opp \in Opps
  BY <1>2, <1>3
<1>7. ~told => Emits(w) = {} /\ new = lead.opp /\ (x.opp = NoOpp \/ x.opp = read)
  BY <1>3
<1> DEFINE its == x.opp
<1>8. /\ \A o \in Opps : heard[o] \in Nat /\ heard'[o] \in Nat /\ heard'[o] >= heard[o]
      /\ \A o \in Opps : o # its \/ ~told => heard'[o] = heard[o]
      /\ told => heard'[its] = heard[its] + 1
  <2>1. \A o \in Opps : heard'[o] = heard[o] + (IF o \in Emits(w) THEN 1 ELSE 0)
    BY <1>1
  <2>2. \A o \in Opps : o \in Emits(w) <=> told /\ o = its
    BY <1>6, <1>7
  <2> HIDE DEF told, its
  <2>3. \A o \in Opps : heard'[o] = heard[o] + (IF told /\ o = its THEN 1 ELSE 0) /\ heard[o] \in Nat
    BY <2>1, <2>2, CountTypes
  <2>4. told => its \in Opps
    BY <1>6 DEF its
  <2> QED BY <2>3, <2>4
<1>9. new \in Opps \union {NoOpp} /\ new <= Len(made_by)
  <2>1. lead.opp \in Opps \union {NoOpp} /\ lead.opp <= Len(made_by)
    BY CrmTypes DEF CrmInv, NotedSound
  <2> QED BY <1>2, <2>1
<1>10. /\ \A v \in CrmWorkers : wpc'[v] = "writing" \/ inserted'[v]
            => v # w /\ UNCHANGED <<wpc[v], post[v], inserted[v], lead_read[v]>>
  BY <1>1, HandlerEnded
<1>11. (its # NoOpp => its \in Opps /\ its \in DOMAIN made_by)
  BY <1>2, CrmTypes, CountTypes DEF Opps, NoOpp
<1>12. lead' \in [known : BOOLEAN, contact : BOOLEAN, opp : Opps \union {NoOpp}] /\ lead'.known /\ lead'.opp = new
  BY <1>1, <1>9
<1> HIDE DEF x, read, told, new, its
<1>13. CrmTypeOK'
  <2>1. heard' \in [Opps -> Nat]
    <3>1. \A o \in Opps : heard[o] + (IF o \in Emits(w) THEN 1 ELSE 0) \in Nat
      BY CountTypes
    <3> QED BY <1>1, <3>1
  <2>2. displaced' \in SUBSET Opps /\ handled' \in SUBSET Opps
    BY <1>1, <1>2, CrmTypes
  <2>3. born' \in Nat /\ threads' \in Nat /\ forked' \in BOOLEAN /\ open' \in BOOLEAN
    BY <1>1, CrmTypes DEF CreateCommits
  <2> QED BY <1>1, <1>12, <2>1, <2>2, <2>3, HandlerEnded DEF CrmInv, CrmTypeOK
<1>14. HandledByOne' /\ PostsSound'
  BY <1>1, OthersHandle DEF CrmInv, PostsSound
<1>15. OnLead' = {new} \ {NoOpp} /\ \A o \in OnLead : o \in OnLead' \union displaced'
  <2>1. NoOpp \notin Opps
    BY DEF Opps, NoOpp
  <2> QED BY <1>1, <1>9, <1>12, <2>1 DEF OnLead
<1>16. Displaced'
  <2> SUFFICES ASSUME NEW o \in Opps, heard'[o] > 0 \/ o \in overtaken
               PROVE  o \in OnLead' \union displaced'
    BY <1>1 DEF Displaced
  <2>1. CASE told /\ o = its
    <3>1. new = o /\ o # NoOpp
      BY <1>6, <2>1 DEF its
    <3> QED BY <1>15, <3>1
  <2>2. CASE ~(told /\ o = its)
    <3>1. heard'[o] = heard[o]
      BY <1>8, <2>2
    <3>2. o \in OnLead \union displaced
      BY <3>1 DEF CrmInv, Displaced
    <3> QED BY <1>1, <1>15, <3>2
  <2> QED BY <2>1, <2>2
<1>17. \A o \in Opps : heard[o] > 0 => heard'[o] > 0
  BY <1>8
<1>18. Announced'
  <2>1. ASSUME NEW o \in OnLead' \union handled' PROVE heard'[o] > 0 \/ o \in overtaken
    <3>0. o \in Opps
      BY <1>1, <1>2, CrmTypes DEF OnLead
    <3>1. CASE told /\ o = its
      BY <1>8, <3>0, <3>1
    <3>2. CASE ~(told /\ o = its)
      <4>1. o \in OnLead \union handled \/ o = read
        <5>1. CASE told
          <6>1. OnLead' \subseteq {its} /\ handled' \subseteq handled \union {its}
            BY <1>1, <1>6, <1>15, <5>1 DEF its
          <6> QED BY <2>1, <3>2, <5>1, <6>1
        <5>2. CASE ~told
          <6>1. new = lead.opp /\ (x.opp = NoOpp \/ x.opp = read)
            BY <1>7, <5>2
          <6>2. o \in OnLead' => o \in OnLead
            BY <1>15, <3>0, <6>1 DEF OnLead
          <6>3. o \in handled' => o \in handled \/ o = read
            BY <1>1, <6>1
          <6> QED BY <2>1, <6>2, <6>3
        <5> QED BY <5>1, <5>2
      <4>2. o # NoOpp
        BY <3>0 DEF Opps, NoOpp
      <4>3. heard[o] > 0 \/ o \in overtaken
        BY <1>4, <4>1, <4>2 DEF CrmInv, Announced
      <4> QED BY <1>17, <3>0, <4>3
    <3> QED BY <3>1, <3>2
  <2>2. ASSUME NEW o \in Opps
        PROVE  /\ heard'[o] > 1 => o \in displaced
               /\ heard'[o] > 0 /\ made_by[o] = "bot" => o \in early \union displaced
    <3>1. CASE told /\ o = its
      <4>1. heard[o] = 0 \/ o \in displaced
        BY <1>5, <1>6, <3>1 DEF its
      <4>2. made_by[o] = "bot" => o \in early \union displaced
        BY <1>5, <1>6, <3>1 DEF its
      <4> QED BY <1>8, <3>1, <4>1, <4>2
    <3>2. CASE ~(told /\ o = its)
      <4>1. heard'[o] = heard[o]
        BY <1>8, <3>2
      <4> QED BY <4>1 DEF CrmInv, Announced
    <3> QED BY <3>1, <3>2
  <2>3. displaced \subseteq displaced'
    BY <1>1
  <2> QED BY <1>1, <2>1, <2>2, <2>3 DEF Announced
<1>19. ReadSound'
  <2> SUFFICES ASSUME NEW v \in CrmWorkers, v # w, wpc[v] = "writing"
               PROVE  LET o == posts[post[v]].opp IN
                        /\ lead_read[v].opp # NoOpp => heard'[lead_read[v].opp] > 0 \/ lead_read[v].opp \in overtaken
                        /\ o # NoOpp /\ lead_read[v].opp # o =>
                             /\ heard'[o] = 0 \/ o \in displaced'
                             /\ made_by[o] = "bot" => o \in early \union displaced'
    BY <1>1, <1>10 DEF ReadSound
  <2> DEFINE ofOpp == posts[post[v]].opp
             readOpp == lead_read[v].opp
  <2>1. /\ post[v] \in DOMAIN posts /\ post[v] # post[w] /\ ofOpp \in Opps \union {NoOpp}
        /\ readOpp \in Opps \union {NoOpp}
        /\ posts[post[v]].kind \in {"ContactCreate", "OpportunityCreate"}
    BY <1>1, CrmTypes DEF CrmInv, HandledByOne, Webhooks, Creates
  <2>2. ofOpp # NoOpp => ofOpp # its
    <3>1. ofOpp # NoOpp => posts[post[v]].kind = "OpportunityCreate"
      BY <2>1 DEF CrmInv, PostsSound
    <3>2. its # NoOpp => posts[post[w]].kind = "OpportunityCreate" /\ its = posts[post[w]].opp
      BY <1>2 DEF its, x
    <3> QED BY <1>2, <2>1, <3>1, <3>2 DEF CrmInv, PostsSound
  <2>3. /\ readOpp # NoOpp => heard[readOpp] > 0 \/ readOpp \in overtaken
        /\ ofOpp # NoOpp /\ readOpp # ofOpp =>
             /\ heard[ofOpp] = 0 \/ ofOpp \in displaced
             /\ made_by[ofOpp] = "bot" => ofOpp \in early \union displaced
    BY DEF CrmInv, ReadSound
  <2> HIDE DEF ofOpp, readOpp
  <2>4. readOpp # NoOpp => heard'[readOpp] > 0 \/ readOpp \in overtaken
    BY <1>17, <2>1, <2>3
  <2>5. ofOpp # NoOpp => heard'[ofOpp] = heard[ofOpp]
    BY <1>8, <2>1, <2>2
  <2>6. displaced \subseteq displaced'
    BY <1>1
  <2>7. ofOpp # NoOpp /\ readOpp # ofOpp =>
          /\ heard'[ofOpp] = 0 \/ ofOpp \in displaced'
          /\ made_by[ofOpp] = "bot" => ofOpp \in early \union displaced'
    BY <2>3, <2>5, <2>6
  <2> QED BY <2>4, <2>7 DEF ofOpp, readOpp
<1>20. NotedSound'
  <2>1. handled' \subseteq DOMAIN made_by
    BY <1>1, <1>11 DEF CrmInv, NotedSound, its
  <2>2. \A o \in Opps : heard'[o] > 0 => o \in DOMAIN made_by
    <3> SUFFICES ASSUME NEW o \in Opps, heard'[o] > 0 PROVE o \in DOMAIN made_by
      OBVIOUS
    <3>1. CASE told /\ o = its
      BY <1>6, <1>11, <3>1 DEF its
    <3>2. CASE ~(told /\ o = its)
      BY <1>8, <3>2 DEF CrmInv, NotedSound
    <3> QED BY <3>1, <3>2
  <2> QED BY <1>1, <1>9, <1>12, <2>1, <2>2 DEF CrmInv, NotedSound
<1>21. BornOnce'
  <2>1. CASE inserted[w]
    <3>1. ~lead.known /\ born = 0 /\ \A v \in CrmWorkers : inserted[v] => v = w
      BY <2>1, CrmTypes DEF CrmInv, BornOnce
    <3>2. \A v \in CrmWorkers : ~inserted'[v]
      BY <1>10, <3>1
    <3> QED BY <1>1, <1>12, <2>1, <3>1, <3>2 DEF BornOnce
  <2>2. CASE ~inserted[w]
    <3>1. lead.known /\ born' = born
      BY <1>1, <2>2, CrmTypes DEF CrmInv, BornOnce
    <3>2. \A v \in CrmWorkers : ~inserted'[v]
      BY <1>10, <3>1 DEF CrmInv, BornOnce
    <3> QED BY <1>12, <3>1, <3>2 DEF CrmInv, BornOnce
  <2> QED BY <2>1, <2>2
<1>22. OneThread'
  <2>1. threads' > 1 => forked'
    <3>1. CASE lead_read[w].thread
      BY <1>1, <3>1, CrmTypes DEF CrmInv, OneThread
    <3>2. CASE ~lead_read[w].thread
      <4>1. lead_read[w].of = 0 \/ ~(lead_read[w].of > 0)
        BY <1>1, <3>2 DEF CrmInv, OneThread
      <4>2. lead_read[w].of \in Nat /\ threads \in Nat
        BY CrmTypes
      <4>3. CASE threads = 0
        BY <1>1, <3>2, <4>3
      <4>4. CASE threads # 0
        <5>1. threads # lead_read[w].of
          BY <4>1, <4>2, <4>4
        <5> QED BY <1>1, <5>1
      <4> QED BY <4>3, <4>4
    <3> QED BY <3>1, <3>2
  <2> QED BY <1>1, <1>10, <2>1 DEF CrmInv, OneThread
<1> QED BY <1>13, <1>14, <1>16, <1>18, <1>19, <1>20, <1>21, <1>22 DEF CrmInv

LEMMA CrmInvNext == CrmInv /\ [CrmNext]_crmVars => CrmInv'
<1> SUFFICES ASSUME CrmInv, [CrmNext]_crmVars PROVE CrmInv'
  OBVIOUS
<1>1. CASE MerchantActs
  BY <1>1, MerchantActsStep
<1>2. CASE Inbound_crm \/ CloseIdle_crm
  BY <1>2, ThreadsStep
<1>3. ASSUME NEW i \in Posts, Redelivery(i) \/ UpdateSyncs(i) \/ CallOutcome(i) PROVE CrmInv'
  BY <1>3, RedeliveryStep, UpdateSyncsStep, ThreadsStep
<1>4. ASSUME NEW i \in Posts, NEW again \in BOOLEAN, RetryOrDrop(i, again) PROVE CrmInv'
  BY <1>4, RetryStep
<1>5. ASSUME NEW i \in Posts, NEW again \in BOOLEAN, NEW w \in CrmWorkers, HandleCreate(w, i, again) PROVE CrmInv'
  BY <1>5, HandleCreateStep
<1>6. ASSUME NEW w \in CrmWorkers, CreateCommits(w) \/ HandlerFails(w) PROVE CrmInv'
  BY <1>6, CreateCommitsStep, HandlerFailsStep
<1>7. ASSUME NEW m \in Movers, MoverReads(m) \/ MoverCalls(m) \/ MoverCommits(m) \/ MoverFails(m) PROVE CrmInv'
  BY <1>7, MoverElsewhereStep, MoverCallsStep, MoverCommitsStep
<1>8. CASE UNCHANGED crmVars
  <2>1. UNCHANGED <<made_by, posts, crm_jobs, requeued, lead, threads, open, wpc, post, lead_read, inserted, mpc,
                    opp_read, made, heard, born, handled, early, displaced, overtaken, forked, crm_drops>>
    BY <1>8 DEF crmVars, crm_ghl, crm_arq, crm_db, crm_workers, crm_movers, crm_past
  <2>2. CrmTypeOK'
    BY <2>1 DEF CrmInv, CrmTypeOK
  <2>3. PostsSound' /\ HandledByOne' /\ NotedSound' /\ Displaced' /\ Announced'
    BY <2>1 DEF CrmInv, PostsSound, HandledByOne, NotedSound, Displaced, Announced, OnLead, Creates
  <2>4. ReadSound' /\ BornOnce' /\ OneThread'
    BY <2>1 DEF CrmInv, ReadSound, BornOnce, OneThread
  <2> QED BY <2>2, <2>3, <2>4 DEF CrmInv
<1> QED BY <1>1, <1>2, <1>3, <1>4, <1>5, <1>6, <1>7, <1>8 DEF CrmNext

\* However webhooks of the CRM are duplicated, overtaken and echoed, and however many handlers
\* and turns overlap: an opportunity starts its flows once, and one of the bot never, with the
\* exceptions that CrmSafe names; and the lead is born once.
THEOREM CrmCorrect == CrmSpec => []CrmSafe
<1>1. CrmInv => CrmSafe
  <2> SUFFICES ASSUME CrmInv PROVE CrmSafe
    OBVIOUS
  <2>1. ASSUME NEW o \in DOMAIN made_by
        PROVE  /\ heard[o] > (IF made_by[o] = "bot" THEN 0 ELSE 1) => o \in early \union displaced
               /\ made_by[o] = "merchant" /\ o \in handled \ overtaken => heard[o] > 0
    <3>1. o \in Opps
      BY CrmTypes, CrmConst DEF Opps
    <3>2. /\ o \in handled => heard[o] > 0 \/ o \in overtaken
          /\ heard[o] > 1 => o \in displaced
          /\ heard[o] > 0 /\ made_by[o] = "bot" => o \in early \union displaced
      BY <3>1 DEF CrmInv, Announced
    <3> QED BY <3>2
  <2> QED BY <2>1 DEF CrmSafe, CrmInv, BornOnce, OneThread
<1> QED BY <1>1, CrmInvInit, CrmInvNext, PTL DEF CrmSpec

====
