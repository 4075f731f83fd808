------------------------------- MODULE Channels -------------------------------
(***************************************************************************)
(* The WhatsApp rows of the integrations table: the router notifies that a *)
(* merchant connected a number, or that the key of its channel was         *)
(* rotated; a daily check writes to the rows that it read.                 *)
(*                                                                         *)
(* A transaction that reads before it writes is two steps: what another    *)
(* one committed in between is invisible to the read, and rows that it has *)
(* written make it wait.                                                   *)
(***************************************************************************)
EXTENDS Integers, FiniteSets

CONSTANTS Merchants,
          Numbers,     \* phone_number_id
          Connectors,  \* requests of whatsapp_connected that may overlap
          MaxKeys,     \* bound: keys that are issued
          MaxChannelDrops  \* bound: disconnections, health checks

ASSUME ChannelsAssumption == {MaxKeys, MaxChannelDrops} \subseteq Nat

Issued == 1..MaxKeys
NoRow == [present |-> FALSE]
Row(n, k) == [present |-> TRUE, number |-> n, key |-> k]
NoNotice == [none |-> TRUE]

VARIABLES
  \* 360dialog and the router
  key_of,      \* the number of each key issued so far, in order
  notices,     \* notifications that the router still delivers
  \* integrations, provider whatsapp
  channel,
  \* requests of the router
  cpc, notice,
  stale,       \* rows of other merchants that the request has deleted
  \* the health check
  checking, seen_number,
  \* history
  overlapped,  \* two requests for one number ran at once
  clobbered,   \* the health check wrote over a newer row
  channel_drops

channelsVars == <<key_of, notices, channel, cpc, notice, stale, checking, seen_number,
                  overlapped, clobbered, channel_drops>>

ChannelsTypeOK ==
  /\ key_of \in [1..Cardinality(DOMAIN key_of) -> Numbers]
  /\ \A m \in Merchants :
       channel[m] # NoRow => channel[m].number \in Numbers /\ channel[m].key \in Issued
  /\ \A x \in notices : x.merchant \in Merchants /\ x.number \in Numbers /\ x.key \in Issued
  /\ cpc \in [Connectors -> {"idle", "writing"}]
  /\ stale \in [Connectors -> SUBSET Merchants]
  /\ checking \in SUBSET Merchants
  /\ seen_number \in [checking -> Numbers]
  /\ {overlapped, clobbered} \subseteq BOOLEAN
  /\ channel_drops \in 0..MaxChannelDrops

ChannelsInit ==
  /\ key_of = <<>>
  /\ notices = {}
  /\ channel = [m \in Merchants |-> NoRow]
  /\ cpc = [c \in Connectors |-> "idle"]
  /\ notice = [c \in Connectors |-> NoNotice]
  /\ stale = [c \in Connectors |-> {}]
  /\ checking = {}
  /\ seen_number = <<>>
  /\ overlapped = FALSE
  /\ clobbered = FALSE
  /\ channel_drops = 0

ChannelDrop == channel_drops < MaxChannelDrops /\ channel_drops' = channel_drops + 1

-----------------------------------------------------------------------------

\* A merchant goes through the signup, or the key of its channel is rotated: the router
\* holds a new key, and will notify.
RouterIssues(m, n) ==
  /\ Cardinality(DOMAIN key_of) < MaxKeys
  /\ LET k == Cardinality(DOMAIN key_of) + 1
     IN /\ key_of' = [i \in 1..k |-> IF i = k THEN n ELSE key_of[i]]
        /\ notices' = notices \union {[merchant |-> m, number |-> n, key |-> k]}
  /\ UNCHANGED <<channel, cpc, notice, stale, checking, seen_number,
                 overlapped, clobbered, channel_drops>>

\* Rows that an open transaction has written.
Locked_rows(c) == UNION {stale[d] \union {notice[d].merchant} : d \in {d \in Connectors \ {c} : cpc[d] # "idle"}}

\* Mutant: the number is not taken from the merchant that had it.
KeptWithFormerOwner(n, m) == {}

FormerOwners(n, m) == {x \in Merchants \ {m} : channel[x] # NoRow /\ channel[x].number = n}

\* whatsapp_connected, upsert_whatsapp: rows of other merchants with the number are
\* deleted, and its own is locked by the update.  The router may deliver again.
Connect_wa(c, x) ==
  /\ cpc[c] = "idle"
  /\ x \in notices
  /\ ({x.merchant} \union FormerOwners(x.number, x.merchant)) \intersect Locked_rows(c) = {}
  /\ notices' \in {notices, notices \ {x}}
  /\ cpc' = [cpc EXCEPT ![c] = "writing"]
  /\ notice' = [notice EXCEPT ![c] = x]
  /\ stale' = [stale EXCEPT ![c] = FormerOwners(x.number, x.merchant)]
  /\ overlapped' = (overlapped \/ \E d \in Connectors : cpc[d] # "idle" /\ notice[d].number = x.number)
  /\ UNCHANGED <<key_of, channel, checking, seen_number, clobbered, channel_drops>>

Connected(c) ==
  /\ cpc[c] = "writing"
  /\ channel' = [m \in Merchants |->
       IF m = notice[c].merchant THEN Row(notice[c].number, notice[c].key)
       ELSE IF m \in stale[c] THEN NoRow ELSE channel[m]]
  /\ cpc' = [cpc EXCEPT ![c] = "idle"]
  /\ notice' = [notice EXCEPT ![c] = NoNotice]
  /\ stale' = [stale EXCEPT ![c] = {}]
  /\ clobbered' = (clobbered \/ notice[c].merchant \in checking)
  /\ UNCHANGED <<key_of, notices, checking, seen_number, overlapped, channel_drops>>

Disconnect_wa(m) ==
  /\ ChannelDrop
  /\ channel[m] # NoRow
  /\ \A c \in Connectors : cpc[c] # "idle" => m \notin stale[c] \union {notice[c].merchant}
  /\ channel' = [channel EXCEPT ![m] = NoRow]
  /\ UNCHANGED <<key_of, notices, cpc, notice, stale, checking, seen_number, overlapped,
                 clobbered>>

\* integration_health_check: it reads the active rows ...
HealthReads ==
  /\ ChannelDrop
  /\ checking = {}
  /\ checking' = {m \in Merchants : channel[m] # NoRow}
  /\ checking' # {}
  /\ seen_number' = [m \in checking' |-> channel[m].number]
  /\ UNCHANGED <<key_of, notices, channel, cpc, notice, stale, overlapped, clobbered>>

\* ... and writes their meta, with the number in it, as a whole.  A row that was deleted
\* meanwhile fails the transaction.
HealthWrites ==
  /\ checking # {}
  /\ checking \intersect UNION {stale[c] \union {notice[c].merchant} :
                                  c \in {c \in Connectors : cpc[c] # "idle"}} = {}
  /\ channel' = IF \E m \in checking : channel[m] = NoRow THEN channel
                ELSE [m \in Merchants |->
                        IF m \in checking THEN [channel[m] EXCEPT !.number = seen_number[m]]
                        ELSE channel[m]]
  /\ checking' = {}
  /\ seen_number' = <<>>
  /\ UNCHANGED <<key_of, notices, cpc, notice, stale, overlapped, clobbered, channel_drops>>

\* resolve_whatsapp, for a message that came in for a number.
Resolved(n) == {m \in Merchants : channel[m] # NoRow /\ channel[m].number = n}

-----------------------------------------------------------------------------

ChannelsNext ==
  \/ \E m \in Merchants : Disconnect_wa(m) \/ \E n \in Numbers : RouterIssues(m, n)
  \/ \E c \in Connectors : Connected(c) \/ \E x \in notices : Connect_wa(c, x)
  \/ HealthReads \/ HealthWrites

ChannelsSpec == ChannelsInit /\ [][ChannelsNext]_channelsVars

-----------------------------------------------------------------------------
(* Properties. *)

\* A message for a number goes to one merchant, with a key of that number, whoever had it
\* before, unless two connections of one number ran at once, or the health check of the
\* rows ran across one.
ChannelsSafe ==
  /\ ChannelsTypeOK
  /\ overlapped \/ clobbered \/ \A n \in Numbers : Cardinality(Resolved(n)) <= 1
  /\ clobbered \/ \A m \in Merchants :
       channel[m] # NoRow => key_of[channel[m].key] = channel[m].number

=============================================================================
