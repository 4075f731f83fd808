---------------------------- MODULE Channels_proofs ----------------------------
(***************************************************************************)
(* The channels over which the bot writes, for every number of merchants,  *)
(* of requests and of submissions: the WhatsApp rows, the Slack webhook    *)
(* and the templates; the turn that writes, for every number of bubbles,   *)
(* of rounds with the model and of turns; the sweeps over silent threads,  *)
(* for every set of automations and every delay; and the walk, for every   *)
(* set of graphs.                                                          *)
(***************************************************************************)
EXTENDS Channels, SlackChannel, Templates, Turn, Outreach, FiniteSetTheorems, WellFoundedInduction, TLAPS

-----------------------------------------------------------------------------
(* The WhatsApp rows. *)

ChannelRows == [present : {TRUE}, number : Numbers, key : Issued]
Notices == [merchant : Merchants, number : Numbers, key : Issued]

ChannelShapes ==
  /\ channel \in [Merchants -> {NoRow} \union ChannelRows]
  /\ notices \subseteq Notices
  /\ \A c \in Connectors : cpc[c] = "writing" => notice[c] \in Notices
  /\ notice \in [Connectors -> {NoNotice} \union Notices]

\* The router has issued the keys 1 to k.
KeysIssued ==
  \E k \in 0..MaxKeys : DOMAIN key_of = 1..k /\ key_of \in [1..k -> Numbers]

\* A key is one of the number that it comes with.
KeyOfNumber(n, k) == k \in DOMAIN key_of /\ key_of[k] = n

KeysMatch ==
  /\ \A x \in notices : KeyOfNumber(x.number, x.key)
  /\ \A c \in Connectors : cpc[c] = "writing" => KeyOfNumber(notice[c].number, notice[c].key)
  /\ ~clobbered => \A m \in Merchants :
       channel[m] # NoRow => KeyOfNumber(channel[m].number, channel[m].key)

\* What the health check has read of a row is still true.
SeenIsTrue ==
  ~clobbered => \A m \in checking : channel[m] # NoRow => seen_number[m] = channel[m].number

\* One request at a time has a number, and knows every other merchant who has it.
OthersAreStale ==
  ~overlapped =>
    /\ \A c, d \in Connectors :
         cpc[c] = "writing" /\ cpc[d] = "writing" /\ c # d => notice[c].number # notice[d].number
    /\ ~clobbered => \A c \in Connectors, m \in Merchants :
         cpc[c] = "writing" /\ channel[m] # NoRow /\ channel[m].number = notice[c].number
           => m \in stale[c] \union {notice[c].merchant}

\* A number belongs to one merchant.
OneOwner ==
  ~overlapped /\ ~clobbered =>
    \A m, p \in Merchants :
      channel[m] # NoRow /\ channel[p] # NoRow /\ channel[m].number = channel[p].number => m = p

ChannelsInv ==
  /\ ChannelsTypeOK /\ ChannelShapes /\ KeysIssued
  /\ KeysMatch /\ SeenIsTrue /\ OthersAreStale /\ OneOwner

LEMMA ChannelsInitInv == ChannelsInit => ChannelsInv
<1> SUFFICES ASSUME ChannelsInit PROVE ChannelsInv
  OBVIOUS
<1> USE ChannelsAssumption DEF ChannelsInit
<1>1. KeysIssued
  BY DEF KeysIssued
<1>2. ChannelsTypeOK
  <2>1. Cardinality(DOMAIN key_of) = 0
    BY FS_EmptySet
  <2>2. key_of \in [1..0 -> Numbers]
    OBVIOUS
  <2>3. seen_number \in [checking -> Numbers]
    OBVIOUS
  <2>4. {overlapped, clobbered} \subseteq BOOLEAN
    OBVIOUS
  <2>5. channel_drops \in 0..MaxChannelDrops
    OBVIOUS
  <2> QED BY <2>1, <2>2, <2>3, <2>4, <2>5 DEF ChannelsTypeOK
<1>3. ChannelShapes /\ KeysMatch /\ SeenIsTrue /\ OthersAreStale /\ OneOwner
  BY DEF ChannelShapes, KeysMatch, SeenIsTrue, OthersAreStale, OneOwner
<1> QED BY <1>1, <1>2, <1>3 DEF ChannelsInv

\* The keys of the router are numbered without a gap.
LEMMA KeysCounted ==
  ASSUME KeysIssued
  PROVE  /\ Cardinality(DOMAIN key_of) \in 0..MaxKeys
         /\ DOMAIN key_of = 1..Cardinality(DOMAIN key_of)
         /\ key_of \in [DOMAIN key_of -> Numbers]
<1>1. PICK k \in 0..MaxKeys : DOMAIN key_of = 1..k /\ key_of \in [1..k -> Numbers]
  BY DEF KeysIssued
<1>2. Cardinality(1..k) = k
  BY <1>1, FS_Interval, ChannelsAssumption
<1> QED BY <1>1, <1>2

\* A new key leaves the others as they are.
LEMMA ChannelsIssue ==
  ASSUME ChannelsInv, NEW m \in Merchants, NEW n \in Numbers, RouterIssues(m, n)
  PROVE  ChannelsInv'
<1> USE ChannelsAssumption
<1>0. PICK k \in 1..MaxKeys : k = Cardinality(DOMAIN key_of) + 1
  BY KeysCounted DEF ChannelsInv, RouterIssues
<1> DEFINE x == [merchant |-> m, number |-> n, key |-> k]
<1>1. /\ DOMAIN key_of = 1..(k - 1) /\ key_of \in [1..(k - 1) -> Numbers]
      /\ key_of' = [i \in 1..k |-> IF i = k THEN n ELSE key_of[i]]
      /\ notices' = notices \union {x}
      /\ UNCHANGED <<channel, cpc, notice, stale, checking, seen_number, overlapped, clobbered,
                     channel_drops>>
  BY <1>0, KeysCounted DEF ChannelsInv, RouterIssues
<1>2. DOMAIN key_of' = 1..k /\ key_of' \in [1..k -> Numbers]
  BY <1>1
<1>3. KeysIssued'
  BY <1>1, <1>2 DEF KeysIssued
<1>4. Cardinality(DOMAIN key_of') = k
  <2>1. Cardinality(1..k) = k
    BY <1>1, FS_Interval
  <2> QED BY <2>1, <1>2
<1>5. ChannelsTypeOK' /\ ChannelShapes'
  <2>1. x \in Notices
    BY <1>1 DEF Notices, Issued
  <2>2. notices' \subseteq Notices
    BY <2>1, <1>1 DEF ChannelsInv, ChannelShapes
  <2>3. ChannelShapes'
    BY <2>2, <1>1 DEF ChannelsInv, ChannelShapes
  <2>4. \A y \in notices' : y.merchant \in Merchants /\ y.number \in Numbers /\ y.key \in Issued
    BY <2>2 DEF Notices
  <2> QED BY <2>3, <2>4, <1>1, <1>2, <1>4 DEF ChannelsInv, ChannelsTypeOK
<1>6. KeysMatch'
  <2>1. \A l, j : KeyOfNumber(l, j) => KeyOfNumber(l, j)'
    BY <1>1 DEF KeyOfNumber
  <2>2. KeyOfNumber(x.number, x.key)'
    BY <1>1, <1>2 DEF KeyOfNumber
  <2> HIDE DEF x
  <2>3. \A y \in notices' : KeyOfNumber(y.number, y.key)'
    BY <2>1, <2>2, <1>1 DEF ChannelsInv, KeysMatch
  <2>4. UNCHANGED <<cpc, notice, clobbered, channel>>
    BY <1>1
  <2> QED BY <2>1, <2>3, <2>4 DEF ChannelsInv, KeysMatch
<1>7. SeenIsTrue' /\ OthersAreStale' /\ OneOwner'
  BY <1>1 DEF ChannelsInv, SeenIsTrue, OthersAreStale, OneOwner
<1> QED BY <1>3, <1>5, <1>6, <1>7 DEF ChannelsInv

\* A request reads who else has the number, before it writes.
LEMMA ChannelsConnect ==
  ASSUME ChannelsInv, NEW c \in Connectors, NEW x \in notices, Connect_wa(c, x)
  PROVE  ChannelsInv'
<1>1. /\ x \in Notices /\ KeyOfNumber(x.number, x.key)
      /\ notices' \subseteq notices
      /\ cpc' = [cpc EXCEPT ![c] = "writing"]
      /\ notice' = [notice EXCEPT ![c] = x]
      /\ stale' = [stale EXCEPT ![c] = FormerOwners(x.number, x.merchant)]
      /\ overlapped' = (overlapped \/ \E d \in Connectors :
                                       cpc[d] # "idle" /\ notice[d].number = x.number)
      /\ UNCHANGED <<key_of, channel, checking, seen_number, clobbered, channel_drops>>
  BY DEF ChannelsInv, ChannelShapes, KeysMatch, Connect_wa
<1>2. ChannelsTypeOK'
  <2>1. FormerOwners(x.number, x.merchant) \in SUBSET Merchants
    BY DEF FormerOwners
  <2>2. overlapped' \in BOOLEAN
    BY <1>1 DEF ChannelsInv, ChannelsTypeOK
  <2>3. cpc' \in [Connectors -> {"idle", "writing"}] /\ stale' \in [Connectors -> SUBSET Merchants]
    BY <2>1, <1>1 DEF ChannelsInv, ChannelsTypeOK
  <2> QED BY <2>2, <2>3, <1>1 DEF ChannelsInv, ChannelsTypeOK
<1>3. ChannelShapes' /\ KeysIssued'
  BY <1>1 DEF ChannelsInv, ChannelsTypeOK, ChannelShapes, KeysIssued
<1>4. KeysMatch' /\ SeenIsTrue' /\ OneOwner'
  BY <1>1 DEF ChannelsInv, ChannelsTypeOK, ChannelShapes, KeysMatch, KeyOfNumber, SeenIsTrue, OneOwner
<1>5. OthersAreStale'
  <2>1. notice'[c] = x /\ stale'[c] = FormerOwners(x.number, x.merchant)
    BY <1>1 DEF ChannelsInv, ChannelsTypeOK, ChannelShapes
  <2>2. \A d \in Connectors \ {c} :
          cpc'[d] = cpc[d] /\ notice'[d] = notice[d] /\ stale'[d] = stale[d]
    BY <1>1 DEF ChannelsInv, ChannelsTypeOK, ChannelShapes
  <2>3. ~overlapped' => ~overlapped /\ \A d \in Connectors :
                                         cpc[d] = "writing" => notice[d].number # x.number
    BY <1>1
  <2>4. \A m \in Merchants : channel[m] # NoRow /\ channel[m].number = x.number
                               => m \in stale'[c] \union {x.merchant}
    BY <2>1 DEF FormerOwners
  <2> QED BY <2>1, <2>2, <2>3, <2>4, <1>1 DEF ChannelsInv, OthersAreStale
<1> QED BY <1>2, <1>3, <1>4, <1>5 DEF ChannelsInv

\* Its commit takes the number from those it found, and nobody else has it.
LEMMA ChannelsConnected ==
  ASSUME ChannelsInv, NEW c \in Connectors, Connected(c)
  PROVE  ChannelsInv'
<1> DEFINE owner == notice[c].merchant
<1>1. /\ cpc[c] = "writing" /\ notice[c] \in Notices /\ owner \in Merchants
      /\ KeyOfNumber(notice[c].number, notice[c].key)
      /\ Row(notice[c].number, notice[c].key) \in ChannelRows
      /\ Row(notice[c].number, notice[c].key) # NoRow
  BY DEF ChannelsInv, ChannelShapes, KeysMatch, Connected, Notices, ChannelRows, Row, NoRow
<1>2. /\ channel'[owner] = Row(notice[c].number, notice[c].key)
      /\ \A m \in Merchants \ {owner} :
           channel'[m] = IF m \in stale[c] THEN NoRow ELSE channel[m]
      /\ channel' \in [Merchants -> {NoRow} \union ChannelRows]
  BY <1>1 DEF ChannelsInv, ChannelShapes, Connected
<1>3. /\ cpc'[c] = "idle"
      /\ \A d \in Connectors \ {c} :
           cpc'[d] = cpc[d] /\ notice'[d] = notice[d] /\ stale'[d] = stale[d]
      /\ cpc' \in [Connectors -> {"idle", "writing"}]
      /\ notice' \in [Connectors -> {NoNotice} \union Notices]
      /\ stale' \in [Connectors -> SUBSET Merchants]
  BY DEF ChannelsInv, ChannelsTypeOK, ChannelShapes, Connected
<1>4. /\ clobbered' = (clobbered \/ owner \in checking) /\ clobbered' \in BOOLEAN
      /\ UNCHANGED <<key_of, notices, checking, seen_number, overlapped, channel_drops>>
  BY DEF ChannelsInv, ChannelsTypeOK, Connected
<1>5. /\ Row(notice[c].number, notice[c].key).number = notice[c].number
      /\ Row(notice[c].number, notice[c].key).key = notice[c].key
  BY DEF Row
<1> HIDE DEF owner
<1>6. ChannelsTypeOK' /\ ChannelShapes' /\ KeysIssued'
  <2>1. \A m \in Merchants :
          channel'[m] # NoRow => channel'[m].number \in Numbers /\ channel'[m].key \in Issued
    BY <1>2 DEF ChannelRows
  <2>2. ChannelsTypeOK'
    BY <2>1, <1>3, <1>4 DEF ChannelsInv, ChannelsTypeOK
  <2>3. ChannelShapes'
    BY <1>2, <1>3, <1>4 DEF ChannelsInv, ChannelShapes
  <2> QED BY <2>2, <2>3, <1>4 DEF ChannelsInv, KeysIssued
<1>7. KeysMatch'
  <2>1. \A l, j : KeyOfNumber(l, j)' <=> KeyOfNumber(l, j)
    BY <1>4 DEF KeyOfNumber
  <2> QED BY <2>1, <1>1, <1>2, <1>3, <1>4, <1>5 DEF ChannelsInv, KeysMatch
<1>8. SeenIsTrue'
  BY <1>2, <1>4 DEF ChannelsInv, ChannelsTypeOK, SeenIsTrue
<1>9. OthersAreStale' /\ OneOwner'
  <2> SUFFICES ASSUME ~overlapped PROVE OthersAreStale' /\ OneOwner'
    BY <1>4 DEF OthersAreStale, OneOwner
  <2>1. \A d \in Connectors \ {c} : cpc[d] = "writing" => notice[d].number # notice[c].number
    BY <1>1 DEF ChannelsInv, OthersAreStale
  <2>2. OthersAreStale'
    <3>1. \A d \in Connectors : cpc'[d] = "writing" =>
            d # c /\ cpc[d] = "writing" /\ notice'[d] = notice[d] /\ stale'[d] = stale[d]
      BY <1>3
    <3>2. ASSUME ~clobbered', NEW d \in Connectors, NEW m \in Merchants,
                 cpc'[d] = "writing", channel'[m] # NoRow, channel'[m].number = notice'[d].number
          PROVE  m \in stale'[d] \union {notice'[d].merchant}
      <4>1. m # owner
        BY <3>1, <3>2, <2>1, <1>2, <1>5
      <4>2. channel'[m] = channel[m] /\ ~clobbered
        BY <4>1, <3>2, <1>2, <1>4
      <4> QED BY <4>2, <3>1, <3>2 DEF ChannelsInv, OthersAreStale
    <3>3. \A d, e \in Connectors :
            cpc'[d] = "writing" /\ cpc'[e] = "writing" /\ d # e
              => notice'[d].number # notice'[e].number
      BY <3>1 DEF ChannelsInv, OthersAreStale
    <3> QED BY <3>2, <3>3 DEF OthersAreStale
  <2>3. ~clobbered => \A m \in Merchants \ {owner} :
          channel'[m] # NoRow => channel'[m] = channel[m] /\ channel[m].number # notice[c].number
    BY <1>1, <1>2 DEF ChannelsInv, OthersAreStale, owner
  <2>4. OneOwner'
    BY <2>3, <1>2, <1>4, <1>5 DEF ChannelsInv, OneOwner
  <2> QED BY <2>2, <2>4
<1> QED BY <1>6, <1>7, <1>8, <1>9 DEF ChannelsInv

\* A row that goes breaks nothing.
LEMMA ChannelsDisconnect ==
  ASSUME ChannelsInv, NEW m \in Merchants, Disconnect_wa(m)
  PROVE  ChannelsInv'
<1>1. /\ channel' = [channel EXCEPT ![m] = NoRow]
      /\ channel_drops' \in 0..MaxChannelDrops
      /\ UNCHANGED <<key_of, notices, cpc, notice, stale, checking, seen_number, overlapped,
                     clobbered>>
  BY ChannelsAssumption DEF ChannelsInv, ChannelsTypeOK, Disconnect_wa, ChannelDrop
<1>2. /\ channel' \in [Merchants -> {NoRow} \union ChannelRows]
      /\ \A p \in Merchants : channel'[p] # NoRow => channel'[p] = channel[p]
  BY <1>1 DEF ChannelsInv, ChannelShapes
<1>3. ChannelsTypeOK' /\ ChannelShapes' /\ KeysIssued'
  BY <1>1, <1>2 DEF ChannelsInv, ChannelsTypeOK, ChannelShapes, KeysIssued
<1>4. KeysMatch' /\ SeenIsTrue' /\ OthersAreStale' /\ OneOwner'
  BY <1>1, <1>2
  DEF ChannelsInv, ChannelsTypeOK, KeysMatch, KeyOfNumber, SeenIsTrue, OthersAreStale, OneOwner
<1> QED BY <1>3, <1>4 DEF ChannelsInv

\* The health check reads; unless a row was connected since, its write changes nothing.
LEMMA ChannelsHealth ==
  ASSUME ChannelsInv, HealthReads \/ HealthWrites
  PROVE  ChannelsInv'
<1>1. CASE HealthReads
  <2>1. /\ checking' = {m \in Merchants : channel[m] # NoRow}
        /\ seen_number' = [m \in checking' |-> channel[m].number]
        /\ channel_drops' \in 0..MaxChannelDrops
        /\ UNCHANGED <<key_of, notices, channel, cpc, notice, stale, overlapped, clobbered>>
    BY <1>1, ChannelsAssumption DEF ChannelsInv, ChannelsTypeOK, HealthReads, ChannelDrop
  <2>2. checking' \in SUBSET Merchants /\ seen_number' \in [checking' -> Numbers]
    BY <2>1 DEF ChannelsInv, ChannelsTypeOK
  <2>3. ChannelsTypeOK' /\ ChannelShapes' /\ KeysIssued'
    BY <2>1, <2>2 DEF ChannelsInv, ChannelsTypeOK, ChannelShapes, KeysIssued
  <2>4. KeysMatch' /\ SeenIsTrue' /\ OthersAreStale' /\ OneOwner'
    BY <2>1 DEF ChannelsInv, KeysMatch, KeyOfNumber, SeenIsTrue, OthersAreStale, OneOwner
  <2> QED BY <2>3, <2>4 DEF ChannelsInv
<1>2. CASE HealthWrites
  <2>1. /\ checking' = {} /\ seen_number' = <<>>
        /\ UNCHANGED <<key_of, notices, cpc, notice, stale, overlapped, clobbered, channel_drops>>
    BY <1>2 DEF HealthWrites
  <2>2. /\ channel' \in [Merchants -> {NoRow} \union ChannelRows]
        /\ \A m \in Merchants : channel'[m] # NoRow =>
             /\ channel'[m] \in ChannelRows /\ channel[m] # NoRow
             /\ channel'[m] = channel[m]
                  \/ (m \in checking /\ channel'[m] = [channel[m] EXCEPT !.number = seen_number[m]])
    <3>1. CASE channel' = channel
      BY <3>1 DEF ChannelsInv, ChannelShapes
    <3>2. CASE /\ \A m \in checking : channel[m] # NoRow
               /\ channel' = [m \in Merchants |->
                    IF m \in checking THEN [channel[m] EXCEPT !.number = seen_number[m]]
                    ELSE channel[m]]
      <4>1. \A m \in checking : /\ m \in Merchants /\ channel[m] \in ChannelRows
                                /\ seen_number[m] \in Numbers
        BY <3>2 DEF ChannelsInv, ChannelsTypeOK, ChannelShapes
      <4>2. \A m \in checking : [channel[m] EXCEPT !.number = seen_number[m]] \in ChannelRows
        BY <4>1 DEF ChannelRows
      <4> QED BY <3>2, <4>2 DEF ChannelsInv, ChannelShapes
    <3> QED BY <3>1, <3>2, <1>2 DEF HealthWrites
  <2>3. ~clobbered => \A m \in Merchants : channel'[m] # NoRow => channel'[m] = channel[m]
    <3> SUFFICES ASSUME ~clobbered, NEW m \in Merchants, channel'[m] # NoRow, m \in checking,
                        channel'[m] = [channel[m] EXCEPT !.number = seen_number[m]]
                 PROVE  channel'[m] = channel[m]
      BY <2>2
    <3>1. channel[m] \in ChannelRows /\ seen_number[m] = channel[m].number
      BY <2>2 DEF ChannelsInv, ChannelShapes, SeenIsTrue
    <3> QED BY <3>1 DEF ChannelRows
  <2>4. ChannelsTypeOK' /\ ChannelShapes' /\ KeysIssued'
    <3>1. \A m \in Merchants :
            channel'[m] # NoRow => channel'[m].number \in Numbers /\ channel'[m].key \in Issued
      BY <2>2 DEF ChannelRows
    <3>2. ChannelsTypeOK'
      BY <2>1, <3>1 DEF ChannelsInv, ChannelsTypeOK
    <3> QED BY <3>2, <2>1, <2>2 DEF ChannelsInv, ChannelShapes, KeysIssued
  <2>5. KeysMatch' /\ SeenIsTrue' /\ OthersAreStale' /\ OneOwner'
    BY <2>1, <2>2, <2>3 DEF ChannelsInv, KeysMatch, KeyOfNumber, SeenIsTrue, OthersAreStale, OneOwner
  <2> QED BY <2>4, <2>5 DEF ChannelsInv
<1> QED BY <1>1, <1>2

LEMMA ChannelsInvStep == ChannelsInv /\ [ChannelsNext]_channelsVars => ChannelsInv'
<1> SUFFICES ASSUME ChannelsInv, [ChannelsNext]_channelsVars PROVE ChannelsInv'
  OBVIOUS
<1>1. CASE UNCHANGED channelsVars
  BY <1>1 DEF ChannelsInv, ChannelsTypeOK, ChannelShapes, KeysIssued, KeysMatch, KeyOfNumber,
              SeenIsTrue, OthersAreStale, OneOwner, channelsVars
<1> QED BY <1>1, ChannelsIssue, ChannelsConnect, ChannelsConnected, ChannelsDisconnect,
           ChannelsHealth DEF ChannelsNext

\* A message for a number goes to one merchant, with a key of that number, whatever the
\* order in which connections, disconnections and rotations come (integrations.py,
\* whatsapp_connected): unless two connections of the number overlap, the one that
\* commits has taken it from everybody else.
THEOREM ChannelsCorrect == ChannelsSpec => []ChannelsSafe
<1>1. ChannelsInv => ChannelsSafe
  <2> SUFFICES ASSUME ChannelsInv PROVE ChannelsSafe
    OBVIOUS
  <2>1. ASSUME ~overlapped, ~clobbered, NEW n \in Numbers
        PROVE  Cardinality(Resolved(n)) <= 1
    <3>1. CASE Resolved(n) = {}
      BY <3>1, FS_EmptySet
    <3>2. ASSUME NEW m \in Resolved(n)
          PROVE  Cardinality(Resolved(n)) <= 1
      <4>1. Resolved(n) = {m}
        BY <2>1, <3>2 DEF ChannelsInv, OneOwner, Resolved
      <4> QED BY <4>1, FS_Singleton
    <3> QED BY <3>1, <3>2
  <2> QED BY <2>1 DEF ChannelsInv, KeysMatch, KeyOfNumber, ChannelsSafe
<1> QED BY ChannelsInitInv, ChannelsInvStep, <1>1, PTL DEF ChannelsSpec

-----------------------------------------------------------------------------
(* Slack. *)

SlackRows == [present : {TRUE}, secret : 1..MaxHooks, status : {"active", "error"}]

SlackInv ==
  /\ SlackTypeOK
  /\ slack \in {NoHook} \union SlackRows
  /\ \A o \in Owners : opc[o] = "seeding" => offered[o] \in 1..hooks
  /\ automations <= 1
  \* A post that no new webhook crossed is to the one of the row.
  /\ posting /\ ~crossed /\ slack # NoHook => slack.secret = posted_to

LEMMA SlackInitInv == SlackInit => SlackInv
<1> SUFFICES ASSUME SlackInit PROVE SlackInv
  OBVIOUS
<1>1. {crossed, posting} \subseteq BOOLEAN
  BY DEF SlackInit
<1>2. SlackTypeOK
  BY <1>1, SlackAssumption DEF SlackInit, SlackTypeOK
<1> QED BY <1>2 DEF SlackInit, SlackInv

LEMMA SlackInvStep == SlackInv /\ [SlackNext]_slackVars => SlackInv'
<1> SUFFICES ASSUME SlackInv, [SlackNext]_slackVars PROVE SlackInv'
  OBVIOUS
<1> USE SlackAssumption
<1>1. ASSUME NEW o \in Owners, StoreHook(o) PROVE SlackInv'
  BY <1>1 DEF SlackInv, SlackTypeOK, StoreHook
<1>2. ASSUME NEW o \in Owners, SeedAutomation(o) PROVE SlackInv'
  <2>1. /\ Hook(offered[o], "active") \in SlackRows
        /\ Hook(offered[o], "active") # NoHook
        /\ Hook(offered[o], "active").secret \in 1..hooks
        /\ Hook(offered[o], "active").status = "active"
    BY <1>2 DEF SlackInv, SlackTypeOK, SlackRows, Hook, NoHook, SeedAutomation
  <2>2. automations' \in Nat /\ automations' <= 1
    BY <1>2 DEF SlackInv, SlackTypeOK, SeedAutomation, Seeds
  <2>3. crossed' \in BOOLEAN /\ (posting => crossed')
    BY <1>2 DEF SlackInv, SlackTypeOK, SeedAutomation
  <2> QED BY <1>2, <2>1, <2>2, <2>3 DEF SlackInv, SlackTypeOK, SeedAutomation
<1>3. CASE DisconnectSlack
  BY <1>3 DEF SlackInv, SlackTypeOK, DisconnectSlack, HookDrop
<1>4. CASE Post
  <2>1. slack.secret \in 1..hooks /\ hooks \in 0..MaxHooks
    BY <1>4 DEF SlackInv, SlackTypeOK, Post
  <2>2. posting' = TRUE /\ crossed' = FALSE
    BY <1>4 DEF Post
  <2>3. SlackTypeOK'
    <3>1. {crossed', posting'} \subseteq BOOLEAN
      BY <2>2
    <3> QED BY <1>4, <2>1, <3>1 DEF SlackInv, SlackTypeOK, Post
  <2> QED BY <1>4, <2>3 DEF SlackInv, Post
<1>5. CASE Posted
  <2>1. slack # NoHook => /\ slack \in SlackRows
                          /\ [slack EXCEPT !.status = "error"] \in SlackRows
                          /\ [slack EXCEPT !.status = "error"].secret = slack.secret
    BY DEF SlackInv, SlackRows
  <2>2. /\ slack' \in {NoHook} \union SlackRows
        /\ slack' # NoHook => slack # NoHook /\ slack'.secret = slack.secret
    BY <1>5, <2>1 DEF SlackInv, Posted
  <2>3. posting' = FALSE /\ posted_to' = 0
        /\ UNCHANGED <<hooks, live, automations, opc, offered, crossed, hook_drops>>
    BY <1>5 DEF Posted
  <2>4. {crossed', posting'} \subseteq BOOLEAN
    BY <2>3 DEF SlackInv, SlackTypeOK
  <2>5. slack' # NoHook => slack'.secret \in 1..hooks' /\ slack'.status \in {"active", "error"}
    BY <2>2, <2>3 DEF SlackInv, SlackTypeOK, SlackRows
  <2>6. SlackTypeOK'
    BY <2>3, <2>4, <2>5 DEF SlackInv, SlackTypeOK
  <2> QED BY <2>2, <2>3, <2>6 DEF SlackInv
<1>6. ASSUME NEW h \in live, HookDies(h) PROVE SlackInv'
  BY <1>6 DEF SlackInv, SlackTypeOK, HookDies, HookDrop
<1>7. CASE UNCHANGED slackVars
  BY <1>7 DEF SlackInv, SlackTypeOK, slackVars
<1> QED BY <1>1, <1>2, <1>3, <1>4, <1>5, <1>6, <1>7 DEF SlackNext

\* A webhook is given up only if Slack refuses that one, although the row is read again
\* when the answer comes; and however often Slack is connected, one automation tells it
\* of a handoff (integrations.py, slack_connect; engine.py, mark_provider_broken).
THEOREM SlackCorrect == SlackSpec => GivenUpIfRefused
<1> DEFINE Given ==
      /\ SlackTypeOK
      /\ automations' <= 1
      /\ slack # NoHook /\ slack.status = "active" /\ slack' # NoHook /\ slack'.status = "error"
           => slack.secret \notin live \/ crossed
<1>1. ASSUME SlackInv, SlackInv', [SlackNext]_slackVars PROVE Given
  <2> SUFFICES ASSUME slack # NoHook, slack.status = "active", slack' # NoHook,
                      slack'.status = "error"
               PROVE  slack.secret \notin live \/ crossed
    BY <1>1 DEF SlackInv
  <2>1. CASE Posted
    BY <1>1, <2>1 DEF SlackInv, Posted, Refused
  <2>2. ASSUME NEW o \in Owners, SeedAutomation(o) PROVE FALSE
    BY <2>2 DEF SeedAutomation, Hook
  <2>3. CASE slack' = slack
    BY <2>3
  <2>4. CASE DisconnectSlack
    BY <2>4 DEF DisconnectSlack
  <2> QED BY <1>1, <2>1, <2>2, <2>3, <2>4 DEF SlackNext, StoreHook, Post, HookDies, slackVars
<1>2. SlackSpec => []SlackInv
  BY SlackInitInv, SlackInvStep, PTL DEF SlackSpec
<1>3. SlackInv /\ SlackInv' /\ [SlackNext]_slackVars => [Given]_slackVars
  BY <1>1
<1>4. SlackSpec => [][Given]_slackVars
  BY <1>2, <1>3, PTL DEF SlackSpec
<1> QED BY <1>4 DEF GivenUpIfRefused

-----------------------------------------------------------------------------
(* The templates. *)

TemplateRows ==
  [status : {"none", "draft", "pending_approval", "approved", "rejected"},
   body : 0..MaxBodies, name : Subs \union {0}, wid : Subs \union {0}]
MetaRows == [body : Bodies, status : MetaStatuses]
Polls == [of : Subs, row : BOOLEAN,
          was : {"none", "draft", "pending_approval", "approved", "rejected"},
          answer : MetaStatuses \union {"asked"}]

TemplateShapes ==
  /\ template \in TemplateRows
  /\ template.status = "none" => template = NoTemplate
  /\ template.status # "none" => template.body \in Bodies
  /\ template.status \in {"pending_approval", "approved", "rejected"} => template.name # 0
  /\ template.wid = template.name
  /\ meta \in Seq(MetaRows) /\ Len(meta) <= MaxSubs
  /\ tpl_read \in [Submitters -> TemplateRows]
  /\ sub \in [Submitters -> Subs \union {0}]
  /\ polled \subseteq Polls

\* A submission that the row, a verdict or a poll is of is one that Meta has; what it
\* has answered, it has decided.
Submitted(n) == n \in 1..Len(meta)
Decided(n) == Submitted(n) /\ meta[n].status # "PENDING"

SubmissionsKnown ==
  /\ template.name # 0 => Submitted(template.name)
  /\ \A x \in tpl_events : Decided(x[1])
  /\ \A x \in polled : /\ Submitted(x.of)
                       /\ x.answer \in MetaStatuses \ {"PENDING"} => Decided(x.of)
                       /\ x.row => template.name # 0

\* A request that creates its row is alone, and has none yet.
CreatesAlone ==
  \A s \in Submitters :
    spc[s] # "idle" /\ tpl_read[s].status = "none" =>
      template = NoTemplate /\ \A q \in Submitters \ {s} : spc[q] = "idle"

\* What a request has read and posted is the body of the row, unless it was edited.
PostedBy(s) ==
  /\ spc[s] # "idle" => tpl_read[s].body \in Bodies
  /\ spc[s] # "idle" /\ template.status # "none" /\ ~edited_under
       => tpl_read[s].body = template.body
  /\ spc[s] = "sent" => Submitted(sub[s]) /\ meta[sub[s]].body = tpl_read[s].body

PostedIsBody == \A s \in Submitters : PostedBy(s)

\* A row that was edited since its submission, or may be, has had a verdict on it.
EditedIsAnswered ==
  ~late /\ template.status \in {"draft", "rejected"} /\ template.name # 0
    => template.name \in answered

\* Meta has the text of a row that it was asked about and that was not edited since.
TextIsMetas ==
  ~late /\ ~edited_under /\ template.status \notin {"none", "draft"}
    => meta[template.name].body = template.body

ApprovedIsDecided == ~late /\ template.status = "approved" => Decided(template.name)

TemplatesInv ==
  /\ TemplatesTypeOK /\ TemplateShapes /\ SubmissionsKnown
  /\ CreatesAlone /\ PostedIsBody
  /\ EditedIsAnswered /\ TextIsMetas /\ ApprovedIsDecided

LEMMA TemplatesInitInv == TemplatesInit => TemplatesInv
<1> SUFFICES ASSUME TemplatesInit PROVE TemplatesInv
  OBVIOUS
<1> USE TemplatesAssumption DEF TemplatesInit
<1>1. NoTemplate \in TemplateRows /\ NoTemplate.status = "none" /\ NoTemplate.name = 0
      /\ NoTemplate.wid = 0
  BY DEF NoTemplate, TemplateRows
<1>2. TemplatesTypeOK
  <2>1. DOMAIN meta = {}
    OBVIOUS
  <2>2. {edited_under, late} \subseteq BOOLEAN
    OBVIOUS
  <2> QED BY <1>1, <2>1, <2>2 DEF TemplatesTypeOK
<1>3. TemplateShapes
  <2>1. meta \in Seq(MetaRows) /\ Len(meta) = 0
    OBVIOUS
  <2> QED BY <1>1, <2>1 DEF TemplateShapes
<1>4. SubmissionsKnown /\ CreatesAlone /\ PostedIsBody
  BY <1>1 DEF SubmissionsKnown, CreatesAlone, PostedIsBody, PostedBy
<1>5. EditedIsAnswered /\ TextIsMetas /\ ApprovedIsDecided
  BY <1>1 DEF EditedIsAnswered, TextIsMetas, ApprovedIsDecided
<1> QED BY <1>2, <1>3, <1>4, <1>5 DEF TemplatesInv

\* The merchant writes a new row, or a new text for one that Meta does not hold.
LEMMA TemplatesWrite ==
  ASSUME TemplatesInv, CreateDraft \/ EditTemplate
  PROVE  TemplatesInv'
<1> USE TemplatesAssumption DEF tpl_requests, tpl_bounds, tpl_past
<1>1. /\ UNCHANGED <<meta, tpl_events, spc, tpl_read, sub, polled, verdicts, stray, answered, late>>
      /\ bodies' \in 0..MaxBodies /\ bodies' \in Bodies
      /\ edited_under' \in BOOLEAN /\ (edited_under => edited_under')
  <2>1. bodies' \in 0..MaxBodies /\ bodies' \in Bodies
    BY DEF TemplatesInv, TemplatesTypeOK, CreateDraft, EditTemplate, NewBody, Bodies
  <2>2. edited_under' \in BOOLEAN /\ (edited_under => edited_under')
    <3>1. CASE CreateDraft
      BY <3>1 DEF TemplatesInv, TemplatesTypeOK, CreateDraft
    <3>2. CASE EditTemplate
      BY <3>2 DEF TemplatesInv, TemplatesTypeOK, EditTemplate
    <3> QED BY <3>1, <3>2
  <2> QED BY <2>1, <2>2 DEF CreateDraft, EditTemplate
<1>2. /\ template' \in TemplateRows
      /\ template'.status = "draft" /\ template'.body \in Bodies
      /\ template'.wid = template'.name
      /\ \/ template'.name = 0
         \/ template'.name = template.name /\ template.status \in {"draft", "rejected"}
      /\ template.name # 0 => template'.name = template.name
  <2>1. CASE CreateDraft
    <3>1. template.name = 0
      BY <2>1 DEF CreateDraft, NoTemplate
    <3>2. template' = [status |-> "draft", body |-> bodies', name |-> 0, wid |-> 0]
      BY <2>1 DEF CreateDraft, NewBody
    <3> QED BY <3>1, <3>2, <1>1 DEF TemplateRows, Bodies
  <2>2. CASE EditTemplate
    <3>1. template' = [template EXCEPT !.status = "draft", !.body = bodies']
          /\ template.status \in {"draft", "rejected"}
      BY <2>2 DEF EditTemplate, NewBody, Editable
    <3> QED BY <3>1, <1>1 DEF TemplatesInv, TemplateShapes, TemplateRows, Bodies
  <2> QED BY <2>1, <2>2
<1>3. TemplatesTypeOK'
  BY <1>1, <1>2 DEF TemplatesInv, TemplatesTypeOK, TemplateRows
<1>4. TemplateShapes'
  BY <1>1, <1>2 DEF TemplatesInv, TemplateShapes
<1>5. SubmissionsKnown'
  BY <1>1, <1>2 DEF TemplatesInv, SubmissionsKnown, Submitted, Decided
<1>6. CreatesAlone'
  <2>1. CASE CreateDraft
    BY <1>1, <2>1 DEF CreatesAlone, CreateDraft, NobodySubmits
  <2>2. CASE EditTemplate
    <3>1. template # NoTemplate
      BY <2>2 DEF EditTemplate, Editable, NoTemplate
    <3> QED BY <1>1, <3>1 DEF TemplatesInv, CreatesAlone
  <2> QED BY <2>1, <2>2
<1>7. PostedIsBody'
  <2>1. ~edited_under' => \A s \in Submitters : spc[s] = "idle"
    BY DEF CreateDraft, NobodySubmits, EditTemplate
  <2> QED BY <1>1, <2>1 DEF TemplatesInv, PostedIsBody, PostedBy, Submitted
<1>8. EditedIsAnswered' /\ TextIsMetas' /\ ApprovedIsDecided'
  BY <1>1, <1>2 DEF TemplatesInv, EditedIsAnswered, TextIsMetas, ApprovedIsDecided
<1> QED BY <1>3, <1>4, <1>5, <1>6, <1>7, <1>8 DEF TemplatesInv

\* A request starts: it reads a row, or has a text and no row yet.
LEMMA TemplatesRead ==
  ASSUME TemplatesInv, NEW s \in Submitters, SubmitReads(s) \/ CreateSubmits(s)
  PROVE  TemplatesInv'
<1> USE TemplatesAssumption DEF tpl_bounds, tpl_past
<1>1. PICK r \in TemplateRows :
        /\ tpl_read' = [tpl_read EXCEPT ![s] = r] /\ r.body \in Bodies
        /\ \/ r = template /\ template.status # "none" /\ template # NoTemplate
           \/ /\ template = NoTemplate /\ r.status = "none"
              /\ \A q \in Submitters : spc[q] = "idle"
  <2>1. CASE SubmitReads(s)
    <3>1. template.status # "none" /\ template # NoTemplate
      BY <2>1 DEF SubmitReads, Editable, NoTemplate
    <3> QED BY <2>1, <3>1 DEF TemplatesInv, TemplateShapes, SubmitReads
  <2>2. CASE CreateSubmits(s)
    <3>1. bodies + 1 \in Bodies
      BY <2>2 DEF TemplatesInv, TemplatesTypeOK, CreateSubmits, NewBody, Bodies
    <3>2. [NoTemplate EXCEPT !.body = bodies + 1] \in TemplateRows
          /\ [NoTemplate EXCEPT !.body = bodies + 1].body = bodies + 1
          /\ [NoTemplate EXCEPT !.body = bodies + 1].status = "none"
      BY <3>1 DEF NoTemplate, TemplateRows, Bodies
    <3> QED BY <2>2, <3>1, <3>2 DEF CreateSubmits, NobodySubmits
  <2> QED BY <2>1, <2>2
<1>2. /\ UNCHANGED <<template, meta, tpl_events, sub, polled, verdicts, stray, edited_under,
                     answered, late>>
      /\ bodies' \in 0..MaxBodies
      /\ spc[s] = "idle" /\ spc' = [spc EXCEPT ![s] = "read"]
  <2>1. bodies' \in 0..MaxBodies
    BY DEF TemplatesInv, TemplatesTypeOK, SubmitReads, CreateSubmits, NewBody
  <2>2. CASE SubmitReads(s)
    BY <2>1, <2>2 DEF SubmitReads
  <2>3. CASE CreateSubmits(s)
    BY <2>1, <2>3 DEF CreateSubmits, NobodySubmits
  <2> QED BY <2>2, <2>3
<1>3. TemplatesTypeOK' /\ TemplateShapes'
  BY <1>1, <1>2 DEF TemplatesInv, TemplatesTypeOK, TemplateShapes
<1>4. SubmissionsKnown' /\ EditedIsAnswered' /\ TextIsMetas' /\ ApprovedIsDecided'
  BY <1>2 DEF TemplatesInv, SubmissionsKnown, Submitted, Decided, EditedIsAnswered, TextIsMetas,
              ApprovedIsDecided
<1>5. CreatesAlone'
  <2>1. NoTemplate.status = "none"
    BY DEF NoTemplate
  <2> QED BY <1>1, <1>2, <2>1 DEF TemplatesInv, TemplatesTypeOK, TemplateShapes, CreatesAlone
<1>6. PostedIsBody'
  <2>1. NoTemplate.status = "none"
    BY DEF NoTemplate
  <2> QED BY <1>1, <1>2, <2>1
          DEF TemplatesInv, TemplatesTypeOK, TemplateShapes, PostedIsBody, PostedBy, Submitted
<1> QED BY <1>3, <1>4, <1>5, <1>6 DEF TemplatesInv

\* Meta has one submission more, with the text that the request has read.
LEMMA TemplatesPost ==
  ASSUME TemplatesInv, NEW s \in Submitters, SubmitPosts(s)
  PROVE  TemplatesInv'
<1> USE TemplatesAssumption DEF tpl_bounds, tpl_past
<1> DEFINE m == [body |-> tpl_read[s].body, status |-> "PENDING"]
<1>1. /\ UNCHANGED <<template, bodies, tpl_events, tpl_read, polled, verdicts, stray, edited_under,
                     answered, late>>
      /\ meta' = Append(meta, m) /\ Len(meta) < MaxSubs
      /\ spc[s] = "read" /\ spc' = [spc EXCEPT ![s] = "sent"]
      /\ sub' = [sub EXCEPT ![s] = Len(meta) + 1]
  BY DEF SubmitPosts
<1>2. m \in MetaRows
  BY <1>1 DEF TemplatesInv, PostedIsBody, PostedBy, MetaRows, MetaStatuses
<1>3. meta \in Seq(MetaRows) /\ Len(meta) \in Nat
  BY DEF TemplatesInv, TemplateShapes
<1>4. /\ meta' \in Seq(MetaRows) /\ Len(meta') = Len(meta) + 1
      /\ meta'[Len(meta) + 1] = m
      /\ \A n \in 1..Len(meta) : meta'[n] = meta[n]
  BY <1>1, <1>2, <1>3
<1>5. \A n : (Submitted(n) => Submitted(n)' /\ meta'[n] = meta[n]) /\ (Decided(n) => Decided(n)')
  BY <1>3, <1>4 DEF Submitted, Decided
<1>6. TemplatesTypeOK'
  <2>1. \A n \in DOMAIN meta' : meta'[n] \in MetaRows
    BY <1>4
  <2>2. \A n \in DOMAIN meta' : meta'[n].status \in MetaStatuses /\ meta'[n].body \in Bodies
    BY <2>1 DEF MetaRows
  <2> QED BY <1>1, <2>2 DEF TemplatesInv, TemplatesTypeOK
<1>7. TemplateShapes'
  <2>1. Len(meta) + 1 \in Subs
    BY <1>1, <1>3 DEF Subs
  <2> QED BY <1>1, <1>4, <2>1 DEF TemplatesInv, TemplateShapes
<1>8. SubmissionsKnown' /\ CreatesAlone'
  BY <1>1, <1>5 DEF TemplatesInv, TemplatesTypeOK, SubmissionsKnown, CreatesAlone
<1>9. PostedIsBody'
  <2> SUFFICES ASSUME NEW q \in Submitters PROVE PostedBy(q)'
    BY DEF PostedIsBody
  <2>1. CASE q # s
    <3>1. spc'[q] = spc[q] /\ sub'[q] = sub[q]
      BY <1>1, <2>1 DEF TemplatesInv, TemplatesTypeOK, TemplateShapes
    <3>2. PostedBy(q)
      BY DEF TemplatesInv, PostedIsBody
    <3> QED BY <3>1, <3>2, <1>1, <1>5 DEF PostedBy, Submitted
  <2>2. CASE q = s
    <3>1. spc'[s] = "sent" /\ sub'[s] = Len(meta) + 1
      BY <1>1 DEF TemplatesInv, TemplatesTypeOK, TemplateShapes
    <3>2. PICK n : n = Len(meta) + 1
      OBVIOUS
    <3>3. Submitted(n)' /\ meta'[n].body = tpl_read[s].body /\ sub'[s] = n
      BY <3>1, <3>2, <1>3, <1>4 DEF Submitted
    <3>4. tpl_read[s].body \in Bodies
          /\ (template.status # "none" /\ ~edited_under => tpl_read[s].body = template.body)
      BY <1>1 DEF TemplatesInv, PostedIsBody, PostedBy
    <3> QED BY <2>2, <3>1, <3>3, <3>4, <1>1 DEF PostedBy, Submitted
  <2> QED BY <2>1, <2>2
<1>10. EditedIsAnswered' /\ TextIsMetas' /\ ApprovedIsDecided'
  <2>1. template.status \notin {"none", "draft"} => Submitted(template.name)
    BY DEF TemplatesInv, TemplatesTypeOK, TemplateShapes, SubmissionsKnown
  <2> QED BY <2>1, <1>1, <1>5 DEF TemplatesInv, EditedIsAnswered, TextIsMetas, ApprovedIsDecided
<1> QED BY <1>6, <1>7, <1>8, <1>9, <1>10 DEF TemplatesInv

\* A request ends, with or without a row under review.
LEMMA TemplatesEnd ==
  ASSUME TemplatesInv, NEW s \in Submitters, SubmitCommits(s) \/ SubmitFails(s)
  PROVE  TemplatesInv'
<1> USE TemplatesAssumption DEF tpl_bounds, tpl_past
<1>1. /\ UNCHANGED <<bodies, meta, tpl_events, polled, edited_under, answered, late>>
      /\ spc[s] # "idle" /\ SubmitEnds(s)
  BY DEF SubmitCommits, SubmitFails
<1>2. NoTemplate \in TemplateRows /\ NoTemplate.status = "none" /\ NoTemplate.name = 0
  BY DEF NoTemplate, TemplateRows
<1>3. /\ spc' \in [Submitters -> {"idle", "read", "sent"}]
      /\ tpl_read' \in [Submitters -> TemplateRows]
      /\ sub' \in [Submitters -> Subs \union {0}]
      /\ spc'[s] = "idle"
      /\ \A q \in Submitters \ {s} :
           spc'[q] = spc[q] /\ tpl_read'[q] = tpl_read[q] /\ sub'[q] = sub[q]
  BY <1>1, <1>2 DEF TemplatesInv, TemplatesTypeOK, TemplateShapes, SubmitEnds
<1>4. \A n : (Submitted(n)' <=> Submitted(n)) /\ (Decided(n)' <=> Decided(n))
  BY <1>1 DEF Submitted, Decided
<1>5. CASE template' = template
  <2>1. TemplatesTypeOK' /\ TemplateShapes'
    BY <1>1, <1>3, <1>5 DEF TemplatesInv, TemplatesTypeOK, TemplateShapes
  <2>2. SubmissionsKnown'
    BY <1>1, <1>4, <1>5 DEF TemplatesInv, SubmissionsKnown
  <2>3. CreatesAlone' /\ PostedIsBody'
    BY <1>1, <1>3, <1>4, <1>5 DEF TemplatesInv, CreatesAlone, PostedIsBody, PostedBy
  <2>4. EditedIsAnswered' /\ TextIsMetas' /\ ApprovedIsDecided'
    BY <1>1, <1>4, <1>5 DEF TemplatesInv, EditedIsAnswered, TextIsMetas, ApprovedIsDecided
  <2> QED BY <2>1, <2>2, <2>3, <2>4 DEF TemplatesInv
<1>6. CASE /\ spc[s] = "sent"
           /\ ~(tpl_read[s].status # "none" /\ template.status = "none")
           /\ template' = [status |-> "pending_approval", name |-> sub[s], wid |-> sub[s],
                body |-> IF tpl_read[s].status = "none" THEN tpl_read[s].body ELSE template.body]
  <2>1. Submitted(sub[s]) /\ meta[sub[s]].body = tpl_read[s].body /\ tpl_read[s].body \in Bodies
    BY <1>6 DEF TemplatesInv, PostedIsBody, PostedBy
  <2>2. sub[s] \in Subs
    BY <2>1 DEF TemplatesInv, TemplateShapes, Submitted, Subs
  <2>3. /\ template' \in TemplateRows /\ template'.status = "pending_approval"
        /\ template'.body \in Bodies
        /\ template'.name = sub[s] /\ template'.wid = sub[s]
        /\ tpl_read[s].status = "none" => template'.body = tpl_read[s].body
        /\ tpl_read[s].status # "none" => template'.body = template.body
    BY <1>6, <2>1, <2>2 DEF TemplatesInv, TemplateShapes, TemplateRows, Bodies
  <2>4. ~edited_under => template'.body = tpl_read[s].body
    BY <1>6, <2>3 DEF TemplatesInv, PostedIsBody, PostedBy
  <2>5. TemplatesTypeOK' /\ TemplateShapes'
    BY <1>1, <1>3, <2>2, <2>3 DEF TemplatesInv, TemplatesTypeOK, TemplateShapes, Subs
  <2>6. SubmissionsKnown'
    BY <1>1, <1>4, <2>1, <2>2, <2>3 DEF TemplatesInv, SubmissionsKnown, Subs
  <2>7. CreatesAlone' /\ PostedIsBody'
    <3>1. CASE tpl_read[s].status = "none"
      <4>1. \A q \in Submitters : spc'[q] = "idle"
        BY <1>1, <1>3, <3>1 DEF TemplatesInv, CreatesAlone
      <4> QED BY <4>1 DEF CreatesAlone, PostedIsBody, PostedBy
    <3>2. CASE tpl_read[s].status # "none"
      <4>1. template # NoTemplate /\ template.status # "none" /\ template'.body = template.body
        BY <1>2, <1>6, <2>3, <3>2
      <4> QED BY <1>1, <1>3, <1>4, <4>1 DEF TemplatesInv, CreatesAlone, PostedIsBody, PostedBy
    <3> QED BY <3>1, <3>2
  <2>8. EditedIsAnswered' /\ TextIsMetas' /\ ApprovedIsDecided'
    BY <1>1, <2>1, <2>3, <2>4 DEF EditedIsAnswered, TextIsMetas, ApprovedIsDecided
  <2> QED BY <2>5, <2>6, <2>7, <2>8 DEF TemplatesInv
<1> QED BY <1>5, <1>6 DEF SubmitCommits, SubmitFails

LEMMA TemplatesDelete ==
  ASSUME TemplatesInv, DeleteTemplate
  PROVE  TemplatesInv'
<1> USE DEF tpl_requests, tpl_bounds, tpl_past
<1>1. /\ UNCHANGED <<bodies, meta, tpl_events, spc, tpl_read, sub, verdicts, stray, edited_under,
                     answered, late>>
      /\ template # NoTemplate /\ template' = NoTemplate
      /\ polled' = {x \in polled : ~x.row}
  BY DEF DeleteTemplate
<1>2. /\ NoTemplate \in TemplateRows /\ NoTemplate.status = "none" /\ NoTemplate.name = 0
      /\ NoTemplate.wid = 0
  BY TemplatesAssumption DEF NoTemplate, TemplateRows
<1>3. TemplatesTypeOK' /\ TemplateShapes'
  BY <1>1, <1>2 DEF TemplatesInv, TemplatesTypeOK, TemplateShapes
<1>4. SubmissionsKnown'
  BY <1>1, <1>2 DEF TemplatesInv, SubmissionsKnown, Submitted, Decided
<1>5. CreatesAlone' /\ PostedIsBody'
  BY <1>1, <1>2 DEF TemplatesInv, CreatesAlone, PostedIsBody, PostedBy, Submitted
<1>6. EditedIsAnswered' /\ TextIsMetas' /\ ApprovedIsDecided'
  BY <1>1, <1>2 DEF EditedIsAnswered, TextIsMetas, ApprovedIsDecided
<1> QED BY <1>3, <1>4, <1>5, <1>6 DEF TemplatesInv

\* A verdict of Meta is for good: no submission is pending again.
LEMMA TemplatesDecide ==
  ASSUME TemplatesInv, NEW n \in Subs, MetaDecides(n)
  PROVE  TemplatesInv'
<1> USE DEF tpl_requests, tpl_past
<1>1. PICK v \in Decides(meta[n].status) :
        /\ meta' = [meta EXCEPT ![n].status = v]
        /\ tpl_events' \in {tpl_events, tpl_events \union {<<n, v>>}}
  BY DEF MetaDecides
<1>2. /\ UNCHANGED <<template, bodies, spc, tpl_read, sub, polled, stray, edited_under, answered,
                     late>>
      /\ n \in DOMAIN meta
  BY DEF MetaDecides
<1>3. v \in MetaStatuses \ {"PENDING"}
  BY DEF Decides, MetaStatuses
<1>4. meta \in Seq(MetaRows) /\ n \in 1..Len(meta)
  BY <1>2 DEF TemplatesInv, TemplateShapes
<1>5. /\ meta' \in Seq(MetaRows) /\ Len(meta') = Len(meta)
      /\ meta'[n].status = v
      /\ \A l \in 1..Len(meta) : meta'[l].body = meta[l].body
      /\ \A l \in 1..Len(meta) : l # n => meta'[l] = meta[l]
  <2>1. meta[n] \in MetaRows
    BY <1>4
  <2>2. [meta[n] EXCEPT !.status = v] \in MetaRows
    BY <2>1, <1>3 DEF MetaRows
  <2> QED BY <1>1, <1>4, <2>1, <2>2 DEF MetaRows
<1>6. /\ \A l : Submitted(l)' <=> Submitted(l)
      /\ \A l : Decided(l) => Decided(l)'
      /\ Decided(n)'
  BY <1>3, <1>4, <1>5 DEF Submitted, Decided
<1>7. TemplatesTypeOK'
  <2>1. \A l \in DOMAIN meta' : meta'[l] \in MetaRows
    BY <1>5
  <2>2. \A l \in DOMAIN meta' : meta'[l].status \in MetaStatuses /\ meta'[l].body \in Bodies
    BY <2>1 DEF MetaRows
  <2>3. tpl_events' \subseteq Subs \X MetaStatuses
    BY <1>1, <1>3 DEF TemplatesInv, TemplatesTypeOK
  <2> QED BY <1>2, <2>2, <2>3 DEF TemplatesInv, TemplatesTypeOK
<1>8. TemplateShapes'
  BY <1>2, <1>5 DEF TemplatesInv, TemplateShapes
<1>9. SubmissionsKnown'
  <2>1. \A x \in tpl_events' : Decided(x[1])'
    BY <1>1, <1>6 DEF TemplatesInv, SubmissionsKnown
  <2> QED BY <2>1, <1>2, <1>6 DEF TemplatesInv, SubmissionsKnown
<1>10. CreatesAlone' /\ PostedIsBody'
  BY <1>2, <1>5, <1>6 DEF TemplatesInv, CreatesAlone, PostedIsBody, PostedBy, Submitted
<1>11. EditedIsAnswered' /\ TextIsMetas' /\ ApprovedIsDecided'
  <2>1. template.status \notin {"none", "draft"} => Submitted(template.name)
    BY DEF TemplatesInv, TemplatesTypeOK, TemplateShapes, SubmissionsKnown
  <2> QED BY <2>1, <1>2, <1>5, <1>6
          DEF TemplatesInv, EditedIsAnswered, TextIsMetas, ApprovedIsDecided, Submitted
<1> QED BY <1>7, <1>8, <1>9, <1>10, <1>11 DEF TemplatesInv

\* A verdict on submission n reaches a row: on an edited row it is late.
LEMMA TemplatesVerdict ==
  ASSUME TemplatesInv, NEW n \in Subs, NEW v \in MetaStatuses, Submitted(n),
         v = "APPROVED" => Decided(n),
         template.name # 0,
         template' = [template EXCEPT !.status = map_meta_status_to_local(v)],
         late' = (late \/ template.name # n \/ (template.status = "draft" /\ n \in answered)),
         answered' = answered \union {n},
         tpl_events' \subseteq tpl_events, polled' \subseteq polled,
         UNCHANGED <<bodies, meta, spc, tpl_read, sub, edited_under>>
  PROVE  TemplatesInv'
<1> DEFINE to == map_meta_status_to_local(v)
<1>1. /\ to \in {"pending_approval", "approved", "rejected"}
      /\ to = "approved" => v = "APPROVED"
  BY DEF map_meta_status_to_local
<1> HIDE DEF to
<1>2. template' = [template EXCEPT !.status = to]
  BY DEF to
<1>3. /\ template' \in TemplateRows /\ template'.status = to
      /\ template'.name = template.name /\ template'.wid = template.wid
      /\ template'.body = template.body
      /\ template.status # "none" /\ template # NoTemplate
  <2>1. NoTemplate.name = 0
    BY DEF NoTemplate
  <2>2. template.status # "none" /\ template # NoTemplate
    BY <2>1 DEF TemplatesInv, TemplateShapes
  <2> QED BY <1>1, <1>2, <2>2 DEF TemplatesInv, TemplateShapes, TemplateRows
<1>4. \A l : (Submitted(l)' <=> Submitted(l)) /\ (Decided(l)' <=> Decided(l))
  BY DEF Submitted, Decided
<1>5. TemplatesTypeOK'
  <2>1. late' \in BOOLEAN
    OBVIOUS
  <2>2. answered' \subseteq Subs
    BY DEF TemplatesInv, TemplatesTypeOK
  <2> QED BY <1>1, <1>3, <2>1, <2>2 DEF TemplatesInv, TemplatesTypeOK
<1>6. TemplateShapes'
  BY <1>1, <1>3 DEF TemplatesInv, TemplateShapes
<1>7. SubmissionsKnown'
  BY <1>3, <1>4 DEF TemplatesInv, SubmissionsKnown
<1>8. CreatesAlone' /\ PostedIsBody'
  BY <1>3, <1>4 DEF TemplatesInv, CreatesAlone, PostedIsBody, PostedBy
<1>9. EditedIsAnswered' /\ TextIsMetas' /\ ApprovedIsDecided'
  <2> SUFFICES ASSUME ~late' PROVE EditedIsAnswered' /\ TextIsMetas' /\ ApprovedIsDecided'
    BY DEF EditedIsAnswered, TextIsMetas, ApprovedIsDecided
  <2>1. ~late /\ template.name = n /\ ~(template.status = "draft" /\ n \in answered)
    OBVIOUS
  <2>2. template.status # "draft"
    BY <2>1 DEF TemplatesInv, EditedIsAnswered
  <2> QED BY <2>1, <2>2, <1>1, <1>3, <1>4
          DEF TemplatesInv, EditedIsAnswered, TextIsMetas, ApprovedIsDecided
<1> QED BY <1>5, <1>6, <1>7, <1>8, <1>9 DEF TemplatesInv

\* Its job is done, and no row is of it, or the status is the one that was read.
LEMMA TemplatesNoVerdict ==
  ASSUME TemplatesInv, tpl_events' \subseteq tpl_events, polled' \subseteq polled,
         UNCHANGED <<template, bodies, meta, tpl_requests, edited_under, answered, late>>
  PROVE  TemplatesInv'
<1> USE DEF tpl_requests
<1>1. TemplatesTypeOK' /\ TemplateShapes'
  BY DEF TemplatesInv, TemplatesTypeOK, TemplateShapes
<1>2. SubmissionsKnown'
  BY DEF TemplatesInv, SubmissionsKnown, Submitted, Decided
<1>3. CreatesAlone' /\ PostedIsBody'
  BY DEF TemplatesInv, CreatesAlone, PostedIsBody, PostedBy, Submitted
<1>4. EditedIsAnswered' /\ TextIsMetas' /\ ApprovedIsDecided'
  BY DEF TemplatesInv, EditedIsAnswered, TextIsMetas, ApprovedIsDecided, Submitted, Decided
<1> QED BY <1>1, <1>2, <1>3, <1>4 DEF TemplatesInv

\* The webhook finds its row by id or name; the answer to a refresh goes to the row
\* that asked, whatever submission it is of by now.
LEMMA TemplatesApply ==
  ASSUME TemplatesInv, SyncApplies \/ \E x \in tpl_events : ApplyEvent(x)
  PROVE  TemplatesInv'
<1> USE DEF tpl_requests, tpl_bounds
<1>1. /\ tpl_events' \subseteq tpl_events /\ polled' \subseteq polled
      /\ UNCHANGED <<bodies, meta, tpl_requests, edited_under>>
  BY DEF SyncApplies, ApplyEvent
<1>2. ASSUME NEW n \in Subs, NEW v \in MetaStatuses, Submitted(n), v = "APPROVED" => Decided(n),
             Applies(n, v)
      PROVE  TemplatesInv'
  <2>1. CASE IsOf(n)
    <3>1. template.name = n /\ n # 0
      BY <2>1 DEF IsOf, TemplatesInv, TemplateShapes, Subs
    <3> QED BY <1>1, <1>2, <2>1, <3>1, TemplatesVerdict DEF Applies
  <2>2. CASE ~IsOf(n)
    BY <1>1, <1>2, <2>2, TemplatesNoVerdict DEF Applies
  <2> QED BY <2>1, <2>2
<1>3. ASSUME NEW x \in tpl_events, ApplyEvent(x) PROVE TemplatesInv'
  <2>1. x[1] \in Subs /\ x[2] \in MetaStatuses /\ Decided(x[1]) /\ Submitted(x[1])
    BY DEF TemplatesInv, TemplatesTypeOK, SubmissionsKnown, Decided
  <2> QED BY <1>2, <1>3, <2>1 DEF ApplyEvent
<1>4. CASE SyncApplies
  <2>1. PICK x \in polled :
          x.answer # "asked" /\ IF x.row THEN AppliesToRow(x) ELSE Applies(x.of, x.answer)
    BY <1>4 DEF SyncApplies
  <2>2. /\ x.of \in Subs /\ x.answer \in MetaStatuses /\ Submitted(x.of)
        /\ x.answer = "APPROVED" => Decided(x.of)
        /\ x.row => template.name # 0
        /\ x.row \in BOOLEAN
    BY <2>1 DEF TemplatesInv, TemplateShapes, Polls, SubmissionsKnown
  <2>3. CASE ~x.row
    BY <1>2, <2>1, <2>2, <2>3
  <2>4. CASE x.row /\ map_meta_status_to_local(x.answer) = x.was
    BY <1>1, <2>1, <2>4, TemplatesNoVerdict DEF AppliesToRow
  <2>5. CASE x.row /\ map_meta_status_to_local(x.answer) # x.was
    BY <1>1, <2>1, <2>2, <2>5, TemplatesVerdict DEF AppliesToRow
  <2> QED BY <2>3, <2>4, <2>5
<1> QED BY <1>3, <1>4

\* The poll and the refresh ask for a submission that the row is of.
LEMMA TemplatesPoll ==
  ASSUME TemplatesInv, SyncScan \/ SyncOne \/ SyncAsks
  PROVE  TemplatesInv'
<1> USE DEF tpl_requests, tpl_bounds, tpl_past
<1>1. UNCHANGED <<template, bodies, meta, tpl_events, spc, tpl_read, sub, edited_under, answered,
                  late>>
  BY DEF SyncScan, SyncOne, SyncAsks
<1>2. /\ polled' \subseteq Polls
      /\ \A x \in polled' : /\ Submitted(x.of)
                            /\ x.answer \in MetaStatuses \ {"PENDING"} => Decided(x.of)
                            /\ x.row => template.name # 0
  <2>1. CASE SyncScan \/ SyncOne
    <3>1. PICK b \in BOOLEAN :
            polled' = {[of |-> template.name, row |-> b, was |-> template.status, answer |-> "asked"]}
      BY <2>1 DEF SyncScan, SyncOne
    <3>2. template.name \in Subs /\ Submitted(template.name) /\ template.name # 0
      BY <2>1 DEF TemplatesInv, TemplateShapes, TemplateRows, SubmissionsKnown, SyncScan, SyncOne
    <3>3. template.status \in {"none", "draft", "pending_approval", "approved", "rejected"}
      BY DEF TemplatesInv, TemplatesTypeOK
    <3> QED BY <3>1, <3>2, <3>3 DEF Polls, MetaStatuses
  <2>2. CASE SyncAsks
    <3>1. PICK x \in polled : polled' = {[x EXCEPT !.answer = meta[x.of].status]}
      BY <2>2 DEF SyncAsks
    <3>2. x \in Polls /\ Submitted(x.of) /\ (x.row => template.name # 0)
      BY DEF TemplatesInv, TemplateShapes, SubmissionsKnown
    <3>3. meta[x.of].status \in MetaStatuses
      <4>1. meta[x.of] \in MetaRows
        BY <3>2 DEF TemplatesInv, TemplateShapes, Submitted
      <4> QED BY <4>1 DEF MetaRows
    <3> QED BY <3>1, <3>2, <3>3 DEF Polls, Decided
  <2> QED BY <2>1, <2>2
<1>3. \A l : (Submitted(l)' <=> Submitted(l)) /\ (Decided(l)' <=> Decided(l))
  BY <1>1 DEF Submitted, Decided
<1>4. TemplatesTypeOK'
  <2>1. \A x \in polled' : x.of \in Subs /\ x.answer \in MetaStatuses \union {"asked"}
    BY <1>2 DEF Polls
  <2> QED BY <1>1, <2>1 DEF TemplatesInv, TemplatesTypeOK
<1>5. TemplateShapes' /\ SubmissionsKnown'
  BY <1>1, <1>2, <1>3 DEF TemplatesInv, TemplateShapes, SubmissionsKnown
<1>6. CreatesAlone' /\ PostedIsBody'
  BY <1>1, <1>3 DEF TemplatesInv, CreatesAlone, PostedIsBody, PostedBy
<1>7. EditedIsAnswered' /\ TextIsMetas' /\ ApprovedIsDecided'
  BY <1>1, <1>3 DEF TemplatesInv, EditedIsAnswered, TextIsMetas, ApprovedIsDecided
<1> QED BY <1>4, <1>5, <1>6, <1>7 DEF TemplatesInv

LEMMA TemplatesInvStep == TemplatesInv /\ [TemplatesNext]_templatesVars => TemplatesInv'
<1> SUFFICES ASSUME TemplatesInv, [TemplatesNext]_templatesVars PROVE TemplatesInv'
  OBVIOUS
<1>1. CASE UNCHANGED templatesVars
  BY <1>1, TemplatesNoVerdict DEF templatesVars, tpl_past
<1> QED BY <1>1, TemplatesWrite, TemplatesRead, TemplatesPost, TemplatesEnd, TemplatesDelete,
           TemplatesDecide, TemplatesApply, TemplatesPoll DEF TemplatesNext

\* A template that flows may send is one that Meta has approved with that text, however
\* edits, submissions, webhooks and polls cross (whatsapp_templates.py; the verdicts
\* that come late, and the edits under a submission, are set apart).
THEOREM TemplatesCorrect == TemplatesSpec => []TemplatesSafe
<1>1. TemplatesInv => TemplatesSafe
  <2> SUFFICES ASSUME TemplatesInv PROVE TemplatesSafe
    OBVIOUS
  <2>1. DOMAIN meta = 1..Len(meta)
    BY DEF TemplatesInv, TemplateShapes
  <2>2. template.status \in {"approved", "pending_approval"} =>
          template.name \in DOMAIN meta /\ template.status \notin {"none", "draft"}
    BY <2>1 DEF TemplatesInv, TemplateShapes, SubmissionsKnown, Submitted
  <2> QED BY <2>2 DEF TemplatesInv, TextIsMetas, ApprovedIsDecided, Decided, TemplatesSafe
<1> QED BY TemplatesInitInv, TemplatesInvStep, <1>1, PTL DEF TemplatesSpec

-----------------------------------------------------------------------------
(* The turn of the bot. *)

Replies == [text : Texts, kinds : SUBSET ActionKinds]
Books == parsed.kinds \intersect BookingKinds # {}

\* Until the policy has spoken, nothing of the turn has left it.
NothingYet ==
  turn_step \in {"asking", "answered", "policy"} =>
    /\ out = 0 /\ bubbles = 0 /\ row = "none" /\ ~handoff_claimed /\ ~send_error

\* A time that the policy gets is verified, or comes with a booking or with what is left of one;
\* and nothing but a booking's silence keeps an unverified one from the customer.
Verified == ran_check_availability \/ ~settings.executor \/ forbidden
TimeVerified ==
  parsed.text = "time" =>
    /\ turn_step = "policy" => Verified \/ Books
    /\ turn_step \in {"sending", "dispatching", "idle"} => Verified \/ bubbles = 0

\* A reply without bubbles has its reason; its row goes with what was sent.
SilentForReason ==
  /\ turn_step \in {"sending", "dispatching"} =>
       /\ bubbles = 0 => Books \/ handed
       /\ handoff_claimed /\ bubbles = 0 => settings.silent \/ both
       /\ handoff_claimed => handed /\ notified = 0
  /\ turn_step = "sending" => row = IF bubbles = 0 THEN "none" ELSE "pending"
  /\ turn_step = "dispatching" => out = bubbles /\ row = IF bubbles = 0 THEN "none" ELSE "sent"

\* Who has been told knows of a conversation that is handed over, and is told by nobody else.
ToldOnce == notified \in {0, 1} /\ (notified = 1 => handed)

TurnInv ==
  /\ TurnSafe /\ parsed \in Replies /\ out <= bubbles /\ turns_taken \in Nat
  /\ NothingYet /\ TimeVerified /\ SilentForReason /\ ToldOnce
  /\ turns_taken = 0 => turn_step = "idle" /\ out = 0 /\ bubbles = 0
LEMMA TurnInitInv == TurnInit => TurnInv
<1> SUFFICES ASSUME TurnInit PROVE TurnInv
  OBVIOUS
<1> USE TurnAssumption
<1>1. /\ settings \in [executor : BOOLEAN, allowed : SUBSET ActionKinds, handoff_enabled : BOOLEAN,
                       silent : BOOLEAN, fixed_message : BOOLEAN]
  BY DEF TurnInit
<1>2. parsed \in Replies /\ parsed.text = "nothing" /\ parsed.text \in Texts /\ parsed.kinds \subseteq ActionKinds
  BY DEF TurnInit, Nothing, Replies, Texts
<1>3. {ran_check_availability, llm_failed, suppress_reply, handoff_claimed, both, forbidden, send_error, handed}
        \subseteq BOOLEAN
  BY DEF TurnInit
<1>4. /\ turn_step = "idle" /\ runs = "first" /\ iteration = 0 /\ bubbles = 0 /\ out = 0 /\ row = "none"
      /\ notified = 0 /\ turns_taken = 0
  BY DEF TurnInit
<1>5. ~handoff_claimed /\ ~send_error /\ ~handed
  BY DEF TurnInit
<1>6. TurnTypeOK
  <2>1. iteration \in 0..MaxIterations + 1
    BY <1>4
  <2>2. bubbles \in 0..MaxBubbles /\ out \in 0..MaxBubbles
    BY <1>4
  <2>3. notified \in Nat /\ runs \in {"first", "coherence", "empty"}
    BY <1>4
  <2>4. /\ row \in {"none", "pending", "sent", "failed", "partial"}
        /\ turn_step \in {"idle", "asking", "answered", "policy", "sending", "sent", "dispatching"}
    BY <1>4
  <2> QED BY <1>1, <1>2, <1>3, <2>1, <2>2, <2>3, <2>4 DEF TurnTypeOK
<1>7. TurnSafe
  BY <1>2, <1>4, <1>5, <1>6 DEF TurnSafe, TurnOver
<1> QED BY <1>2, <1>4, <1>5, <1>7 DEF TurnInv, NothingYet, TimeVerified, SilentForReason, ToldOnce

LEMMA AnswersAreReplies == \A answer \in Answers : answer \in Replies /\ answer.kinds \in SUBSET ActionKinds
<1> SUFFICES ASSUME NEW s \in {"conforming", "invented", "prose", "broken"},
                    NEW x \in Texts \ {"handoff_message"}, NEW k \in SUBSET ActionKinds
             PROVE  ParseStructured(s, x, k, ActionKinds) \in Replies
  BY DEF Answers, Replies
<1>1. Nothing \in Replies
  BY DEF Nothing, Replies, Texts
<1>2. [text |-> x, kinds |-> k] \in Replies /\ [text |-> x, kinds |-> k \cap ActionKinds] \in Replies
      /\ [text |-> x, kinds |-> {}] \in Replies
  BY DEF Replies
<1>3. CASE s = "conforming"
  BY <1>2, <1>3 DEF ParseStructured
<1>4. CASE s = "invented"
  BY <1>1, <1>2, <1>4 DEF ParseStructured
<1>5. CASE s = "prose"
  BY <1>2, <1>5 DEF ParseStructured
<1>6. CASE s = "broken"
  BY <1>1, <1>6 DEF ParseStructured
<1> QED BY <1>3, <1>4, <1>5, <1>6

\* While the model is asked: the answer is new, and nothing leaves the turn.
LEMMA Asked ==
  ASSUME TurnInv, turn_step \in {"asking", "answered"}, turn_step' \in {"asking", "answered", "policy"},
         UNCHANGED <<settings, suppress_reply, handoff_claimed, both, sending, shared>>,
         parsed' \in Replies, iteration' \in 0..MaxIterations + 1, runs' = runs,
         {ran_check_availability', llm_failed', forbidden'} \subseteq BOOLEAN,
         turn_step' = "policy" /\ parsed'.text = "time" =>
           ran_check_availability' \/ ~settings.executor \/ forbidden' \/ parsed'.kinds \cap BookingKinds # {}
  PROVE  TurnInv'
<1> USE DEF TurnInv, sending, shared
<1>1. {ran_check_availability', llm_failed', suppress_reply', handoff_claimed', both', forbidden', send_error', handed'}
        \subseteq BOOLEAN
  BY DEF TurnSafe, TurnTypeOK
<1>2. TurnTypeOK'
  BY <1>1 DEF TurnSafe, TurnTypeOK, Replies
<1>3. out' = 0 /\ bubbles' = 0 /\ row' = "none" /\ ~handoff_claimed' /\ ~send_error'
  BY DEF NothingYet
<1>4. TurnSafe'
  BY <1>2, <1>3 DEF TurnSafe, TurnOver
<1>5. TimeVerified'
  BY DEF TimeVerified, Verified, Books
<1>6. NothingYet' /\ SilentForReason' /\ ToldOnce'
  BY <1>3 DEF NothingYet, SilentForReason, ToldOnce
<1> QED BY <1>3, <1>4, <1>5, <1>6

LEMMA Askings ==
  TurnInv /\ (Complete \/ ForceRead \/ RunReturns \/ CompleteFails) => TurnInv'
<1> SUFFICES ASSUME TurnInv, Complete \/ ForceRead \/ RunReturns \/ CompleteFails PROVE TurnInv'
  OBVIOUS
<1> USE TurnAssumption
<1>0. /\ {ran_check_availability, llm_failed, forbidden} \subseteq BOOLEAN /\ iteration \in 0..MaxIterations + 1
      /\ parsed \in Replies
  BY DEF TurnInv, TurnSafe, TurnTypeOK
<1>1. CASE Complete
  <2>1. /\ turn_step = "asking" /\ iteration < MaxIterations
        /\ parsed' \in Answers /\ turn_step' \in {"asking", "answered"}
        /\ iteration' \in {iteration, iteration + 1}
        /\ UNCHANGED <<settings, runs, policy, sending, shared>>
    BY <1>1 DEF Complete
  <2>2. iteration' \in 0..MaxIterations + 1
    BY <1>0, <2>1
  <2>3. ran_check_availability' \in BOOLEAN
    BY <1>0, <1>1 DEF Complete
  <2>4. {ran_check_availability', llm_failed', forbidden'} \subseteq BOOLEAN
    BY <1>0, <2>1, <2>3 DEF policy
  <2> QED BY <1>0, <2>1, <2>2, <2>4, AnswersAreReplies, Asked DEF policy
<1>2. CASE ForceRead
  <2>1. /\ turn_step = "answered" /\ turn_step' = turn_step
        /\ parsed' \in Answers /\ ran_check_availability' = TRUE
        /\ UNCHANGED <<settings, runs, iteration, policy, sending, shared>>
    BY <1>2 DEF ForceRead
  <2> QED BY <1>0, <2>1, AnswersAreReplies, Asked DEF policy
<1>3. CASE RunReturns
  <2>1. /\ turn_step = "answered" /\ ~(Unverified /\ settings.executor) /\ turn_step' = "policy"
        /\ parsed' = [parsed EXCEPT !.kinds = (@ \ ReadToolKinds) \intersect settings.allowed]
        /\ forbidden' = ~(parsed.kinds \subseteq settings.allowed)
        /\ UNCHANGED <<settings, runs, iteration, ran_check_availability, llm_failed, suppress_reply,
                       handoff_claimed, both, sending, shared>>
    BY <1>3 DEF RunReturns
  <2>2. /\ parsed' \in Replies /\ parsed'.text = parsed.text
        /\ parsed'.kinds = (parsed.kinds \ ReadToolKinds) \intersect settings.allowed
    BY <1>0, <2>1 DEF Replies
  <2>3. forbidden' \in BOOLEAN
    BY <2>1
  <2>4. parsed'.text = "time" =>
           ran_check_availability' \/ ~settings.executor \/ forbidden' \/ parsed'.kinds \cap BookingKinds # {}
    BY <2>1, <2>2 DEF Unverified, BookingKinds, ReadToolKinds
  <2> QED BY <1>0, <2>1, <2>2, <2>3, <2>4, Asked
<1>4. CASE CompleteFails
  <2>1. /\ turn_step \in {"asking", "answered"} /\ turn_step' = "policy"
        /\ parsed' \in {Nothing, Courtesy} /\ llm_failed' \in {llm_failed, TRUE}
        /\ UNCHANGED <<settings, runs, iteration, ran_check_availability, suppress_reply, handoff_claimed,
                       both, forbidden, sending, shared>>
    BY <1>4 DEF CompleteFails
  <2>2. parsed' \in Replies /\ parsed'.text # "time"
    <3>1. Nothing \in Replies /\ Nothing.text = "nothing"
      BY DEF Nothing, Replies, Texts
    <3>2. Courtesy \in Replies /\ Courtesy.text = "handoff_message"
      BY DEF Courtesy, Replies, Texts, ActionKinds
    <3> QED BY <2>1, <3>1, <3>2
  <2> QED BY <1>0, <2>1, <2>2, Asked
<1> QED BY <1>1, <1>2, <1>3, <1>4

LEMMA TakesTurn == TurnInv /\ (TakeTurn \/ RunAgain) => TurnInv'
<1> SUFFICES ASSUME TurnInv, TakeTurn \/ RunAgain PROVE TurnInv'
  OBVIOUS
<1> USE TurnAssumption DEF TurnInv
<1>1. /\ turn_step' = "asking" /\ parsed' = Nothing /\ Nothing \in Replies /\ Nothing.text = "nothing"
      /\ ran_check_availability' = FALSE /\ forbidden' = FALSE /\ iteration' = 0
      /\ runs' \in {"first", "coherence", "empty"}
      /\ out' = 0 /\ bubbles' = 0 /\ row' = "none" /\ handoff_claimed' = FALSE /\ send_error' = FALSE
      /\ turns_taken' \in Nat /\ turns_taken' > 0
      /\ UNCHANGED <<settings, handed, notified>>
  <2>1. Nothing \in Replies /\ Nothing.text = "nothing"
    BY DEF Nothing, Replies, Texts
  <2>2. CASE TakeTurn
    BY <2>1, <2>2 DEF TakeTurn
  <2>3. CASE RunAgain
    <3>1. handoff_claimed = FALSE /\ send_error = FALSE
      BY <2>3 DEF RunAgain, NothingYet, TurnSafe, TurnTypeOK
    <3> QED BY <2>1, <2>3, <3>1 DEF RunAgain, NothingYet, sending, shared
  <2> QED BY <2>2, <2>3
<1>2. {ran_check_availability', llm_failed', suppress_reply', handoff_claimed', both', forbidden', send_error', handed'}
        \subseteq BOOLEAN
  <2>1. {llm_failed', suppress_reply', both', handed'} \subseteq BOOLEAN
    BY DEF TakeTurn, RunAgain, TurnSafe, TurnTypeOK, shared
  <2> QED BY <1>1, <2>1
<1>3. TurnTypeOK'
  BY <1>1, <1>2 DEF TurnSafe, TurnTypeOK, Replies
<1>4. TurnSafe'
  BY <1>1, <1>3 DEF TurnSafe, TurnOver
<1> QED BY <1>1, <1>4 DEF NothingYet, TimeVerified, SilentForReason, ToldOnce

\* The policy silences a reply only for a booking, or a conversation that is handed over.
LEMMA PolicySpeaks == TurnInv /\ ReplyPolicy => TurnInv'
<1> SUFFICES ASSUME TurnInv, ReplyPolicy PROVE TurnInv'
  OBVIOUS
<1> USE TurnAssumption DEF TurnInv
<1> DEFINE reply == Usable
           hands == "handoff_human" \in reply.kinds
           off == hands /\ ~settings.handoff_enabled /\ ~llm_failed
           wins == hands /\ ~off /\ claim_handoff
           lost == hands /\ ~off /\ ~wins
           kinds == IF off \/ lost THEN reply.kinds \ {"handoff_human"} ELSE reply.kinds
           quiet == lost \/ (wins /\ settings.silent /\ ~llm_failed)
           books == kinds \intersect BookingKinds # {}
           says == IF wins /\ settings.fixed_message /\ ~settings.silent /\ ~llm_failed
                   THEN "handoff_message" ELSE reply.text
<1>1. /\ turn_step = "policy" /\ turn_step' = "sending"
      /\ handoff_claimed' = wins /\ handed' = (handed \/ wins)
      /\ suppress_reply' = (quiet \/ books) /\ both' = (wins /\ books)
      /\ parsed' = [text |-> says, kinds |-> kinds]
      /\ row' = IF quiet \/ books THEN "none" ELSE "pending"
      /\ bubbles' \in IF quiet \/ books THEN {0} ELSE 1..MaxBubbles
      /\ UNCHANGED <<settings, runs, iteration, ran_check_availability, llm_failed, forbidden, out,
                     send_error, notified, turns_taken>>
  BY DEF ReplyPolicy
<1>2. /\ reply \in Replies
      /\ reply.text = "time" => Verified \/ reply.kinds \cap BookingKinds # {}
  <2>1. Courtesy \in Replies /\ Courtesy.text # "time"
    BY DEF Courtesy, Replies, Texts, ActionKinds
  <2>2. reply \in {parsed, Courtesy}
    BY DEF Usable
  <2> QED BY <1>1, <2>1, <2>2 DEF TimeVerified, Books
<1>3. lost => handed
  BY DEF claim_handoff
<1>4. wins => ~handed
  BY DEF claim_handoff
<1> HIDE DEF reply
<1>5. /\ kinds \in SUBSET ActionKinds
      /\ reply.kinds \cap BookingKinds # {} => books
  BY <1>2 DEF Replies, BookingKinds
<1>6. says \in {reply.text, "handoff_message"} /\ says \in Texts
  BY <1>2 DEF Replies, Texts
<1>7. quiet => lost \/ (wins /\ settings.silent)
  OBVIOUS
<1>8. {suppress_reply', handoff_claimed', both', handed'} \subseteq BOOLEAN
  <2>1. suppress_reply' \in BOOLEAN
    BY <1>1
  <2>2. handoff_claimed' \in BOOLEAN
    BY <1>1
  <2>3. both' \in BOOLEAN
    BY <1>1
  <2>4. handed' \in BOOLEAN
    BY <1>1
  <2> QED BY <2>1, <2>2, <2>3, <2>4
<1> HIDE DEF wins, lost, quiet, kinds, says
<1>9. /\ parsed' \in Replies /\ parsed'.text = says /\ parsed'.kinds = kinds
      /\ bubbles' \in 0..MaxBubbles /\ (bubbles' = 0 <=> quiet \/ books)
      /\ row' = IF bubbles' = 0 THEN "none" ELSE "pending"
      /\ out' = 0 /\ ~send_error' /\ turns_taken' \in Nat
  <2>1. parsed' \in Replies /\ parsed'.text = says /\ parsed'.kinds = kinds
    BY <1>1, <1>5, <1>6 DEF Replies
  <2>2. bubbles' \in 0..MaxBubbles /\ (bubbles' = 0 <=> quiet \/ books)
    BY <1>1
  <2> QED BY <1>1, <2>1, <2>2 DEF NothingYet
<1>10. TurnTypeOK'
  <2>1. {ran_check_availability', llm_failed', suppress_reply', handoff_claimed', both', forbidden', send_error',
         handed'} \subseteq BOOLEAN
    BY <1>1, <1>8 DEF TurnSafe, TurnTypeOK
  <2> QED BY <1>1, <1>9, <2>1 DEF TurnSafe, TurnTypeOK, Replies
<1>11. NothingYet' /\ ToldOnce'
  BY <1>1, <1>4 DEF NothingYet, ToldOnce
<1>12. TimeVerified'
  BY <1>1, <1>2, <1>5, <1>6, <1>9 DEF TimeVerified, Verified, Books
<1>13. SilentForReason'
  <2>1. handoff_claimed' => handed' /\ notified' = 0
    BY <1>1, <1>4 DEF ToldOnce
  <2>2. bubbles' = 0 => Books' \/ handed'
    BY <1>1, <1>3, <1>7, <1>9 DEF Books
  <2>3. handoff_claimed' /\ bubbles' = 0 => settings'.silent \/ both'
    <3>1. wins => ~lost
      BY <1>3, <1>4
    <3> QED BY <1>1, <1>7, <1>9, <3>1
  <2> QED BY <1>1, <1>9, <2>1, <2>2, <2>3 DEF SilentForReason
<1>14. TurnSafe'
  BY <1>1, <1>9, <1>10 DEF TurnSafe, TurnOver, TurnInv, ToldOnce
<1> QED BY <1>1, <1>9, <1>11, <1>12, <1>13, <1>14

LEMMA Deliveries ==
  TurnInv /\ (SendBubble \/ SendFails \/ Promote \/ Dispatch_actions \/ TakenOver) => TurnInv'
<1> SUFFICES ASSUME TurnInv, SendBubble \/ SendFails \/ Promote \/ Dispatch_actions \/ TakenOver PROVE TurnInv'
  OBVIOUS
<1> USE TurnAssumption DEF TurnInv
<1>0. out \in Nat /\ bubbles \in 0..MaxBubbles /\ notified \in {0, 1}
  BY DEF TurnSafe, TurnTypeOK, ToldOnce
<1>1. CASE SendBubble
  <2>1. /\ turn_step = "sending" /\ out < bubbles /\ out' = out + 1
        /\ UNCHANGED <<settings, asking, policy, bubbles, row, send_error, shared>>
    BY <1>1 DEF SendBubble
  <2> USE DEF asking, policy, shared
  <2>2. TurnTypeOK'
    BY <1>0, <2>1 DEF TurnSafe, TurnTypeOK
  <2>3. NothingYet' /\ TimeVerified' /\ SilentForReason' /\ ToldOnce'
    BY <1>0, <2>1 DEF NothingYet, TimeVerified, SilentForReason, ToldOnce, Verified, Books
  <2>4. TurnSafe'
    BY <1>0, <2>1, <2>2 DEF TurnSafe, TurnOver, TimeVerified, Verified
  <2> QED BY <1>0, <2>1, <2>3, <2>4
<1>2. CASE SendFails
  <2>1. /\ turn_step = "sending" /\ out < bubbles /\ row' = FailedStatus /\ send_error' = TRUE
        /\ turn_step' = "idle"
        /\ UNCHANGED <<settings, runs, iteration, parsed, ran_check_availability, policy, bubbles, out, shared>>
    BY <1>2 DEF SendFails
  <2> USE DEF policy, shared
  <2>2. TurnTypeOK'
    BY <2>1 DEF TurnSafe, TurnTypeOK, FailedStatus
  <2>3. NothingYet' /\ TimeVerified' /\ SilentForReason' /\ ToldOnce'
    BY <2>1 DEF NothingYet, TimeVerified, SilentForReason, ToldOnce, Verified, Books
  <2>4. TurnSafe'
    BY <1>0, <2>1, <2>2 DEF TurnSafe, TurnOver, FailedStatus
  <2> QED BY <1>0, <2>1, <2>3, <2>4
<1>3. CASE Promote
  <2>1. /\ turn_step = "sending" /\ out = bubbles /\ row' = (IF bubbles = 0 THEN row ELSE "sent")
        /\ turn_step' = "dispatching"
        /\ UNCHANGED <<settings, runs, iteration, parsed, ran_check_availability, policy, bubbles, out,
                       send_error, shared>>
    BY <1>3 DEF Promote
  <2> USE DEF policy, shared
  <2>2. TurnTypeOK'
    BY <2>1 DEF TurnSafe, TurnTypeOK
  <2>3. NothingYet' /\ TimeVerified' /\ SilentForReason' /\ ToldOnce'
    BY <2>1 DEF NothingYet, TimeVerified, SilentForReason, ToldOnce, Verified, Books
  <2>4. TurnSafe'
    BY <1>0, <2>1, <2>2 DEF TurnSafe, TurnOver
  <2> QED BY <1>0, <2>1, <2>3, <2>4
<1>4. CASE Dispatch_actions
  <2>1. /\ turn_step = "dispatching" /\ turn_step' = "idle"
        /\ notified' = notified + IF handoff_claimed THEN 1 ELSE 0
        /\ UNCHANGED <<settings, runs, iteration, parsed, ran_check_availability, policy, sending, handed, turns_taken>>
    BY <1>4 DEF Dispatch_actions
  <2> USE DEF policy, sending
  <2>2. notified' \in {0, 1} /\ (notified' = 1 => handed')
    BY <1>0, <2>1 DEF SilentForReason, ToldOnce
  <2>3. TurnTypeOK'
    BY <2>1, <2>2 DEF TurnSafe, TurnTypeOK
  <2>4. NothingYet' /\ TimeVerified' /\ SilentForReason' /\ ToldOnce'
    BY <2>1, <2>2 DEF NothingYet, TimeVerified, SilentForReason, ToldOnce, Verified, Books
  <2>5. TurnSafe'
    BY <1>0, <2>1, <2>2, <2>3 DEF TurnSafe, TurnOver, SilentForReason, Books
  <2> QED BY <1>0, <2>1, <2>4, <2>5
<1>5. CASE TakenOver
  <2>1. /\ ~handed /\ handed' = TRUE /\ notified' = notified + 1
        /\ UNCHANGED <<settings, asking, policy, sending, turns_taken>>
    BY <1>5 DEF TakenOver
  <2> USE DEF asking, policy, sending
  <2>2. notified' = 1
    BY <1>0, <2>1 DEF ToldOnce
  <2>3. TurnTypeOK'
    BY <2>1, <2>2 DEF TurnSafe, TurnTypeOK
  <2>4. NothingYet' /\ TimeVerified' /\ SilentForReason' /\ ToldOnce'
    BY <2>1, <2>2 DEF NothingYet, TimeVerified, SilentForReason, ToldOnce, Verified, Books
  <2>5. TurnSafe'
    BY <1>0, <2>1, <2>2, <2>3 DEF TurnSafe, TurnOver
  <2> QED BY <1>0, <2>1, <2>4, <2>5
<1> QED BY <1>1, <1>2, <1>3, <1>4, <1>5

LEMMA TurnInvStep == TurnInv /\ [TurnNext]_turnVars => TurnInv'
<1> SUFFICES ASSUME TurnInv, [TurnNext]_turnVars PROVE TurnInv'
  OBVIOUS
<1>1. CASE UNCHANGED turnVars
  BY <1>1 DEF turnVars, asking, policy, sending, shared, TurnInv, TurnSafe, TurnTypeOK, TurnOver, NothingYet,
              TimeVerified, SilentForReason, ToldOnce, Verified, Books
<1> QED BY <1>1, Askings, TakesTurn, PolicySpeaks, Deliveries DEF TurnNext

\* A customer who reads a time reads one that was looked up, nobody is left without a word
\* for no reason, the operators are told once, and the row says what was sent
\* (orchestrator.py, run; conversation_service.py, the reply policy and the delivery).
THEOREM TurnCorrect == TurnSpec => []TurnSafe
<1>1. TurnInv => TurnSafe
  BY DEF TurnInv
<1> QED BY TurnInitInv, TurnInvStep, <1>1, PTL DEF TurnSpec

-----------------------------------------------------------------------------
(* The sweeps over silent threads. *)

EpisodeAnchor == IF last_in # 0 THEN last_in ELSE Started

\* What an emitting sweep has in hand: a thread that has had no message since the last
\* tick is as it was scanned, and so is a stamp that no rewriter undid.
SnapshotTrue ==
  snap # NoSnap =>
    /\ snap.sweep \in Sweeps /\ snap.tick = tick
    /\ snap.last_in \in Ticks /\ snap.fired \in [Triggers -> Ticks]
    /\ last_msg < tick => /\ snap.last_in = last_in /\ snap.last_msg = last_msg
                          /\ snap.from_template = from_template
    /\ \A t \in Triggers \ undone : snap.fired[t] = fired[t]

\* A trigger that fired for an anchor has its stamp.
StampedOnce ==
  \A t \in Triggers \ undone, anchor \in Ticks :
    /\ emitted[<<t, anchor>>] <= 1
    /\ emitted[<<t, anchor>>] # 0 => fired[t] >= anchor

\* The last sweep, lag ticks ago, fired what was ripe by then.
SweptByThen ==
  \A t \in (switched_on \intersect Automations) \ undone :
    /\ status = "active" /\ ~attended /\ last_msg # 0
    /\ t \in Filtered => from_template
    /\ steady <= last_msg
    /\ (tick - lag) - last_msg >= Delay[t]
    => fired[t] >= EpisodeAnchor

IdleInv == IdleTypeOK /\ SnapshotTrue /\ StampedOnce /\ SweptByThen


LEMMA IdleConst ==
  /\ Grace \in Nat /\ Grace >= 1 /\ MaxTick \in Nat /\ Started \in Ticks
  /\ Ticks \subseteq Nat /\ Automations \subseteq Triggers /\ Dormant \in Triggers
  /\ Dormant \notin Automations
  /\ \A t \in Automations : Delay[t] \in Nat /\ Delay[t] >= 1
<1>1. Grace \in Nat /\ Grace >= 1 /\ MaxTick \in Nat /\ MaxTick >= 1
  <2>1. Grace \in Nat \ {0} /\ MaxTick \in Nat \ {0}
    BY IdleAssumption
  <2> QED BY <2>1
<1>2. \A t \in Automations : Delay[t] \in Nat \ {0}
  BY IdleAssumption
<1>3. Dormant \notin Automations
  BY IdleAssumption DEF Dormant
<1> QED BY <1>1, <1>2, <1>3 DEF Started, Ticks, Triggers

LEMMA IdleTypes ==
  ASSUME IdleInv
  PROVE  /\ tick \in Nat /\ tick \in Ticks /\ last_in \in Ticks /\ last_msg \in Ticks /\ steady \in Ticks
         /\ lag \in 0..Grace /\ lag \in Nat /\ EpisodeAnchor \in Ticks
         /\ fired \in [Triggers -> Ticks] /\ copied \in [Triggers -> Ticks]
         /\ switched_on \subseteq Triggers /\ undone \subseteq Triggers
         /\ due \subseteq Triggers \X Ticks /\ emitted \in [Triggers \X Ticks -> Nat]
         /\ from_template \in BOOLEAN /\ attended \in BOOLEAN /\ opted_out \in BOOLEAN
BY IdleConst DEF IdleInv, IdleTypeOK, EpisodeAnchor

LEMMA IdleInvInit == IdleInit => IdleInv
<1> SUFFICES ASSUME IdleInit PROVE IdleInv
  OBVIOUS
<1>1. IdleTypeOK
  <2>1. acts \in 0..MaxActs
    BY IdleAssumption DEF IdleInit
  <2>2. 0 \in Ticks /\ lag \in 0..Grace
    BY IdleConst DEF IdleInit, Ticks
  <2> QED BY <2>1, <2>2, IdleConst DEF IdleInit, IdleTypeOK, NoSnap
<1>2. SnapshotTrue /\ StampedOnce /\ SweptByThen
  BY IdleConst DEF IdleInit, SnapshotTrue, StampedOnce, SweptByThen
<1> QED BY <1>1, <1>2 DEF IdleInv

\* A message is written: nothing is ripe, and what a sweep has scanned is of before.
LEMMA Messages ==
  ASSUME IdleInv, last_msg' = tick, tick' = tick, last_in' \in {last_in, tick}, status' \in {"active", status},
         steady' \in {steady, tick},
         UNCHANGED <<attended, fired, switched_on, snap, lag, rewriter, copied, emitted, undone>>,
         from_template' \in BOOLEAN, opted_out' \in BOOLEAN, acts' \in 0..MaxActs, due' \subseteq due
  PROVE  IdleInv'
<1>1. IdleTypeOK'
  BY IdleTypes DEF IdleInv, IdleTypeOK
<1>2. SnapshotTrue'
  BY IdleTypes DEF IdleInv, SnapshotTrue
<1>3. StampedOnce'
  BY DEF IdleInv, StampedOnce
<1>4. SweptByThen'
  BY IdleTypes, IdleConst DEF SweptByThen
<1> QED BY <1>1, <1>2, <1>3, <1>4 DEF IdleInv

LEMMA MessageSteps ==
  ASSUME IdleInv, (\E b \in BOOLEAN : Inbound(b) \/ Outbound(b)) \/ (\E t \in Triggers, a \in Ticks : Run(t, a))
  PROVE  IdleInv'
<1>0. /\ tick \in Ticks /\ last_in \in Ticks /\ opted_out \in BOOLEAN /\ from_template \in BOOLEAN
      /\ acts \in 0..MaxActs /\ MaxActs \in Nat /\ status \in {"active", "closed"}
  BY IdleTypes, IdleAssumption DEF IdleInv, IdleTypeOK
<1>1. ASSUME NEW b \in BOOLEAN, Inbound(b) PROVE IdleInv'
  BY <1>0, <1>1, Messages DEF Inbound, Act
<1>2. ASSUME NEW b \in BOOLEAN, Outbound(b) PROVE IdleInv'
  BY <1>0, <1>2, Messages DEF Outbound, Act
<1>3. ASSUME NEW t \in Triggers, NEW a \in Ticks, Run(t, a) PROVE IdleInv'
  <2>1. CASE last_msg' = tick /\ from_template' \in BOOLEAN
    BY <1>0, <1>3, <2>1, Messages DEF Run
  <2>2. CASE UNCHANGED <<last_msg, from_template>>
    <3>1. IdleTypeOK'
      BY <1>3, <2>2, IdleTypes DEF Run, IdleInv, IdleTypeOK
    <3> QED BY <1>3, <2>2, <3>1 DEF Run, IdleInv, SnapshotTrue, StampedOnce, SweptByThen, EpisodeAnchor
  <2> QED BY <1>3, <2>1, <2>2 DEF Run
<1> QED BY <1>1, <1>2, <1>3

LEMMA SwitchStep == ASSUME IdleInv, Switch PROVE IdleInv'
<1>1. IdleTypeOK'
  <2>1. acts' \in 0..MaxActs
    BY IdleAssumption DEF Switch, Act, IdleInv, IdleTypeOK
  <2> QED BY <2>1, IdleTypes DEF Switch, IdleInv, IdleTypeOK, silent_thread
<1>2. SnapshotTrue' /\ StampedOnce'
  BY DEF Switch, IdleInv, SnapshotTrue, StampedOnce
<1>3. SweptByThen'
  <2>1. /\ steady' = tick /\ tick' = tick /\ lag' = lag /\ last_msg' = last_msg
        /\ tick \in Nat /\ lag \in Nat /\ last_msg \in Nat /\ switched_on' \subseteq Triggers
    BY IdleTypes, IdleConst DEF Switch, silent_thread
  <2> SUFFICES ASSUME NEW t \in (switched_on' \intersect Automations) \ undone', steady' <= last_msg',
                      (tick' - lag') - last_msg' >= Delay[t]
               PROVE  FALSE
    BY DEF SweptByThen
  <2>2. Delay[t] \in Nat /\ Delay[t] >= 1
    BY IdleConst
  <2> QED BY <2>1, <2>2
<1> QED BY <1>1, <1>2, <1>3 DEF IdleInv

LEMMA OtherSteps ==
  ASSUME IdleInv, NextTick \/ Close \/ SweepCut \/ (\E c \in {"conversation", "lead"} : ReadMeta(c))
  PROVE  IdleInv'
<1>1. IdleTypeOK'
  <2>1. acts' \in 0..MaxActs
    BY IdleAssumption DEF NextTick, Close, SweepCut, ReadMeta, Act, IdleInv, IdleTypeOK
  <2>2. tick' \in Ticks /\ lag' \in 0..Grace
    BY IdleTypes, IdleConst DEF NextTick, Close, SweepCut, ReadMeta, Ticks
  <2> QED BY <2>1, <2>2, IdleTypes DEF NextTick, Close, SweepCut, ReadMeta, IdleInv, IdleTypeOK, silent_thread, NoSnap
<1>2. SnapshotTrue' /\ StampedOnce'
  BY DEF NextTick, Close, SweepCut, ReadMeta, IdleInv, SnapshotTrue, StampedOnce, silent_thread
<1>3. SweptByThen'
  <2>1. CASE NextTick
    <3>1. tick' - lag' = tick - lag
      BY <2>1, IdleTypes DEF NextTick
    <3> QED BY <2>1, <3>1 DEF NextTick, IdleInv, SweptByThen, silent_thread, EpisodeAnchor
  <2>2. CASE Close
    BY <2>2 DEF Close, SweptByThen
  <2>3. CASE SweepCut \/ (\E c \in {"conversation", "lead"} : ReadMeta(c))
    BY <2>3 DEF SweepCut, ReadMeta, IdleInv, SweptByThen, silent_thread, EpisodeAnchor
  <2> QED BY <2>1, <2>2, <2>3
<1> QED BY <1>1, <1>2, <1>3 DEF IdleInv

\* A rewriter leaves every stamp as it is, but for those it undoes.
LEMMA WriteMetaStep == ASSUME IdleInv, WriteMeta PROVE IdleInv'
<1>1. \A t \in Triggers \ undone' : t \notin undone /\ fired'[t] = fired[t]
  BY DEF WriteMeta
<1>2. IdleTypeOK'
  <2>1. fired' \in [Triggers -> Ticks]
    BY IdleTypes DEF WriteMeta
  <2>2. copied' \in [Triggers -> Ticks]
    BY IdleConst DEF WriteMeta, Ticks
  <2>3. undone' \subseteq Triggers
    BY IdleTypes, IdleConst DEF WriteMeta, Stamps, Triggers
  <2> QED BY <2>1, <2>2, <2>3 DEF WriteMeta, IdleInv, IdleTypeOK, silent_thread
<1>3. SnapshotTrue'
  BY <1>1 DEF WriteMeta, IdleInv, SnapshotTrue, silent_thread
<1>4. StampedOnce'
  BY <1>1 DEF WriteMeta, IdleInv, StampedOnce
<1>5. SweptByThen'
  BY <1>1, IdleConst DEF WriteMeta, IdleInv, SweptByThen, silent_thread, EpisodeAnchor
<1> QED BY <1>2, <1>3, <1>4, <1>5 DEF IdleInv

LEMMA ScanStep == ASSUME IdleInv, NEW w \in Sweeps, Scan(w) PROVE IdleInv'
<1>1. IdleTypeOK'
  <2>1. lag' \in 0..Grace
    BY IdleTypes, IdleConst DEF Scan
  <2>2. snap'.sweep \in Sweeps \union {"none"}
    BY DEF Scan, IdleInv, IdleTypeOK
  <2> QED BY <2>1, <2>2 DEF Scan, IdleInv, IdleTypeOK, silent_thread
<1>2. SnapshotTrue'
  BY IdleTypes DEF Scan, IdleInv, SnapshotTrue, silent_thread, Sweeps
<1>3. StampedOnce'
  BY DEF Scan, IdleInv, StampedOnce
<1>4. SweptByThen'
  <2>1. CASE lag' = lag
    BY <2>1 DEF Scan, IdleInv, SweptByThen, silent_thread, EpisodeAnchor
  <2>2. CASE w = "silence" /\ ~Candidate(w)
    <3>1. ~(last_msg # 0 /\ ~attended /\ status = "active")
      BY <2>2 DEF Candidate, ReminderCandidate
    <3> QED BY <3>1 DEF Scan, SweptByThen, silent_thread
  <2> QED BY <2>1, <2>2 DEF Scan
<1> QED BY <1>1, <1>2, <1>3, <1>4 DEF IdleInv

\* A sweep stamps what it fires with the anchor it has scanned, which no stamp of that
\* trigger has reached yet.
LEMMA EmitStep == ASSUME IdleInv, Emit PROVE IdleInv'
<1> DEFINE firing == {t \in Listeners : Ripe(snap, t) /\ ~AlreadyFired(snap, t)}
           anchor == Anchor(snap)
<1>1. /\ fired' = [t \in Triggers |-> IF t \in firing THEN anchor ELSE fired[t]]
      /\ due' = due \union {<<t, anchor>> : t \in firing}
      /\ emitted' = [e \in DOMAIN emitted |->
           IF e[1] \in firing /\ e[2] = anchor THEN emitted[e] + 1 ELSE emitted[e]]
      /\ snap # NoSnap /\ snap' = NoSnap
      /\ lag' = IF snap.sweep = "silence" THEN 0 ELSE lag
      /\ UNCHANGED <<acts, tick, silent_thread, switched_on, rewriter, copied, undone, steady>>
  BY DEF Emit
<1>2. /\ snap.sweep \in Sweeps /\ snap.tick = tick /\ anchor \in Ticks /\ firing \subseteq Triggers
      /\ snap.fired \in [Triggers -> Ticks]
  BY <1>1, IdleConst, IdleTypes DEF IdleInv, SnapshotTrue, Anchor, Listeners
<1>3. ASSUME NEW t \in firing \ undone PROVE fired[t] = snap.fired[t] /\ fired[t] < anchor
  <2>1. t \in Triggers /\ fired[t] = snap.fired[t]
    BY <1>1, <1>2 DEF IdleInv, SnapshotTrue
  <2>2. ~(snap.fired[t] >= anchor)
    BY DEF AlreadyFired
  <2>3. snap.fired[t] \in Nat /\ anchor \in Nat
    BY <1>2, <2>1, IdleConst
  <2> QED BY <2>1, <2>2, <2>3
<1> HIDE DEF firing, anchor
<1>4. IdleTypeOK'
  <2>1. fired' \in [Triggers -> Ticks]
    BY <1>1, <1>2, IdleTypes
  <2>2. due' \subseteq Triggers \X Ticks
    BY <1>1, <1>2, IdleTypes
  <2>3. emitted' \in [Triggers \X Ticks -> Nat]
    BY <1>1, <1>2, IdleTypes
  <2>4. lag' \in 0..Grace
    BY <1>1, IdleTypes, IdleConst
  <2> QED BY <1>1, <2>1, <2>2, <2>3, <2>4 DEF IdleInv, IdleTypeOK, silent_thread, NoSnap
<1>5. SnapshotTrue'
  BY <1>1 DEF SnapshotTrue
<1>6. StampedOnce'
  <2> SUFFICES ASSUME NEW t \in Triggers \ undone, NEW a \in Ticks
               PROVE  emitted'[<<t, a>>] <= 1 /\ (emitted'[<<t, a>>] # 0 => fired'[t] >= a)
    BY <1>1 DEF StampedOnce
  <2>1. emitted[<<t, a>>] \in Nat /\ emitted[<<t, a>>] <= 1 /\ (emitted[<<t, a>>] # 0 => fired[t] >= a)
    BY IdleTypes DEF IdleInv, StampedOnce
  <2>2. /\ fired'[t] = IF t \in firing THEN anchor ELSE fired[t]
        /\ emitted'[<<t, a>>] = IF t \in firing /\ a = anchor THEN emitted[<<t, a>>] + 1 ELSE emitted[<<t, a>>]
    BY <1>1, IdleTypes
  <2>3. fired[t] \in Nat /\ anchor \in Nat /\ a \in Nat
    BY <1>2, IdleTypes, IdleConst
  <2> QED BY <1>3, <2>1, <2>2, <2>3
<1>7. SweptByThen'
  <2> SUFFICES ASSUME NEW t \in (switched_on \intersect Automations) \ undone,
                      status = "active", ~attended, last_msg # 0, t \in Filtered => from_template,
                      steady <= last_msg, (tick - lag') - last_msg >= Delay[t]
               PROVE  fired'[t] >= EpisodeAnchor
    BY <1>1 DEF SweptByThen, silent_thread, EpisodeAnchor
  <2>1. t \in Triggers /\ Delay[t] \in Nat /\ Delay[t] >= 1 /\ fired[t] \in Nat /\ EpisodeAnchor \in Nat /\ anchor \in Nat
    BY <1>2, IdleTypes, IdleConst
  <2>2. fired'[t] = IF t \in firing THEN anchor ELSE fired[t]
    BY <1>1, <2>1
  <2>3. CASE snap.sweep = "silence"
    <3>0. lag' = 0 /\ tick \in Nat /\ last_msg \in Nat
      BY <1>1, <2>3, IdleTypes, IdleConst
    <3>1. tick - last_msg >= Delay[t] /\ last_msg < tick
      BY <2>1, <3>0
    <3>2. /\ snap.last_in = last_in /\ snap.last_msg = last_msg /\ snap.from_template = from_template
          /\ snap.fired[t] = fired[t]
      BY <1>1, <2>1, <3>1 DEF IdleInv, SnapshotTrue
    <3>3. anchor = EpisodeAnchor
      BY <3>2 DEF anchor, Anchor, EpisodeAnchor
    <3>4. Ripe(snap, t) /\ t \in Listeners
      BY <1>2, <2>1, <2>3, <3>1, <3>2, IdleConst DEF Ripe, Listeners
    <3>5. t \in firing \/ fired[t] >= anchor
      BY <3>2, <3>4 DEF firing, AlreadyFired, anchor
    <3> QED BY <2>1, <2>2, <3>3, <3>5
  <2>4. CASE snap.sweep # "silence"
    <3>1. t \notin firing
      BY <2>4, IdleConst DEF firing, Listeners
    <3>2. fired[t] >= EpisodeAnchor
      BY <1>1, <2>4 DEF IdleInv, SweptByThen
    <3> QED BY <2>2, <3>1, <3>2
  <2> QED BY <2>3, <2>4
<1> QED BY <1>4, <1>5, <1>6, <1>7 DEF IdleInv

LEMMA IdleInvNext == IdleInv /\ [IdleNext]_idleVars => IdleInv'
<1> SUFFICES ASSUME IdleInv, [IdleNext]_idleVars PROVE IdleInv'
  OBVIOUS
<1>1. CASE UNCHANGED idleVars
  BY <1>1 DEF idleVars, silent_thread, IdleInv, IdleTypeOK, SnapshotTrue, StampedOnce, SweptByThen, EpisodeAnchor
<1>2. CASE IdleNext
  BY <1>2, MessageSteps, SwitchStep, OtherSteps, WriteMetaStep, ScanStep, EmitStep DEF IdleNext
<1> QED BY <1>1, <1>2

LEMMA InvFollowedUp == ASSUME IdleInv PROVE FollowedUp
<1> SUFFICES ASSUME NEW t \in (switched_on \intersect Automations) \ undone,
                    status = "active", ~attended, last_msg # 0, t \in Filtered => from_template,
                    steady <= last_msg, tick - last_msg >= Delay[t] + Grace
             PROVE  fired[t] >= EpisodeAnchor
  BY DEF FollowedUp, EpisodeAnchor
<1>0. /\ tick \in Nat /\ last_msg \in Nat /\ lag \in Nat /\ lag <= Grace
      /\ Delay[t] \in Nat /\ Grace \in Nat
  <2>1. tick \in Nat /\ last_msg \in Ticks /\ lag \in 0..Grace
    BY IdleTypes
  <2>2. Ticks \subseteq Nat /\ Grace \in Nat /\ Delay[t] \in Nat
    BY IdleConst
  <2> QED BY <2>1, <2>2
<1>1. (tick - lag) - last_msg >= Delay[t]
  BY <1>0
<1> QED BY <1>1 DEF IdleInv, SweptByThen

\* However sweeps, rewriters, messages and switches are interleaved: no trigger fires twice for
\* one silence unless its stamp was undone, and on a thread that is left as it is every
\* automation has fired when its delay and the margin of the sweep have gone by.
THEOREM IdleCorrect == IdleSpec => []IdleSafe
<1>1. IdleInv => IdleSafe
  BY InvFollowedUp DEF IdleInv, IdleSafe, OneEventPerSilence, StampedOnce
<1> QED BY IdleInvInit, IdleInvNext, <1>1, PTL DEF IdleSpec

\* close_idle_conversations closes no thread that is left as it is before the last of its
\* follow-ups (ADR 0024).
THEOREM ClosedAfterFollowUpsCorrect == IdleSpec => ClosedAfterFollowUps
<1>1. ASSUME IdleInv, [IdleNext]_idleVars, status = "active", status' = "closed", ~attended, steady <= last_msg,
             NEW t \in (switched_on \intersect Automations) \ undone, t \in Filtered => from_template
      PROVE  fired[t] >= EpisodeAnchor
  <2>1. Close
    BY <1>1 DEF IdleNext, idleVars, silent_thread, NextTick, Switch, WriteMeta, Emit, SweepCut, Inbound, Outbound,
                Scan, ReadMeta, Run
  <2>2. last_msg # 0 /\ tick - last_msg >= Delay[t] + Grace
    BY <1>1, <2>1 DEF Close, FollowUpFloor
  <2> QED BY <1>1, <2>2, InvFollowedUp DEF FollowedUp, EpisodeAnchor
<1>2. IdleInv /\ [IdleNext]_idleVars =>
        [status = "active" /\ status' = "closed" /\ ~attended /\ steady <= last_msg
           => \A t \in (switched_on \intersect Automations) \ undone :
                (t \in Filtered => from_template)
                  => fired[t] >= (IF last_in # 0 THEN last_in ELSE Started)]_idleVars
  BY <1>1 DEF EpisodeAnchor
<1> QED BY IdleInvInit, IdleInvNext, <1>2, PTL DEF IdleSpec, ClosedAfterFollowUps

\* A message of a cadence reaches a lead who has been silent since the event and whom no
\* person looks after, however late the run is.
THEOREM NudgedInSilenceCorrect == IdleSpec => NudgedInSilence
<1>1. ASSUME IdleInv, [IdleNext]_idleVars, NEW t \in Triggers, NEW a \in Ticks, <<t, a>> \in due \ due',
             last_msg' # last_msg
      PROVE  last_in <= a /\ ~attended
  <2>1. PICK u \in Triggers, b \in Ticks : Run(u, b)
    BY <1>1 DEF IdleNext, idleVars, silent_thread, NextTick, Switch, WriteMeta, Emit, SweepCut, Close, Inbound, Outbound,
                Scan, ReadMeta
  <2>2. b = a
    BY <1>1, <2>1 DEF Run
  <2>3. ~(last_in > a) /\ ~attended
    BY <1>1, <2>1, <2>2 DEF Run, EpisodeEnded
  <2>4. last_in \in Nat /\ a \in Nat
    BY <1>1, IdleTypes, IdleConst
  <2> QED BY <2>3, <2>4
<1>2. IdleInv /\ [IdleNext]_idleVars =>
        [\A t \in Triggers, anchor \in Ticks :
           (<<t, anchor>> \in due \ due' /\ last_msg' # last_msg) => last_in <= anchor /\ ~attended]_idleVars
  BY <1>1
<1> QED BY IdleInvInit, IdleInvNext, <1>2, PTL DEF IdleSpec, NudgedInSilence

-----------------------------------------------------------------------------
(* The walk of a graph. *)

WalkJobs == [of : Nodes, keys : Seq(Nodes)]
Ahead(queue) == UNION {ToSet(j.keys) : j \in queue}
Kept(rows) == UNION rows
Waiting == Kept(off_hours_rows) \union Ahead(walk_jobs)            \* in a row or in a job
InTheRun == off_hours \union ToSet(to_visit) \union Ahead(deferrals)  \* of the run
Present == {n \in Nodes : graph.kind[n] # "absent"}

\* What a walk holds besides the jobs and the rows is gone when it is over.
RunSound ==
  /\ wpc = "idle" => to_visit = <<>> /\ deferrals = {} /\ off_hours = {} /\ visited = {}
  /\ wpc = "generating" => to_visit # <<>> /\ node = Head(to_visit) /\ graph.kind[node] = "reply" /\ ~ctx.paused
  /\ wpc = "scheduling" => to_visit = <<>>
  /\ \A keys \in off_hours_rows : keys # {}
  /\ \A j \in deferrals : j.keys # <<>>

\* A run that may still speak has met no handoff, and nobody has the thread unless it changed
\* hands under the run.
MaySpeak ==
  wpc \in {"walking", "generating", "dispatching"} /\ ~ctx.paused =>
    /\ ~human \/ overtaken
    /\ \A n \in visited : graph.kind[n] # "handoff"

\* Jobs and rows are of nodes that there are.
OfThisGraph ==
  excused \/ (Waiting \subseteq Present /\ InTheRun \subseteq Present)

\* The event is the only job that starts at the trigger, and the first.
FromTheTrigger ==
  excused \/
    /\ \A j \in walk_jobs : j.keys = <<>> => j = TheEvent
    /\ TheEvent \in walk_jobs =>
         /\ walk_jobs = {TheEvent} /\ off_hours_rows = {} /\ wpc = "idle"
         /\ reached = ToSet(Targets(graph, Trigger(graph), "default"))

\* Every node that was reached has its place, and one that the walk has left has another.
PlacedOnce ==
  excused \/
    /\ visited \subseteq acted \union off_hours
    /\ wpc = "scheduling" => off_hours \subseteq acted \union Waiting
    /\ TheEvent \notin walk_jobs =>
         reached \subseteq acted \union Waiting \union InTheRun

WalkInv == WalkTypeOK /\ RunSound /\ MaySpeak /\ OfThisGraph /\ FromTheTrigger /\ PlacedOnce


-----------------------------------------------------------------------------
(* Sequences as sets, and the positions of a sequence. *)

LEMMA InSequence ==
  ASSUME NEW S, NEW s \in Seq(S)
  PROVE  ToSet(s) \subseteq S /\ \A x \in ToSet(s) : \E i \in 1..Len(s) : x = s[i]
BY DEF ToSet

LEMMA EmptyToSet == ToSet(<<>>) = {}
BY DEF ToSet

LEMMA HeadAndTail ==
  ASSUME NEW S, NEW s \in Seq(S), s # <<>>
  PROVE  Head(s) \in S /\ Tail(s) \in Seq(S) /\ ToSet(s) = {Head(s)} \union ToSet(Tail(s))
<1>1. Head(s) \in S /\ Tail(s) \in Seq(S) /\ Len(s) >= 1 /\ Len(s) \in Nat
  OBVIOUS
<1>2. /\ DOMAIN s = 1..Len(s) /\ DOMAIN Tail(s) = 1..(Len(s) - 1)
      /\ \A i \in 1..(Len(s) - 1) : Tail(s)[i] = s[i + 1]
      /\ Head(s) = s[1]
  OBVIOUS
<1>3. ASSUME NEW i \in 1..Len(s) PROVE s[i] \in {Head(s)} \union ToSet(Tail(s))
  <2>1. CASE i = 1
    BY <1>2, <2>1
  <2>2. CASE i # 1
    <3>1. i - 1 \in 1..(Len(s) - 1) /\ Tail(s)[i - 1] = s[i]
      BY <1>1, <1>2, <2>2
    <3> QED BY <1>2, <3>1 DEF ToSet
  <2> QED BY <2>1, <2>2
<1>4. ASSUME NEW i \in 1..(Len(s) - 1) PROVE Tail(s)[i] \in ToSet(s)
  <2>1. i + 1 \in 1..Len(s)
    BY <1>1
  <2> QED BY <1>2, <2>1 DEF ToSet
<1>5. Head(s) \in ToSet(s)
  BY <1>1, <1>2 DEF ToSet
<1> QED BY <1>1, <1>2, <1>3, <1>4, <1>5 DEF ToSet

LEMMA JoinedToSet ==
  ASSUME NEW S, NEW s \in Seq(S), NEW t \in Seq(S)
  PROVE  s \o t \in Seq(S) /\ ToSet(s \o t) = ToSet(s) \union ToSet(t)
<1>1. /\ s \o t \in Seq(S) /\ Len(s \o t) = Len(s) + Len(t)
      /\ Len(s) \in Nat /\ Len(t) \in Nat
      /\ DOMAIN s = 1..Len(s) /\ DOMAIN t = 1..Len(t) /\ DOMAIN (s \o t) = 1..(Len(s) + Len(t))
      /\ \A i \in 1..(Len(s) + Len(t)) : (s \o t)[i] = IF i <= Len(s) THEN s[i] ELSE t[i - Len(s)]
  OBVIOUS
<1>2. ASSUME NEW i \in 1..(Len(s) + Len(t)) PROVE (s \o t)[i] \in ToSet(s) \union ToSet(t)
  <2>1. CASE i <= Len(s)
    BY <1>1, <2>1 DEF ToSet
  <2>2. CASE ~(i <= Len(s))
    <3>1. i - Len(s) \in 1..Len(t) /\ (s \o t)[i] = t[i - Len(s)]
      BY <1>1, <2>2
    <3> QED BY <1>1, <3>1 DEF ToSet
  <2> QED BY <2>1, <2>2
<1>3. ASSUME NEW i \in 1..Len(s) PROVE s[i] \in ToSet(s \o t)
  <2>1. i \in 1..(Len(s) + Len(t)) /\ (s \o t)[i] = s[i]
    BY <1>1
  <2> QED BY <1>1, <2>1 DEF ToSet
<1>4. ASSUME NEW i \in 1..Len(t) PROVE t[i] \in ToSet(s \o t)
  <2>1. i + Len(s) \in 1..(Len(s) + Len(t)) /\ (s \o t)[i + Len(s)] = t[i]
    BY <1>1
  <2> QED BY <1>1, <2>1 DEF ToSet
<1> QED BY <1>1, <1>2, <1>3, <1>4 DEF ToSet

\* Distinct positions have distinct ranks, so every rank is taken.
LEMMA NthPosition ==
  ASSUME NEW S \in SUBSET Nat, IsFiniteSet(S), NEW k \in 1..Cardinality(S)
  PROVE  Nth(S, k) \in S
<1> DEFINE upto(i) == {j \in S : j <= i}
           rank == [i \in S |-> Cardinality(upto(i))]
           c == Cardinality(S)
<1>1. c \in Nat
  BY FS_CardinalityType
<1>2. ASSUME NEW i \in S
      PROVE  IsFiniteSet(upto(i)) /\ Cardinality(upto(i)) \in 1..c /\ Cardinality(upto(i)) \in Nat
  <2>1. upto(i) \in SUBSET S /\ i \in upto(i)
    OBVIOUS
  <2>2. IsFiniteSet(upto(i)) /\ Cardinality(upto(i)) <= c /\ Cardinality(upto(i)) \in Nat
    BY <2>1, FS_Subset, FS_CardinalityType
  <2>3. Cardinality(upto(i)) # 0
    BY <2>1, <2>2, FS_EmptySet
  <2> QED BY <1>1, <2>2, <2>3
<1>3. ASSUME NEW i \in S, NEW j \in S, i < j PROVE Cardinality(upto(i)) # Cardinality(upto(j))
  <2>0. i \in Nat /\ j \in Nat /\ \A x \in S : x \in Nat
    OBVIOUS
  <2>1. upto(i) \in SUBSET upto(j) /\ j \in upto(j) /\ j \notin upto(i)
    <3>1. (\A x \in S : x <= i => x <= j) /\ j <= j /\ ~(j <= i)
      BY <1>3, <2>0
    <3> QED BY <3>1
  <2>2. IsFiniteSet(upto(j))
    BY <1>2
  <2> HIDE DEF upto
  <2> QED BY <2>1, <2>2, FS_Subset
<1>4. rank \in Injection(S, 1..c)
  <2>1. rank \in [S -> 1..c]
    BY <1>2
  <2>2. ASSUME NEW i \in S, NEW j \in S, rank[i] = rank[j] PROVE i = j
    <3>1. ~(i < j) /\ ~(j < i)
      BY <1>3, <2>2
    <3> QED BY <3>1
  <2> QED BY <2>1, <2>2 DEF Injection, IsInjective
<1>5. IsFiniteSet(1..c) /\ Cardinality(1..c) = c
  BY <1>1, FS_Interval
<1>6. rank \in Surjection(S, 1..c)
  <2> HIDE DEF rank
  <2> QED BY <1>4, <1>5, FS_Injection
<1>7. PICK i \in S : rank[i] = k
  <2> HIDE DEF rank
  <2> QED BY <1>6 DEF Surjection
<1>8. Cardinality({j \in S : j <= i}) = k
  BY <1>7
<1> QED BY <1>8 DEF Nth

\* SetToSeq gives all the elements, and no others.
LEMMA SetAsSequence ==
  ASSUME NEW S, IsFiniteSet(S)
  PROVE  SetToSeq(S) \in Seq(S) /\ ToSet(SetToSeq(S)) = S
<1> DEFINE c == Cardinality(S)
<1>1. c \in Nat /\ ExistsBijection(1..c, S) /\ IsFiniteSet(1..c) /\ Cardinality(1..c) = c
  BY FS_CardinalityType, FS_Interval
<1>2. \E f \in [1..c -> S] : IsInjective(f)
  BY <1>1 DEF ExistsBijection, Bijection, Injection, IsInjective
<1>3. SetToSeq(S) \in [1..c -> S] /\ IsInjective(SetToSeq(S))
  BY <1>2 DEF SetToSeq
<1>4. SetToSeq(S) \in Injection(1..c, S)
  BY <1>3 DEF Injection, IsInjective
<1>5. SetToSeq(S) \in Surjection(1..c, S)
  <2> HIDE DEF c
  <2> QED BY <1>1, <1>4, FS_Injection DEF c
<1>6. \A x \in S : \E i \in 1..c : SetToSeq(S)[i] = x
  BY <1>5 DEF Surjection
<1>7. SetToSeq(S) \in Seq(S) /\ DOMAIN SetToSeq(S) = 1..c
  BY <1>1, <1>3
<1> QED BY <1>3, <1>6, <1>7 DEF ToSet


LEMMA WalkConst ==
  /\ MaxTurns \in Nat /\ MaxFailures \in Nat /\ IsFiniteSet(Nodes)
  /\ \A g \in FlowGraphs :
       /\ g.kind \in [Nodes -> Kinds]
       /\ g.edges \in Seq([source : Nodes, target : Nodes, branch : Branches])
       /\ ValidGraph(g)
BY GraphWalkAssumption

\* A graph that was saved has one trigger, and its arrows lead to nodes that there are.
LEMMA GraphSound ==
  ASSUME NEW g \in FlowGraphs
  PROVE  /\ Trigger(g) \in Nodes
         /\ \A n \in Nodes, branch \in Branches :
              /\ Targets(g, n, branch) \in Seq(Nodes)
              /\ \A m \in ToSet(Targets(g, n, branch)) : m \in Nodes /\ g.kind[m] # "absent"
<1> DEFINE present == {n \in Nodes : g.kind[n] # "absent"}
           arcs == {<<g.edges[i].source, g.edges[i].target>> : i \in DOMAIN g.edges}
           triggers == {n \in present : g.kind[n] = "trigger"}
<1>1. Cardinality(triggers) = 1 /\ \A a \in arcs : a[2] \in present
  BY WalkConst DEF ValidGraph
<1>2. Trigger(g) \in Nodes
  <2>1. IsFiniteSet(triggers)
    <3>1. triggers \in SUBSET Nodes
      OBVIOUS
    <3> HIDE DEF triggers
    <3> QED BY <3>1, WalkConst, FS_Subset
  <2>2. triggers # {}
    <3> HIDE DEF triggers
    <3> QED BY <1>1, <2>1, FS_EmptySet
  <2> QED BY <2>2 DEF Trigger
<1>3. ASSUME NEW i \in DOMAIN g.edges PROVE g.edges[i].target \in present
  <2> DEFINE arc == <<g.edges[i].source, g.edges[i].target>>
  <2>1. arc \in arcs
    OBVIOUS
  <2>2. arc[2] \in present
    <3> HIDE DEF arc, arcs, present
    <3> QED BY <1>1, <2>1
  <2> QED BY <2>2
<1>4. ASSUME NEW n \in Nodes, NEW branch \in Branches
      PROVE  /\ Targets(g, n, branch) \in Seq(Nodes)
             /\ \A m \in ToSet(Targets(g, n, branch)) : m \in present
  <2> DEFINE chosen == {i \in DOMAIN g.edges :
               g.edges[i].source = n /\ (branch = "default" \/ g.edges[i].branch = branch)}
             c == Cardinality(chosen)
             target(k) == g.edges[Nth(chosen, k)].target
  <2>1. Targets(g, n, branch) = [k \in 1..c |-> target(k)]
    BY DEF Targets
  <2>2. chosen \in SUBSET (DOMAIN g.edges) /\ DOMAIN g.edges = 1..Len(g.edges) /\ Len(g.edges) \in Nat
    BY WalkConst
  <2> HIDE DEF chosen
  <2>3. chosen \in SUBSET Nat /\ IsFiniteSet(chosen) /\ c \in Nat
    <3>1. IsFiniteSet(1..Len(g.edges))
      BY <2>2, FS_Interval
    <3>2. chosen \in SUBSET (1..Len(g.edges))
      BY <2>2
    <3>3. IsFiniteSet(chosen)
      BY <3>1, <3>2, FS_Subset
    <3> QED BY <2>2, <3>2, <3>3, FS_CardinalityType
  <2>4. ASSUME NEW k \in 1..c PROVE target(k) \in present
    <3>1. Nth(chosen, k) \in chosen
      BY <2>3, NthPosition
    <3>2. Nth(chosen, k) \in DOMAIN g.edges
      BY <2>2, <3>1
    <3> HIDE DEF present
    <3> QED BY <1>3, <3>2
  <2> HIDE DEF c, target
  <2>5. Targets(g, n, branch) \in [1..c -> present] /\ c \in Nat
    <3>1. c \in Nat
      BY <2>3 DEF c
    <3> QED BY <2>1, <2>4, <3>1
  <2>6. Targets(g, n, branch) \in Seq(present)
    <3> HIDE DEF present
    <3> QED BY <2>5
  <2>7. Targets(g, n, branch) \in Seq(Nodes)
    <3>1. \A m \in present : m \in Nodes
      OBVIOUS
    <3> HIDE DEF present
    <3> QED BY <2>5, <3>1
  <2>8. ToSet(Targets(g, n, branch)) \subseteq present
    <3> HIDE DEF present
    <3> QED BY <2>6, InSequence
  <2> QED BY <2>7, <2>8
<1> QED BY <1>2, <1>4

LEMMA WalkTypes ==
  ASSUME WalkInv
  PROVE  /\ graph \in FlowGraphs /\ to_visit \in Seq(Nodes) /\ told \in Nat
         /\ walk_jobs \in SUBSET WalkJobs /\ deferrals \in SUBSET WalkJobs /\ job \in WalkJobs
         /\ off_hours_rows \in SUBSET SUBSET Nodes
         /\ visited \in SUBSET Nodes /\ off_hours \in SUBSET Nodes /\ reached \in SUBSET Nodes
         /\ acted \in SUBSET Nodes /\ node \in Nodes
         /\ ctx \in [paused : BOOLEAN, window : BOOLEAN, closed : BOOLEAN]
         /\ tx \in [locks : SUBSET {"conversation", "lead"}, human : BOOLEAN, healed : BOOLEAN]
         /\ human \in BOOLEAN /\ excused \in BOOLEAN /\ overtaken \in BOOLEAN /\ ai_reply_fired \in BOOLEAN
         /\ enabled \in BOOLEAN /\ window \in BOOLEAN /\ hours_open \in BOOLEAN /\ retired \in BOOLEAN
         /\ reengaged \in BOOLEAN
BY DEF WalkInv, WalkTypeOK, WalkJobs

LEMMA AheadOfBoth ==
  ASSUME NEW a, NEW b
  PROVE  Ahead(a \union b) = Ahead(a) \union Ahead(b) /\ Ahead({}) = {}
BY DEF Ahead

LEMMA WalkInvInit == WalkInit => WalkInv
<1> SUFFICES ASSUME WalkInit PROVE WalkInv
  OBVIOUS
<1>0. /\ graph \in FlowGraphs /\ Trigger(graph) \in Nodes
      /\ ToSet(Targets(graph, Trigger(graph), "default")) \subseteq Nodes
  BY GraphSound DEF WalkInit, Branches
<1>1. TheEvent \in WalkJobs /\ TheEvent.keys = <<>>
  BY <1>0 DEF TheEvent, WalkJobs
<1>2. WalkTypeOK
  <2>1. turns \in 0..MaxTurns /\ failures \in 0..MaxFailures
    BY WalkConst DEF WalkInit
  <2>2. ctx \in [paused : BOOLEAN, window : BOOLEAN, closed : BOOLEAN]
    BY DEF WalkInit, NoCtx
  <2>3. tx \in [locks : SUBSET {"conversation", "lead"}, human : BOOLEAN, healed : BOOLEAN]
    BY DEF WalkInit, NoTx
  <2>4. walk_jobs \union deferrals \union {job} \subseteq [of : Nodes, keys : Seq(Nodes)]
    BY <1>1 DEF WalkInit, WalkJobs
  <2>5. to_visit \in Seq(Nodes) /\ visited \union off_hours \union reached \union acted \union {node} \subseteq Nodes
    BY <1>0 DEF WalkInit
  <2> QED BY <2>1, <2>2, <2>3, <2>4, <2>5 DEF WalkInit, WalkTypeOK
<1>3. RunSound /\ MaySpeak
  BY DEF WalkInit, RunSound, MaySpeak
<1>4. OfThisGraph
  <2>1. Ahead({TheEvent}) = {} /\ Ahead({}) = {} /\ Kept({}) = {}
    BY <1>1, EmptyToSet DEF Ahead, Kept
  <2> QED BY <2>1, EmptyToSet DEF WalkInit, OfThisGraph, Waiting, InTheRun
<1>5. FromTheTrigger /\ PlacedOnce
  BY DEF WalkInit, FromTheTrigger, PlacedOnce
<1> QED BY <1>2, <1>3, <1>4, <1>5 DEF WalkInv

\* The walk goes on from the node at the head to nodes that there are.
LEMMA Followed ==
  ASSUME WalkInv, wpc \in {"walking", "generating"}, to_visit # <<>>, NEW n, n = Head(to_visit),
         NEW next \in Seq(Nodes), ToSet(next) \subseteq Present, Follow(n, next),
         UNCHANGED <<flow, thread, walk_jobs, off_hours_rows, job, node, deferrals, off_hours, excused, overtaken,
                     turns, failures>>,
         wpc' \in {"walking", "dispatching"}, ai_reply_fired' \in BOOLEAN,
         action' \in {"none", "escalate", "score", "move"}, told' \in Nat,
         ctx' \in [paused : BOOLEAN, window : BOOLEAN, closed : BOOLEAN],
         tx' \in [locks : SUBSET {"conversation", "lead"}, human : BOOLEAN, healed : BOOLEAN],
         ctx'.paused \/ (~ctx.paused /\ graph.kind[n] # "handoff")
  PROVE  WalkInv'
<1>0. /\ to_visit' = Tail(to_visit) \o next /\ visited' = visited \union {n}
      /\ reached' = reached \union ToSet(next) /\ acted' = acted \union {n}
      /\ graph' = graph /\ walk_jobs' = walk_jobs /\ off_hours_rows' = off_hours_rows /\ deferrals' = deferrals
      /\ off_hours' = off_hours /\ excused' = excused /\ node' = node /\ human' = human /\ overtaken' = overtaken
      /\ job' = job
  BY DEF Follow, flow, thread
<1>1. n \in Nodes /\ Tail(to_visit) \in Seq(Nodes) /\ ToSet(to_visit) = {n} \union ToSet(Tail(to_visit))
  BY WalkTypes, HeadAndTail
<1>2. /\ to_visit' \in Seq(Nodes) /\ ToSet(to_visit') = ToSet(Tail(to_visit)) \union ToSet(next)
      /\ ToSet(next) \subseteq Nodes
  <2>1. ToSet(next) \subseteq Nodes
    BY InSequence
  <2>2. Tail(to_visit) \o next \in Seq(Nodes)
        /\ ToSet(Tail(to_visit) \o next) = ToSet(Tail(to_visit)) \union ToSet(next)
    BY <1>1, JoinedToSet
  <2> QED BY <1>0, <2>1, <2>2
<1>3. WalkTypeOK'
  <2>1. visited' \union off_hours' \union reached' \union acted' \union {node'} \subseteq Nodes
    BY <1>0, <1>1, <1>2, WalkTypes
  <2>2. wpc' \in {"idle", "walking", "generating", "dispatching", "scheduling"}
    OBVIOUS
  <2> QED BY <1>0, <1>2, <2>1, <2>2 DEF WalkInv, WalkTypeOK, flow, thread
<1>4. RunSound'
  BY <1>0 DEF WalkInv, RunSound
<1>5. MaySpeak'
  BY <1>0 DEF WalkInv, MaySpeak
<1>6. /\ Waiting' = Waiting /\ Present' = Present /\ TheEvent' = TheEvent
      /\ InTheRun \subseteq {n} \union InTheRun' /\ ToSet(next) \subseteq InTheRun'
      /\ InTheRun' \subseteq InTheRun \union ToSet(next)
  <2>1. Waiting' = Waiting /\ Present' = Present /\ TheEvent' = TheEvent
    BY <1>0 DEF Waiting, Present, TheEvent, Ahead
  <2>2. Ahead(deferrals)' = Ahead(deferrals)
    BY <1>0 DEF Ahead
  <2> QED BY <1>0, <1>1, <1>2, <2>1, <2>2 DEF InTheRun
<1>7. OfThisGraph' /\ PlacedOnce'
  <2>1. CASE excused
    BY <1>0, <2>1 DEF OfThisGraph, PlacedOnce
  <2>2. CASE ~excused
    <3>1. /\ Waiting \subseteq Present /\ InTheRun \subseteq Present /\ visited \subseteq acted \union off_hours
          /\ TheEvent \notin walk_jobs => reached \subseteq acted \union Waiting \union InTheRun
      BY <2>2 DEF WalkInv, OfThisGraph, PlacedOnce
    <3>2. OfThisGraph'
      BY <1>6, <3>1 DEF OfThisGraph
    <3>3. PlacedOnce'
      BY <1>0, <1>6, <3>1 DEF PlacedOnce
    <3> QED BY <3>2, <3>3
  <2> QED BY <2>1, <2>2
<1>8. FromTheTrigger'
  <2>1. wpc # "idle"
    OBVIOUS
  <2> QED BY <1>0, <1>6, <2>1 DEF WalkInv, FromTheTrigger
<1> QED BY <1>3, <1>4, <1>5, <1>7, <1>8 DEF WalkInv


LEMMA NextSound ==
  ASSUME WalkInv, NEW n \in Nodes, NEW branch \in Branches
  PROVE  Targets(graph, n, branch) \in Seq(Nodes) /\ ToSet(Targets(graph, n, branch)) \subseteq Present
<1>1. \A m \in ToSet(Targets(graph, n, branch)) : m \in Nodes /\ graph.kind[m] # "absent"
  BY WalkTypes, GraphSound
<1>2. Targets(graph, n, branch) \in Seq(Nodes)
  BY WalkTypes, GraphSound
<1> QED BY <1>1, <1>2 DEF Present

LEMMA DeliverTypes ==
  ASSUME WalkInv, NEW mode, Deliver(mode)
  PROVE  /\ told' \in Nat
         /\ tx' \in [locks : SUBSET {"conversation", "lead"}, human : BOOLEAN, healed : BOOLEAN]
<1>1. told \in Nat /\ tx \in [locks : SUBSET {"conversation", "lead"}, human : BOOLEAN, healed : BOOLEAN]
  BY WalkTypes
<1>2. CASE mode = "skip"
  BY <1>1, <1>2 DEF Deliver
<1>3. CASE mode # "skip"
  BY <1>1, <1>3 DEF Deliver
<1> QED BY <1>2, <1>3

\* A node at which the walk does not hand over: it goes on with the context it has.
LEMMA FollowedOn ==
  ASSUME WalkInv, NEW n \in Nodes, Arrive(n), graph.kind[n] # "handoff",
         NEW next \in Seq(Nodes), ToSet(next) \subseteq Present, Follow(n, next), WalkOnly,
         UNCHANGED <<deferrals, off_hours>>,
         wpc' \in {"walking", "dispatching"}, ai_reply_fired' \in BOOLEAN,
         action' \in {"none", "escalate", "score", "move"}, told' \in Nat,
         tx' \in [locks : SUBSET {"conversation", "lead"}, human : BOOLEAN, healed : BOOLEAN]
  PROVE  WalkInv'
<1>1. ctx' = ctx /\ ctx \in [paused : BOOLEAN, window : BOOLEAN, closed : BOOLEAN]
  BY WalkTypes DEF WalkOnly
<1>2. wpc \in {"walking", "generating"} /\ to_visit # <<>> /\ n = Head(to_visit)
  BY DEF Arrive
<1>3. UNCHANGED <<flow, thread, walk_jobs, off_hours_rows, job, node, deferrals, off_hours, excused, overtaken,
                  turns, failures>>
  BY DEF WalkOnly
<1>4. ctx'.paused \/ (~ctx.paused /\ graph.kind[n] # "handoff")
  BY <1>1
<1> QED BY <1>1, <1>2, <1>3, <1>4, Followed

LEMMA WalkActionTypes ==
  ASSUME WalkInv
  PROVE  action \in {"none", "escalate", "score", "move"} /\ ai_reply_fired \in BOOLEAN /\ told \in Nat
         /\ tx \in [locks : SUBSET {"conversation", "lead"}, human : BOOLEAN, healed : BOOLEAN]
BY DEF WalkInv, WalkTypeOK

LEMMA BranchStep == ASSUME WalkInv, NEW n \in Nodes, Branch(n) PROVE WalkInv'
<1>1. PICK branch \in Branches : Follow(n, Targets(graph, n, branch))
  BY DEF Branch, Branches
<1>2. /\ Arrive(n) /\ graph.kind[n] # "handoff" /\ wpc' = wpc /\ wpc = "walking" /\ WalkOnly
      /\ UNCHANGED <<deferrals, off_hours, ai_reply_fired, action, tx, told>>
  BY DEF Branch, Fresh, Arrive
<1> QED BY <1>1, <1>2, NextSound, FollowedOn, WalkActionTypes

LEMMA WaitUntilStep == ASSUME WalkInv, NEW n \in Nodes, WaitUntilBefore(n) PROVE WalkInv'
<1>1. <<>> \in Seq(Nodes) /\ ToSet(<<>>) \subseteq Present
  BY EmptyToSet
<1>2. /\ Arrive(n) /\ graph.kind[n] # "handoff" /\ wpc' = wpc /\ wpc = "walking" /\ WalkOnly /\ Follow(n, <<>>)
      /\ UNCHANGED <<deferrals, off_hours, ai_reply_fired, action, tx, told>>
  BY DEF WaitUntilBefore, Fresh, Arrive
<1> QED BY <1>1, <1>2, FollowedOn, WalkActionTypes

LEMMA SilencedStep == ASSUME WalkInv, NEW n \in Nodes, Silenced(n) PROVE WalkInv'
<1>1. Targets(graph, n, "default") \in Seq(Nodes) /\ ToSet(Targets(graph, n, "default")) \subseteq Present
  BY NextSound DEF Branches
<1>2. /\ Arrive(n) /\ wpc' = wpc /\ wpc = "walking" /\ WalkOnly
      /\ Follow(n, Targets(graph, n, "default"))
      /\ UNCHANGED <<deferrals, off_hours, action, tx, told>>
  BY DEF Silenced, Fresh, Arrive
<1>3. graph.kind[n] # "handoff"
  BY DEF Silenced, Gated, CustomerFacing
<1>4. ai_reply_fired' \in BOOLEAN
  BY DEF Silenced
<1> QED BY <1>1, <1>2, <1>3, <1>4, FollowedOn, WalkActionTypes

LEMMA SendNodeStep == ASSUME WalkInv, NEW n \in Nodes, SendNode(n) PROVE WalkInv'
<1>1. Targets(graph, n, "default") \in Seq(Nodes) /\ ToSet(Targets(graph, n, "default")) \subseteq Present
  BY NextSound DEF Branches
<1>2. /\ Arrive(n) /\ wpc' = wpc /\ wpc = "walking" /\ WalkOnly /\ graph.kind[n] # "handoff"
      /\ Follow(n, Targets(graph, n, "default"))
      /\ UNCHANGED <<deferrals, off_hours, action, ai_reply_fired>>
  BY DEF SendNode, Fresh, Arrive
<1>3. PICK mode : Deliver(mode)
  BY DEF SendNode
<1>4. told' \in Nat /\ tx' \in [locks : SUBSET {"conversation", "lead"}, human : BOOLEAN, healed : BOOLEAN]
  BY <1>3, DeliverTypes
<1> QED BY <1>1, <1>2, <1>4, FollowedOn, WalkActionTypes

LEMMA MoveStep == ASSUME WalkInv, NEW n \in Nodes, Move(n) PROVE WalkInv'
<1>1. Targets(graph, n, "default") \in Seq(Nodes) /\ ToSet(Targets(graph, n, "default")) \subseteq Present
  BY NextSound DEF Branches
<1>2. /\ Arrive(n) /\ wpc' = "dispatching" /\ WalkOnly /\ graph.kind[n] # "handoff" /\ action' = "move"
      /\ Follow(n, Targets(graph, n, "default"))
      /\ UNCHANGED <<deferrals, off_hours, ai_reply_fired, tx, told>>
  BY DEF Move, Fresh
<1> QED BY <1>1, <1>2, FollowedOn, WalkActionTypes

LEMMA InternalStep ==
  ASSUME WalkInv, NEW n \in Nodes, SetLeadField(n) \/ SetProfile(n) \/ EmitOutcome(n) \/ NotifySlack(n)
  PROVE  WalkInv'
<1>1. Targets(graph, n, "default") \in Seq(Nodes) /\ ToSet(Targets(graph, n, "default")) \subseteq Present
  BY NextSound DEF Branches
<1>2. PICK locks \in SUBSET {"conversation", "lead"} : Internal(n, locks) /\ graph.kind[n] # "handoff"
  BY DEF SetLeadField, SetProfile, EmitOutcome, NotifySlack
<1>3. /\ Arrive(n) /\ wpc' = wpc /\ wpc = "walking" /\ WalkOnly
      /\ Follow(n, Targets(graph, n, "default"))
      /\ UNCHANGED <<deferrals, off_hours, ai_reply_fired, action, told>>
      /\ tx' = [tx EXCEPT !.locks = @ \union locks]
  BY <1>2 DEF Internal, Fresh, Arrive
<1>4. tx' \in [locks : SUBSET {"conversation", "lead"}, human : BOOLEAN, healed : BOOLEAN]
  BY <1>3, WalkActionTypes
<1> QED BY <1>1, <1>2, <1>3, <1>4, FollowedOn, WalkActionTypes

LEMMA SendReplyStep == ASSUME WalkInv, SendReply PROVE WalkInv'
<1>0. node \in Nodes /\ wpc = "generating" /\ to_visit # <<>> /\ node = Head(to_visit) /\ graph.kind[node] = "reply"
  BY WalkTypes DEF SendReply, WalkInv, RunSound
<1>1. Targets(graph, node, "default") \in Seq(Nodes) /\ ToSet(Targets(graph, node, "default")) \subseteq Present
  BY <1>0, NextSound DEF Branches
<1>2. PICK mode : Deliver(mode)
  BY DEF SendReply
<1>3. told' \in Nat /\ tx' \in [locks : SUBSET {"conversation", "lead"}, human : BOOLEAN, healed : BOOLEAN]
  BY <1>2, DeliverTypes
<1>4. wpc' \in {"walking", "dispatching"} /\ action' \in {"none", "escalate", "score", "move"}
  BY DEF SendReply
<1>5. /\ Follow(node, Targets(graph, node, "default")) /\ ctx' = ctx
      /\ UNCHANGED <<flow, thread, walk_jobs, off_hours_rows, job, node, deferrals, off_hours, excused, overtaken,
                     turns, failures>>
      /\ ai_reply_fired' \in BOOLEAN
  BY WalkActionTypes DEF SendReply, WalkOnly
<1>6. /\ ctx' \in [paused : BOOLEAN, window : BOOLEAN, closed : BOOLEAN]
      /\ ctx'.paused \/ (~ctx.paused /\ graph.kind[node] # "handoff")
  BY <1>0, <1>5, WalkTypes
<1> QED BY <1>0, <1>1, <1>3, <1>4, <1>5, <1>6, Followed

LEMMA HandoffStep == ASSUME WalkInv, NEW n \in Nodes, Handoff(n) PROVE WalkInv'
<1>1. Targets(graph, n, "default") \in Seq(Nodes) /\ ToSet(Targets(graph, n, "default")) \subseteq Present
  BY NextSound DEF Branches
<1>2. /\ wpc \in {"walking", "generating"} /\ to_visit # <<>> /\ n = Head(to_visit)
      /\ Follow(n, Targets(graph, n, "default")) /\ wpc' \in {"walking", "dispatching"}
      /\ UNCHANGED <<flow, thread, walk_jobs, off_hours_rows, job, node, deferrals, off_hours, excused, overtaken,
                     turns, failures>>
      /\ UNCHANGED <<ai_reply_fired, action, told>>
      /\ ctx' = [ctx EXCEPT !.paused = TRUE]
  BY DEF Handoff, Fresh, Arrive, PausesAlways
<1>3. tx' \in [locks : SUBSET {"conversation", "lead"}, human : BOOLEAN, healed : BOOLEAN]
  <2>1. tx' = tx \/ tx' = [tx EXCEPT !.locks = @ \union {"conversation"}, !.human = TRUE]
    BY DEF Handoff
  <2> QED BY <2>1, WalkActionTypes
<1>4. ctx' \in [paused : BOOLEAN, window : BOOLEAN, closed : BOOLEAN] /\ ctx'.paused
  BY <1>2, WalkTypes
<1> QED BY <1>1, <1>2, <1>3, <1>4, WalkActionTypes, Followed


\* A step that leaves the graph, the jobs and what the run has in hand.
LEMMA Elsewhere ==
  ASSUME WalkInv, UNCHANGED <<graph, excused, walk_jobs, off_hours_rows, off_hours, to_visit, deferrals, visited,
                              reached, acted>>,
         wpc' = wpc \/ (wpc # "idle" /\ wpc' \notin {"idle", "scheduling"})
  PROVE  OfThisGraph' /\ FromTheTrigger' /\ PlacedOnce'
<1>1. Waiting' = Waiting /\ InTheRun' = InTheRun /\ Present' = Present /\ TheEvent' = TheEvent
  BY DEF Waiting, InTheRun, Present, TheEvent, Ahead
<1>2. OfThisGraph'
  BY <1>1 DEF WalkInv, OfThisGraph
<1>3. PlacedOnce'
  BY <1>1 DEF WalkInv, PlacedOnce
<1>4. FromTheTrigger'
  BY <1>1 DEF WalkInv, FromTheTrigger
<1> QED BY <1>2, <1>3, <1>4

LEMMA GenerateStep == ASSUME WalkInv, NEW n \in Nodes, Generate(n) PROVE WalkInv'
<1>1. /\ Arrive(n) /\ graph.kind[n] = "reply" /\ wpc = "walking" /\ wpc' = "generating" /\ node' = n
      /\ ai_reply_fired' = TRUE
      /\ UNCHANGED <<flow, thread, walk_jobs, off_hours_rows, job, ctx, to_visit, visited, deferrals, off_hours,
                     action, tx, record>>
  BY DEF Generate, Fresh, Arrive
<1>2. ~ctx.paused
  BY DEF Generate, Gated, CustomerFacing
<1>3. WalkTypeOK'
  BY <1>1 DEF WalkInv, WalkTypeOK, flow, thread, record
<1>4. RunSound' /\ MaySpeak'
  BY <1>1, <1>2 DEF WalkInv, RunSound, MaySpeak, flow, thread, record, Arrive
<1> QED BY <1>1, <1>3, <1>4, Elsewhere DEF WalkInv, flow, record

LEMMA DispatchedStep == ASSUME WalkInv, Dispatched PROVE WalkInv'
<1>1. /\ wpc = "dispatching" /\ wpc' = "walking" /\ action' = "none" /\ (overtaken' <=> overtaken \/ human' # human)
      /\ UNCHANGED <<flow, window, hours_open, reengaged, retired, walk_jobs, off_hours_rows, job, ctx,
                     to_visit, visited, ai_reply_fired, deferrals, off_hours, node, tx, reached, acted,
                     excused, told, turns, failures>>
  BY DEF Dispatched
<1>2. human' \in BOOLEAN /\ overtaken' \in BOOLEAN
  BY WalkTypes DEF Dispatched
<1>3. WalkTypeOK'
  BY <1>1, <1>2 DEF WalkInv, WalkTypeOK, flow
<1>4. RunSound'
  BY <1>1 DEF WalkInv, RunSound
<1>5. MaySpeak'
  <2>1. CASE overtaken'
    BY <1>1, <2>1 DEF WalkInv, MaySpeak, flow
  <2>2. CASE ~overtaken'
    <3>1. human' = human /\ ~overtaken
      BY <1>1, <2>2
    <3> QED BY <1>1, <3>1 DEF WalkInv, MaySpeak, flow
  <2> QED BY <2>1, <2>2
<1> QED BY <1>1, <1>3, <1>4, <1>5, Elsewhere DEF WalkInv, flow

\* The operator, the customer and the clock.
LEMMA AroundStep ==
  ASSUME WalkInv, OperatorActs \/ CustomerWrites \/ WindowCloses \/ HoursTurn
  PROVE  WalkInv'
<1>1. /\ UNCHANGED <<flow, excused, walk_jobs, off_hours_rows, run, reached, acted, told, failures>>
      /\ turns < MaxTurns /\ turns' = turns + 1
      /\ UNCHANGED <<human, overtaken>> \/ (overtaken' = TRUE /\ human' = ~human)
  BY DEF OperatorActs, CustomerWrites, WindowCloses, HoursTurn, Turn, AroundOnly
<1>2. turns' \in 0..MaxTurns
  BY <1>1, WalkConst DEF WalkInv, WalkTypeOK
<1>3. /\ window' \in BOOLEAN /\ hours_open' \in BOOLEAN /\ reengaged' \in BOOLEAN /\ retired' \in BOOLEAN
  BY WalkTypes DEF OperatorActs, CustomerWrites, WindowCloses, HoursTurn
<1>4. human' \in BOOLEAN /\ overtaken' \in BOOLEAN
  BY <1>1, WalkTypes
<1>5. WalkTypeOK'
  BY <1>1, <1>2, <1>3, <1>4 DEF WalkInv, WalkTypeOK, flow, run
<1>6. RunSound'
  BY <1>1 DEF WalkInv, RunSound, flow, run
<1>7. MaySpeak'
  BY <1>1 DEF WalkInv, MaySpeak, flow, run
<1> QED BY <1>1, <1>5, <1>6, <1>7, Elsewhere DEF WalkInv, flow, run

LEMMA SaveGraphStep == ASSUME WalkInv, SaveGraph PROVE WalkInv'
<1>1. /\ wpc = "idle" /\ excused' = TRUE
      /\ UNCHANGED <<thread, overtaken, walk_jobs, off_hours_rows, run, reached, acted, told, failures>>
      /\ turns < MaxTurns /\ turns' = turns + 1
  BY DEF SaveGraph, Turn, AroundOnly
<1>2. turns' \in 0..MaxTurns
  BY <1>1, WalkConst DEF WalkInv, WalkTypeOK
<1>3. graph' \in FlowGraphs /\ enabled' \in BOOLEAN
  BY WalkTypes DEF SaveGraph
<1>4. WalkTypeOK'
  BY <1>1, <1>2, <1>3 DEF WalkInv, WalkTypeOK, thread, run
<1>5. RunSound' /\ MaySpeak'
  BY <1>1 DEF WalkInv, RunSound, MaySpeak, run
<1> QED BY <1>1, <1>4, <1>5 DEF WalkInv, OfThisGraph, FromTheTrigger, PlacedOnce

\* A node that is skipped had its turn, or waits for the opening: nobody has deleted it.
LEMMA SkipStep == ASSUME WalkInv, NEW n \in Nodes, SkipNode(n) PROVE WalkInv'
<1>1. /\ wpc = "walking" /\ to_visit # <<>> /\ n = Head(to_visit)
      /\ (n \in visited \/ graph.kind[n] = "absent")
      /\ to_visit' = Tail(to_visit) /\ visited' = visited \union {n}
      /\ UNCHANGED <<flow, thread, walk_jobs, off_hours_rows, job, ctx, node, excused, overtaken, turns, failures>>
      /\ UNCHANGED <<wpc, ai_reply_fired, deferrals, off_hours, action, tx, reached, acted, told>>
  BY DEF SkipNode, Arrive, WalkOnly
<1>2. to_visit' \in Seq(Nodes) /\ ToSet(to_visit) = {n} \union ToSet(to_visit')
  BY <1>1, WalkTypes, HeadAndTail
<1>3. WalkTypeOK'
  BY <1>1, <1>2 DEF WalkInv, WalkTypeOK, flow, thread
<1>4. RunSound' /\ MaySpeak'
  BY <1>1 DEF WalkInv, RunSound, MaySpeak, flow, thread
<1>5. /\ Waiting' = Waiting /\ Present' = Present /\ TheEvent' = TheEvent /\ InTheRun = {n} \union InTheRun'
  <2>1. Waiting' = Waiting /\ Present' = Present /\ TheEvent' = TheEvent /\ Ahead(deferrals)' = Ahead(deferrals)
    BY <1>1 DEF Waiting, Present, TheEvent, Ahead, flow
  <2> QED BY <1>1, <1>2, <2>1 DEF InTheRun
<1>6. OfThisGraph' /\ PlacedOnce'
  <2>1. CASE excused
    BY <1>1, <2>1 DEF OfThisGraph, PlacedOnce
  <2>2. CASE ~excused
    <3>1. /\ Waiting \subseteq Present /\ InTheRun \subseteq Present /\ visited \subseteq acted \union off_hours
          /\ TheEvent \notin walk_jobs => reached \subseteq acted \union Waiting \union InTheRun
      BY <2>2 DEF WalkInv, OfThisGraph, PlacedOnce
    <3>2. n \in visited
      BY <1>1, <1>5, <3>1 DEF Present
    <3>3. n \in acted \union InTheRun'
      <4>1. off_hours \subseteq InTheRun'
        BY <1>1 DEF InTheRun
      <4> QED BY <3>1, <3>2, <4>1
    <3>4. OfThisGraph'
      BY <1>5, <3>1 DEF OfThisGraph
    <3>5. PlacedOnce'
      BY <1>1, <1>5, <3>1, <3>2, <3>3 DEF PlacedOnce
    <3> QED BY <3>4, <3>5
  <2> QED BY <2>1, <2>2
<1>7. FromTheTrigger'
  BY <1>1, <1>5 DEF WalkInv, FromTheTrigger, flow
<1> QED BY <1>3, <1>4, <1>6, <1>7 DEF WalkInv


LEMMA WaitingNext == Waiting' = Kept(off_hours_rows') \union Ahead(walk_jobs')
BY DEF Waiting, Kept, Ahead

LEMMA KeptOfBoth ==
  ASSUME NEW rows, NEW keys
  PROVE  Kept(rows \union {keys}) = Kept(rows) \union keys
         /\ (keys \in rows => Kept(rows) = Kept(rows \ {keys}) \union keys)
<1>1. \A x : x \in Kept(rows \union {keys}) <=> x \in Kept(rows) \union keys
  BY DEF Kept
<1>2. ASSUME keys \in rows, NEW x PROVE x \in Kept(rows) <=> x \in Kept(rows \ {keys}) \union keys
  BY <1>2 DEF Kept
<1> QED BY <1>1, <1>2

\* The walk leaves a node that another run takes up, from there or from the nodes after it.
LEMMA Suspended ==
  ASSUME WalkInv, wpc = "walking", to_visit # <<>>, NEW n, n = Head(to_visit), graph.kind[n] # "handoff",
         NEW next, ToSet(next) \subseteq Present, NEW here \in SUBSET {n},
         to_visit' = Tail(to_visit), visited' = visited \union {n}, reached' = reached \union ToSet(next),
         off_hours' = off_hours \union here, acted' = acted \union ({n} \ here),
         deferrals' \in SUBSET WalkJobs, \A j \in deferrals' : j.keys # <<>>,
         Ahead(deferrals') = Ahead(deferrals) \union ToSet(next),
         UNCHANGED <<flow, thread, walk_jobs, off_hours_rows, job, ctx, node, excused, overtaken, turns, failures>>,
         UNCHANGED <<wpc, ai_reply_fired, action, tx, told>>
  PROVE  WalkInv'
<1>1. to_visit' \in Seq(Nodes) /\ ToSet(to_visit) = {n} \union ToSet(to_visit') /\ n \in Nodes
  BY WalkTypes, HeadAndTail
<1>2. WalkTypeOK'
  <2>1. visited' \union off_hours' \union reached' \union acted' \union {node'} \subseteq Nodes
    BY <1>1, WalkTypes DEF Present
  <2>2. walk_jobs' \union deferrals' \union {job'} \subseteq [of : Nodes, keys : Seq(Nodes)]
    BY WalkTypes DEF WalkJobs
  <2> QED BY <1>1, <2>1, <2>2 DEF WalkInv, WalkTypeOK, flow, thread
<1>3. RunSound'
  BY DEF WalkInv, RunSound
<1>4. MaySpeak'
  BY DEF WalkInv, MaySpeak, flow, thread
<1>5. /\ Waiting' = Waiting /\ Present' = Present /\ TheEvent' = TheEvent
      /\ InTheRun \subseteq {n} \union InTheRun' /\ here \subseteq InTheRun' /\ off_hours \subseteq off_hours'
      /\ ToSet(next) \subseteq InTheRun' /\ InTheRun' \subseteq InTheRun \union ToSet(next)
  <2>1. Waiting' = Waiting /\ Present' = Present /\ TheEvent' = TheEvent
    BY DEF Waiting, Present, TheEvent, Ahead, flow
  <2>2. Ahead(deferrals)' = Ahead(deferrals) \union ToSet(next)
    BY DEF Ahead
  <2> QED BY <1>1, <2>1, <2>2 DEF InTheRun
<1>6. OfThisGraph' /\ PlacedOnce'
  <2>1. CASE excused
    BY <2>1 DEF OfThisGraph, PlacedOnce
  <2>2. CASE ~excused
    <3>1. /\ Waiting \subseteq Present /\ InTheRun \subseteq Present /\ visited \subseteq acted \union off_hours
          /\ TheEvent \notin walk_jobs => reached \subseteq acted \union Waiting \union InTheRun
      BY <2>2 DEF WalkInv, OfThisGraph, PlacedOnce
    <3>2. OfThisGraph'
      BY <1>5, <3>1 DEF OfThisGraph
    <3>3. PlacedOnce'
      BY <1>5, <3>1 DEF PlacedOnce
    <3> QED BY <3>2, <3>3
  <2> QED BY <2>1, <2>2
<1>7. FromTheTrigger'
  BY <1>5 DEF WalkInv, FromTheTrigger
<1> QED BY <1>2, <1>3, <1>4, <1>6, <1>7 DEF WalkInv

LEMMA WaitMinutesStep == ASSUME WalkInv, NEW n \in Nodes, WaitMinutes(n) PROVE WalkInv'
<1> DEFINE next == Targets(graph, n, "default")
<1>1. /\ wpc = "walking" /\ to_visit # <<>> /\ n = Head(to_visit) /\ graph.kind[n] = "wait"
      /\ to_visit' = Tail(to_visit) /\ visited' = visited \union {n} /\ reached' = reached \union ToSet(next)
      /\ acted' = acted \union {n}
      /\ deferrals' = IF next = <<>> THEN deferrals ELSE deferrals \union {[of |-> n, keys |-> next]}
      /\ UNCHANGED <<flow, thread, walk_jobs, off_hours_rows, job, ctx, node, excused, overtaken, turns, failures>>
      /\ UNCHANGED <<wpc, ai_reply_fired, off_hours, action, tx, told>>
  BY DEF WaitMinutes, Fresh, Arrive, WalkOnly
<1>2. next \in Seq(Nodes) /\ ToSet(next) \subseteq Present
  BY NextSound DEF Branches
<1> HIDE DEF next
<1>3. /\ deferrals' \in SUBSET WalkJobs /\ \A j \in deferrals' : j.keys # <<>>
      /\ Ahead(deferrals') = Ahead(deferrals) \union ToSet(next)
  <2>1. deferrals \in SUBSET WalkJobs /\ \A j \in deferrals : j.keys # <<>>
    BY WalkTypes DEF WalkInv, RunSound
  <2>2. CASE next = <<>>
    BY <1>1, <2>1, <2>2, EmptyToSet
  <2>3. CASE next # <<>>
    <3>1. [of |-> n, keys |-> next] \in WalkJobs /\ [of |-> n, keys |-> next].keys = next
      BY <1>2 DEF WalkJobs
    <3>2. Ahead({[of |-> n, keys |-> next]}) = ToSet(next)
      BY DEF Ahead
    <3>3. deferrals' = deferrals \union {[of |-> n, keys |-> next]}
      BY <1>1, <2>3
    <3>4. Ahead(deferrals') = Ahead(deferrals) \union ToSet(next)
      BY <3>2, <3>3, AheadOfBoth
    <3> QED BY <2>1, <2>3, <3>1, <3>3, <3>4
  <2> QED BY <2>2, <2>3
<1>4. /\ off_hours' = off_hours \union {} /\ acted' = acted \union ({n} \ {}) /\ {} \in SUBSET {n}
      /\ graph.kind[n] # "handoff"
  BY <1>1
<1> QED BY <1>1, <1>2, <1>3, <1>4, Suspended

LEMMA PostponeStep == ASSUME WalkInv, NEW n \in Nodes, Postpone(n) PROVE WalkInv'
<1>1. /\ wpc = "walking" /\ to_visit # <<>> /\ n = Head(to_visit) /\ graph.kind[n] # "handoff"
      /\ to_visit' = Tail(to_visit) /\ visited' = visited \union {n} /\ off_hours' = off_hours \union {n}
      /\ UNCHANGED <<flow, thread, walk_jobs, off_hours_rows, job, ctx, node, excused, overtaken, turns, failures>>
      /\ UNCHANGED <<wpc, ai_reply_fired, deferrals, action, tx, reached, acted, told>>
  BY DEF Postpone, PostponeTo, Fresh, Arrive, WalkOnly, CustomerFacing
<1>2. /\ ToSet(<<>>) \subseteq Present /\ reached' = reached \union ToSet(<<>>)
      /\ acted' = acted \union ({n} \ {n}) /\ {n} \in SUBSET {n}
      /\ Ahead(deferrals') = Ahead(deferrals) \union ToSet(<<>>)
  BY <1>1, EmptyToSet
<1>3. deferrals' \in SUBSET WalkJobs /\ \A j \in deferrals' : j.keys # <<>>
  BY <1>1, WalkTypes DEF WalkInv, RunSound
<1> QED BY <1>1, <1>2, <1>3, Suspended

LEMMA CommitStep == ASSUME WalkInv, CommitWalk PROVE WalkInv'
<1>1. /\ wpc = "walking" /\ to_visit = <<>> /\ wpc' = "scheduling"
      /\ off_hours_rows' = IF off_hours = {} THEN off_hours_rows ELSE off_hours_rows \union {off_hours}
      /\ tx' = NoTx
      /\ UNCHANGED <<flow, window, hours_open, reengaged, walk_jobs, job, ctx, to_visit, visited,
                     ai_reply_fired, deferrals, off_hours, node, action, record>>
  BY DEF CommitWalk
<1>2. human' \in BOOLEAN /\ retired' \in BOOLEAN
  <2>1. tx.human \in BOOLEAN /\ tx.healed \in BOOLEAN
    BY WalkTypes
  <2> QED BY <2>1, WalkTypes DEF CommitWalk
<1>3. off_hours_rows' \in SUBSET SUBSET Nodes
  BY <1>1, WalkTypes
<1>4. tx' \in [locks : SUBSET {"conversation", "lead"}, human : BOOLEAN, healed : BOOLEAN]
  BY <1>1 DEF NoTx
<1>5. WalkTypeOK'
  BY <1>1, <1>2, <1>3, <1>4 DEF WalkInv, WalkTypeOK, flow, record
<1>6. RunSound' /\ MaySpeak'
  <2>1. \A keys \in off_hours_rows' : keys # {}
    BY <1>1 DEF WalkInv, RunSound
  <2> QED BY <1>1, <2>1 DEF WalkInv, RunSound, MaySpeak
<1>7. /\ Waiting' = Waiting \union off_hours /\ InTheRun' = InTheRun /\ Present' = Present /\ TheEvent' = TheEvent
      /\ off_hours \subseteq InTheRun
  <2>1. Kept(off_hours_rows') = Kept(off_hours_rows) \union off_hours
    <3>1. CASE off_hours = {}
      BY <1>1, <3>1
    <3>2. CASE off_hours # {}
      <4>1. off_hours_rows' = off_hours_rows \union {off_hours}
        BY <1>1, <3>2
      <4> QED BY <4>1, KeptOfBoth
    <3> QED BY <3>1, <3>2
  <2>2. Ahead(walk_jobs') = Ahead(walk_jobs)
    BY <1>1
  <2>3. Waiting' = Waiting \union off_hours
    <3>1. Waiting' = Kept(off_hours_rows') \union Ahead(walk_jobs')
      BY WaitingNext
    <3>2. Waiting = Kept(off_hours_rows) \union Ahead(walk_jobs)
      BY DEF Waiting
    <3> QED BY <2>1, <2>2, <3>1, <3>2
  <2>4. InTheRun' = InTheRun /\ Present' = Present /\ TheEvent' = TheEvent
    BY <1>1 DEF InTheRun, Ahead, Present, TheEvent, flow
  <2> QED BY <2>3, <2>4 DEF InTheRun
<1>8. OfThisGraph' /\ PlacedOnce'
  BY <1>1, <1>7 DEF WalkInv, OfThisGraph, PlacedOnce, record
<1>9. FromTheTrigger'
  BY <1>1, <1>7 DEF WalkInv, FromTheTrigger, record
<1> QED BY <1>5, <1>6, <1>8, <1>9 DEF WalkInv

LEMMA WalkEnds ==
  ASSUME EndWalk
  PROVE  /\ wpc' = "idle" /\ to_visit' = <<>> /\ visited' = {} /\ deferrals' = {} /\ off_hours' = {}
         /\ ai_reply_fired' = FALSE /\ action' = "none" /\ job' = job /\ node' = node
         /\ ctx' \in [paused : BOOLEAN, window : BOOLEAN, closed : BOOLEAN]
         /\ tx' \in [locks : SUBSET {"conversation", "lead"}, human : BOOLEAN, healed : BOOLEAN]
         /\ InTheRun' = {}
<1>1. InTheRun' = {}
  <2>1. off_hours' = {} /\ ToSet(to_visit)' = {} /\ Ahead(deferrals)' = {}
    BY EmptyToSet DEF EndWalk, Ahead
  <2> QED BY <2>1 DEF InTheRun
<1> QED BY <1>1 DEF EndWalk, NoCtx, NoTx

LEMMA ScheduleWaitsStep == ASSUME WalkInv, ScheduleWaits PROVE WalkInv'
<1>1. /\ wpc = "scheduling" /\ walk_jobs' = walk_jobs \union deferrals
      /\ UNCHANGED <<flow, thread, off_hours_rows, record>> /\ EndWalk
  BY DEF ScheduleWaits
<1>2. walk_jobs' \union deferrals' \union {job'} \subseteq [of : Nodes, keys : Seq(Nodes)]
  BY <1>1, WalkEnds, WalkTypes DEF WalkJobs
<1>3. WalkTypeOK'
  BY <1>1, <1>2, WalkEnds DEF WalkInv, WalkTypeOK, flow, thread, record
<1>4. RunSound' /\ MaySpeak'
  BY <1>1, WalkEnds DEF WalkInv, RunSound, MaySpeak
<1>5. /\ Waiting' = Waiting \union Ahead(deferrals) /\ Present' = Present /\ TheEvent' = TheEvent
      /\ InTheRun = off_hours \union Ahead(deferrals) /\ InTheRun' = {}
  <2>1. Ahead(walk_jobs') = Ahead(walk_jobs) \union Ahead(deferrals)
    BY <1>1, AheadOfBoth
  <2>2. Waiting' = Waiting \union Ahead(deferrals)
    <3>1. Waiting' = Kept(off_hours_rows) \union Ahead(walk_jobs')
      BY <1>1, WaitingNext
    <3>2. Waiting = Kept(off_hours_rows) \union Ahead(walk_jobs)
      BY DEF Waiting
    <3> QED BY <2>1, <3>1, <3>2
  <2>3. Present' = Present /\ TheEvent' = TheEvent
    BY <1>1 DEF Present, TheEvent, flow
  <2>4. InTheRun = off_hours \union Ahead(deferrals)
    BY <1>1, EmptyToSet DEF InTheRun, WalkInv, RunSound
  <2> QED BY <1>1, <2>2, <2>3, <2>4, WalkEnds
<1>6. CASE excused
  BY <1>1, <1>3, <1>4, <1>6 DEF WalkInv, OfThisGraph, FromTheTrigger, PlacedOnce, record
<1>7. CASE ~excused
  <2>1. /\ Waiting \subseteq Present /\ InTheRun \subseteq Present
        /\ TheEvent \notin walk_jobs /\ \A j \in walk_jobs : j.keys = <<>> => j = TheEvent
        /\ \A j \in deferrals : j.keys # <<>>
        /\ reached \subseteq acted \union Waiting \union InTheRun /\ off_hours \subseteq acted \union Waiting
    BY <1>1, <1>7 DEF WalkInv, OfThisGraph, FromTheTrigger, PlacedOnce, RunSound
  <2>2. TheEvent.keys = <<>>
    BY DEF TheEvent
  <2>3. OfThisGraph'
    BY <1>5, <2>1 DEF OfThisGraph
  <2>4. FromTheTrigger'
    BY <1>1, <1>5, <2>1, <2>2 DEF FromTheTrigger
  <2>5. PlacedOnce'
    BY <1>1, <1>5, <2>1, WalkEnds DEF PlacedOnce, record
  <2> QED BY <1>3, <1>4, <2>3, <2>4, <2>5 DEF WalkInv
<1> QED BY <1>6, <1>7

LEMMA WalkFailsStep == ASSUME WalkInv, WalkFails PROVE WalkInv'
<1>1. /\ failures < MaxFailures /\ failures' = failures + 1 /\ excused' = TRUE /\ EndWalk
      /\ walk_jobs' \subseteq walk_jobs \union {job}
      /\ UNCHANGED <<flow, thread, off_hours_rows, reached, acted, overtaken, told, turns>>
  BY DEF WalkFails
<1>2. failures' \in 0..MaxFailures
  BY <1>1, WalkConst DEF WalkInv, WalkTypeOK
<1>3. walk_jobs' \union deferrals' \union {job'} \subseteq [of : Nodes, keys : Seq(Nodes)]
  BY <1>1, WalkEnds, WalkTypes DEF WalkJobs
<1>4. WalkTypeOK'
  BY <1>1, <1>2, <1>3, WalkEnds DEF WalkInv, WalkTypeOK, flow, thread
<1>5. RunSound' /\ MaySpeak'
  BY <1>1, WalkEnds DEF WalkInv, RunSound, MaySpeak
<1> QED BY <1>1, <1>4, <1>5 DEF WalkInv, OfThisGraph, FromTheTrigger, PlacedOnce

\* What the sweep takes from a row is in a job.
LEMMA ResumeRowStep == ASSUME WalkInv, NEW keys \in off_hours_rows, ResumeRow(keys) PROVE WalkInv'
<1> DEFINE resumed == [of |-> CHOOSE n \in keys : TRUE, keys |-> SetToSeq(keys)]
<1>1. /\ off_hours_rows' = off_hours_rows \ {keys} /\ walk_jobs' = walk_jobs \union {resumed}
      /\ UNCHANGED <<flow, thread, run, record>>
  BY DEF ResumeRow
<1>2. keys \in SUBSET Nodes /\ keys # {} /\ IsFiniteSet(keys)
  <2>1. keys \in SUBSET Nodes /\ keys # {}
    BY WalkTypes DEF WalkInv, RunSound
  <2> QED BY <2>1, WalkConst, FS_Subset
<1>3. SetToSeq(keys) \in Seq(keys) /\ ToSet(SetToSeq(keys)) = keys
  BY <1>2, SetAsSequence
<1>4. resumed \in WalkJobs /\ resumed.keys # <<>> /\ Ahead({resumed}) = keys
  <2>1. SetToSeq(keys) \in Seq(Nodes)
    BY <1>2, <1>3
  <2>2. SetToSeq(keys) # <<>>
    BY <1>2, <1>3, EmptyToSet
  <2>3. (CHOOSE n \in keys : TRUE) \in Nodes
    BY <1>2
  <2>4. resumed.keys = SetToSeq(keys)
    OBVIOUS
  <2>5. Ahead({resumed}) = ToSet(resumed.keys)
    <3> HIDE DEF resumed
    <3> QED BY DEF Ahead
  <2> QED BY <1>3, <2>1, <2>2, <2>3, <2>4, <2>5 DEF WalkJobs
<1> HIDE DEF resumed
<1>5. WalkTypeOK'
  <2>1. walk_jobs' \union deferrals' \union {job'} \subseteq [of : Nodes, keys : Seq(Nodes)]
    BY <1>1, <1>4, WalkTypes DEF WalkJobs, run
  <2>2. off_hours_rows' \in SUBSET SUBSET Nodes
    BY <1>1, WalkTypes
  <2> QED BY <1>1, <2>1, <2>2 DEF WalkInv, WalkTypeOK, flow, thread, run, record
<1>6. RunSound' /\ MaySpeak'
  BY <1>1 DEF WalkInv, RunSound, MaySpeak, flow, thread, run, record
<1>7. /\ Waiting' = Waiting /\ InTheRun' = InTheRun /\ Present' = Present /\ TheEvent' = TheEvent
  <2>1. Ahead(walk_jobs') = Ahead(walk_jobs) \union keys
    BY <1>1, <1>4, AheadOfBoth
  <2>2. Kept(off_hours_rows) = Kept(off_hours_rows') \union keys
    BY <1>1, KeptOfBoth
  <2>3. Waiting' = Waiting
    <3>1. Waiting' = Kept(off_hours_rows') \union Ahead(walk_jobs')
      BY WaitingNext
    <3>2. Waiting = Kept(off_hours_rows) \union Ahead(walk_jobs)
      BY DEF Waiting
    <3> QED BY <2>1, <2>2, <3>1, <3>2
  <2>4. InTheRun' = InTheRun /\ Present' = Present /\ TheEvent' = TheEvent
    BY <1>1 DEF InTheRun, Ahead, Present, TheEvent, flow, run
  <2> QED BY <2>3, <2>4
<1>8. OfThisGraph'
  BY <1>1, <1>7 DEF WalkInv, OfThisGraph, record
<1>9. FromTheTrigger' /\ (excused \/ TheEvent \notin walk_jobs)
  <2>1. excused \/ TheEvent \notin walk_jobs
    BY DEF WalkInv, FromTheTrigger
  <2>2. TheEvent.keys = <<>>
    BY DEF TheEvent
  <2> QED BY <1>1, <1>4, <1>7, <2>1, <2>2 DEF WalkInv, FromTheTrigger, record
<1>10. PlacedOnce'
  BY <1>1, <1>7, <1>9 DEF WalkInv, PlacedOnce, run, record
<1> QED BY <1>5, <1>6, <1>8, <1>9, <1>10 DEF WalkInv

LEMMA StoppedStep ==
  ASSUME WalkInv, NEW j \in walk_jobs, StartWalk(j), ~enabled \/ reengaged
  PROVE  WalkInv'
<1>1. /\ walk_jobs' = walk_jobs \ {j} /\ excused' = TRUE
      /\ UNCHANGED <<flow, thread, run, off_hours_rows, reached, acted, overtaken, told, turns, failures>>
  BY DEF StartWalk
<1>2. walk_jobs' \union deferrals' \union {job'} \subseteq [of : Nodes, keys : Seq(Nodes)]
  BY <1>1, WalkTypes DEF WalkJobs, run
<1>3. WalkTypeOK'
  BY <1>1, <1>2 DEF WalkInv, WalkTypeOK, flow, thread, run
<1>4. RunSound' /\ MaySpeak'
  BY <1>1 DEF WalkInv, RunSound, MaySpeak, flow, thread, run
<1> QED BY <1>1, <1>3, <1>4 DEF WalkInv, OfThisGraph, FromTheTrigger, PlacedOnce

\* A job's keys are ahead of the run that takes it; the event's are those after the trigger.
LEMMA StartedStep ==
  ASSUME WalkInv, NEW j \in walk_jobs, StartWalk(j), ~(~enabled \/ reengaged)
  PROVE  WalkInv'
<1>1. /\ wpc = "idle" /\ walk_jobs' = walk_jobs \ {j} /\ wpc' = "walking" /\ job' = j /\ ctx' = Context
      /\ to_visit' = IF j.keys = <<>> THEN Targets(graph, Trigger(graph), "default") ELSE j.keys
      /\ visited' = {} /\ ai_reply_fired' = FALSE /\ deferrals' = {} /\ off_hours' = {}
      /\ told' = 0 /\ overtaken' = FALSE
      /\ UNCHANGED <<flow, thread, off_hours_rows, reached, acted, turns, failures, node, action, excused>>
  BY DEF StartWalk
<1>2. tx' \in [locks : SUBSET {"conversation", "lead"}, human : BOOLEAN, healed : BOOLEAN]
  <2>1. CASE retired /\ Speaks(graph)
    <3>1. tx' = [NoTx EXCEPT !.locks = {"conversation"}, !.healed = TRUE]
      BY <2>1 DEF StartWalk
    <3> QED BY <3>1 DEF NoTx
  <2>2. CASE ~(retired /\ Speaks(graph))
    <3>1. tx' = NoTx
      BY <2>2 DEF StartWalk
    <3> QED BY <3>1 DEF NoTx
  <2> QED BY <2>1, <2>2
<1>3. ctx' \in [paused : BOOLEAN, window : BOOLEAN, closed : BOOLEAN] /\ (ctx'.paused <=> human)
  <2>1. (Speaks(graph) /\ ~hours_open) \in BOOLEAN
    OBVIOUS
  <2> QED BY <1>1, <2>1, WalkTypes DEF Context
<1>4. /\ Trigger(graph) \in Nodes
      /\ Targets(graph, Trigger(graph), "default") \in Seq(Nodes)
      /\ ToSet(Targets(graph, Trigger(graph), "default")) \subseteq Present
  <2>1. Trigger(graph) \in Nodes
    BY WalkTypes, GraphSound
  <2> QED BY <2>1, NextSound DEF Branches
<1>5. j \in WalkJobs /\ j.keys \in Seq(Nodes) /\ to_visit' \in Seq(Nodes)
  <2>1. j \in WalkJobs
    BY WalkTypes
  <2>2. j.keys \in Seq(Nodes)
    BY <2>1 DEF WalkJobs
  <2> QED BY <1>1, <1>4, <2>1, <2>2
<1>6. WalkTypeOK'
  <2>1. walk_jobs' \union deferrals' \union {job'} \subseteq [of : Nodes, keys : Seq(Nodes)]
    BY <1>1, <1>5, WalkTypes DEF WalkJobs
  <2>2. visited' \union off_hours' \union reached' \union acted' \union {node'} \subseteq Nodes
    BY <1>1, WalkTypes
  <2> QED BY <1>1, <1>2, <1>3, <1>5, <2>1, <2>2 DEF WalkInv, WalkTypeOK, flow, thread
<1>7. RunSound'
  BY <1>1 DEF WalkInv, RunSound
<1>8. MaySpeak'
  <2>1. human' = human
    BY <1>1 DEF thread
  <2> QED BY <1>1, <1>3, <2>1 DEF MaySpeak
<1>9. /\ Present' = Present /\ TheEvent' = TheEvent /\ InTheRun' = ToSet(to_visit')
      /\ Waiting \subseteq Waiting' \union ToSet(j.keys) /\ Waiting' \subseteq Waiting
      /\ ToSet(j.keys) \subseteq Waiting
  <2>1. Present' = Present /\ TheEvent' = TheEvent
    BY <1>1 DEF Present, TheEvent, flow
  <2>2. InTheRun' = ToSet(to_visit')
    <3>1. Ahead(deferrals)' = {}
      BY <1>1 DEF Ahead
    <3>2. ToSet(to_visit)' = ToSet(to_visit')
      BY DEF ToSet
    <3> QED BY <1>1, <3>1, <3>2 DEF InTheRun
  <2>3. Ahead(walk_jobs) = Ahead(walk_jobs') \union ToSet(j.keys)
    BY <1>1 DEF Ahead
  <2>4. Waiting' = Kept(off_hours_rows) \union Ahead(walk_jobs')
    BY <1>1, WaitingNext
  <2>5. Waiting = Kept(off_hours_rows) \union Ahead(walk_jobs)
    BY DEF Waiting
  <2>6. /\ Waiting \subseteq Waiting' \union ToSet(j.keys) /\ Waiting' \subseteq Waiting
        /\ ToSet(j.keys) \subseteq Waiting
    BY <2>3, <2>4, <2>5
  <2> QED BY <2>1, <2>2, <2>6
<1>10. CASE excused
  BY <1>1, <1>6, <1>7, <1>8, <1>10 DEF WalkInv, OfThisGraph, FromTheTrigger, PlacedOnce
<1>11. CASE ~excused
  <2>1. /\ Waiting \subseteq Present
        /\ TheEvent \notin walk_jobs => reached \subseteq acted \union Waiting \union InTheRun
        /\ \A i \in walk_jobs : i.keys = <<>> => i = TheEvent
        /\ TheEvent \in walk_jobs => /\ walk_jobs = {TheEvent} /\ off_hours_rows = {}
                                     /\ reached = ToSet(Targets(graph, Trigger(graph), "default"))
    BY <1>11 DEF WalkInv, OfThisGraph, FromTheTrigger, PlacedOnce
  <2>2. InTheRun = {}
    <3>1. off_hours = {} /\ deferrals = {} /\ to_visit = <<>>
      BY <1>1 DEF WalkInv, RunSound
    <3> QED BY <3>1, EmptyToSet, AheadOfBoth DEF InTheRun
  <2>3. TheEvent.keys = <<>>
    BY DEF TheEvent
  <2>4. TheEvent \notin walk_jobs'
    BY <1>1, <2>1
  <2>5. OfThisGraph'
    <3>1. ToSet(to_visit') \subseteq Present
      BY <1>1, <1>4, <1>9, <2>1
    <3> QED BY <1>9, <2>1, <3>1 DEF OfThisGraph
  <2>6. FromTheTrigger'
    BY <1>1, <1>9, <2>1, <2>4 DEF FromTheTrigger
  <2>7. reached \subseteq acted \union Waiting' \union ToSet(to_visit')
    <3>1. CASE j.keys = <<>>
      BY <1>1, <2>1, <3>1
    <3>2. CASE j.keys # <<>>
      <4>1. TheEvent \notin walk_jobs
        BY <2>1, <2>3, <3>2
      <4> QED BY <1>1, <1>9, <2>1, <2>2, <3>2, <4>1
    <3> QED BY <3>1, <3>2
  <2>8. PlacedOnce'
    BY <1>1, <1>9, <2>7 DEF PlacedOnce
  <2> QED BY <1>6, <1>7, <1>8, <2>5, <2>6, <2>8 DEF WalkInv
<1> QED BY <1>10, <1>11

LEMMA WalkInvNext == WalkInv /\ [WalkNext]_walkVars => WalkInv'
<1> SUFFICES ASSUME WalkInv, [WalkNext]_walkVars PROVE WalkInv'
  OBVIOUS
<1>1. CASE OperatorActs \/ CustomerWrites \/ WindowCloses \/ HoursTurn
  BY <1>1, AroundStep
<1>2. CASE SaveGraph
  BY <1>2, SaveGraphStep
<1>3. CASE \E j \in walk_jobs : StartWalk(j)
  <2>1. PICK j \in walk_jobs : StartWalk(j)
    BY <1>3
  <2>2. CASE ~enabled \/ reengaged
    BY <2>1, <2>2, StoppedStep
  <2>3. CASE ~(~enabled \/ reengaged)
    BY <2>1, <2>3, StartedStep
  <2> QED BY <2>2, <2>3
<1>4. ASSUME NEW n \in Nodes,
             \/ SkipNode(n) \/ Branch(n) \/ WaitMinutes(n) \/ WaitUntilBefore(n) \/ Postpone(n)
             \/ Silenced(n) \/ SendNode(n) \/ Generate(n) \/ Move(n) \/ Handoff(n)
             \/ SetLeadField(n) \/ SetProfile(n) \/ EmitOutcome(n) \/ NotifySlack(n)
      PROVE  WalkInv'
  BY <1>4, SkipStep, BranchStep, WaitMinutesStep, WaitUntilStep, PostponeStep, SilencedStep, SendNodeStep,
     GenerateStep, MoveStep, HandoffStep, InternalStep
<1>5. CASE SendReply \/ Dispatched \/ CommitWalk \/ ScheduleWaits \/ WalkFails
  BY <1>5, SendReplyStep, DispatchedStep, CommitStep, ScheduleWaitsStep, WalkFailsStep
<1>6. CASE \E keys \in off_hours_rows : ResumeRow(keys)
  <2>1. PICK keys \in off_hours_rows : ResumeRow(keys)
    BY <1>6
  <2> QED BY <2>1, ResumeRowStep
<1>7. CASE UNCHANGED walkVars
  <2>1. UNCHANGED <<flow, thread, walk_jobs, off_hours_rows, run, record>>
    BY <1>7 DEF walkVars
  <2>2. WalkTypeOK' /\ RunSound' /\ MaySpeak'
    BY <2>1 DEF WalkInv, WalkTypeOK, RunSound, MaySpeak, flow, thread, run, record
  <2>3. OfThisGraph' /\ FromTheTrigger' /\ PlacedOnce'
    BY <2>1, Elsewhere DEF flow, run, record
  <2> QED BY <2>2, <2>3 DEF WalkInv
<1> QED BY <1>1, <1>2, <1>3, <1>4, <1>5, <1>6, <1>7 DEF WalkNext

\* No branch of a graph gets lost: whatever the graphs, the waits, the closed hours and what
\* the operator does meanwhile, a node that the event reached has had its turn, or it is ahead
\* in the walk, in a job or in a row.
THEOREM WalkCorrect == WalkSpec => []WalkSafe
<1>1. WalkInv => WalkSafe
  <2> SUFFICES ASSUME WalkInv, ~excused, TheEvent \notin walk_jobs, NEW n \in reached
               PROVE  \/ n \in acted \union off_hours \union UNION off_hours_rows
                      \/ wpc # "idle" /\ n \in ToSet(to_visit) \union {node}
                      \/ \E j \in walk_jobs \union deferrals : n \in ToSet(j.keys)
    BY DEF WalkSafe, WalkInv, NoBranchLost
  <2>1. \/ n \in acted \/ n \in off_hours \/ n \in Kept(off_hours_rows) \/ n \in ToSet(to_visit)
        \/ n \in Ahead(walk_jobs) \/ n \in Ahead(deferrals)
    BY DEF WalkInv, PlacedOnce, Waiting, InTheRun
  <2>2. n \in ToSet(to_visit) => wpc # "idle"
    BY EmptyToSet DEF WalkInv, RunSound
  <2>3. /\ n \in Ahead(walk_jobs) => \E j \in walk_jobs : n \in ToSet(j.keys)
        /\ n \in Ahead(deferrals) => \E j \in deferrals : n \in ToSet(j.keys)
    BY DEF Ahead
  <2> QED BY <2>1, <2>2, <2>3 DEF Kept
<1> QED BY <1>1, WalkInvInit, WalkInvNext, PTL DEF WalkSpec

\* Only a send and a generated reply speak, and both asked who has the thread.
LEMMA SpeakStep ==
  ASSUME WalkInv, [WalkNext]_walkVars, told' > told
  PROVE  (~human \/ overtaken) /\ \A n \in visited : graph.kind[n] # "handoff"
<1>0. told \in Nat
  BY WalkTypes
<1>1. CASE SendReply
  BY <1>1 DEF SendReply, WalkInv, RunSound, MaySpeak
<1>2. ASSUME NEW n \in Nodes, SendNode(n)
      PROVE  (~human \/ overtaken) /\ \A m \in visited : graph.kind[m] # "handoff"
  <2>1. wpc = "walking" /\ ~ctx.paused
    BY <1>2 DEF SendNode, Fresh, Arrive, Gated, CustomerFacing
  <2> QED BY <2>1 DEF WalkInv, MaySpeak
<1>3. ASSUME NEW n \in Nodes,
             \/ SkipNode(n) \/ Branch(n) \/ WaitMinutes(n) \/ WaitUntilBefore(n) \/ Postpone(n)
             \/ Silenced(n) \/ Generate(n) \/ Move(n) \/ Handoff(n)
             \/ SetLeadField(n) \/ SetProfile(n) \/ EmitOutcome(n) \/ NotifySlack(n)
      PROVE  FALSE
  <2>1. told' = told
    BY <1>3 DEF SkipNode, Branch, WaitMinutes, WaitUntilBefore, Postpone, Silenced, Generate, Move, Handoff,
                SetLeadField, SetProfile, EmitOutcome, NotifySlack, Internal, record
  <2> QED BY <1>0, <2>1
<1>4. CASE \E j \in walk_jobs : StartWalk(j)
  <2>1. told' = told \/ told' = 0
    BY <1>4 DEF StartWalk
  <2> QED BY <1>0, <2>1
<1>5. CASE \/ OperatorActs \/ CustomerWrites \/ WindowCloses \/ HoursTurn \/ SaveGraph
           \/ Dispatched \/ CommitWalk \/ ScheduleWaits \/ WalkFails
           \/ \E keys \in off_hours_rows : ResumeRow(keys)
           \/ UNCHANGED walkVars
  <2>1. told' = told
    BY <1>5 DEF OperatorActs, CustomerWrites, WindowCloses, HoursTurn, SaveGraph, AroundOnly, Dispatched,
                CommitWalk, ScheduleWaits, WalkFails, ResumeRow, record, walkVars
  <2> QED BY <1>0, <2>1
<1> QED BY <1>1, <1>2, <1>3, <1>4, <1>5 DEF WalkNext

\* A message of a run does not go out over the head of an operator, unless the thread changed
\* hands under the run, nor after a handoff node of the run.
THEOREM NoMessageOverHumanCorrect == WalkSpec => NoMessageOverHuman
<1>1. WalkInv /\ [WalkNext]_walkVars
        => [told' > told => (~human \/ overtaken) /\ \A n \in visited : graph.kind[n] # "handoff"]_walkVars
  BY SpeakStep
<1> QED BY <1>1, WalkInvInit, WalkInvNext, PTL DEF WalkSpec, NoMessageOverHuman

-----------------------------------------------------------------------------
(* Walks and sweeps together. *)

\* Nobody is written to who should be left alone, for every set of graphs and of
\* automations: a run says nothing over an operator (engine.py), the cadence nothing to a
\* lead who has answered, and close_idle closes nothing under a cadence (no_answer.py,
\* close_conversations.py).
THEOREM LeftAloneCorrect == OutreachSpec => LeftAlone
<1>1. OutreachInit => WalkInit /\ IdleInit
  BY DEF OutreachInit
<1>2. [OutreachNext]_outreachVars => [WalkNext]_walkVars /\ [IdleNext]_idleVars
  BY DEF OutreachNext, WalkStep, SweepStep, outreachVars, walkVars, idleVars
<1>3. OutreachSpec => WalkSpec /\ IdleSpec
  BY <1>1, <1>2, PTL DEF OutreachSpec, WalkSpec, IdleSpec
<1> QED BY <1>3, NoMessageOverHumanCorrect, NudgedInSilenceCorrect, ClosedAfterFollowUpsCorrect, PTL
        DEF LeftAlone

=============================================================================
