--------------------------- MODULE Automation_proofs ---------------------------
(***************************************************************************)
(* The automation engine, for every number of events, dispatches, runs and *)
(* sweeps: the dispatcher, the runs, the queue of the closed hours.  The   *)
(* walk of a graph is in Channels_proofs.                                  *)
(***************************************************************************)
EXTENDS Dispatch, AutomationRun, HoursQueue, FiniteSetTheorems, WellFoundedInduction, TLAPS

-----------------------------------------------------------------------------
(* The dispatcher: no cursor passes an event by. *)

\* Nothing is dated in the future.
Dated ==
  /\ minute # 0
  /\ cursor <= minute /\ born <= minute
  /\ \A e \in Events : occurred[e] <= minute
  /\ \A d \in Dispatchers : dfrom[d] <= minute

\* A transaction that emits does not outlast CommitDelay.
Committed ==
  \A e \in Events :
    IF e \in visible THEN occurred[e] # 0
                     ELSE occurred[e] # 0 => minute <= occurred[e] + CommitDelay

\* The events of S come in view of a scan from cursor c, if they are to be dispatched.
WithinLookback(c, S) == \A e \in S : occurred[e] > born => occurred[e] > c - Lookback

\* What holds of the cursor holds of the one that a dispatch has in hand.
InHand ==
  \A d \in Dispatchers :
    /\ dpc[d] # "idle" => dfrom[d] # 0
    /\ dpc[d] # "fanning" => batch[d] = {}
    /\ dpc[d] # "idle" => WithinLookback(dfrom[d], (Events \ enqueued) \ batch[d])

CursorInv == DispatchTypeOK /\ Dated /\ Committed /\ InHand /\ NoneBehindCursor

\* A set of instants has a last one.
LEMMA LastInstant ==
  ASSUME NEW S \in SUBSET Minutes, S # {}
  PROVE  \E t \in S : \A u \in S : u <= t
<1> USE DispatchAssumption DEF Minutes
<1> DEFINE Left == {MaxMinute - t : t \in S}
<1>1. Left \subseteq Nat /\ Left # {}
  <2>1. PICK t \in S : TRUE
    OBVIOUS
  <2>2. MaxMinute - t \in Left
    BY <2>1
  <2> QED BY <2>2
<1>2. PICK x \in Left : \A y \in Left : <<y, x>> \notin OpToRel(<, Nat)
  <2> HIDE DEF Left
  <2> QED BY <1>1, NatLessThanWellFounded, WFMin
<1>3. PICK t \in S : x = MaxMinute - t
  OBVIOUS
<1>4. \A u \in S : u <= t
  <2> SUFFICES ASSUME NEW u \in S, u > t PROVE FALSE
    OBVIOUS
  <2>1. MaxMinute - u \in Left /\ MaxMinute - u \in Nat /\ x \in Nat /\ MaxMinute - u < x
    BY <1>3
  <2>2. <<MaxMinute - u, x>> \in OpToRel(<,Nat)
    BY <2>1 DEF OpToRel
  <2> QED BY <2>1, <2>2, <1>2
<1> QED BY <1>4

\* max_ts is the cursor or the instant of an event of the batch.
LEMMA LastSeenIsSeen ==
  ASSUME DispatchTypeOK, NEW c \in Minutes, NEW T \in SUBSET Events
  PROVE  LastSeen(c, T) \in {c} \union {occurred[e] : e \in T}
<1> DEFINE S == {c} \union {occurred[e] : e \in T}
<1>1. S \in SUBSET Minutes /\ S # {}
  BY DEF DispatchTypeOK
<1>2. \E t \in S : \A u \in S : u <= t
  BY <1>1, LastInstant
<1> QED BY <1>2 DEF LastSeen

\* What the batch leaves out is still in view of the cursor that is put at its end:
\* it is not before the batch, or it was not visible and began CommitDelay ago at most.
LEMMA LeftOutStaysInView ==
  ASSUME CursorInv, NEW d \in Dispatchers, dpc[d] = "scanning",
         NEW T \in SUBSET Events, Earliest(InView(dfrom[d]), T)
  PROVE  /\ LastSeen(dfrom[d], T) \in Minutes \ {0}
         /\ LastSeen(dfrom[d], T) <= minute
         /\ WithinLookback(LastSeen(dfrom[d], T), (Events \ enqueued) \ T)
<1> USE DispatchAssumption DEF Minutes
<1> DEFINE c == dfrom[d]
           last == LastSeen(c, T)
<1>1. /\ c \in Minutes \ {0} /\ c <= minute
      /\ T \subseteq visible
      /\ WithinLookback(c, Events \ enqueued)
      /\ \A e \in T : occurred[e] \in Minutes \ {0} /\ occurred[e] <= minute
  BY DEF CursorInv, DispatchTypeOK, InHand, Dated, Committed, Earliest, InView
<1>2. last = c \/ \E t \in T : last = occurred[t]
  <2> HIDE DEF last
  <2> QED BY <1>1, LastSeenIsSeen DEF CursorInv, last
<1> HIDE DEF last
<1>3. last \in Minutes \ {0} /\ last <= minute
  BY <1>1, <1>2
<1>4. ASSUME NEW e \in (Events \ enqueued) \ T, occurred[e] > born
      PROVE  occurred[e] > last - Lookback
  <2>1. occurred[e] > c - Lookback /\ occurred[e] \in Minutes \ {0}
    BY <1>1, <1>4 DEF WithinLookback, CursorInv, DispatchTypeOK
  <2>2. CASE last = c
    BY <2>1, <2>2
  <2>3. ASSUME NEW t \in T, last = occurred[t]
        PROVE  occurred[e] > last - Lookback
    <3>1. CASE e \in visible
      <4>1. e \in InView(c) \ T
        BY <3>1, <2>1 DEF InView
      <4>2. occurred[t] <= occurred[e]
        BY <4>1 DEF Earliest
      <4> QED BY <4>2, <2>3, <2>1, <1>1
    <3>2. CASE e \notin visible
      <4>1. minute <= occurred[e] + CommitDelay
        BY <3>2, <2>1 DEF CursorInv, Committed
      <4> QED BY <4>1, <2>3, <2>1, <1>1 DEF CursorInv, DispatchTypeOK
    <3> QED BY <3>1, <3>2
  <2> QED BY <1>2, <2>2, <2>3
<1> QED BY <1>3, <1>4 DEF WithinLookback, last

LEMMA CursorInit == DispatchInit => CursorInv
<1> SUFFICES ASSUME DispatchInit PROVE CursorInv
  OBVIOUS
<1> USE DispatchAssumption DEF DispatchInit, Minutes
<1>1. DispatchTypeOK
  BY DEF DispatchTypeOK
<1>2. Dated /\ Committed /\ InHand /\ NoneBehindCursor
  BY DEF Dated, Committed, InHand, NoneBehindCursor
<1> QED BY <1>1, <1>2 DEF CursorInv

\* The emitters and the clock: an event begins in front of every cursor.
LEMMA CursorEmit ==
  ASSUME CursorInv, Tick \/ \E e \in Events : BeginEvent(e) \/ CommitEvent(e)
  PROVE  CursorInv'
<1> USE DispatchAssumption DEF Minutes, dispatches, events
<1>1. CASE Tick
  <2>1. DispatchTypeOK'
    BY <1>1 DEF CursorInv, DispatchTypeOK, Tick
  <2>2. Dated'
    BY <1>1 DEF CursorInv, DispatchTypeOK, Dated, Tick
  <2>3. Committed'
    BY <1>1 DEF CursorInv, DispatchTypeOK, Committed, Tick
  <2>4. InHand' /\ NoneBehindCursor'
    BY <1>1 DEF CursorInv, InHand, NoneBehindCursor, WithinLookback, Tick
  <2> QED BY <2>1, <2>2, <2>3, <2>4 DEF CursorInv
<1>2. ASSUME NEW e \in Events, BeginEvent(e) PROVE CursorInv'
  <2>1. DispatchTypeOK'
    BY <1>2 DEF CursorInv, DispatchTypeOK, BeginEvent
  <2>2. Dated'
    BY <1>2 DEF CursorInv, DispatchTypeOK, Dated, BeginEvent
  <2>3. Committed'
    BY <1>2 DEF CursorInv, DispatchTypeOK, Committed, Dated, BeginEvent
  <2>4. InHand'
    BY <1>2 DEF CursorInv, DispatchTypeOK, Dated, InHand, WithinLookback, BeginEvent
  <2>5. NoneBehindCursor'
    BY <1>2 DEF CursorInv, DispatchTypeOK, Dated, NoneBehindCursor, BeginEvent
  <2> QED BY <2>1, <2>2, <2>3, <2>4, <2>5 DEF CursorInv
<1>3. ASSUME NEW e \in Events, CommitEvent(e) PROVE CursorInv'
  <2>1. DispatchTypeOK'
    BY <1>3 DEF CursorInv, DispatchTypeOK, CommitEvent
  <2>2. Dated' /\ InHand' /\ NoneBehindCursor'
    BY <1>3 DEF CursorInv, Dated, InHand, NoneBehindCursor, WithinLookback, CommitEvent
  <2>3. Committed'
    BY <1>3 DEF CursorInv, Committed, CommitEvent
  <2> QED BY <2>1, <2>2, <2>3 DEF CursorInv
<1> QED BY <1>1, <1>2, <1>3

\* The steps of a dispatch: the cursor it writes is as good as the one it read.
LEMMA CursorDispatch ==
  ASSUME CursorInv, NEW d \in Dispatchers,
         ReadCursor(d) \/ Select(d) \/ Fan(d) \/ SetCursor(d) \/ DispatchFails(d)
  PROVE  CursorInv'
<1> USE DispatchAssumption DEF Minutes, dispatches, events
<1>1. CASE ReadCursor(d)
  <2>1. DispatchTypeOK'
    BY <1>1 DEF CursorInv, DispatchTypeOK, ReadCursor
  <2>2. Dated' /\ Committed'
    BY <1>1 DEF CursorInv, DispatchTypeOK, Dated, Committed, ReadCursor
  <2>3. InHand'
    BY <1>1 DEF CursorInv, DispatchTypeOK, Dated, InHand, NoneBehindCursor, WithinLookback, ReadCursor
  <2>4. NoneBehindCursor'
    BY <1>1 DEF CursorInv, NoneBehindCursor, ReadCursor
  <2> QED BY <2>1, <2>2, <2>3, <2>4 DEF CursorInv
<1>2. CASE Select(d)
  <2>1. PICK T \in SUBSET Events :
          /\ Earliest(InView(dfrom[d]), T)
          /\ batch' = [batch EXCEPT ![d] = T]
          /\ dfrom' = [dfrom EXCEPT ![d] = LastSeen(dfrom[d], T)]
    BY <1>2 DEF Select
  <2> DEFINE last == LastSeen(dfrom[d], T)
  <2>2. last \in Minutes \ {0} /\ last <= minute /\ WithinLookback(last, (Events \ enqueued) \ T)
    BY <1>2, <2>1, LeftOutStaysInView DEF Select
  <2>3. dfrom' = [dfrom EXCEPT ![d] = last]
    BY <2>1
  <2> HIDE DEF last
  <2>4. DispatchTypeOK' /\ Dated'
    BY <1>2, <2>1, <2>2, <2>3 DEF CursorInv, DispatchTypeOK, Dated, Select
  <2>5. Committed' /\ NoneBehindCursor'
    BY <1>2 DEF CursorInv, Committed, NoneBehindCursor, Select
  <2>6. InHand'
    BY <1>2, <2>1, <2>2, <2>3 DEF CursorInv, DispatchTypeOK, InHand, WithinLookback, Select
  <2> QED BY <2>4, <2>5, <2>6 DEF CursorInv
<1>3. CASE Fan(d)
  <2>1. DispatchTypeOK' /\ Dated' /\ Committed'
    BY <1>3 DEF CursorInv, DispatchTypeOK, Dated, Committed, Fan
  <2>2. InHand' /\ NoneBehindCursor'
    BY <1>3 DEF CursorInv, DispatchTypeOK, InHand, NoneBehindCursor, WithinLookback, Fan
  <2> QED BY <2>1, <2>2 DEF CursorInv
<1>4. CASE SetCursor(d)
  <2>1. DispatchTypeOK' /\ Dated' /\ Committed'
    BY <1>4 DEF CursorInv, DispatchTypeOK, Dated, Committed, SetCursor
  <2>2. InHand'
    BY <1>4 DEF CursorInv, DispatchTypeOK, InHand, WithinLookback, SetCursor
  <2>3. NoneBehindCursor'
    BY <1>4 DEF CursorInv, DispatchTypeOK, InHand, NoneBehindCursor, WithinLookback, SetCursor
  <2> QED BY <2>1, <2>2, <2>3 DEF CursorInv
<1>5. CASE DispatchFails(d)
  <2>1. PICK T \in SUBSET batch[d] : enqueued' = enqueued \union T
    BY <1>5 DEF DispatchFails
  <2>2. DispatchTypeOK' /\ Dated' /\ Committed'
    BY <1>5, <2>1 DEF CursorInv, DispatchTypeOK, Dated, Committed, DispatchFails, CursorAfterFailure
  <2>3. InHand' /\ NoneBehindCursor'
    BY <1>5, <2>1
    DEF CursorInv, DispatchTypeOK, InHand, NoneBehindCursor, WithinLookback, DispatchFails,
        CursorAfterFailure
  <2> QED BY <2>2, <2>3 DEF CursorInv
<1> QED BY <1>1, <1>2, <1>3, <1>4, <1>5

LEMMA CursorStutter == CursorInv /\ UNCHANGED dispatchVars => CursorInv'
BY DEF CursorInv, DispatchTypeOK, Dated, Committed, InHand, NoneBehindCursor, WithinLookback,
       dispatchVars, dispatches, events

\* The lookback of the dispatcher is enough: whatever dispatches overlap, fail or
\* are late, an event whose transaction ends within the lookback is gone over by
\* some dispatch, or is still in view of the next one (engine.py, dispatch).
THEOREM DispatchCorrect == DispatchSpec => []DispatchSafe
<1>1. CursorInv /\ [DispatchNext]_dispatchVars => CursorInv'
  BY CursorEmit, CursorDispatch, CursorStutter DEF DispatchNext
<1>2. CursorInv => DispatchSafe
  BY DEF CursorInv, DispatchSafe
<1> QED BY CursorInit, <1>1, <1>2, PTL DEF DispatchSpec

-----------------------------------------------------------------------------
(* The runs. *)

\* A run has claimed its key at its start, ARQ has not cut it off, and no other has the key.
Claims ==
  \A r \in Runners :
    rpc[r] # "idle" =>
      /\ rkey[r] \in Keys
      /\ rsince[r] <= now /\ now < rsince[r] + JobTimeout
      /\ key[rkey[r]] >= rsince[r] + PendingTTL
      /\ \A q \in Runners : q # r /\ rpc[q] # "idle" => rkey[q] # rkey[r]

NoClaim == \A r \in Runners : rpc[r] = "idle" => rkey[r] = NoKey

\* A run of k has sent its message and goes on.
SentByRun(k) == \E r \in Runners : rpc[r] \in {"sent", "committed"} /\ rkey[r] = k

\* A run of k has finished, and its key kept every other away for DedupTTL.
SentByFinished(k) ==
  /\ finished[k] # 0
  /\ key[k] >= finished[k] + DedupTTL
  /\ \A r \in Runners : rpc[r] # "idle" /\ rkey[r] = k => now >= finished[k] + DedupTTL

\* The message of a key that no run was cut short for is accounted for.
SentAccounted ==
  \A k \in Keys : sends[k] > 0 /\ cut[k] = 0 => SentByRun(k) \/ SentByFinished(k)

RunInv == RunTypeOK /\ now # 0 /\ Claims /\ NoClaim /\ SentAccounted

LEMMA RunInitInv == RunInit => RunInv
<1> SUFFICES ASSUME RunInit PROVE RunInv
  OBVIOUS
<1> USE RunAssumption DEF RunInit, Instants
<1>1. RunTypeOK
  BY DEF RunTypeOK
<1>2. now # 0 /\ Claims /\ NoClaim /\ SentAccounted
  BY DEF Claims, NoClaim, SentAccounted
<1> QED BY <1>1, <1>2 DEF RunInv

\* A key that is claimed is live, and is not the key of another run.
LEMMA ClaimedIsLive == RunInv => OneRunPerKey
<1> SUFFICES ASSUME RunInv PROVE OneRunPerKey
  OBVIOUS
<1>1. NoKey \notin Keys
  BY DEF NoKey, Keys, Segments
<1>2. ASSUME NEW r \in Runners, rpc[r] # "idle"
      PROVE  Live(rkey[r])
  BY <1>2, RunAssumption DEF RunInv, RunTypeOK, Instants, Claims, Live
<1>3. ASSUME NEW r \in Runners, NEW q \in Runners, r # q, rpc[r] # "idle"
      PROVE  rkey[r] # rkey[q]
  BY <1>3, <1>1 DEF RunInv, Claims, NoClaim
<1> QED BY <1>2, <1>3 DEF OneRunPerKey

\* The queue, the switch and the clock.
LEMMA RunAround ==
  ASSUME RunInv, Pass \/ Switch \/ \E e \in Triggers : Rescan(e) \/ Due(e)
  PROVE  RunInv'
<1> USE RunAssumption DEF runs
<1>1. RunTypeOK'
  <2>1. ASSUME NEW e \in Triggers PROVE <<e, "base">> \in Keys /\ <<e, "cont">> \in Keys
    BY DEF Keys, Segments
  <2>2. CASE Pass
    BY <2>2 DEF RunInv, RunTypeOK, Instants, Pass
  <2>3. CASE Switch
    <3>1. active' \in BOOLEAN
      BY <2>3 DEF Switch
    <3> QED BY <2>3, <3>1 DEF RunInv, RunTypeOK, Switch
  <2>4. ASSUME NEW k \in Keys, jobs[k] < MaxQueued, jobs' = [jobs EXCEPT ![k] = @ + 1]
        PROVE  jobs' \in [Keys -> 0..MaxQueued]
    BY <2>4 DEF RunInv, RunTypeOK
  <2>5. ASSUME NEW e \in Triggers, Rescan(e) PROVE RunTypeOK'
    <3>1. jobs' \in [Keys -> 0..MaxQueued]
      BY <2>1, <2>4, <2>5 DEF Rescan
    <3> QED BY <3>1, <2>5 DEF RunInv, RunTypeOK, Rescan
  <2>6. ASSUME NEW e \in Triggers, Due(e) PROVE RunTypeOK'
    <3>1. jobs' \in [Keys -> 0..MaxQueued]
      BY <2>1, <2>4, <2>6 DEF Due
    <3>2. deferred' \in [Triggers -> SUBSET Nat]
      BY <2>6 DEF RunInv, RunTypeOK, Due
    <3> QED BY <3>1, <3>2, <2>6 DEF RunInv, RunTypeOK, Due
  <2> QED BY <2>2, <2>3, <2>5, <2>6
<1>2. now' # 0 /\ now \in Nat /\ now' \in Nat /\ now <= now'
  <2>1. CASE Pass
    BY <2>1 DEF RunInv, RunTypeOK, Instants, Pass
  <2>2. CASE now' = now
    BY <2>2 DEF RunInv, RunTypeOK, Instants
  <2> QED BY <2>1, <2>2 DEF Switch, Rescan, Due
<1>3. UNCHANGED <<key, rpc, rkey, rsince, sends, cut, finished>>
  BY DEF Pass, Switch, Rescan, Due
<1>4. Claims'
  <2>1. CASE Pass
    BY <2>1, <1>2, <1>3 DEF RunInv, RunTypeOK, Instants, Claims, Pass, InTime
  <2>2. CASE now' = now
    BY <2>2, <1>3 DEF RunInv, Claims
  <2> QED BY <2>1, <2>2 DEF Switch, Rescan, Due
<1>5. SentAccounted'
  <2> SUFFICES ASSUME NEW k \in Keys, sends[k] > 0, cut[k] = 0
               PROVE  SentByRun(k)' \/ SentByFinished(k)'
    BY <1>3 DEF SentAccounted
  <2>1. CASE SentByRun(k)
    BY <2>1, <1>3 DEF SentByRun
  <2>2. CASE SentByFinished(k)
    BY <2>2, <1>2, <1>3 DEF SentByFinished, RunInv, RunTypeOK, Instants
  <2> QED BY <2>1, <2>2 DEF RunInv, SentAccounted
<1>6. NoClaim'
  BY <1>3 DEF RunInv, NoClaim
<1> QED BY <1>1, <1>2, <1>4, <1>5, <1>6 DEF RunInv

\* A claim is made on a key that is not live, so no run has it.
LEMMA RunTake ==
  ASSUME RunInv, NEW r \in Runners, NEW k \in Keys, Take(r, k)
  PROVE  RunInv'
<1> USE RunAssumption DEF runs
<1>1. RunTypeOK' /\ now' # 0
  BY DEF RunInv, RunTypeOK, Instants, Take
<1>2. CASE ~ClaimFree(k)
  <2>1. UNCHANGED <<now, key, rpc, rkey, rsince, sends, cut, finished>>
    BY <1>2 DEF Take
  <2> QED BY <1>1, <2>1 DEF RunInv, Claims, NoClaim, SentAccounted, SentByRun, SentByFinished
<1>3. CASE ClaimFree(k)
  <2>1. /\ rpc[r] = "idle"
        /\ key' = [key EXCEPT ![k] = now + PendingTTL]
        /\ rpc' = [rpc EXCEPT ![r] = "claimed"]
        /\ rkey' = [rkey EXCEPT ![r] = k]
        /\ rsince' = [rsince EXCEPT ![r] = now]
        /\ UNCHANGED <<now, sends, cut, finished>>
    BY <1>3 DEF Take
  <2>2. key[k] <= now
    BY <1>3 DEF ClaimFree, Live, RunInv, RunTypeOK, Instants
  <2>3. \A q \in Runners : rpc[q] # "idle" => rkey[q] # k
    BY <2>2, ClaimedIsLive DEF OneRunPerKey, Live, RunInv, RunTypeOK, Instants
  <2>4. Claims'
    <3> SUFFICES ASSUME NEW q \in Runners, rpc'[q] # "idle"
                 PROVE  /\ rkey'[q] \in Keys
                        /\ rsince'[q] <= now /\ now < rsince'[q] + JobTimeout
                        /\ key'[rkey'[q]] >= rsince'[q] + PendingTTL
                        /\ \A p \in Runners : p # q /\ rpc'[p] # "idle" => rkey'[p] # rkey'[q]
      BY <2>1 DEF Claims
    <3>1. CASE q = r
      BY <3>1, <2>1, <2>3 DEF RunInv, RunTypeOK, Instants
    <3>2. CASE q # r
      BY <3>2, <2>1, <2>3 DEF RunInv, RunTypeOK, Instants, Claims
    <3> QED BY <3>1, <3>2
  <2>5. SentAccounted'
    <3> SUFFICES ASSUME NEW l \in Keys, sends[l] > 0, cut[l] = 0
                 PROVE  SentByRun(l)' \/ SentByFinished(l)'
      BY <2>1 DEF SentAccounted
    <3>1. CASE SentByRun(l)
      BY <3>1, <2>1 DEF SentByRun, RunInv, RunTypeOK
    <3>2. CASE SentByFinished(l)
      BY <3>2, <2>1, <2>2 DEF SentByFinished, RunInv, RunTypeOK, Instants
    <3> QED BY <3>1, <3>2 DEF RunInv, SentAccounted
  <2>6. NoClaim'
    BY <2>1 DEF RunInv, RunTypeOK, NoClaim
  <2> QED BY <1>1, <2>4, <2>5, <2>6 DEF RunInv
<1> QED BY <1>2, <1>3

\* A step of a run on its way: it keeps its claim.
LEMMA RunGoesOn ==
  ASSUME RunInv, NEW r \in Runners, Send(r) \/ Defer(r)
  PROVE  RunInv'
<1> USE RunAssumption DEF runs
<1>1. rpc[r] # "idle" /\ rkey[r] \in Keys
  BY DEF RunInv, Claims, Send, Defer
<1>2. RunTypeOK' /\ now' # 0
  <2>1. CASE Send(r)
    BY <1>1, <2>1 DEF RunInv, RunTypeOK, Instants, Send
  <2>2. CASE Defer(r)
    <3>1. Continuation(rkey[r]) \in [Triggers -> SUBSET Nat]
      BY <1>1 DEF RunInv, RunTypeOK, Instants, Continuation, Keys
    <3> QED BY <3>1, <2>2 DEF RunInv, RunTypeOK, Instants, Defer
  <2> QED BY <2>1, <2>2
<1>3. Claims'
  BY <1>1 DEF RunInv, RunTypeOK, Claims, Send, Defer
<1>4. SentAccounted'
  <2> SUFFICES ASSUME NEW k \in Keys, sends'[k] > 0, cut'[k] = 0
               PROVE  SentByRun(k)' \/ SentByFinished(k)'
    BY DEF SentAccounted
  <2>1. CASE k = rkey[r]
    BY <2>1, <1>1 DEF RunInv, RunTypeOK, SentByRun, Send, Defer
  <2>2. CASE k # rkey[r]
    <3>1. sends[k] > 0 /\ cut[k] = 0
      BY <2>2, <1>1 DEF RunInv, RunTypeOK, Send, Defer
    <3>2. CASE SentByRun(k)
      BY <3>2, <2>2 DEF RunInv, RunTypeOK, SentByRun, Send, Defer
    <3>3. CASE SentByFinished(k)
      BY <3>3, <2>2 DEF RunInv, RunTypeOK, SentByFinished, Send, Defer
    <3> QED BY <3>1, <3>2, <3>3 DEF RunInv, SentAccounted
  <2> QED BY <2>1, <2>2
<1>5. NoClaim'
  BY <1>1 DEF RunInv, RunTypeOK, NoClaim, Send, Defer
<1> QED BY <1>2, <1>3, <1>4, <1>5 DEF RunInv

\* The end of a run: the key that it promotes is live, so it holds for DedupTTL.
LEMMA RunEnds ==
  ASSUME RunInv, NEW r \in Runners, Skip(r) \/ Finish(r) \/ RunFails(r) \/ Shutdown(r)
  PROVE  RunInv'
<1> USE RunAssumption DEF runs, Leave
<1> DEFINE k == rkey[r]
<1>1. rpc[r] # "idle" /\ k \in Keys /\ key[k] > now
  BY ClaimedIsLive DEF RunInv, Claims, OneRunPerKey, Live, Skip, Finish, RunFails, Shutdown
<1>2. /\ rpc' = [rpc EXCEPT ![r] = "idle"]
      /\ rkey' = [rkey EXCEPT ![r] = NoKey]
      /\ rsince' = [rsince EXCEPT ![r] = 0]
      /\ UNCHANGED <<now, sends>>
  BY DEF Skip, Finish, RunFails, Shutdown
<1>3. \A l \in Keys \ {k} : key'[l] = key[l] /\ finished'[l] = finished[l] /\ cut'[l] = cut[l]
  BY <1>1 DEF RunInv, RunTypeOK, Skip, Finish, RunFails, Shutdown
<1>4. \A q \in Runners \ {r} : rpc[q] # "idle" => rkey[q] # k
  BY <1>1 DEF RunInv, Claims
<1>5. RunTypeOK' /\ now' # 0
  BY <1>1, <1>2 DEF RunInv, RunTypeOK, Instants, Skip, Finish, Promoted, RunFails, Shutdown
<1>6. Claims'
  <2> SUFFICES ASSUME NEW q \in Runners, rpc'[q] # "idle"
               PROVE  /\ rkey'[q] \in Keys
                      /\ rsince'[q] <= now /\ now < rsince'[q] + JobTimeout
                      /\ key'[rkey'[q]] >= rsince'[q] + PendingTTL
                      /\ \A p \in Runners : p # q /\ rpc'[p] # "idle" => rkey'[p] # rkey'[q]
    BY <1>2 DEF Claims
  <2>1. /\ q # r /\ rpc[q] # "idle"
        /\ rkey'[q] = rkey[q] /\ rsince'[q] = rsince[q] /\ rkey[q] # k
        /\ rkey[q] \in Keys
    BY <1>2, <1>4 DEF RunInv, RunTypeOK, Claims
  <2>2. key'[rkey[q]] = key[rkey[q]]
    BY <2>1, <1>3
  <2>3. \A p \in Runners : rpc'[p] # "idle" => rpc[p] # "idle" /\ rkey'[p] = rkey[p]
    BY <1>2 DEF RunInv, RunTypeOK
  <2> HIDE DEF k
  <2> QED BY <2>1, <2>2, <2>3 DEF RunInv, Claims
<1>7. SentAccounted'
  <2> SUFFICES ASSUME NEW l \in Keys, sends[l] > 0, cut'[l] = 0
               PROVE  SentByRun(l)' \/ SentByFinished(l)'
    BY <1>2 DEF SentAccounted
  <2>1. CASE l # k
    <3>1. SentByRun(l) \/ SentByFinished(l)
      BY <2>1, <1>3 DEF RunInv, SentAccounted
    <3>2. CASE SentByRun(l)
      BY <3>2, <2>1, <1>2 DEF RunInv, RunTypeOK, SentByRun
    <3>3. CASE SentByFinished(l)
      BY <3>3, <2>1, <1>2, <1>3 DEF RunInv, RunTypeOK, SentByFinished
    <3> QED BY <3>1, <3>2, <3>3
  <2>2. CASE l = k /\ Finish(r)
    <3>1. finished'[l] = now /\ key'[l] = now + DedupTTL
      BY <2>2, <1>1 DEF RunInv, RunTypeOK, Finish, Promoted, Live
    <3>2. \A q \in Runners : rpc'[q] # "idle" => rkey'[q] # l
      BY <2>2, <1>2, <1>4 DEF RunInv, RunTypeOK
    <3> QED BY <3>1, <3>2, <1>2 DEF RunInv, RunTypeOK, Instants, SentByFinished
  <2>3. CASE l = k /\ Skip(r)
    <3>1. ~SentByRun(l)
      BY <2>3, <1>4 DEF SentByRun, Skip
    <3>2. SentByFinished(l)
      BY <2>3, <3>1 DEF RunInv, SentAccounted, Skip
    <3> QED BY <2>3, <3>2, <1>2 DEF RunInv, RunTypeOK, SentByFinished, Skip
  <2>4. CASE l = k /\ (RunFails(r) \/ Shutdown(r))
    BY <2>4, <1>1 DEF RunInv, RunTypeOK, RunFails, Shutdown
  <2> QED BY <2>1, <2>2, <2>3, <2>4
<1>8. NoClaim'
  BY <1>2 DEF RunInv, RunTypeOK, NoClaim
<1> QED BY <1>5, <1>6, <1>7, <1>8 DEF RunInv

LEMMA RunInvStep == RunInv /\ [RunNext]_runVars => RunInv'
<1> SUFFICES ASSUME RunInv, [RunNext]_runVars PROVE RunInv'
  OBVIOUS
<1>1. CASE UNCHANGED runVars
  BY <1>1 DEF RunInv, RunTypeOK, Claims, NoClaim, SentAccounted, SentByRun, SentByFinished,
              runVars, runs
<1> QED BY <1>1, RunAround, RunTake, RunGoesOn, RunEnds DEF RunNext

\* The claim in Redis outlives the job that made it, so however often an event is
\* dispatched and its jobs are started again, its runs do not overlap (engine.py,
\* automation_run).
THEOREM RunCorrect == RunSpec => []RunSafe
<1>1. RunInv => RunSafe
  BY ClaimedIsLive DEF RunInv, RunSafe
<1> QED BY RunInitInv, RunInvStep, <1>1, PTL DEF RunSpec

\* A message goes out again only after a cut-off, or when the promoted key has run
\* out: the run that sends it has its key for itself, and took it when it was free.
THEOREM RunSendsOnce == RunSpec => SentAgainOnlyIf
<1> DEFINE Again(k) == sends'[k] > sends[k] /\ sends[k] > 0
                         => cut[k] > 0 \/ (finished[k] # 0 /\ now >= finished[k] + DedupTTL)
           AgainOnly == \A k \in Keys : Again(k)
<1>1. ASSUME RunInv, [RunNext]_runVars PROVE AgainOnly
  <2> SUFFICES ASSUME NEW k \in Keys, sends'[k] > sends[k], sends[k] > 0
               PROVE  cut[k] > 0 \/ (finished[k] # 0 /\ now >= finished[k] + DedupTTL)
    OBVIOUS
  <2>1. PICK r \in Runners : Send(r) /\ rkey[r] = k
    <3>1. sends' # sends
      BY <1>1 DEF RunInv, RunTypeOK
    <3>2. PICK r \in Runners : Send(r)
      BY <1>1, <3>1 DEF RunNext, runVars, Pass, Switch, Rescan, Due, Take, Skip, Defer, Finish,
                        RunFails, Shutdown
    <3>3. rkey[r] = k
      BY <1>1, <3>2 DEF RunInv, RunTypeOK, Send
    <3> QED BY <3>2, <3>3
  <2>2. ~SentByRun(k)
    BY <1>1, <2>1 DEF RunInv, Claims, SentByRun, Send
  <2>3. cut[k] \in Nat
    BY <1>1 DEF RunInv, RunTypeOK
  <2>4. CASE cut[k] = 0
    BY <1>1, <2>1, <2>2, <2>4 DEF RunInv, SentAccounted, SentByFinished, Send
  <2> QED BY <2>3, <2>4
<1>2. RunInv /\ [RunNext]_runVars => [AgainOnly]_runVars
  BY <1>1
<1>3. RunSpec => [][AgainOnly]_runVars
  BY RunInitInv, RunInvStep, <1>2, PTL DEF RunSpec
<1> QED BY <1>3 DEF SentAgainOnlyIf

-----------------------------------------------------------------------------
(* The queue of the closed hours. *)

Resumed(id) == \E anchor \in Anchors : <<id, anchor>> \in resumes

Swept(id) == \E s \in Sweeps : sweep_row[s].id = id

\* The resumes that would still send for an episode that goes on.
Awaited(id) == id \notin taken /\ \E anchor \in Anchors : <<id, anchor>> \in resumes /\ anchor >= last_inbound

\* An id is given once.
FreshIds ==
  /\ next_id # 0
  /\ row.id < next_id
  /\ \A s \in Sweeps : sweep_row[s].id < next_id
  /\ \A id \in Ids : id \in taken \/ Resumed(id) \/ sent_for[id] > 0 => id < next_id

\* Id 0 is that of no row, and an idle sweep has no row.
NoRowIsNone ==
  /\ row.id = 0 => row = NoRow
  /\ \A s \in Sweeps : sweep_at[s] = "idle" <=> sweep_row[s].id = 0

\* A row whose run is out stays in the hands of a sweep that is about to delete it,
\* if nothing lapses.
DeletedAfterResume ==
  \A id \in Ids :
    id \in taken \/ Resumed(id) =>
      \/ lapsed > 0
      \/ row.id # id
      \/ \E s \in Sweeps : sweep_at[s] = "enqueued" /\ sweep_row[s].id = id

\* Nothing of the row is left but its history.
Gone(id) == row.id # id /\ ~Swept(id) /\ ~Resumed(id)

\* The key of a row's run has run out although a message went out: something lapsed
\* before, or the row is gone.
KeptOnce ==
  \A id \in Ids :
    /\ sent_for[id] > 0 /\ id \notin taken => lapsed > 1 \/ (lapsed > 0 /\ Gone(id))
    /\ lapsed < 2 => sent_for[id] <= 1

\* The row of an episode that goes on has its anchor.
OwedHasAnchor == owed /\ row # NoRow => row.anchor >= last_inbound

\* If the row was not written during a sweep, every snapshot of it is true, its run
\* is not out, and a sweep that deletes it has put the run in the queue.
OwedIsSwept ==
  owed /\ ~overlapped /\ row # NoRow =>
    /\ row.id \notin taken
    /\ \A s \in Sweeps :
         sweep_row[s].id = row.id =>
           /\ sweep_row[s].anchor = row.anchor
           /\ sweep_at[s] = "enqueued" => Awaited(row.id)

\* Without a row the run is on its way.
OwedIsResumed == owed /\ ~overlapped /\ row = NoRow => \E id \in Ids : Awaited(id)

HoursInv ==
  /\ HoursTypeOK
  /\ last_inbound <= instant
  /\ FreshIds /\ NoRowIsNone
  /\ DeletedAfterResume /\ KeptOnce
  /\ OwedHasAnchor /\ OwedIsSwept /\ OwedIsResumed

LEMMA HoursInitInv == HoursInit => HoursInv
<1> SUFFICES ASSUME HoursInit PROVE HoursInv
  OBVIOUS
<1> USE DEF HoursInit
<1>1. HoursTypeOK
  <2>1. 1 \in Ids \union {MaxRows + 1} /\ 0 \in Anchors /\ 0 \in 0..MaxLapses
    BY HoursQueueAssumption DEF Ids, Anchors
  <2>2. NoRow \in Rows
    BY <2>1 DEF NoRow, Rows
  <2> QED BY <2>1, <2>2 DEF HoursTypeOK
<1>2. FreshIds /\ NoRowIsNone
  BY DEF FreshIds, NoRowIsNone, Resumed, NoRow, Ids
<1>3. DeletedAfterResume /\ KeptOnce
  BY DEF DeletedAfterResume, KeptOnce, Resumed
<1>4. OwedHasAnchor /\ OwedIsSwept /\ OwedIsResumed
  BY DEF OwedHasAnchor, OwedIsSwept, OwedIsResumed
<1> QED BY <1>1, <1>2, <1>3, <1>4 DEF HoursInv

\* The row that a walk leaves is new, or the one that was there with a new anchor.
LEMMA UpsertWrites ==
  ASSUME HoursInv, NEW anchor \in Anchors, NEW keys, Upsert(anchor, keys)
  PROVE  /\ row' \in Rows /\ row'.id \in Ids /\ row'.anchor = anchor
         /\ next_id' \in Ids \union {MaxRows + 1}
         /\ overlapped' \in BOOLEAN
         /\ \/ row = NoRow /\ row'.id = next_id /\ next_id' = next_id + 1
            \/ row # NoRow /\ row'.id = row.id /\ next_id' = next_id
               /\ overlapped' = (overlapped \/ InSweep(keys))
<1> USE HoursQueueAssumption DEF Anchors, Ids, Rows
<1>1. CASE row = NoRow
  <2>1. row' = [id |-> next_id, anchor |-> anchor, old |-> FALSE] /\ next_id <= MaxRows
    BY <1>1 DEF Upsert
  <2>2. next_id \in Ids
    BY <2>1 DEF HoursInv, HoursTypeOK, FreshIds
  <2> QED BY <1>1, <2>1, <2>2 DEF HoursInv, HoursTypeOK, Upsert
<1>2. CASE row # NoRow
  <2>1. row' = [row EXCEPT !.anchor = anchor] /\ row.id \in Ids /\ row \in Rows
    BY <1>2 DEF Upsert, Refreshed, HoursInv, HoursTypeOK, NoRowIsNone
  <2> QED BY <1>2, <2>1 DEF HoursInv, HoursTypeOK, Upsert
<1> QED BY <1>1, <1>2

\* The lead and the clock.
LEMMA HoursAround ==
  ASSUME HoursInv, Reply \/ Hours \/ Ages
  PROVE  HoursInv'
<1> USE HoursQueueAssumption DEF Anchors, sweeps
<1>1. row' \in Rows /\ row'.id = row.id /\ row'.anchor = row.anchor /\ (row' = NoRow <=> row = NoRow)
  <2>1. CASE row' = row
    BY <2>1 DEF HoursInv, HoursTypeOK
  <2>2. CASE Ages
    <3>1. row \in Rows /\ row # NoRow /\ row' = [row EXCEPT !.old = TRUE]
      BY <2>2 DEF HoursInv, HoursTypeOK, Ages
    <3>2. row'.old /\ ~NoRow.old
      BY <3>1 DEF Rows, NoRow
    <3> QED BY <3>1, <3>2 DEF Rows
  <2> QED BY <2>1, <2>2 DEF Reply, Hours
<1>2. UNCHANGED <<next_id, sweep_at, sweep_row, resumes, taken, sent_for, overlapped, lapsed>>
  BY DEF Reply, Hours, Ages
<1>3. HoursTypeOK'
  <2>1. open' \in BOOLEAN /\ owed' \in BOOLEAN
    BY DEF HoursInv, HoursTypeOK, Reply, Hours, Ages
  <2> QED BY <1>1, <1>2, <2>1 DEF HoursInv, HoursTypeOK, Reply, Hours, Ages
<1>4. last_inbound' <= instant' /\ FreshIds' /\ NoRowIsNone'
  <2>1. last_inbound' <= instant'
    BY DEF HoursInv, HoursTypeOK, Reply, Hours, Ages
  <2>2. FreshIds' /\ NoRowIsNone'
    BY <1>1, <1>2 DEF HoursInv, FreshIds, NoRowIsNone, Resumed
  <2> QED BY <2>1, <2>2
<1>5. DeletedAfterResume' /\ KeptOnce'
  BY <1>1, <1>2 DEF HoursInv, DeletedAfterResume, KeptOnce, Gone, Swept, Resumed
<1>6. OwedHasAnchor' /\ OwedIsSwept' /\ OwedIsResumed'
  <2>1. ~owed' \/ (owed' = owed /\ last_inbound' = last_inbound)
    BY DEF Reply, Hours, Ages
  <2> QED BY <1>1, <1>2, <2>1 DEF HoursInv, OwedHasAnchor, OwedIsSwept, OwedIsResumed, Awaited
<1> QED BY <1>3, <1>4, <1>5, <1>6 DEF HoursInv

\* A walk reaches the node: its row is new, or counts as written during a sweep if its
\* run is out or a sweep has it.
LEMMA HoursEpisode ==
  ASSUME HoursInv, Episode
  PROVE  HoursInv'
<1> USE HoursQueueAssumption DEF Anchors, sweeps
<1>1. /\ instant' = instant + 1 /\ instant' \in Anchors
      /\ UNCHANGED <<open, last_inbound, claimed_by, sweep_at, sweep_row, resumes, taken,
                     sent_for, lapsed>>
  BY DEF HoursInv, HoursTypeOK, Episode
<1>2. CASE open
  <2>1. UNCHANGED <<row, next_id, overlapped, owed>>
    BY <1>2 DEF Episode
  <2> QED BY <1>1, <2>1 DEF HoursInv, HoursTypeOK, FreshIds, NoRowIsNone, DeletedAfterResume,
             KeptOnce, Gone, Swept, Resumed, OwedHasAnchor, OwedIsSwept, OwedIsResumed, Awaited
<1>3. CASE ~open
  <2>1. Upsert(instant', taken) /\ owed' = TRUE
    BY <1>3 DEF Episode
  <2>2. /\ row' \in Rows /\ row'.id \in Ids /\ row'.anchor = instant'
        /\ next_id' \in Ids \union {MaxRows + 1}
        /\ overlapped' \in BOOLEAN
        /\ \/ row = NoRow /\ row'.id = next_id /\ next_id' = next_id + 1
           \/ row # NoRow /\ row'.id = row.id /\ next_id' = next_id
              /\ overlapped' = (overlapped \/ InSweep(taken))
    BY <2>1, <1>1, UpsertWrites
  <2>3. HoursTypeOK'
    BY <2>1, <2>2, <1>1 DEF HoursInv, HoursTypeOK
  <2>4. FreshIds' /\ NoRowIsNone' /\ last_inbound' <= instant'
    <3>1. last_inbound' <= instant'
      BY <1>1 DEF HoursInv, HoursTypeOK
    <3>2. NoRowIsNone'
      BY <2>2, <1>1 DEF HoursInv, NoRowIsNone, Ids
    <3>3. next_id <= next_id' /\ next_id \in Nat /\ next_id' \in Nat /\ row'.id < next_id'
      BY <2>2 DEF HoursInv, HoursTypeOK, FreshIds, Ids
    <3>4. FreshIds'
      BY <3>3, <1>1 DEF HoursInv, HoursTypeOK, FreshIds, Resumed, Ids, Rows
    <3> QED BY <3>1, <3>2, <3>4
  <2>5. DeletedAfterResume' /\ KeptOnce'
    <3>1. \A id \in Ids :
            id \in taken \/ Resumed(id) \/ sent_for[id] > 0 => (row'.id = id => row.id = id)
      BY <2>2 DEF HoursInv, FreshIds, Ids
    <3>2. \A id \in Ids : Resumed(id)' <=> Resumed(id)
      BY <1>1 DEF Resumed
    <3>3. DeletedAfterResume'
      BY <3>1, <3>2, <1>1 DEF HoursInv, DeletedAfterResume
    <3>4. KeptOnce'
      BY <3>1, <3>2, <1>1 DEF HoursInv, KeptOnce, Gone, Swept
    <3> QED BY <3>3, <3>4
  <2>6. OwedHasAnchor' /\ OwedIsResumed'
    BY <2>2, <1>1 DEF HoursInv, HoursTypeOK, OwedHasAnchor, OwedIsResumed, Ids, NoRow
  <2>7. OwedIsSwept'
    BY <2>2, <1>1 DEF HoursInv, HoursTypeOK, FreshIds, OwedIsSwept, InSweep, Ids
  <2> QED BY <2>3, <2>4, <2>5, <2>6, <2>7 DEF HoursInv
<1> QED BY <1>2, <1>3

\* A sweep takes a snapshot of the row, and the claim changes nothing that counts.
LEMMA HoursScan ==
  ASSUME HoursInv, NEW s \in Sweeps, Scan(s)
  PROVE  HoursInv'
<1>1. HoursTypeOK'
  BY DEF HoursInv, HoursTypeOK, Scan
<1>2. last_inbound' <= instant' /\ FreshIds' /\ NoRowIsNone'
  BY DEF HoursInv, HoursTypeOK, FreshIds, NoRowIsNone, Resumed, Scan
<1>3. DeletedAfterResume'
  BY DEF HoursInv, HoursTypeOK, DeletedAfterResume, Resumed, Scan
<1>4. KeptOnce'
  BY DEF HoursInv, HoursTypeOK, KeptOnce, Gone, Swept, Resumed, Scan
<1>5. OwedHasAnchor' /\ OwedIsSwept' /\ OwedIsResumed'
  BY DEF HoursInv, HoursTypeOK, OwedHasAnchor, OwedIsSwept, OwedIsResumed, Awaited, Scan
<1> QED BY <1>1, <1>2, <1>3, <1>4, <1>5 DEF HoursInv

\* A sweep that stops and leaves the row: it has not enqueued its run, or it lapsed.
LEMMA HoursStop ==
  ASSUME HoursInv, NEW s \in Sweeps, StopSweep(s),
         UNCHANGED <<instant, open, last_inbound, row, next_id, resumes, taken, sent_for, owed,
                     overlapped>>,
         claimed_by' \in SUBSET Sweeps,
         \/ UNCHANGED lapsed /\ sweep_at[s] # "enqueued"
         \/ lapsed' = lapsed + 1 /\ lapsed < MaxLapses
  PROVE  HoursInv'
<1> USE HoursQueueAssumption
<1>1. /\ lapsed \in Nat /\ lapsed' \in 0..MaxLapses /\ lapsed <= lapsed'
      /\ \A q \in Sweeps \ {s} : sweep_at'[q] = sweep_at[q] /\ sweep_row'[q] = sweep_row[q]
      /\ sweep_at'[s] = "idle" /\ sweep_row'[s] = NoRow /\ NoRow.id = 0
      /\ sweep_at' \in [Sweeps -> {"idle", "scanned", "claimed", "enqueued"}]
      /\ NoRow \in Rows /\ sweep_row' \in [Sweeps -> Rows]
  BY DEF HoursInv, HoursTypeOK, StopSweep, NoRow, Rows, Anchors
<1>2. HoursTypeOK'
  BY <1>1 DEF HoursInv, HoursTypeOK
<1>3. last_inbound' <= instant' /\ NoRowIsNone'
  BY <1>1 DEF HoursInv, HoursTypeOK, NoRowIsNone
<1>4. FreshIds'
  <2>1. 0 < next_id
    BY DEF HoursInv, HoursTypeOK, FreshIds, Ids
  <2>2. \A q \in Sweeps : sweep_row'[q].id < next_id
    BY <2>1, <1>1 DEF HoursInv, FreshIds
  <2> QED BY <2>2 DEF HoursInv, FreshIds, Resumed
<1>5. DeletedAfterResume'
  BY <1>1 DEF HoursInv, DeletedAfterResume, Resumed
<1>6. KeptOnce'
  <2>1. \A id \in Ids : Swept(id)' => Swept(id)
    BY <1>1 DEF Swept, Ids
  <2> QED BY <2>1, <1>1 DEF HoursInv, HoursTypeOK, KeptOnce, Gone, Resumed
<1>7. OwedHasAnchor' /\ OwedIsSwept' /\ OwedIsResumed'
  BY <1>1 DEF HoursInv, NoRowIsNone, OwedHasAnchor, OwedIsSwept, OwedIsResumed, Awaited
<1> QED BY <1>2, <1>3, <1>4, <1>5, <1>6, <1>7 DEF HoursInv

\* A sweep claims the row and enqueues its run, with an anchor that is still true.
LEMMA HoursClaim ==
  ASSUME HoursInv, NEW s \in Sweeps, Claim(s) \/ EnqueueResume(s)
  PROVE  HoursInv'
<1> USE HoursQueueAssumption DEF Anchors, sweeps
<1>1. CASE Claim(s)
  <2>1. /\ UNCHANGED <<instant, open, last_inbound, row, next_id, resumes, taken, sent_for, owed,
                       overlapped, lapsed>>
        /\ sweep_at[s] = "scanned"
        /\ \/ sweep_at' = [sweep_at EXCEPT ![s] = "claimed"] /\ sweep_row' = sweep_row
              /\ claimed_by' = {s}
           \/ StopSweep(s) /\ claimed_by' = claimed_by
    BY <1>1 DEF Claim
  <2>2. CASE StopSweep(s)
    BY <2>1, <2>2, HoursStop DEF HoursInv, HoursTypeOK
  <2>3. CASE /\ sweep_at' = [sweep_at EXCEPT ![s] = "claimed"] /\ sweep_row' = sweep_row
             /\ claimed_by' = {s}
    <3>1. HoursTypeOK'
      BY <2>1, <2>3 DEF HoursInv, HoursTypeOK
    <3>2. last_inbound' <= instant' /\ FreshIds' /\ NoRowIsNone'
      BY <2>1, <2>3 DEF HoursInv, HoursTypeOK, FreshIds, NoRowIsNone, Resumed
    <3>3. DeletedAfterResume' /\ KeptOnce'
      BY <2>1, <2>3 DEF HoursInv, HoursTypeOK, DeletedAfterResume, KeptOnce, Gone, Swept, Resumed
    <3>4. OwedHasAnchor' /\ OwedIsSwept' /\ OwedIsResumed'
      BY <2>1, <2>3 DEF HoursInv, HoursTypeOK, OwedHasAnchor, OwedIsSwept, OwedIsResumed, Awaited
    <3> QED BY <3>1, <3>2, <3>3, <3>4 DEF HoursInv
  <2> QED BY <2>1, <2>2, <2>3
<1>2. CASE EnqueueResume(s)
  <2> DEFINE resume == <<sweep_row[s].id, sweep_row[s].anchor>>
  <2>1. /\ UNCHANGED <<instant, open, last_inbound, row, next_id, sweep_row, taken, sent_for, owed,
                       overlapped, lapsed, claimed_by>>
        /\ sweep_at[s] = "claimed"
        /\ sweep_at' = [sweep_at EXCEPT ![s] = "enqueued"]
        /\ resumes' = resumes \union {resume}
    BY <1>2 DEF EnqueueResume
  <2>2. sweep_row[s].id \in Ids /\ sweep_row[s].anchor \in Anchors
    BY <2>1 DEF HoursInv, HoursTypeOK, NoRowIsNone, Rows
  <2>3. HoursTypeOK'
    BY <2>1, <2>2 DEF HoursInv, HoursTypeOK
  <2>4. \A id \in Ids : Resumed(id)' => Resumed(id) \/ id = sweep_row[s].id
    BY <2>1 DEF Resumed
  <2>5. \A id \in Ids : Awaited(id) => Awaited(id)'
    BY <2>1 DEF Awaited
  <2>6. last_inbound' <= instant' /\ FreshIds' /\ NoRowIsNone'
    BY <2>1, <2>4 DEF HoursInv, HoursTypeOK, FreshIds, NoRowIsNone
  <2>7. DeletedAfterResume'
    BY <2>1, <2>4 DEF HoursInv, HoursTypeOK, DeletedAfterResume
  <2>8. KeptOnce'
    BY <2>1, <2>4 DEF HoursInv, HoursTypeOK, KeptOnce, Gone, Swept
  <2>9. OwedHasAnchor' /\ OwedIsResumed'
    BY <2>1, <2>5 DEF HoursInv, OwedHasAnchor, OwedIsResumed
  <2>10. OwedIsSwept'
    <3>1. ASSUME owed, ~overlapped, row # NoRow, sweep_row[s].id = row.id
          PROVE  Awaited(row.id)'
      <4>1. sweep_row[s].anchor = row.anchor /\ row.anchor >= last_inbound /\ row.id \notin taken
        BY <3>1 DEF HoursInv, OwedIsSwept, OwedHasAnchor
      <4> QED BY <4>1, <3>1, <2>1, <2>2 DEF Awaited
    <3>2. row # NoRow => row.id \in Ids
      BY DEF HoursInv, HoursTypeOK, NoRowIsNone, Rows
    <3> QED BY <3>1, <3>2, <2>1, <2>5 DEF HoursInv, HoursTypeOK, OwedIsSwept
  <2> QED BY <2>3, <2>6, <2>7, <2>8, <2>9, <2>10 DEF HoursInv
<1> QED BY <1>1, <1>2

\* A sweep that fails or dies leaves the row: something has lapsed.
LEMMA HoursSweepFails ==
  ASSUME HoursInv, NEW s \in Sweeps, EnqueueFails(s) \/ SweepDies(s)
  PROVE  HoursInv'
<1> USE HoursQueueAssumption DEF Anchors, sweeps
<1>1. /\ UNCHANGED <<instant, open, last_inbound, row, next_id, resumes, taken, sent_for, owed,
                     overlapped>>
      /\ lapsed < MaxLapses /\ lapsed' = lapsed + 1 /\ lapsed \in Nat
      /\ claimed_by' \in SUBSET Sweeps
      /\ StopSweep(s)
  BY DEF HoursInv, HoursTypeOK, EnqueueFails, Release, SweepDies
<1>2. HoursInv' \/ UNCHANGED lapsed
  BY <1>1, HoursStop DEF HoursInv, HoursTypeOK
<1> QED BY <1>1, <1>2

\* A sweep deletes the row: it is too old, or its run is on its way.
LEMMA HoursDelete ==
  ASSUME HoursInv, NEW s \in Sweeps, Drop(s) \/ DeleteRow(s)
  PROVE  HoursInv'
<1> USE HoursQueueAssumption DEF Anchors, sweeps
<1>1. /\ UNCHANGED <<instant, open, last_inbound, next_id, resumes, taken, sent_for, overlapped,
                     lapsed>>
      /\ sweep_at[s] \in {"scanned", "enqueued"}
      /\ Deleted(s) /\ StopSweep(s)
      /\ owed' \in BOOLEAN /\ (owed' => owed)
  <2>1. CASE Drop(s)
    BY <2>1 DEF HoursInv, HoursTypeOK, Drop
  <2>2. CASE DeleteRow(s)
    BY <2>2 DEF HoursInv, HoursTypeOK, DeleteRow
  <2> QED BY <2>1, <2>2
<1>2. \/ Stands(s) /\ row' = NoRow
      \/ row' = row /\ row.id # sweep_row[s].id
  BY <1>1 DEF Deleted, Stands, HoursInv, HoursTypeOK, NoRowIsNone, NoRow
<1>3. HoursTypeOK'
  BY <1>1, <1>2 DEF HoursInv, HoursTypeOK, StopSweep, Deleted, NoRow, Rows
<1>4. last_inbound' <= instant' /\ FreshIds' /\ NoRowIsNone'
  BY <1>1, <1>2 DEF HoursInv, HoursTypeOK, FreshIds, NoRowIsNone, Resumed, StopSweep, NoRow, Ids
<1>5. DeletedAfterResume'
  BY <1>1, <1>2 DEF HoursInv, HoursTypeOK, DeletedAfterResume, Resumed, StopSweep, NoRow, Ids
<1>6. KeptOnce'
  BY <1>1, <1>2 DEF HoursInv, HoursTypeOK, KeptOnce, Gone, Swept, Resumed, StopSweep, NoRow, Ids
<1>7. OwedHasAnchor' /\ OwedIsSwept'
  BY <1>1, <1>2 DEF HoursInv, HoursTypeOK, NoRowIsNone, OwedHasAnchor, OwedIsSwept, Awaited,
                    StopSweep, NoRow
<1>8. OwedIsResumed'
  <2> SUFFICES ASSUME owed', ~overlapped, row' = NoRow
               PROVE  \E id \in Ids : Awaited(id)'
    BY <1>1 DEF OwedIsResumed
  <2>1. \A id \in Ids : Awaited(id)' <=> Awaited(id)
    BY <1>1 DEF Awaited
  <2>2. CASE row = NoRow
    BY <2>1, <2>2, <1>1 DEF HoursInv, OwedIsResumed
  <2>3. CASE row # NoRow
    <3>1. row.id \in Ids
      BY <2>3 DEF HoursInv, HoursTypeOK, NoRowIsNone, Rows
    <3>2. Stands(s)
      BY <2>3, <1>2
    <3>3. sweep_at[s] = "enqueued"
      BY <3>2 DEF Drop, DeleteRow
    <3>4. Awaited(row.id)
      BY <2>3, <3>2, <3>3, <1>1 DEF HoursInv, OwedIsSwept, Stands
    <3> QED BY <3>1, <3>4, <2>1
  <2> QED BY <2>2, <2>3
<1> QED BY <1>3, <1>4, <1>5, <1>6, <1>7, <1>8 DEF HoursInv

\* The resumed run sends its message, or the hours have ended and it queues it again.
LEMMA HoursResume ==
  ASSUME HoursInv, NEW id \in Ids, NEW anchor \in Anchors, Resume(id, anchor)
  PROVE  HoursInv'
<1> USE HoursQueueAssumption DEF sweeps, KeyOf
<1>1. /\ UNCHANGED <<instant, open, last_inbound, claimed_by, sweep_at, sweep_row, lapsed>>
      /\ <<id, anchor>> \in resumes
      /\ resumes' = resumes \ {<<id, anchor>>}
  BY DEF Resume
<1>2. \A i \in Ids : Resumed(i)' => Resumed(i)
  BY <1>1 DEF Resumed
<1>3. Resumed(id) /\ id < next_id
  BY <1>1 DEF Resumed, HoursInv, FreshIds
<1>4. CASE id \in taken \/ EpisodeEnded(anchor)
  <2>1. UNCHANGED <<row, next_id, taken, sent_for, owed, overlapped>>
    BY <1>4 DEF Resume
  <2>2. \A i \in Ids : Awaited(i) => Awaited(i)'
    BY <1>1, <1>4, <2>1 DEF Awaited, EpisodeEnded, HoursInv, HoursTypeOK, Anchors
  <2>3. row # NoRow => row.id \in Ids
    BY DEF HoursInv, HoursTypeOK, NoRowIsNone, Rows
  <2>4. HoursTypeOK' /\ FreshIds' /\ NoRowIsNone' /\ last_inbound' <= instant'
    BY <1>1, <1>2, <2>1 DEF HoursInv, HoursTypeOK, FreshIds, NoRowIsNone
  <2>5. DeletedAfterResume' /\ KeptOnce'
    BY <1>1, <1>2, <2>1 DEF HoursInv, DeletedAfterResume, KeptOnce, Gone, Swept
  <2>6. OwedHasAnchor' /\ OwedIsSwept' /\ OwedIsResumed'
    BY <1>1, <2>1, <2>2, <2>3 DEF HoursInv, OwedHasAnchor, OwedIsSwept, OwedIsResumed
  <2> QED BY <2>4, <2>5, <2>6 DEF HoursInv
<1>5. CASE id \notin taken /\ ~EpisodeEnded(anchor)
  <2>1. /\ taken' = taken \union {id}
        /\ IF open
           THEN /\ sent_for' = [sent_for EXCEPT ![id] = @ + 1]
                /\ owed' = FALSE
                /\ UNCHANGED <<row, next_id, overlapped>>
           ELSE /\ Upsert(anchor, taken')
                /\ UNCHANGED <<sent_for, owed>>
    BY <1>5 DEF Resume
  <2>2. anchor >= last_inbound
    BY <1>5 DEF EpisodeEnded, HoursInv, HoursTypeOK, Anchors
  <2>3. CASE open
    <3>1. HoursTypeOK'
      <4>1. sent_for' \in [Ids -> Nat] /\ taken' \in SUBSET Ids
        BY <2>1, <2>3 DEF HoursInv, HoursTypeOK
      <4>2. UNCHANGED <<row, next_id, overlapped>> /\ owed' \in BOOLEAN
        BY <2>1, <2>3
      <4> QED BY <1>1, <4>1, <4>2 DEF HoursInv, HoursTypeOK
    <3>2. FreshIds' /\ NoRowIsNone' /\ last_inbound' <= instant'
      BY <1>1, <1>2, <1>3, <2>1, <2>3 DEF HoursInv, HoursTypeOK, FreshIds, NoRowIsNone
    <3>3. DeletedAfterResume'
      BY <1>1, <1>2, <1>3, <2>1, <2>3 DEF HoursInv, HoursTypeOK, DeletedAfterResume
    <3>4. KeptOnce'
      BY <1>1, <1>2, <1>3, <1>5, <2>1, <2>3 DEF HoursInv, HoursTypeOK, KeptOnce, Gone, Swept
    <3>5. OwedHasAnchor' /\ OwedIsSwept' /\ OwedIsResumed'
      BY <2>1, <2>3 DEF OwedHasAnchor, OwedIsSwept, OwedIsResumed
    <3> QED BY <3>1, <3>2, <3>3, <3>4, <3>5 DEF HoursInv
  <2>4. CASE ~open
    <3>1. /\ row' \in Rows /\ row'.id \in Ids /\ row'.anchor = anchor
          /\ next_id' \in Ids \union {MaxRows + 1}
          /\ overlapped' \in BOOLEAN
          /\ \/ row = NoRow /\ row'.id = next_id /\ next_id' = next_id + 1
             \/ row # NoRow /\ row'.id = row.id /\ next_id' = next_id
                /\ overlapped' = (overlapped \/ InSweep(taken'))
      BY <2>1, <2>4, UpsertWrites
    <3>2. UNCHANGED <<sent_for, owed>>
      BY <2>1, <2>4
    <3>3. HoursTypeOK'
      BY <1>1, <2>1, <3>1, <3>2 DEF HoursInv, HoursTypeOK
    <3>4. FreshIds' /\ NoRowIsNone' /\ last_inbound' <= instant'
      BY <1>1, <1>2, <1>3, <2>1, <3>1, <3>2
      DEF HoursInv, HoursTypeOK, FreshIds, NoRowIsNone, Ids, Rows, NoRow
    <3>5. DeletedAfterResume'
      BY <1>1, <1>2, <1>3, <2>1, <3>1 DEF HoursInv, HoursTypeOK, FreshIds, DeletedAfterResume, Ids
    <3>6. KeptOnce'
      BY <1>1, <1>2, <1>3, <2>1, <3>1, <3>2
      DEF HoursInv, HoursTypeOK, FreshIds, KeptOnce, Gone, Swept, Ids
    <3>7. OwedHasAnchor' /\ OwedIsResumed'
      BY <1>1, <2>2, <3>1 DEF OwedHasAnchor, OwedIsResumed, Ids, NoRow
    <3>8. OwedIsSwept'
      BY <1>1, <1>3, <2>1, <3>1, <3>2 DEF HoursInv, HoursTypeOK, FreshIds, OwedIsSwept, InSweep, Ids
    <3> QED BY <3>3, <3>4, <3>5, <3>6, <3>7, <3>8 DEF HoursInv
  <2> QED BY <2>3, <2>4
<1> QED BY <1>4, <1>5

\* The resumed run fails, or its key runs out when nothing of the row is in hand.
LEMMA HoursLapse ==
  ASSUME HoursInv, NEW id \in Ids,
         KeyRunsOut(id) \/ \E anchor \in Anchors : ResumeFails(id, anchor)
  PROVE  HoursInv'
<1> USE HoursQueueAssumption DEF sweeps
<1>1. /\ UNCHANGED <<instant, open, last_inbound, row, claimed_by, next_id, sweep_at, sweep_row,
                     sent_for, overlapped>>
      /\ lapsed < MaxLapses /\ lapsed' = lapsed + 1 /\ lapsed \in Nat
      /\ resumes' \subseteq resumes /\ taken' \subseteq taken /\ owed' \in BOOLEAN
  <2>1. CASE KeyRunsOut(id)
    BY <2>1 DEF HoursInv, HoursTypeOK, KeyRunsOut
  <2>2. CASE \E anchor \in Anchors : ResumeFails(id, anchor)
    <3>1. owed' \in BOOLEAN
      BY <2>2 DEF ResumeFails
    <3> QED BY <2>2, <3>1 DEF HoursInv, HoursTypeOK, ResumeFails
  <2> QED BY <2>1, <2>2
<1>2. \A i \in Ids : Resumed(i)' => Resumed(i)
  BY <1>1 DEF Resumed
<1>3. HoursTypeOK'
  BY <1>1 DEF HoursInv, HoursTypeOK
<1>4. FreshIds' /\ NoRowIsNone' /\ last_inbound' <= instant'
  BY <1>1, <1>2 DEF HoursInv, HoursTypeOK, FreshIds, NoRowIsNone
<1>5. DeletedAfterResume'
  BY <1>1 DEF DeletedAfterResume
<1>6. KeptOnce'
  <2>1. CASE KeyRunsOut(id)
    <3>1. id \in taken /\ ~Swept(id) /\ ~Resumed(id) /\ taken' = taken \ {id} /\ UNCHANGED resumes
      BY <2>1 DEF KeyRunsOut, Swept, Resumed
    <3>2. lapsed > 0 \/ row.id # id
      BY <3>1 DEF HoursInv, DeletedAfterResume, Swept
    <3> QED BY <1>1, <1>2, <3>1, <3>2 DEF HoursInv, HoursTypeOK, KeptOnce, Gone, Swept, Resumed
  <2>2. CASE taken' = taken
    BY <1>1, <1>2, <2>2 DEF HoursInv, HoursTypeOK, KeptOnce, Gone, Swept
  <2> QED BY <2>1, <2>2 DEF ResumeFails
<1>7. OwedHasAnchor' /\ OwedIsSwept' /\ OwedIsResumed'
  <2>1. CASE ~owed'
    BY <2>1 DEF OwedHasAnchor, OwedIsSwept, OwedIsResumed
  <2>2. CASE KeyRunsOut(id)
    <3>1. \A i \in Ids : Awaited(i) => Awaited(i)'
      BY <2>2 DEF KeyRunsOut, Awaited
    <3>2. row # NoRow => row.id \in Ids
      BY DEF HoursInv, HoursTypeOK, NoRowIsNone, Rows
    <3> QED BY <1>1, <2>2, <3>1, <3>2 DEF HoursInv, OwedHasAnchor, OwedIsSwept, OwedIsResumed,
                                         KeyRunsOut
  <2> QED BY <2>1, <2>2 DEF ResumeFails
<1> QED BY <1>3, <1>4, <1>5, <1>6, <1>7 DEF HoursInv

LEMMA HoursInvStep == HoursInv /\ [HoursNext]_hoursVars => HoursInv'
<1> SUFFICES ASSUME HoursInv, [HoursNext]_hoursVars PROVE HoursInv'
  OBVIOUS
<1>1. CASE UNCHANGED hoursVars
  BY <1>1 DEF HoursInv, HoursTypeOK, FreshIds, NoRowIsNone, DeletedAfterResume, KeptOnce, Gone,
              Swept, Resumed, OwedHasAnchor, OwedIsSwept, OwedIsResumed, Awaited, hoursVars, sweeps
<1> QED BY <1>1, HoursAround, HoursEpisode, HoursScan, HoursClaim, HoursSweepFails, HoursDelete,
           HoursResume, HoursLapse DEF HoursNext

\* The queue of the closed hours neither loses a message that is owed nor repeats
\* one, however its sweeps overlap, fail and start again (hours_queue.py,
\* flush_automation_hours_queue): the claim in the row, the key of the resumed run
\* and the anchor that each carries are enough.
THEOREM HoursCorrect == HoursSpec => []HoursSafe
<1>1. HoursInv => OneMessagePerRow
  BY DEF HoursInv, KeptOnce, OneMessagePerRow
<1>2. HoursInv => OwedIsKept
  BY DEF HoursInv, OwedHasAnchor, OwedIsResumed, Awaited, OwedIsKept
<1>3. HoursInv => HoursSafe
  BY <1>1, <1>2 DEF HoursInv, HoursSafe
<1> QED BY HoursInitInv, HoursInvStep, <1>3, PTL DEF HoursSpec

=============================================================================
