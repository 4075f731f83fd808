------------------------------- MODULE Dispatch -------------------------------
(***************************************************************************)
(* The dispatcher of the automation engine, for one automation.  A cron    *)
(* tails analytics_events behind a cursor kept in Redis and enqueues an    *)
(* automation_run per event (AutomationRun takes them from there).         *)
(*                                                                         *)
(* occurred_at is the START of the emitting transaction, so an event may   *)
(* become visible behind the cursor: every dispatch reads again what lies  *)
(* up to Lookback behind it.  Dispatches overlap, for any time.  An event  *)
(* that the automation does not match is gone over in the same way and     *)
(* gets no job: it counts as enqueued when it has been gone over.          *)
(***************************************************************************)
EXTENDS Integers, FiniteSets

CONSTANTS Events,           \* events of the automation's trigger
          Dispatchers,      \* dispatches that may overlap
          Lookback,         \* _DISPATCH_LOOKBACK_S
          Limit,            \* _DISPATCH_LIMIT
          CommitDelay,      \* bound: how long an emitting transaction lasts
          MaxMinute,        \* bound: the instants of the model
          MaxCutOff         \* bound: dispatches cut short

ASSUME DispatchAssumption ==
  /\ {Lookback, Limit, MaxMinute} \subseteq Nat \ {0}
  /\ {CommitDelay, MaxCutOff} \subseteq Nat
  /\ CommitDelay < Lookback

Minutes == 0..MaxMinute

VARIABLES
  minute,
  \* analytics_events
  occurred,    \* occurred_at, 0 before the emitting transaction
  visible,     \* events whose transaction has committed
  \* Redis
  cursor,      \* automation:dispatch:cursor, 0 for none
  \* the dispatches
  dpc,
  dfrom,       \* the cursor it read, and then the one it writes
  batch,       \* the events it selected
  cut_off,
  \* history
  born,        \* when the cursor was first set
  enqueued     \* events whose job is out

events == <<occurred, visible>>
dispatches == <<dpc, dfrom, batch>>
dispatchVars == <<minute, events, cursor, dispatches, cut_off, born, enqueued>>

DispatchTypeOK ==
  /\ minute \in Minutes
  /\ occurred \in [Events -> Minutes]
  /\ visible \in SUBSET Events
  /\ cursor \in Minutes
  /\ dpc \in [Dispatchers -> {"idle", "scanning", "fanning", "closing"}]
  /\ dfrom \in [Dispatchers -> Minutes]
  /\ batch \in [Dispatchers -> SUBSET Events]
  /\ cut_off \in 0..MaxCutOff
  /\ born \in Minutes
  /\ enqueued \in SUBSET Events

DispatchInit ==
  /\ minute = 1
  /\ occurred = [e \in Events |-> 0]
  /\ visible = {}
  /\ cursor = 0
  /\ dpc = [d \in Dispatchers |-> "idle"]
  /\ dfrom = [d \in Dispatchers |-> 0]
  /\ batch = [d \in Dispatchers |-> {}]
  /\ cut_off = 0
  /\ born = 0
  /\ enqueued = {}

-----------------------------------------------------------------------------
(* The emitters. *)

\* A transaction that will emit begins: now() is fixed.
BeginEvent(e) ==
  /\ occurred[e] = 0
  /\ occurred' = [occurred EXCEPT ![e] = minute]
  /\ UNCHANGED <<minute, visible, cursor, dispatches, cut_off, born, enqueued>>

CommitEvent(e) ==
  /\ occurred[e] # 0
  /\ e \notin visible
  /\ visible' = visible \union {e}
  /\ UNCHANGED <<minute, occurred, cursor, dispatches, cut_off, born, enqueued>>

-----------------------------------------------------------------------------
(* A dispatch. *)

\* The cursor is read; without one, the first dispatch ever sets it to now.
ReadCursor(d) ==
  /\ dpc[d] = "idle"
  /\ dpc' = [dpc EXCEPT ![d] = IF cursor = 0 THEN "closing" ELSE "scanning"]
  /\ dfrom' = [dfrom EXCEPT ![d] = IF cursor = 0 THEN minute ELSE cursor]
  /\ born' = IF cursor = 0 THEN minute ELSE born
  /\ UNCHANGED <<minute, events, cursor, batch, cut_off, enqueued>>

\* Mutant: a strict scan from the cursor.
InViewStrict(c) == {e \in visible : occurred[e] > c}

\* The WHERE of the scan.
InView(c) == {e \in visible : occurred[e] > c - Lookback}

\* ORDER BY occurred_at LIMIT: events of one instant come in any order.
Earliest(S, T) ==
  /\ T \subseteq S
  /\ IF Cardinality(S) <= Limit THEN T = S ELSE Cardinality(T) = Limit
  /\ \A e \in T, f \in S \ T : occurred[e] <= occurred[f]

\* Mutant: the cursor is put past the last event.
LastSeenPast(c, T) ==
  1 + CHOOSE t \in {c} \union {occurred[e] : e \in T} :
        \A u \in {c} \union {occurred[e] : e \in T} : u <= t

\* max_ts.
LastSeen(c, T) ==
  CHOOSE t \in {c} \union {occurred[e] : e \in T} :
    \A u \in {c} \union {occurred[e] : e \in T} : u <= t

Select(d) ==
  /\ dpc[d] = "scanning"
  /\ \E T \in SUBSET Events :
       /\ Earliest(InView(dfrom[d]), T)
       /\ batch' = [batch EXCEPT ![d] = T]
       /\ dfrom' = [dfrom EXCEPT ![d] = LastSeen(@, T)]
  /\ dpc' = [dpc EXCEPT ![d] = "fanning"]
  /\ UNCHANGED <<minute, events, cursor, cut_off, born, enqueued>>

\* One job per event and matching automation; its id is new every time.
Fan(d) ==
  /\ dpc[d] = "fanning"
  /\ enqueued' = enqueued \union batch[d]
  /\ dpc' = [dpc EXCEPT ![d] = "closing"]
  /\ batch' = [batch EXCEPT ![d] = {}]
  /\ UNCHANGED <<minute, events, cursor, dfrom, cut_off, born>>

\* The write of the cursor, whatever it is by now.
SetCursor(d) ==
  /\ dpc[d] = "closing"
  /\ cursor' = dfrom[d]
  /\ dpc' = [dpc EXCEPT ![d] = "idle"]
  /\ dfrom' = [dfrom EXCEPT ![d] = 0]
  /\ UNCHANGED <<minute, events, batch, cut_off, born, enqueued>>

\* Mutant: the cursor is moved before the jobs are out, and stays moved.
CursorAfterFailureMoved(d) == dfrom[d]

\* The cursor is written last: a dispatch that fails leaves it.
CursorAfterFailure(d) == cursor

\* A call raises or the cron is cut off: the jobs of the first events are out.
DispatchFails(d) ==
  /\ dpc[d] # "idle"
  /\ cut_off < MaxCutOff
  /\ cut_off' = cut_off + 1
  /\ \E T \in SUBSET batch[d] :
       /\ \A e \in T, f \in batch[d] \ T : occurred[e] <= occurred[f]
       /\ enqueued' = enqueued \union T
  /\ cursor' = CursorAfterFailure(d)
  /\ dpc' = [dpc EXCEPT ![d] = "idle"]
  /\ dfrom' = [dfrom EXCEPT ![d] = 0]
  /\ batch' = [batch EXCEPT ![d] = {}]
  /\ UNCHANGED <<minute, events, born>>

-----------------------------------------------------------------------------

\* The bound on the emitting transactions holds at minute + 1.
Tick ==
  /\ minute < MaxMinute
  /\ \A e \in Events \ visible : occurred[e] # 0 => minute + 1 <= occurred[e] + CommitDelay
  /\ minute' = minute + 1
  /\ UNCHANGED <<events, cursor, dispatches, cut_off, born, enqueued>>

DispatchNext ==
  \/ Tick
  \/ \E e \in Events : BeginEvent(e) \/ CommitEvent(e)
  \/ \E d \in Dispatchers :
       ReadCursor(d) \/ Select(d) \/ Fan(d) \/ SetCursor(d) \/ DispatchFails(d)

DispatchSpec == DispatchInit /\ [][DispatchNext]_dispatchVars

\* The cron ticks; a dispatch that is not cut short goes on to its end.
DispatchStep(d) == ReadCursor(d) \/ Select(d) \/ Fan(d) \/ SetCursor(d)
DispatchFairness == \A d \in Dispatchers : WF_dispatchVars(DispatchStep(d))

DispatchFairSpec == DispatchSpec /\ DispatchFairness

-----------------------------------------------------------------------------
(* Properties. *)

\* What the lookback is for: an event that no dispatch has gone over is still in
\* view, however late its transaction committed and whatever cursor an overlapping
\* or failed dispatch leaves behind.
NoneBehindCursor ==
  cursor # 0 =>
    \A e \in Events \ enqueued :
      occurred[e] > born => occurred[e] > cursor - Lookback

\* No cursor passes an event by.
DispatchSafe == DispatchTypeOK /\ NoneBehindCursor

\* Every event of an enabled automation gets its job.
EventuallyEnqueued ==
  \A e \in Events :
    (e \in visible /\ cursor # 0 /\ occurred[e] > born)
      ~> (e \in enqueued)

=============================================================================
