------------------------------- MODULE Debounce -------------------------------
(***************************************************************************)
(* The debounce of one peer: messages that arrive in a burst are buffered  *)
(* in Redis and answered by one reply, once the peer has been quiet for a  *)
(* window.  Every message defers a flush job of its own, under an id made  *)
(* of the deadline it sets: ARQ refuses an id it has seen before.          *)
(*                                                                         *)
(* An entry of the buffer is <<m, n>>, the n-th time that the job of       *)
(* message m pushed it.  The order of the fragments is not told apart.     *)
(***************************************************************************)
EXTENDS Integers, FiniteSets

CONSTANTS Messages,      \* inbound messages of the peer, one ARQ job each
          Window,        \* delivery.debounce_window_s, when it is on
          Grace,         \* what the keys live beyond the window
          MaxLate,       \* bound: how late ARQ starts a deferred job
          MaxTime,       \* bound: the instants of the model
          MaxShutdowns,  \* bound: worker shutdowns that interrupt a job
          Faults         \* which jobs a shutdown may hit

ASSUME DebounceAssumption ==
  /\ Window \in Nat \ {0}
  /\ Grace \in Nat \ {0}
  /\ MaxLate \in Nat
  /\ MaxTime \in Nat
  /\ MaxShutdowns \in Nat
  /\ Faults \subseteq {"inbound", "flush"}

Times == 0..MaxTime

VARIABLES
  now,
  \* Redis
  buf,        \* debounce:wa:buf, a set of entries
  due,        \* debounce:wa:due, 0 when the key is gone
  expires,    \* when both keys are dropped
  \* ARQ
  queued,     \* deferred flush jobs, per start time
  issued,     \* deadlines whose job id ARQ has seen
  \* local state of the jobs
  pc,         \* of the inbound job of each message
  attempt,    \* how often that job pushed the message
  draining,   \* flush jobs between the deadline check and the drain
  replying,   \* batches drained and not yet answered
  answered,   \* replies that covered the message
  shutdowns

inbound == <<pc, attempt>>
vars == <<now, buf, due, expires, queued, issued, inbound, draining, replying, answered,
          shutdowns>>

Entries == Messages \X Nat

TypeOK ==
  /\ now \in Times
  /\ buf \in SUBSET Entries
  /\ due \in Times
  /\ expires \in Nat
  /\ queued \in [Times -> Nat]
  /\ issued \in SUBSET Times
  /\ pc \in [Messages -> {"new", "pushed", "done"}]
  /\ attempt \in [Messages -> Nat]
  /\ draining \in Nat
  /\ replying \in SUBSET SUBSET Entries
  /\ answered \in [Messages -> Nat]
  /\ shutdowns \in Nat

Init ==
  /\ now = 0
  /\ buf = {}
  /\ due = 0
  /\ expires = 0
  /\ queued = [d \in Times |-> 0]
  /\ issued = {}
  /\ pc = [m \in Messages |-> "new"]
  /\ attempt = [m \in Messages |-> 0]
  /\ draining = 0
  /\ replying = {}
  /\ answered = [m \in Messages |-> 0]
  /\ shutdowns = 0

-----------------------------------------------------------------------------
(* The inbound job. *)

\* Mutant: the keys live only as long as the window.
PushShortLived(m) ==
  /\ pc[m] = "new"
  /\ now + Window <= MaxTime
  /\ pc' = [pc EXCEPT ![m] = "pushed"]
  /\ attempt' = [attempt EXCEPT ![m] = @ + 1]
  /\ buf' = buf \union {<<m, attempt[m] + 1>>}
  /\ due' = now + Window
  /\ expires' = now + Window
  /\ UNCHANGED <<now, queued, issued, draining, replying, answered, shutdowns>>

\* One MULTI: the entry, the new deadline, the life of both keys.
Push(m) ==
  /\ pc[m] = "new"
  /\ now + Window <= MaxTime
  /\ pc' = [pc EXCEPT ![m] = "pushed"]
  /\ attempt' = [attempt EXCEPT ![m] = @ + 1]
  /\ buf' = buf \union {<<m, attempt[m] + 1>>}
  /\ due' = now + Window
  /\ expires' = now + Window + Grace
  /\ UNCHANGED <<now, queued, issued, draining, replying, answered, shutdowns>>

\* Mutant: one id per peer, so that ARQ refuses every job but the first.
RefusedPerPeer(d) == issued # {}

\* ARQ knows the id of a job for the deadline d.
Refused(d) == d \in issued

\* The deferred flush of this message.
Enqueue(m) ==
  /\ pc[m] = "pushed"
  /\ pc' = [pc EXCEPT ![m] = "done"]
  /\ IF Refused(now + Window)
     THEN UNCHANGED <<queued, issued>>
     ELSE /\ issued' = issued \union {now + Window}
          /\ queued' = [queued EXCEPT ![now + Window] = @ + 1]
  /\ UNCHANGED <<now, buf, due, expires, attempt, draining, replying, answered, shutdowns>>

\* A shutdown between the two: ARQ runs the job again, and it pushes again.
InboundShutdown(m) ==
  /\ "inbound" \in Faults
  /\ shutdowns < MaxShutdowns
  /\ shutdowns' = shutdowns + 1
  /\ pc[m] = "pushed"
  /\ pc' = [pc EXCEPT ![m] = "new"]
  /\ UNCHANGED <<now, buf, due, expires, queued, issued, attempt, draining, replying,
                 answered>>

-----------------------------------------------------------------------------
(* The flush job. *)

\* A newer message moved the deadline: wait for it, under an id never used.
StepAside(d) ==
  /\ due > now
  /\ queued' = [queued EXCEPT ![d] = @ - 1, ![due] = @ + 1]
  /\ UNCHANGED draining

\* The deadline has passed, or its key is gone.
GoAhead(d) ==
  /\ due <= now
  /\ queued' = [queued EXCEPT ![d] = @ - 1]
  /\ draining' = draining + 1

\* Mutant: ARQ starts a job twice, from two workers.
FlushCheckTwice(d) ==
  /\ d <= now
  /\ d \in issued
  /\ StepAside(d) \/ GoAhead(d)
  /\ UNCHANGED <<now, buf, due, expires, issued, inbound, replying, answered, shutdowns>>

FlushCheck(d) ==
  /\ d <= now
  /\ queued[d] > 0
  /\ StepAside(d) \/ GoAhead(d)
  /\ UNCHANGED <<now, buf, due, expires, issued, inbound, replying, answered, shutdowns>>

\* Mutant: the buffer is read and left where it is.
TakeWithoutDelete ==
  /\ replying' = replying \union {buf}
  /\ UNCHANGED <<buf, due>>

\* LRANGE and DEL of both keys in one MULTI.
Take ==
  /\ replying' = IF buf = {} THEN replying ELSE replying \union {buf}
  /\ buf' = {}
  /\ due' = 0

FlushDrain ==
  /\ draining > 0
  /\ draining' = draining - 1
  /\ Take
  /\ UNCHANGED <<now, expires, queued, issued, inbound, answered, shutdowns>>

\* generate_and_send_reply over the joined texts.
Reply(batch) ==
  /\ batch \in replying
  /\ replying' = replying \ {batch}
  /\ answered' = [m \in Messages |->
                    IF \E e \in batch : e[1] = m THEN answered[m] + 1 ELSE answered[m]]
  /\ UNCHANGED <<now, buf, due, expires, queued, issued, inbound, draining, shutdowns>>

\* A shutdown before the drain: the job starts over.  After it: the job that
\* ARQ runs again finds no buffer, and the batch is gone.
FlushShutdown ==
  /\ "flush" \in Faults
  /\ shutdowns < MaxShutdowns
  /\ shutdowns' = shutdowns + 1
  /\ \/ /\ draining > 0
        /\ draining' = draining - 1
        /\ UNCHANGED replying
     \/ /\ \E batch \in replying : replying' = replying \ {batch}
        /\ UNCHANGED draining
  /\ queued' = [queued EXCEPT ![now] = @ + 1]
  /\ UNCHANGED <<now, buf, due, expires, issued, inbound, answered>>

-----------------------------------------------------------------------------
\* Time passes when no job owes a step at this instant; Redis drops old keys.
Tick ==
  /\ now < MaxTime
  /\ draining = 0
  /\ \A m \in Messages : pc[m] # "pushed"
  /\ \A d \in Times : queued[d] > 0 => now + 1 <= d + MaxLate
  /\ now' = now + 1
  /\ IF now + 1 < expires
     THEN UNCHANGED <<buf, due>>
     ELSE buf' = {} /\ due' = 0
  /\ UNCHANGED <<expires, queued, issued, inbound, draining, replying, answered, shutdowns>>

Next ==
  \/ \E m \in Messages : Push(m) \/ Enqueue(m) \/ InboundShutdown(m)
  \/ \E d \in Times : FlushCheck(d)
  \/ FlushDrain
  \/ \E batch \in replying : Reply(batch)
  \/ FlushShutdown
  \/ Tick

Spec == Init /\ [][Next]_vars

\* Jobs that have started go on, ARQ starts the deferred ones, time passes.
FairSpec ==
  /\ Spec
  /\ \A m \in Messages : WF_vars(Enqueue(m))
  /\ WF_vars(\E d \in Times : FlushCheck(d))
  /\ WF_vars(FlushDrain)
  /\ WF_vars(\E batch \in replying : Reply(batch))
  /\ WF_vars(Tick)

-----------------------------------------------------------------------------
(* Properties. *)

\* What is buffered has a job that is going to drain it, although ARQ refuses
\* repeated ids and early jobs step aside: a flush in progress or deferred, the
\* message's own job about to defer one, or that job about to run again.
NothingStranded ==
  buf # {} =>
    \/ draining > 0
    \/ \E d \in Times : queued[d] > 0
    \/ \E m \in Messages : pc[m] = "pushed"
    \/ \E m \in Messages : pc[m] = "new" /\ attempt[m] > 0

\* A message is answered no more often than its job pushed it, whichever of the
\* flush jobs of the burst run at the same time.
NoDoubleReply == \A m \in Messages : answered[m] <= attempt[m]

\* Until a worker shuts down, the buffer is only ever emptied into a reply: a job
\* that is late by less than the grace period comes before Redis drops the keys.
BufferOutlivesJobs ==
  [][buf # {} /\ buf' = {} /\ shutdowns = 0 => replying' = replying \union {buf}]_vars

\* Every message that was buffered is answered, unless a worker shuts down.
EventuallyAnswered ==
  \A m \in Messages : (pc[m] = "pushed") ~> (answered[m] > 0 \/ shutdowns > 0)

=============================================================================
