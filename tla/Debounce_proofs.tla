---------------------------- MODULE Debounce_proofs ----------------------------
(***************************************************************************)
(* What is buffered always has a job that will drain it, for every number  *)
(* of messages, window, grace period, lateness and number of shutdowns.    *)
(***************************************************************************)
EXTENDS Debounce, FiniteSetTheorems, TLAPS

\* A job about to defer its flush has pushed, and the deadline is an instant of
\* the model.
PushedInTime ==
  \A m \in Messages : pc[m] = "pushed" => attempt[m] > 0 /\ now + Window \in Times

\* A deadline in the future whose job id is taken still has that job deferred:
\* it is why a refused id does no harm.
TakenIsDeferred == \A d \in issued : d > now => queued[d] > 0

TypeInv == TypeOK /\ PushedInTime
DrainInv == TakenIsDeferred /\ NothingStranded

LEMMA DebounceInit == Init => TypeInv /\ DrainInv
BY DebounceAssumption
DEF Init, TypeInv, DrainInv, TypeOK, PushedInTime, TakenIsDeferred, NothingStranded, Times,
    Entries

\* The types are inductive.
LEMMA TypeStep ==
  ASSUME TypeInv, [Next]_vars
  PROVE  TypeInv'
<1> USE DebounceAssumption DEF TypeInv, TypeOK, PushedInTime, Times, inbound
<1>1. ASSUME NEW m \in Messages, Push(m) PROVE TypeInv'
  <2>1. <<m, attempt[m] + 1>> \in Entries
    BY DEF Entries
  <2>2. now + Window \in Times
    BY <1>1 DEF Push
  <2>3. buf' \in SUBSET Entries
    BY <1>1, <2>1 DEF Push
  <2>6. due' \in Times /\ expires' \in Nat
    BY <1>1, <2>2 DEF Push
  <2>4. /\ pc' \in [Messages -> {"new", "pushed", "done"}]
        /\ attempt' \in [Messages -> Nat]
    BY <1>1 DEF Push
  <2>5. PushedInTime'
    BY <1>1, <2>2 DEF Push
  <2> QED BY <1>1, <2>3, <2>6, <2>4, <2>5 DEF Push
<1>2. ASSUME NEW m \in Messages, Enqueue(m) PROVE TypeInv'
  <2>1. now + Window \in Times
    BY <1>2 DEF Enqueue
  <2>2. CASE Refused(now + Window)
    BY <1>2, <2>2 DEF Enqueue
  <2>3. CASE ~Refused(now + Window)
    <3>1. queued' = [queued EXCEPT ![now + Window] = @ + 1]
      BY <1>2, <2>3 DEF Enqueue
    <3>2. queued' \in [Times -> Nat]
      BY <2>1, <3>1
    <3> QED BY <1>2, <2>1, <2>3, <3>2 DEF Enqueue
  <2> QED BY <2>2, <2>3
<1>3. ASSUME NEW m \in Messages, InboundShutdown(m) PROVE TypeInv'
  BY <1>3 DEF InboundShutdown
<1>4. ASSUME NEW d \in Times, FlushCheck(d) PROVE TypeInv'
  <2>1. CASE StepAside(d)
    <3>1. due # d
      BY <1>4, <2>1 DEF FlushCheck, StepAside
    <3>2. queued' = [e \in Times |-> IF e = due THEN queued[due] + 1
                                    ELSE IF e = d THEN queued[d] - 1 ELSE queued[e]]
      BY <1>4, <2>1, <3>1 DEF FlushCheck, StepAside
    <3>3. queued' \in [Times -> Nat]
      BY <1>4, <3>2 DEF FlushCheck
    <3> QED BY <1>4, <2>1, <3>3 DEF FlushCheck, StepAside
  <2>2. CASE GoAhead(d)
    <3>1. queued' \in [Times -> Nat]
      BY <1>4, <2>2 DEF FlushCheck, GoAhead
    <3> QED BY <1>4, <2>2, <3>1 DEF FlushCheck, GoAhead
  <2> QED BY <1>4, <2>1, <2>2 DEF FlushCheck
<1>5. CASE FlushDrain
  BY <1>5 DEF FlushDrain, Take
<1>6. ASSUME NEW batch \in replying, Reply(batch) PROVE TypeInv'
  <2>1. answered' \in [Messages -> Nat]
    BY <1>6 DEF Reply
  <2> QED BY <1>6, <2>1 DEF Reply
<1>7. CASE FlushShutdown
  <2>1. queued' \in [Times -> Nat]
    BY <1>7 DEF FlushShutdown
  <2>2. draining' \in Nat /\ replying' \in SUBSET SUBSET Entries
    BY <1>7 DEF FlushShutdown
  <2> QED BY <1>7, <2>1, <2>2 DEF FlushShutdown
<1>8. CASE Tick
  BY <1>8 DEF Tick
<1>9. CASE UNCHANGED vars
  BY <1>9 DEF vars
<1> QED BY <1>1, <1>2, <1>3, <1>4, <1>5, <1>6, <1>7, <1>8, <1>9 DEF Next

\* Every step keeps a job for what is buffered.
LEMMA DrainStep ==
  ASSUME TypeInv, DrainInv, [Next]_vars
  PROVE  DrainInv'
<1> USE DebounceAssumption
    DEF TypeInv, DrainInv, TypeOK, Times, TakenIsDeferred, NothingStranded, inbound
<1>1. ASSUME NEW m \in Messages, Push(m) PROVE DrainInv'
  <2>1. pc'[m] = "pushed"
    BY <1>1 DEF Push
  <2> QED BY <1>1, <2>1 DEF Push
<1>2. ASSUME NEW m \in Messages, Enqueue(m) PROVE DrainInv'
  <2>1. now + Window \in Times
    BY <1>2 DEF Enqueue, PushedInTime
  <2>2. queued'[now + Window] > 0
    <3>1. CASE Refused(now + Window)
      <4>1. now + Window > now
        OBVIOUS
      <4> QED BY <1>2, <2>1, <3>1, <4>1 DEF Enqueue, Refused
    <3>2. CASE ~Refused(now + Window)
      BY <1>2, <2>1, <3>2 DEF Enqueue
    <3> QED BY <3>1, <3>2
  <2>3. TakenIsDeferred'
    <3>1. CASE Refused(now + Window)
      BY <1>2, <3>1 DEF Enqueue
    <3>2. CASE ~Refused(now + Window)
      <4>1. /\ issued' = issued \union {now + Window}
            /\ queued' = [queued EXCEPT ![now + Window] = @ + 1]
            /\ now' = now
        BY <1>2, <3>2 DEF Enqueue
      <4>2. \A d \in Times : queued[d] > 0 => queued'[d] > 0
        BY <2>1, <4>1
      <4> QED BY <2>2, <4>1, <4>2
    <3> QED BY <3>1, <3>2
  <2>4. NothingStranded'
    BY <1>2, <2>1, <2>2
  <2> QED BY <2>3, <2>4
<1>3. ASSUME NEW m \in Messages, InboundShutdown(m) PROVE DrainInv'
  <2>1. pc'[m] = "new" /\ attempt'[m] > 0
    BY <1>3 DEF InboundShutdown, PushedInTime
  <2> QED BY <1>3, <2>1 DEF InboundShutdown
<1>4. ASSUME NEW d \in Times, FlushCheck(d) PROVE DrainInv'
  <2>1. CASE StepAside(d)
    <3>1. queued'[due] > 0 /\ due \in Times
      BY <1>4, <2>1 DEF FlushCheck, StepAside
    <3>2. /\ d <= now /\ due > now /\ d # due
          /\ queued' = [queued EXCEPT ![d] = @ - 1, ![due] = @ + 1]
      BY <1>4, <2>1 DEF FlushCheck, StepAside
    <3>3. ASSUME NEW e \in issued, e > now PROVE queued'[e] > 0
      <4>1. e \in Times /\ e # d /\ queued[e] > 0 /\ queued[e] \in Nat
        BY <3>3, <3>2
      <4>2. queued'[e] = IF e = due THEN queued[e] + 1 ELSE queued[e]
        BY <3>2, <4>1
      <4> QED BY <4>1, <4>2
    <3> QED BY <1>4, <2>1, <3>1, <3>3 DEF FlushCheck, StepAside
  <2>2. CASE GoAhead(d)
    <3>1. draining' > 0
      BY <2>2 DEF GoAhead
    <3>2. \A e \in issued : e > now => queued'[e] > 0
      BY <1>4, <2>2 DEF FlushCheck, GoAhead
    <3> QED BY <1>4, <2>2, <3>1, <3>2 DEF FlushCheck, GoAhead
  <2> QED BY <1>4, <2>1, <2>2 DEF FlushCheck
<1>5. CASE FlushDrain
  BY <1>5 DEF FlushDrain, Take
<1>6. ASSUME NEW batch \in replying, Reply(batch) PROVE DrainInv'
  BY <1>6 DEF Reply
<1>7. CASE FlushShutdown
  <2>1. queued'[now] > 0
    BY <1>7 DEF FlushShutdown
  <2>2. \A e \in issued : e > now => queued'[e] > 0
    BY <1>7 DEF FlushShutdown
  <2> QED BY <1>7, <2>1, <2>2 DEF FlushShutdown
<1>8. CASE Tick
  BY <1>8 DEF Tick
<1>9. CASE UNCHANGED vars
  BY <1>9 DEF vars
<1> QED BY <1>1, <1>2, <1>3, <1>4, <1>5, <1>6, <1>7, <1>8, <1>9 DEF Next

LEMMA DebounceCorrect == Spec => [](TypeInv /\ DrainInv)
<1>1. TypeInv /\ DrainInv /\ [Next]_vars => (TypeInv /\ DrainInv)'
  BY TypeStep, DrainStep
<1> QED BY DebounceInit, <1>1, PTL DEF Spec

\* Every variable keeps its type: in particular no flush job is started that was
\* never deferred.
THEOREM TypeCorrect == Spec => []TypeOK
BY DebounceCorrect, PTL DEF TypeInv

\* No buffered message is left without a job to drain it, although ARQ refuses
\* repeated ids, early flushes step aside and jobs are interrupted.
THEOREM BufferCorrect == Spec => []NothingStranded
BY DebounceCorrect, PTL DEF DrainInv

-----------------------------------------------------------------------------
(* Until a worker shuts down, with jobs late by less than the grace period. *)

\* The last push fixed the deadline and the life of the keys.
LifeOfPush ==
  /\ buf # {} => due + Grace = expires
  /\ \A m \in Messages : pc[m] = "pushed" => expires = now + Window + Grace

\* What drains the buffer starts before the keys are dropped.
DrainedInTime ==
  buf # {} =>
    \/ draining > 0
    \/ \E d \in Times : d <= due /\ queued[d] > 0
    \/ \E m \in Messages : pc[m] = "pushed"

LifeInv == shutdowns = 0 => LifeOfPush /\ DrainedInTime

LEMMA LifeStep ==
  ASSUME TypeInv, DrainInv, LifeOfPush, DrainedInTime, [Next]_vars, shutdowns' = 0
  PROVE  LifeOfPush' /\ DrainedInTime'
<1> USE DebounceAssumption
    DEF TypeInv, LifeOfPush, DrainedInTime, TypeOK, Times, inbound
<1>1. ASSUME NEW m \in Messages, Push(m) PROVE LifeOfPush' /\ DrainedInTime'
  <2>1. /\ due' = now + Window
        /\ expires' = now + Window + Grace
        /\ now' = now
        /\ pc'[m] = "pushed"
    BY <1>1 DEF Push
  <2> QED BY <2>1
<1>2. ASSUME NEW m \in Messages, Enqueue(m) PROVE LifeOfPush' /\ DrainedInTime'
  <2>1. UNCHANGED <<now, buf, due, expires>>
    BY <1>2 DEF Enqueue
  <2>2. now + Window \in Times /\ (buf # {} => due = now + Window)
    BY <1>2 DEF Enqueue, PushedInTime
  <2>3. queued'[now + Window] > 0
    BY <1>2, <2>2 DEF Enqueue, Refused, DrainInv, TakenIsDeferred
  <2>4. LifeOfPush'
    BY <1>2, <2>1 DEF Enqueue
  <2>5. DrainedInTime'
    BY <2>1, <2>2, <2>3
  <2> QED BY <2>4, <2>5
<1>3. ASSUME NEW d \in Times, FlushCheck(d) PROVE LifeOfPush' /\ DrainedInTime'
  <2>1. UNCHANGED <<now, buf, due, expires, pc>>
    BY <1>3 DEF FlushCheck
  <2>2. CASE StepAside(d)
    <3>1. queued'[due] > 0
      BY <1>3, <2>2 DEF FlushCheck, StepAside
    <3> QED BY <2>1, <3>1
  <2>3. CASE GoAhead(d)
    <3>1. draining' > 0
      BY <2>3 DEF GoAhead
    <3> QED BY <2>1, <3>1
  <2> QED BY <1>3, <2>2, <2>3 DEF FlushCheck
<1>4. CASE FlushDrain
  BY <1>4 DEF FlushDrain, Take
<1>5. ASSUME NEW batch \in replying, Reply(batch) PROVE LifeOfPush' /\ DrainedInTime'
  BY <1>5 DEF Reply
<1>6. CASE Tick
  <2>1. LifeOfPush'
    BY <1>6 DEF Tick
  <2>2. DrainedInTime'
    BY <1>6 DEF Tick
  <2> QED BY <2>1, <2>2
<1>7. CASE UNCHANGED vars
  BY <1>7 DEF vars
<1>8. ~FlushShutdown /\ \A m \in Messages : ~InboundShutdown(m)
  BY DEF FlushShutdown, InboundShutdown
<1> QED BY <1>1, <1>2, <1>3, <1>4, <1>5, <1>6, <1>7, <1>8 DEF Next

\* ... and so is the whole of it: shutdowns are never taken back.
LEMMA ShutdownsStep ==
  ASSUME TypeInv, [Next]_vars, shutdowns' = 0
  PROVE  shutdowns = 0
BY DEF TypeInv, TypeOK, Next, Push, Enqueue, InboundShutdown, FlushCheck, FlushDrain, Reply,
       FlushShutdown, Tick, vars

\* Time never drops a buffer that is not empty.
LEMMA LifeTick ==
  ASSUME TypeInv, LifeInv, Tick, MaxLate < Grace, shutdowns = 0
  PROVE  buf' = buf
<1> USE DebounceAssumption DEF TypeInv, TypeOK, Times
<1>1. CASE buf = {}
  BY <1>1 DEF Tick
<1>2. CASE buf # {}
  <2>1. PICK d \in Times : d <= due /\ queued[d] > 0
    BY <1>2 DEF Tick, LifeInv, DrainedInTime
  <2>2. now + 1 <= d + MaxLate
    BY <2>1 DEF Tick
  <2>3. due + Grace = expires
    BY <1>2 DEF LifeInv, LifeOfPush
  <2>4. now + 1 < expires
    BY <2>1, <2>2, <2>3
  <2> QED BY <2>4 DEF Tick
<1> QED BY <1>1, <1>2

\* Until a worker shuts down, a buffer that is not empty is only ever emptied into
\* a reply, as long as ARQ starts a deferred job less than the grace period late.
THEOREM LifeCorrect ==
  ASSUME MaxLate < Grace
  PROVE  Spec => BufferOutlivesJobs
<1>1. Init => LifeInv
  BY DEF Init, LifeInv, LifeOfPush, DrainedInTime
<1>2. TypeInv /\ DrainInv /\ LifeInv /\ [Next]_vars => LifeInv'
  BY LifeStep, ShutdownsStep DEF LifeInv
<1>3. TypeInv /\ LifeInv /\ [Next]_vars
        => [buf # {} /\ buf' = {} /\ shutdowns = 0
              => replying' = replying \union {buf}]_vars
  <2> SUFFICES ASSUME TypeInv, LifeInv, [Next]_vars, buf # {}, buf' = {}, shutdowns = 0
               PROVE  replying' = replying \union {buf}
    OBVIOUS
  <2>1. ~Tick
    BY LifeTick
  <2>2. ASSUME NEW m \in Messages, Push(m) PROVE FALSE
    BY <2>2 DEF Push
  <2>3. FlushDrain
    BY <2>1, <2>2
    DEF Next, Enqueue, InboundShutdown, FlushCheck, Reply, FlushShutdown, vars
  <2> QED BY <2>3 DEF FlushDrain, Take
<1> QED BY <1>1, <1>2, <1>3, DebounceCorrect, PTL DEF Spec, BufferOutlivesJobs

-----------------------------------------------------------------------------
(* A message is answered no more often than it was pushed: every entry is  *)
(* in one place, and a reply consumes an entry of each message it covers.  *)

Unanswered == buf \union UNION replying
Copies(m) == {n \in 1..attempt[m] : <<m, n>> \in Unanswered}

\* An entry was pushed, and is either in the buffer or in one batch.
OnePlace ==
  /\ \A m \in Messages, n \in Nat : <<m, n>> \in Unanswered => n \in 1..attempt[m]
  /\ \A batch \in replying : batch \intersect buf = {}
  /\ \A batch, other \in replying : batch # other => batch \intersect other = {}

EntryCount == \A m \in Messages : Cardinality(Copies(m)) + answered[m] <= attempt[m]

ReplyInv == OnePlace /\ EntryCount

LEMMA CopiesFinite ==
  ASSUME TypeOK, NEW m \in Messages
  PROVE  IsFiniteSet(Copies(m)) /\ Cardinality(Copies(m)) \in Nat
<1>1. IsFiniteSet(1..attempt[m])
  BY FS_Interval DEF TypeOK
<1>2. IsFiniteSet(Copies(m))
  BY <1>1, FS_Subset DEF Copies
<1> QED BY <1>2, FS_CardinalityType

\* Entries that leave the buffer or a batch, or move from one to the other.
LEMMA FewerEntries ==
  ASSUME TypeOK, ReplyInv, Unanswered' \subseteq Unanswered, UNCHANGED <<attempt, answered>>
  PROVE  EntryCount' /\ \A m \in Messages, n \in Nat : <<m, n>> \in Unanswered' => n \in 1..attempt'[m]
<1>1. \A m \in Messages : Copies(m)' \subseteq Copies(m)
  BY DEF Copies
<1>2. ASSUME NEW m \in Messages PROVE Cardinality(Copies(m)') + answered'[m] <= attempt'[m]
  <2>1. IsFiniteSet(Copies(m)') /\ Cardinality(Copies(m)') <= Cardinality(Copies(m))
    BY <1>1, CopiesFinite, FS_Subset
  <2>2. Cardinality(Copies(m)') \in Nat
    BY <2>1, FS_CardinalityType
  <2> QED BY <2>1, <2>2, CopiesFinite DEF ReplyInv, EntryCount, TypeOK
<1> QED BY <1>2 DEF EntryCount, ReplyInv, OnePlace

LEMMA ReplyStep ==
  ASSUME TypeInv, ReplyInv, [Next]_vars
  PROVE  ReplyInv'
<1> USE DEF TypeInv, inbound
<1>1. ASSUME NEW m \in Messages, Push(m) PROVE ReplyInv'
  <2> DEFINE k == attempt[m] + 1
  <2>1. /\ attempt' = [attempt EXCEPT ![m] = k] /\ buf' = buf \union {<<m, k>>}
        /\ UNCHANGED <<replying, answered>> /\ k \in Nat /\ k # 0
    BY <1>1 DEF Push, TypeOK
  <2>2. <<m, k>> \notin Unanswered
    BY DEF ReplyInv, OnePlace, TypeOK
  <2>3. OnePlace'
    <3>1. Unanswered' = Unanswered \union {<<m, k>>}
      BY <2>1 DEF Unanswered
    <3>2. \A batch \in replying : <<m, k>> \notin batch
      BY <2>2 DEF Unanswered
    <3>3. \A l \in Messages, n \in Nat : <<l, n>> \in Unanswered' => n \in 1..attempt'[l]
      BY <2>1, <3>1 DEF ReplyInv, OnePlace, TypeOK
    <3> QED BY <2>1, <3>2, <3>3 DEF ReplyInv, OnePlace
  <2>4. ASSUME NEW l \in Messages PROVE Cardinality(Copies(l)') + answered'[l] <= attempt'[l]
    <3>1. CASE l = m
      <4>1. Copies(m)' = Copies(m) \union {k} /\ k \notin Copies(m)
        BY <2>1 DEF Copies, Unanswered, TypeOK
      <4>2. Cardinality(Copies(m) \union {k}) = Cardinality(Copies(m)) + 1
        BY <4>1, CopiesFinite, FS_AddElement
      <4> QED BY <2>1, <3>1, <4>1, <4>2, CopiesFinite DEF ReplyInv, EntryCount, TypeOK
    <3>2. CASE l # m
      <4>1. Copies(l)' = Copies(l) /\ attempt'[l] = attempt[l]
        BY <2>1, <3>2 DEF Copies, Unanswered, TypeOK
      <4> QED BY <2>1, <4>1 DEF ReplyInv, EntryCount
    <3> QED BY <3>1, <3>2
  <2> QED BY <2>3, <2>4 DEF ReplyInv, EntryCount
<1>2. ASSUME NEW batch \in replying, Reply(batch) PROVE ReplyInv'
  <2>1. /\ replying' = replying \ {batch} /\ UNCHANGED <<buf, attempt>>
        /\ answered' = [m \in Messages |->
                         IF \E e \in batch : e[1] = m THEN answered[m] + 1 ELSE answered[m]]
    BY <1>2 DEF Reply
  <2>2. Unanswered' \subseteq Unanswered
    BY <2>1 DEF Unanswered
  <2>3. OnePlace'
    BY <2>1, <2>2 DEF ReplyInv, OnePlace
  <2>4. ASSUME NEW m \in Messages PROVE Cardinality(Copies(m)') + answered'[m] <= attempt'[m]
    <3>1. Copies(m)' \subseteq Copies(m)
      BY <2>1, <2>2 DEF Copies
    <3>2. CASE \E e \in batch : e[1] = m
      <4>1. PICK n \in Nat : <<m, n>> \in batch
        <5>1. PICK e \in batch : e[1] = m
          BY <3>2
        <5>2. e \in Messages \X Nat
          BY DEF TypeOK, Entries
        <5>3. e = <<m, e[2]>> /\ e[2] \in Nat
          BY <5>1, <5>2
        <5>4. <<m, e[2]>> \in batch
          BY <5>3
        <5> QED BY <5>3, <5>4
      <4>2. <<m, n>> \in Unanswered /\ n \in Copies(m)
        BY <4>1 DEF Unanswered, Copies, ReplyInv, OnePlace
      <4>3. <<m, n>> \notin Unanswered'
        BY <2>1, <4>1 DEF Unanswered, ReplyInv, OnePlace
      <4>4. Copies(m)' \subseteq Copies(m) \ {n}
        BY <3>1, <4>3 DEF Copies
      <4>5. IsFiniteSet(Copies(m) \ {n}) /\ Cardinality(Copies(m) \ {n}) = Cardinality(Copies(m)) - 1
        BY <4>2, CopiesFinite, FS_RemoveElement
      <4>6. IsFiniteSet(Copies(m)') /\ Cardinality(Copies(m)') <= Cardinality(Copies(m)) - 1
        BY <4>4, <4>5, FS_Subset
      <4>7. Cardinality(Copies(m)') \in Nat
        BY <4>6, FS_CardinalityType
      <4>8. answered'[m] = answered[m] + 1 /\ attempt'[m] = attempt[m]
        BY <2>1, <3>2
      <4> QED BY <4>6, <4>7, <4>8, CopiesFinite DEF ReplyInv, EntryCount, TypeOK
    <3>3. CASE ~ \E e \in batch : e[1] = m
      <4>1. answered'[m] = answered[m] /\ attempt'[m] = attempt[m]
        BY <2>1, <3>3
      <4>2. IsFiniteSet(Copies(m)') /\ Cardinality(Copies(m)') <= Cardinality(Copies(m))
        BY <3>1, CopiesFinite, FS_Subset
      <4>3. Cardinality(Copies(m)') \in Nat
        BY <4>2, FS_CardinalityType
      <4> QED BY <4>1, <4>2, <4>3, CopiesFinite DEF ReplyInv, EntryCount, TypeOK
    <3> QED BY <3>2, <3>3
  <2> QED BY <2>3, <2>4 DEF ReplyInv, EntryCount
<1>3. CASE FlushDrain
  <2>1. UNCHANGED <<attempt, answered>> /\ buf' = {} /\ replying' \in {replying, replying \union {buf}}
    BY <1>3 DEF FlushDrain, Take
  <2>2. Unanswered' \subseteq Unanswered
    BY <2>1 DEF Unanswered
  <2>3. /\ \A batch \in replying' : batch \intersect buf' = {}
        /\ \A batch, other \in replying' : batch # other => batch \intersect other = {}
    BY <2>1 DEF ReplyInv, OnePlace
  <2> QED BY <2>1, <2>2, <2>3, FewerEntries DEF ReplyInv, OnePlace
<1>4. CASE Tick \/ FlushShutdown
  <2>1. UNCHANGED <<attempt, answered>> /\ buf' \in {{}, buf} /\ replying' \subseteq replying
    BY <1>4 DEF Tick, FlushShutdown
  <2>2. Unanswered' \subseteq Unanswered
    BY <2>1 DEF Unanswered
  <2>3. /\ \A batch \in replying' : batch \intersect buf' = {}
        /\ \A batch, other \in replying' : batch # other => batch \intersect other = {}
    BY <2>1 DEF ReplyInv, OnePlace
  <2> QED BY <2>1, <2>2, <2>3, FewerEntries DEF ReplyInv, OnePlace
<1>5. CASE UNCHANGED <<buf, replying, attempt, answered>>
  BY <1>5 DEF ReplyInv, OnePlace, EntryCount, Copies, Unanswered
<1> QED
  BY <1>1, <1>2, <1>3, <1>4, <1>5 DEF Next, Enqueue, InboundShutdown, FlushCheck, vars

\* No message is answered more often than its job pushed it.
THEOREM ReplyCorrect == Spec => []NoDoubleReply
<1>1. Init => ReplyInv
  <2> SUFFICES ASSUME Init PROVE ReplyInv
    OBVIOUS
  <2>1. Unanswered = {} /\ \A m \in Messages : Copies(m) = {}
    BY DEF Init, Unanswered, Copies
  <2> QED BY <2>1, FS_EmptySet DEF Init, ReplyInv, OnePlace, EntryCount
<1>2. TypeInv /\ ReplyInv /\ [Next]_vars => ReplyInv'
  BY ReplyStep
<1>3. TypeInv /\ ReplyInv => NoDoubleReply
  BY CopiesFinite DEF TypeInv, TypeOK, ReplyInv, EntryCount, NoDoubleReply
<1> QED BY DebounceCorrect, <1>1, <1>2, <1>3, PTL DEF Spec

=============================================================================
