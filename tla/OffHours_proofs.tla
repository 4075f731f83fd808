---------------------------- MODULE OffHours_proofs ----------------------------
(***************************************************************************)
(* The wait of a question, for every number of messages and sweeps.        *)
(***************************************************************************)
EXTENDS OffHours, TLAPS

\* Only a message whose transaction has begun has a timestamp.
Timestamps == \A m \in Messages : created[m] = 0 <=> turn[m] = "new"

\* The marker is the timestamp of a message that is stored.
MarkerOfStored == pending # 0 => \E m \in Messages : Stored(m) /\ created[m] = pending

\* A sweep that is under way has a marker in hand.
CandidateInHand == \A s \in Sweeps : spc[s] # "idle" => cand[s] # 0

\* Whoever holds a claim has seen no human, or the gate will.
HumanSeenAtGate ==
  \A s \in Sweeps : spc[s] = "claimed" => ~HumanReplied(cand[s]) \/ paused \/ ~auto_reply

WaitInv ==
  /\ TypeOK
  /\ Timestamps /\ MarkerOfStored /\ CandidateInHand
  /\ ClaimHasMarker /\ HumanSeenAtGate

Settled(m) == answers[m] > 0 \/ ended[m] # "no"

\* A question whose transaction overlapped nothing is settled, or under the marker:
\* every sweep that is under way started after it, and has it in its batch.
UnderMarker ==
  \A m \in Messages :
    turn[m] = "waiting" /\ m \notin late =>
      \/ Settled(m)
      \/ /\ pending # 0 /\ created[m] >= pending
         /\ \A s \in Sweeps :
              spc[s] # "idle" =>
                /\ spc[s] # "clearing"
                /\ cand[s] <= created[m]
                /\ spc[s] # "scanned" => m \in batch[s]

LEMMA WaitInit == Init => WaitInv
<1> SUFFICES ASSUME Init PROVE WaitInv
  OBVIOUS
<1>1. 0 \in Times
  BY OffHoursAssumption DEF Times
<1>2. TypeOK
  BY <1>1 DEF Init, TypeOK
<1>3. Timestamps /\ MarkerOfStored /\ CandidateInHand /\ ClaimHasMarker /\ HumanSeenAtGate
  BY DEF Init, Timestamps, MarkerOfStored, CandidateInHand, ClaimHasMarker, HumanSeenAtGate
<1> QED BY <1>2, <1>3 DEF WaitInv

-----------------------------------------------------------------------------
(* Messages. *)

LEMMA WaitMessage ==
  ASSUME WaitInv, NEW m \in Messages, Begin(m) \/ Commit(m) \/ Reply(m)
  PROVE  WaitInv'
<1> USE OffHoursAssumption DEF row, time, inbound, sweep, hist
<1>1. UNCHANGED <<auto_reply, paused, resume_claim, human_at, spc, cand, batch, faults>>
  BY DEF Begin, Commit, Reply
<1>2. CandidateInHand' /\ HumanSeenAtGate'
  BY <1>1 DEF WaitInv, CandidateInHand, HumanSeenAtGate, HumanReplied
<1>3. CASE Begin(m)
  <2>1. clock + 1 \in Times /\ clock + 1 # 0
    BY <1>3 DEF Begin, WaitInv, TypeOK, Times
  <2>2. TypeOK'
    BY <1>3, <2>1 DEF Begin, WaitInv, TypeOK
  <2>3. Timestamps'
    BY <1>3, <2>1 DEF Begin, WaitInv, TypeOK, Timestamps
  <2>4. MarkerOfStored' /\ ClaimHasMarker'
    BY <1>3 DEF Begin, WaitInv, TypeOK, MarkerOfStored, ClaimHasMarker, Stored
  <2> QED BY <1>2, <2>2, <2>3, <2>4 DEF WaitInv
<1>4. CASE Commit(m)
  <2>1. created[m] # 0 /\ created[m] \in Times
    BY <1>4 DEF Commit, WaitInv, Timestamps, TypeOK
  <2>2. PICK next \in {"replying", "waiting", "done"} : turn' = [turn EXCEPT ![m] = next]
    BY <1>4 DEF Commit
  <2>3. pending' = pending \/ (pending = 0 /\ pending' = created[m])
    BY <1>4 DEF Commit, MarkPending
  <2>4. age' \in {"hours", "days", "weeks"}
    BY <1>4 DEF Commit, MarkPending, WaitInv, TypeOK
  <2>5. late' \in SUBSET Messages
    BY <1>4 DEF Commit, WaitInv, TypeOK
  <2>6. TypeOK'
    BY <1>4, <2>1, <2>2, <2>3, <2>4, <2>5 DEF Commit, WaitInv, TypeOK
  <2>7. Timestamps'
    BY <1>4, <2>2 DEF Commit, WaitInv, TypeOK, Timestamps
  <2>8. MarkerOfStored'
    BY <1>4, <2>2, <2>3 DEF Commit, WaitInv, TypeOK, MarkerOfStored, Stored
  <2>9. ClaimHasMarker'
    BY <1>1, <2>1, <2>3 DEF WaitInv, ClaimHasMarker
  <2> QED BY <1>2, <2>6, <2>7, <2>8, <2>9 DEF WaitInv
<1>5. CASE Reply(m)
  <2>1. answers' \in [Messages -> Nat]
    BY <1>5 DEF Reply, WaitInv, TypeOK
  <2>2. TypeOK'
    BY <1>5, <2>1 DEF Reply, WaitInv, TypeOK
  <2>3. Timestamps' /\ MarkerOfStored' /\ ClaimHasMarker'
    BY <1>5 DEF Reply, WaitInv, TypeOK, Timestamps, MarkerOfStored, ClaimHasMarker, Stored
  <2> QED BY <1>2, <2>2, <2>3 DEF WaitInv
<1> QED BY <1>3, <1>4, <1>5

-----------------------------------------------------------------------------
(* Sweeps. *)

\* What no step of a sweep touches.
LEMMA SweepFrame ==
  ASSUME NEW s \in Sweeps, SweepStep(s) \/ SendFails(s) \/ Die(s)
  PROVE  UNCHANGED <<open, auto_reply, paused, time, inbound, human_at>>
BY DEF SweepStep, Scan, Expire, LeaveToHuman, Claim, StillClosed, Gate, Resume, ClearResumed,
       Release, SendFails, Die, row, time, inbound, sweep, hist

\* Replies and ends of waits keep their types.
LEMMA AnsweredType ==
  ASSUME TypeOK, NEW s \in Sweeps, Answered(s)
  PROVE  answers' \in [Messages -> Nat] /\ resumed' \in [Times -> Nat]
<1>1. answers' \in [Messages -> Nat]
  BY DEF TypeOK, Answered
<1>2. resumed' \in [Times -> Nat]
  BY DEF TypeOK, Answered
<1> QED BY <1>1, <1>2

LEMMA EndWaitType ==
  ASSUME TypeOK, NEW s \in Sweeps, NEW why \in {"human", "expired", "handoff"}, EndWait(s, why)
  PROVE  ended' \in [Messages -> {"no", "human", "expired", "handoff"}]
BY DEF TypeOK, EndWait

LEMMA SweepType ==
  ASSUME WaitInv, NEW s \in Sweeps, SweepStep(s) \/ SendFails(s) \/ Die(s)
  PROVE  TypeOK'
<1> USE OffHoursAssumption DEF WaitInv, row, time, inbound, sweep, hist
<1>0. UNCHANGED <<open, auto_reply, paused, time, inbound, human_at>>
  BY SweepFrame
<1>1. 0 \in Times /\ \A p : InboundSince(p) \in SUBSET Messages
  BY DEF Times, InboundSince
<1>2. /\ spc' \in [Sweeps -> {"idle", "scanned", "claimed", "drafting", "clearing", "releasing"}]
      /\ cand' \in [Sweeps -> Times]
      /\ batch' \in [Sweeps -> SUBSET Messages]
  BY <1>1 DEF SweepStep, Scan, Expire, LeaveToHuman, Claim, StillClosed, Gate, Resume,
              ClearResumed, Release, SendFails, Die, Leave, TypeOK
<1>3. pending' \in Times /\ resume_claim' \in {"none", "fresh", "stale"} /\ faults' \in Nat
  BY <1>1 DEF SweepStep, Scan, Expire, LeaveToHuman, Claim, StillClosed, Gate, Resume,
              ClearResumed, Release, SendFails, Die, Clear, TypeOK
<1>4. answers' \in [Messages -> Nat] /\ resumed' \in [Times -> Nat]
  BY AnsweredType
     DEF SweepStep, Scan, Expire, LeaveToHuman, Claim, StillClosed, Gate, Resume,
         ClearResumed, Release, SendFails, Die, TypeOK
<1>5. ended' \in [Messages -> {"no", "human", "expired", "handoff"}]
  BY EndWaitType
     DEF SweepStep, Scan, Expire, LeaveToHuman, Claim, StillClosed, Gate, Resume,
         ClearResumed, Release, SendFails, Die, TypeOK
<1> QED BY <1>0, <1>2, <1>3, <1>4, <1>5 DEF TypeOK

LEMMA WaitSweep ==
  ASSUME WaitInv, NEW s \in Sweeps, SweepStep(s) \/ SendFails(s) \/ Die(s)
  PROVE  WaitInv'
<1> USE OffHoursAssumption DEF row, time, inbound, sweep, hist
<1>0. UNCHANGED <<open, auto_reply, paused, time, inbound, human_at>>
  BY SweepFrame
<1>1. TypeOK'
  BY SweepType
<1>2. Timestamps'
  BY <1>0 DEF WaitInv, Timestamps
<1>3. pending' \in {0, pending}
  BY DEF SweepStep, Scan, Expire, LeaveToHuman, Claim, StillClosed, Gate, Resume,
         ClearResumed, Release, SendFails, Die, Clear
<1>4. MarkerOfStored'
  BY <1>0, <1>3 DEF WaitInv, MarkerOfStored, Stored
<1>5. CandidateInHand'
  BY DEF WaitInv, TypeOK, CandidateInHand, SweepStep, Scan, Expire, LeaveToHuman, Claim,
         StillClosed, Gate, Resume, ClearResumed, Release, SendFails, Die, Leave
<1>6. ClaimHasMarker'
  BY DEF WaitInv, ClaimHasMarker, CandidateInHand, SweepStep, Scan, Expire, LeaveToHuman,
         Claim, ClaimFree, StillClosed, Gate, Resume, ClearResumed, Release, SendFails, Die, Clear
<1>7. HumanSeenAtGate'
  <2> SUFFICES ASSUME NEW r \in Sweeps, spc'[r] = "claimed"
               PROVE  ~HumanReplied(cand'[r]) \/ paused \/ ~auto_reply
    BY <1>0 DEF HumanSeenAtGate, HumanReplied
  <2>1. cand'[r] = cand[r] /\ (spc[r] = "claimed" \/ ~HumanReplied(cand[r]))
    BY DEF WaitInv, TypeOK, SweepStep, Scan, Expire, LeaveToHuman, Claim, StillClosed, Gate,
           Resume, ClearResumed, Release, SendFails, Die, Leave
  <2> QED BY <2>1 DEF WaitInv, HumanSeenAtGate
<1> QED BY <1>1, <1>2, <1>4, <1>5, <1>6, <1>7 DEF WaitInv

-----------------------------------------------------------------------------
(* Time and people. *)

LEMMA WaitOthers ==
  ASSUME WaitInv,
         \/ ClaimGoesStale \/ HoursChange \/ TimePasses
         \/ PhoneEcho \/ OperatorTakesOver \/ PauseElapses \/ GiveBack
         \/ UNCHANGED vars
  PROVE  WaitInv'
<1> USE OffHoursAssumption DEF row, time, inbound, sweep, hist, vars
<1>1. UNCHANGED <<pending, turn, created, late, sweep, hist>>
  BY DEF ClaimGoesStale, HoursChange, TimePasses, PhoneEcho, OperatorTakesOver, PauseElapses,
         GiveBack, HumanWrites
<1>2. clock < MaxTime => clock + 1 \in Times
  BY DEF WaitInv, TypeOK, Times
<1>3. TypeOK'
  BY <1>2 DEF WaitInv, TypeOK, ClaimGoesStale, HoursChange, TimePasses, PhoneEcho,
              OperatorTakesOver, PauseElapses, GiveBack, HumanWrites
<1>4. Timestamps' /\ MarkerOfStored' /\ CandidateInHand'
  BY <1>1 DEF WaitInv, Timestamps, MarkerOfStored, CandidateInHand, Stored
<1>5. ClaimHasMarker'
  BY <1>1 DEF WaitInv, ClaimHasMarker, ClaimGoesStale, HoursChange, TimePasses, PhoneEcho,
              OperatorTakesOver, PauseElapses, GiveBack
<1>6. HumanSeenAtGate'
  BY <1>1 DEF WaitInv, HumanSeenAtGate, HumanReplied, NobodyAtGate, ClaimGoesStale,
              HoursChange, TimePasses, PhoneEcho, OperatorTakesOver, PauseElapses, GiveBack,
              HumanWrites
<1> QED BY <1>3, <1>4, <1>5, <1>6 DEF WaitInv

LEMMA WaitStep ==
  ASSUME WaitInv, [Next]_vars
  PROVE  WaitInv'
BY WaitMessage, WaitSweep, WaitOthers DEF Next

LEMMA WaitCorrect == Spec => []WaitInv
<1>1. WaitInv /\ [Next]_vars => WaitInv'
  BY WaitStep
<1> QED BY WaitInit, <1>1, PTL DEF Spec

\* Every variable keeps its type.
THEOREM TypeCorrect == Spec => []TypeOK
<1>1. WaitInv => TypeOK BY DEF WaitInv
<1> QED BY WaitCorrect, <1>1, PTL

\* No claim outlives its marker, to block the resume of another wait.
THEOREM ClaimCorrect == Spec => []ClaimHasMarker
<1>1. WaitInv => ClaimHasMarker BY DEF WaitInv
<1> QED BY WaitCorrect, <1>1, PTL

\* The sweep does not answer what a human has dealt with.
THEOREM HumanCorrect == Spec => HumanNotTalkedOver
<1>1. WaitInv /\ [Next]_vars
        => [\A s \in Sweeps : spc[s] = "claimed" /\ spc'[s] = "drafting"
                               => ~(human_at > cand[s])]_vars
  <2> SUFFICES ASSUME WaitInv, [Next]_vars, NEW s \in Sweeps,
                      spc[s] = "claimed", spc'[s] = "drafting"
               PROVE  ~(human_at > cand[s])
    OBVIOUS
  <2>1. Gate(s)
    BY DEF WaitInv, TypeOK, Next, Begin, Commit, Reply, SweepStep, Scan, Expire, LeaveToHuman,
           Claim, StillClosed, Gate, Resume, ClearResumed, Release, SendFails, Die, Leave,
           ClaimGoesStale, HoursChange, TimePasses, PhoneEcho, OperatorTakesOver,
           PauseElapses, GiveBack, row, time, inbound, sweep, hist, vars
  <2>2. auto_reply /\ ~paused
    BY <2>1 DEF Gate, WouldReply, WaitInv, TypeOK
  <2> QED BY <2>2 DEF WaitInv, HumanSeenAtGate, HumanReplied
<1> QED BY WaitCorrect, <1>1, PTL DEF Spec, HumanNotTalkedOver

-----------------------------------------------------------------------------
(* No question of the night is dropped in silence. *)

\* A question stays under the marker when nothing that UnderMarker says of it changes,
\* and what is settled stays settled.
LEMMA UnderMarkerKept ==
  ASSUME UnderMarker, UNCHANGED <<pending, created, turn, late, spc, cand, batch>>,
         \A m \in Messages : Settled(m) => Settled(m)'
  PROVE  UnderMarker'
BY DEF UnderMarker

LEMMA UnderMarkerMessage ==
  ASSUME WaitInv, UnderMarker, NEW m \in Messages, Begin(m) \/ Commit(m) \/ Reply(m)
  PROVE  UnderMarker'
<1> USE DEF row, time, inbound, sweep, hist
<1>1. UNCHANGED <<spc, cand, batch, ended>>
  BY DEF Begin, Commit, Reply
<1>2. \A n \in Messages : n # m => turn'[n] = turn[n] /\ created'[n] = created[n]
  BY DEF WaitInv, TypeOK, Begin, Commit, Reply
<1>3. \A n \in Messages : Settled(n) => Settled(n)'
  BY DEF WaitInv, TypeOK, Settled, Begin, Commit, Reply
<1>4. late \subseteq late' /\ (pending # 0 => pending' = pending)
  BY DEF Begin, Commit, Reply, MarkPending
<1>5. CASE turn'[m] # "waiting"
  BY <1>1, <1>2, <1>3, <1>4, <1>5 DEF UnderMarker
<1>6. CASE turn'[m] = "waiting"
  <2>1. Commit(m) /\ turn[m] = "closed" /\ created' = created
    BY <1>6 DEF Begin, Commit, Reply, WaitInv, TypeOK
  <2>2. m \notin late' => ~Overlaps(m)
    BY <2>1 DEF Commit
  <2>3. ASSUME m \notin late'
        PROVE  pending' # 0 /\ created[m] >= pending' /\ \A s \in Sweeps : spc[s] = "idle"
    <3>1. \A s \in Sweeps : spc[s] = "idle"
      BY <2>2, <2>3 DEF Overlaps
    <3>2. created[m] \in Nat /\ created[m] # 0
      BY <2>1 DEF WaitInv, TypeOK, Timestamps, Times
    <3>3. CASE pending = 0
      BY <2>1, <3>1, <3>2, <3>3 DEF Commit, MarkPending
    <3>4. CASE pending # 0
      <4>1. PICK n \in Messages : Stored(n) /\ created[n] = pending
        BY <3>4 DEF WaitInv, MarkerOfStored
      <4>2. ~(created[n] > created[m]) /\ created[n] \in Nat
        BY <2>2, <2>3, <4>1 DEF Overlaps, WaitInv, TypeOK, Times
      <4> QED BY <1>4, <3>1, <3>2, <3>4, <4>1, <4>2
    <3> QED BY <3>3, <3>4
  <2>4. \A n \in Messages : n # m /\ turn[n] = "waiting" /\ n \notin late' =>
          \/ Settled(n)'
          \/ /\ pending' # 0 /\ created[n] >= pending'
             /\ \A s \in Sweeps :
                  spc[s] # "idle" =>
                    spc[s] # "clearing" /\ cand[s] <= created[n]
                      /\ (spc[s] # "scanned" => n \in batch[s])
    BY <1>3, <1>4 DEF UnderMarker
  <2> QED BY <1>1, <1>2, <2>1, <2>3, <2>4 DEF UnderMarker
<1> QED BY <1>5, <1>6

\* A sweep that ends the wait under its marker settles what was under it.
LEMMA EndWaitSettles ==
  ASSUME WaitInv, NEW s \in Sweeps, NEW why \in {"human", "expired", "handoff"},
         EndWait(s, why), UNCHANGED answers,
         NEW m \in Messages, turn[m] = "waiting", cand[s] <= created[m]
  PROVE  Settled(m)'
<1>1. m \in InboundSince(cand[s])
  BY DEF InboundSince, Stored, WaitInv, TypeOK, Times
<1>2. answers[m] \in Nat /\ ended'[m] = IF answers[m] = 0 THEN why ELSE ended[m]
  BY <1>1 DEF EndWait, WaitInv, TypeOK
<1> QED BY <1>2 DEF Settled

LEMMA UnderMarkerSweep ==
  ASSUME WaitInv, UnderMarker, NEW s \in Sweeps, SweepStep(s) \/ SendFails(s) \/ Die(s)
  PROVE  UnderMarker'
<1> USE DEF row, time, inbound, sweep, hist
<1>0. UNCHANGED <<turn, created, late>>
  BY SweepFrame DEF time, inbound
<1>1. \A r \in Sweeps : r # s => spc'[r] = spc[r] /\ cand'[r] = cand[r] /\ batch'[r] = batch[r]
  BY DEF WaitInv, TypeOK, SweepStep, Scan, Expire, LeaveToHuman, Claim, StillClosed, Gate,
         Resume, ClearResumed, Release, SendFails, Die, Leave
<1>2. \A m \in Messages : Settled(m) => Settled(m)'
  BY DEF WaitInv, TypeOK, Settled, SweepStep, Scan, Expire, LeaveToHuman, Claim, StillClosed,
         Gate, Resume, ClearResumed, Release, SendFails, Die, Answered, EndWait
<1> SUFFICES ASSUME NEW m \in Messages, turn[m] = "waiting", m \notin late, ~Settled(m)'
             PROVE  /\ pending' # 0 /\ created[m] >= pending'
                    /\ \A r \in Sweeps :
                         spc'[r] # "idle" =>
                           /\ spc'[r] # "clearing"
                           /\ cand'[r] <= created[m]
                           /\ spc'[r] # "scanned" => m \in batch'[r]
  BY <1>0 DEF UnderMarker
<1>3. /\ pending # 0 /\ created[m] >= pending
      /\ \A r \in Sweeps :
           spc[r] # "idle" =>
             /\ spc[r] # "clearing"
             /\ cand[r] <= created[m]
             /\ spc[r] # "scanned" => m \in batch[r]
  BY <1>2 DEF UnderMarker
<1>4. SUFFICES /\ pending' = pending
               /\ spc'[s] # "idle" =>
                    /\ spc'[s] # "clearing"
                    /\ cand'[s] <= created[m]
                    /\ spc'[s] # "scanned" => m \in batch'[s]
  BY <1>1, <1>3
<1>5. CASE Scan(s)
  BY <1>3, <1>5 DEF Scan, WaitInv, TypeOK, Times
<1>6. CASE Expire(s) \/ LeaveToHuman(s)
  <2>1. spc[s] = "scanned" /\ UNCHANGED answers /\ \E why \in {"human", "expired", "handoff"} : EndWait(s, why)
    BY <1>6 DEF Expire, LeaveToHuman
  <2> QED BY <1>3, <2>1, EndWaitSettles
<1>7. CASE Claim(s)
  <2>1. spc[s] = "scanned" /\ pending' = pending
    BY <1>7 DEF Claim
  <2>2. m \in InboundSince(cand[s])
    BY <1>3, <2>1 DEF InboundSince, Stored, WaitInv, TypeOK, Times
  <2>3. \/ spc'[s] = "idle"
        \/ spc'[s] = "claimed" /\ cand'[s] = cand[s] /\ batch'[s] = InboundSince(cand[s])
    BY <1>7 DEF Claim, Leave, WaitInv, TypeOK
  <2> QED BY <1>3, <2>1, <2>2, <2>3
<1>8. CASE StillClosed(s) \/ Release(s) \/ Die(s)
  BY <1>8 DEF StillClosed, Release, Die, Leave, WaitInv, TypeOK
<1>9. CASE Gate(s)
  <2>1. /\ spc[s] = "claimed" /\ UNCHANGED <<pending, cand, batch>>
        /\ spc'[s] \in {"drafting", "releasing"}
    BY <1>9 DEF Gate, WaitInv, TypeOK
  <2> QED BY <1>3, <2>1
<1>10. CASE Resume(s)
  <2>1. spc[s] = "drafting" /\ m \in batch[s] /\ cand[s] <= created[m]
    BY <1>3, <1>10 DEF Resume
  <2>2. CASE Answered(s)
    <3>1. answers'[m] > 0
      BY <2>1, <2>2 DEF Answered, WaitInv, TypeOK
    <3> QED BY <3>1 DEF Settled
  <2>3. CASE EndWait(s, "handoff") /\ UNCHANGED answers
    BY <2>1, <2>3, EndWaitSettles
  <2> QED BY <1>10, <2>2, <2>3 DEF Resume
<1>11. CASE ClearResumed(s)
  BY <1>3, <1>11 DEF ClearResumed
<1>12. CASE SendFails(s)
  BY <1>12 DEF SendFails, Leave, WaitInv, TypeOK
<1> QED BY <1>5, <1>6, <1>7, <1>8, <1>9, <1>10, <1>11, <1>12 DEF SweepStep

LEMMA UnderMarkerStep ==
  ASSUME WaitInv, UnderMarker, [Next]_vars
  PROVE  UnderMarker'
<1>1. CASE ClaimGoesStale \/ HoursChange \/ TimePasses \/ PhoneEcho \/ OperatorTakesOver
             \/ PauseElapses \/ GiveBack \/ UNCHANGED vars
  BY <1>1, UnderMarkerKept
     DEF ClaimGoesStale, HoursChange, TimePasses, PhoneEcho, OperatorTakesOver, PauseElapses,
         GiveBack, HumanWrites, row, time, inbound, sweep, hist, vars, Settled
<1> QED BY <1>1, UnderMarkerMessage, UnderMarkerSweep DEF Next

\* A question asked out of hours is answered, still waits, or its wait was ended for
\* a reason, unless its transaction overlapped a sweep or a newer message.
THEOREM QuestionsCorrect == Spec => []QuestionsKept
<1>1. Init => UnderMarker
  BY DEF Init, UnderMarker
<1>2. WaitInv /\ UnderMarker /\ [Next]_vars => UnderMarker'
  BY UnderMarkerStep
<1>3. UnderMarker => QuestionsKept
  BY DEF UnderMarker, QuestionsKept, Settled, Waits
<1> QED BY WaitCorrect, <1>1, <1>2, <1>3, PTL DEF Spec

-----------------------------------------------------------------------------
(* One wait gets one answer. *)

\* A marker, candidate or answered wait is that of a message that is stored, and
\* no two messages share a timestamp.
StoredMarkers ==
  /\ \A m \in Messages : created[m] <= clock
  /\ \A m, n \in Messages : created[m] = created[n] /\ created[m] # 0 => m = n
  /\ \A s \in Sweeps : cand[s] # 0 => \E n \in Messages : Stored(n) /\ created[n] = cand[s]
  /\ \A p \in Times : resumed[p] > 0 => \E n \in Messages : Stored(n) /\ created[n] = p

Holds(s, p) == cand[s] = p /\ spc[s] \in {"claimed", "drafting", "clearing", "releasing"}

\* The wait that began at p has one sweep at a time, and an answer for each sweep cut
\* short, one more once a sweep is about to clear the marker.
OneHolder(p) ==
  /\ \A r, s \in Sweeps : Holds(r, p) /\ Holds(s, p) => r = s
  /\ \A s \in Sweeps : Holds(s, p) /\ spc[s] \in {"claimed", "drafting"} => resumed[p] <= faults
  /\ resumed[p] <= 1 + faults

\* While the marker stands nobody is on another wait, and the claim tells whether
\* somebody is on this one.
ClaimIsHeld(p) ==
  pending = p =>
    /\ \A s \in Sweeps : spc[s] # "idle" => cand[s] = p
    /\ \A s \in Sweeps : Holds(s, p) => resume_claim = "fresh"
    /\ resumed[p] <= faults \/ \E s \in Sweeps : Holds(s, p) /\ spc[s] = "clearing"

HolderInv ==
  /\ StoredMarkers
  /\ \A m \in Messages :
       Stored(m) /\ m \notin late => OneHolder(created[m]) /\ ClaimIsHeld(created[m])

LEMMA StoredMarkersStep ==
  ASSUME WaitInv, StoredMarkers, [Next]_vars
  PROVE  StoredMarkers'
<1> USE DEF row, time, inbound, sweep, hist
<1>1. ASSUME NEW m \in Messages, Begin(m) \/ Commit(m) \/ Reply(m) PROVE StoredMarkers'
  <2>1. UNCHANGED <<cand, resumed>>
    BY <1>1 DEF Begin, Commit, Reply
  <2>2. \A n \in Messages : Stored(n) => Stored(n)' /\ created'[n] = created[n]
    BY <1>1 DEF WaitInv, TypeOK, Stored, Begin, Commit, Reply
  <2>3. \/ UNCHANGED <<created, clock>>
        \/ clock' = clock + 1 /\ created' = [created EXCEPT ![m] = clock + 1]
    BY <1>1 DEF Begin, Commit, Reply
  <2>4. clock \in Nat /\ \A n \in Messages : created[n] \in Nat /\ created[n] <= clock
    BY DEF WaitInv, TypeOK, Times, StoredMarkers
  <2>5. \A n \in Messages : created'[n] <= clock'
    BY <2>3, <2>4 DEF WaitInv, TypeOK
  <2>6. \A n, l \in Messages : created'[n] = created'[l] /\ created'[n] # 0 => n = l
    BY <2>3, <2>4 DEF WaitInv, TypeOK, StoredMarkers
  <2> QED BY <2>1, <2>2, <2>5, <2>6 DEF StoredMarkers
<1>2. ASSUME NEW s \in Sweeps, SweepStep(s) \/ SendFails(s) \/ Die(s) PROVE StoredMarkers'
  <2>1. UNCHANGED <<turn, created, clock>>
    BY <1>2, SweepFrame
  <2>2. \A r \in Sweeps : cand'[r] \in {0, cand[r], pending}
    BY <1>2 DEF WaitInv, TypeOK, SweepStep, Scan, Expire, LeaveToHuman, Claim, StillClosed, Gate,
                Resume, ClearResumed, Release, SendFails, Die, Leave
  <2>3. \A p \in Times : resumed'[p] > 0 => resumed[p] > 0 \/ (p = cand[s] /\ cand[s] # 0)
    BY <1>2 DEF WaitInv, TypeOK, CandidateInHand, SweepStep, Scan, Expire, LeaveToHuman, Claim,
                StillClosed, Gate, Resume, ClearResumed, Release, SendFails, Die, Answered
  <2>4. \A n \in Messages : Stored(n)' <=> Stored(n)
    BY <2>1 DEF Stored
  <2> QED BY <2>1, <2>2, <2>3, <2>4 DEF StoredMarkers, WaitInv, MarkerOfStored
<1>3. CASE ClaimGoesStale \/ HoursChange \/ TimePasses \/ PhoneEcho \/ OperatorTakesOver
             \/ PauseElapses \/ GiveBack \/ UNCHANGED vars
  <2>1. UNCHANGED <<turn, created, cand, resumed>> /\ clock' \in {clock, clock + 1}
    BY <1>3 DEF ClaimGoesStale, HoursChange, TimePasses, PhoneEcho, OperatorTakesOver,
                PauseElapses, GiveBack, HumanWrites, vars
  <2>2. clock \in Nat /\ \A n \in Messages : created[n] \in Nat
    BY DEF WaitInv, TypeOK, Times
  <2> QED BY <2>1, <2>2 DEF StoredMarkers, Stored
<1> QED BY <1>1, <1>2, <1>3 DEF Next

\* Of a message that is not stored nothing has been said yet.
LEMMA UnstoredIsNew ==
  ASSUME WaitInv, StoredMarkers, NEW m \in Messages, ~Stored(m)
  PROVE  resumed[created[m]] = 0 /\ \A s \in Sweeps : cand[s] # 0 => cand[s] # created[m]
<1>1. \A n \in Messages : Stored(n) => created[n] # 0 /\ created[n] # created[m]
  BY DEF WaitInv, Timestamps, Stored, StoredMarkers
<1>2. created[m] \in Times /\ resumed[created[m]] \in Nat
  BY DEF WaitInv, TypeOK
<1> QED BY <1>1, <1>2 DEF StoredMarkers

\* The messages: a commit that overlaps nothing begins a wait with no sweep at work.
LEMMA HolderMessage ==
  ASSUME WaitInv, HolderInv, NEW n \in Messages, Begin(n) \/ Commit(n) \/ Reply(n),
         NEW m \in Messages, Stored(m)', m \notin late'
  PROVE  OneHolder(created[m])' /\ ClaimIsHeld(created[m])'
<1> USE DEF row, time, inbound, sweep, hist
<1>1. UNCHANGED <<spc, cand, faults, resumed, resume_claim>> /\ m \notin late
  BY DEF Begin, Commit, Reply
<1>2. Stored(m) \/ (m = n /\ Commit(n))
  BY DEF WaitInv, TypeOK, Stored, Begin, Commit, Reply
<1>3. created'[m] = created[m] /\ created[m] # 0 /\ created[m] \in Times
  BY <1>2 DEF WaitInv, TypeOK, Timestamps, Stored, Begin, Commit, Reply
<1>4. CASE Stored(m)
  <2>1. OneHolder(created[m]) /\ ClaimIsHeld(created[m])
    BY <1>1, <1>4 DEF HolderInv
  <2>2. pending' = created[m] => pending = created[m]
    <3>1. \/ pending' = pending
          \/ Commit(n) /\ turn[n] = "closed" /\ pending' = created[n]
      BY DEF Begin, Commit, Reply, MarkPending
    <3>2. turn[n] = "closed" => n # m
      BY <1>4 DEF Stored
    <3> QED BY <1>3, <3>1, <3>2 DEF HolderInv, StoredMarkers
  <2> QED BY <1>1, <1>3, <2>1, <2>2 DEF OneHolder, ClaimIsHeld, Holds
<1>5. CASE ~Stored(m)
  <2>1. resumed[created[m]] = 0 /\ \A s \in Sweeps : ~Holds(s, created[m])
    BY <1>3, <1>5, UnstoredIsNew DEF HolderInv, Holds
  <2>2. \A s \in Sweeps : spc[s] = "idle"
    BY <1>2, <1>5 DEF Commit, Overlaps
  <2>3. faults \in Nat
    BY DEF WaitInv, TypeOK
  <2> QED BY <1>1, <1>3, <2>1, <2>2, <2>3 DEF OneHolder, ClaimIsHeld, Holds
<1> QED BY <1>4, <1>5

\* The sweeps.
LEMMA HolderSweep ==
  ASSUME WaitInv, NEW p \in Times, p # 0, OneHolder(p), ClaimIsHeld(p),
         NEW s \in Sweeps, SweepStep(s) \/ SendFails(s) \/ Die(s)
  PROVE  OneHolder(p)' /\ ClaimIsHeld(p)'
<1> USE DEF row, time, inbound, sweep, hist
<1>1. \A r \in Sweeps : r # s => spc'[r] = spc[r] /\ cand'[r] = cand[r]
  BY DEF WaitInv, TypeOK, SweepStep, Scan, Expire, LeaveToHuman, Claim, StillClosed, Gate,
         Resume, ClearResumed, Release, SendFails, Die, Leave
<1>2. \A r \in Sweeps : r # s => (Holds(r, p)' <=> Holds(r, p))
  BY <1>1 DEF Holds
<1>3. faults \in Nat /\ resumed[p] \in Nat
  BY DEF WaitInv, TypeOK
<1>4. CASE Scan(s)
  <2>1. /\ UNCHANGED <<pending, resume_claim, resumed, faults>>
        /\ spc'[s] = "scanned" /\ cand'[s] = pending /\ spc[s] = "idle"
    BY <1>4 DEF Scan, WaitInv, TypeOK
  <2>2. ~Holds(s, p)' /\ ~Holds(s, p)
    BY <2>1 DEF Holds
  <2> QED BY <1>1, <1>2, <2>1, <2>2 DEF OneHolder, ClaimIsHeld
<1>5. CASE Expire(s) \/ LeaveToHuman(s) \/ ClearResumed(s)
  <2>1. pending' = 0 /\ spc'[s] = "idle" /\ UNCHANGED <<resumed, faults>>
    BY <1>5 DEF Expire, LeaveToHuman, ClearResumed, Clear, Leave, WaitInv, TypeOK
  <2>2. ~Holds(s, p)'
    BY <2>1 DEF Holds
  <2> QED BY <1>1, <1>2, <2>1, <2>2 DEF OneHolder, ClaimIsHeld
<1>6. CASE Claim(s)
  <2>1. spc[s] = "scanned" /\ UNCHANGED <<pending, resumed, faults>> /\ ~Holds(s, p)
    BY <1>6 DEF Claim, Holds
  <2>2. CASE ClaimFree(cand[s])
    <3>1. /\ spc'[s] = "claimed" /\ cand'[s] = cand[s] /\ resume_claim' = "fresh"
          /\ pending = cand[s] /\ resume_claim # "fresh"
      BY <1>6, <2>2 DEF Claim, ClaimFree, WaitInv, TypeOK
    <3>2. CASE cand[s] = p
      <4>1. \A r \in Sweeps : ~Holds(r, p)
        BY <3>1, <3>2 DEF ClaimIsHeld
      <4>2. resumed[p] <= faults
        BY <3>1, <3>2, <4>1 DEF ClaimIsHeld
      <4>3. \A r \in Sweeps : Holds(r, p)' => r = s
        BY <1>2, <4>1
      <4>4. OneHolder(p)'
        BY <1>3, <2>1, <4>2, <4>3 DEF OneHolder
      <4>5. ClaimIsHeld(p)'
        BY <1>1, <2>1, <3>1, <3>2, <4>2 DEF ClaimIsHeld
      <4> QED BY <4>4, <4>5
    <3>3. CASE cand[s] # p
      <4>1. ~Holds(s, p)' /\ pending' # p
        BY <2>1, <3>1, <3>3 DEF Holds
      <4> QED BY <1>1, <1>2, <2>1, <4>1 DEF OneHolder, ClaimIsHeld
    <3> QED BY <3>2, <3>3
  <2>3. CASE ~ClaimFree(cand[s])
    <3>1. spc'[s] = "idle" /\ resume_claim' = resume_claim
      BY <1>6, <2>3 DEF Claim, Leave, WaitInv, TypeOK
    <3>2. ~Holds(s, p)'
      BY <3>1 DEF Holds
    <3> QED BY <1>1, <1>2, <2>1, <3>1, <3>2 DEF OneHolder, ClaimIsHeld
  <2> QED BY <2>2, <2>3
<1>7. CASE StillClosed(s)
  <2>1. /\ spc[s] = "scanned" /\ spc'[s] = "idle"
        /\ UNCHANGED <<pending, resume_claim, resumed, faults>>
    BY <1>7 DEF StillClosed, Leave, WaitInv, TypeOK
  <2>2. ~Holds(s, p)' /\ ~Holds(s, p)
    BY <2>1 DEF Holds
  <2> QED BY <1>1, <1>2, <2>1, <2>2 DEF OneHolder, ClaimIsHeld
<1>8. CASE Gate(s)
  <2>1. /\ spc[s] = "claimed" /\ spc'[s] \in {"drafting", "releasing"} /\ cand' = cand
        /\ UNCHANGED <<pending, resume_claim, resumed, faults>>
    BY <1>8 DEF Gate, WaitInv, TypeOK
  <2>2. \A r \in Sweeps : Holds(r, p)' <=> Holds(r, p)
    BY <1>2, <2>1 DEF Holds
  <2>3. OneHolder(p)'
    BY <1>1, <2>1, <2>2 DEF OneHolder
  <2>4. ClaimIsHeld(p)'
    BY <1>1, <2>1, <2>2 DEF ClaimIsHeld
  <2> QED BY <2>3, <2>4
<1>9. CASE Resume(s)
  <2>1. /\ spc[s] = "drafting" /\ spc'[s] = "clearing" /\ cand' = cand
        /\ UNCHANGED <<pending, resume_claim, faults>>
        /\ resumed' \in {resumed, [resumed EXCEPT ![cand[s]] = @ + 1]}
    BY <1>9 DEF Resume, Answered, WaitInv, TypeOK
  <2>2. \A r \in Sweeps : Holds(r, p)' <=> Holds(r, p)
    BY <1>2, <2>1 DEF Holds
  <2>3. CASE cand[s] = p
    <3>1. Holds(s, p) /\ resumed[p] <= faults
      BY <2>1, <2>3 DEF Holds, OneHolder
    <3>2. resumed'[p] <= 1 + faults
      BY <1>3, <2>1, <2>3, <3>1 DEF WaitInv, TypeOK
    <3>3. \A r \in Sweeps : Holds(r, p)' => r = s
      BY <2>2, <3>1 DEF OneHolder
    <3>4. OneHolder(p)'
      BY <2>1, <3>2, <3>3 DEF OneHolder
    <3>5. ClaimIsHeld(p)'
      BY <1>1, <2>1, <2>2, <3>1 DEF ClaimIsHeld
    <3> QED BY <3>4, <3>5
  <2>4. CASE cand[s] # p
    <3>1. resumed'[p] = resumed[p] /\ ~Holds(s, p)
      BY <2>1, <2>4 DEF WaitInv, TypeOK, Holds
    <3> QED BY <1>1, <2>1, <2>2, <3>1 DEF OneHolder, ClaimIsHeld
  <2> QED BY <2>3, <2>4
<1>10. CASE Release(s)
  <2>1. /\ spc[s] = "releasing" /\ spc'[s] = "idle"
        /\ UNCHANGED <<pending, resumed, faults>>
    BY <1>10 DEF Release, Leave, WaitInv, TypeOK
  <2>2. ~Holds(s, p)'
    BY <2>1 DEF Holds
  <2>3. OneHolder(p)'
    BY <1>1, <1>2, <2>1, <2>2 DEF OneHolder
  <2>4. CASE pending = p
    <3>1. Holds(s, p)
      BY <2>1, <2>4 DEF ClaimIsHeld, Holds
    <3>2. \A r \in Sweeps : ~Holds(r, p)'
      BY <1>2, <2>2, <3>1 DEF OneHolder
    <3>3. resumed[p] <= faults
      BY <2>1, <2>4, <3>1 DEF OneHolder, ClaimIsHeld
    <3> QED BY <1>1, <2>1, <2>3, <2>4, <3>2, <3>3 DEF ClaimIsHeld
  <2>5. CASE pending # p
    BY <2>1, <2>3, <2>5 DEF ClaimIsHeld
  <2> QED BY <2>4, <2>5
<1>11. CASE SendFails(s) \/ Die(s)
  <2>1. /\ spc[s] # "idle" /\ spc'[s] = "idle" /\ faults' = faults + 1
        /\ UNCHANGED <<pending, resume_claim>>
        /\ \/ resumed' = resumed
           \/ spc[s] = "drafting" /\ resumed' = [resumed EXCEPT ![cand[s]] = @ + 1]
    BY <1>11 DEF SendFails, Die, Leave, Answered, WaitInv, TypeOK
  <2>2. ~Holds(s, p)'
    BY <2>1 DEF Holds
  <2>3. resumed'[p] <= 1 + faults
    <3>1. CASE resumed' = resumed
      BY <3>1 DEF OneHolder
    <3>2. CASE spc[s] = "drafting" /\ resumed' = [resumed EXCEPT ![cand[s]] = @ + 1]
      <4>1. CASE cand[s] = p
        BY <1>3, <3>2, <4>1 DEF OneHolder, Holds, WaitInv, TypeOK
      <4>2. CASE cand[s] # p
        BY <3>2, <4>2 DEF OneHolder, WaitInv, TypeOK
      <4> QED BY <4>1, <4>2
    <3> QED BY <2>1, <3>1, <3>2
  <2>4. resumed'[p] \in Nat
    BY <2>1 DEF WaitInv, TypeOK
  <2>5. OneHolder(p)'
    BY <1>2, <1>3, <2>1, <2>2, <2>3, <2>4 DEF OneHolder
  <2>6. ClaimIsHeld(p)'
    BY <1>1, <1>2, <1>3, <2>1, <2>2, <2>3, <2>4 DEF ClaimIsHeld
  <2> QED BY <2>5, <2>6
<1> QED BY <1>4, <1>5, <1>6, <1>7, <1>8, <1>9, <1>10, <1>11 DEF SweepStep

LEMMA HolderStep ==
  ASSUME WaitInv, HolderInv, [Next]_vars
  PROVE  HolderInv'
<1> USE DEF row, time, inbound, sweep, hist
<1>1. StoredMarkers'
  BY StoredMarkersStep DEF HolderInv
<1> SUFFICES ASSUME NEW m \in Messages, Stored(m)', m \notin late'
             PROVE  OneHolder(created[m])' /\ ClaimIsHeld(created[m])'
  BY <1>1 DEF HolderInv
<1>2. ASSUME NEW n \in Messages, Begin(n) \/ Commit(n) \/ Reply(n)
      PROVE  OneHolder(created[m])' /\ ClaimIsHeld(created[m])'
  BY <1>2, HolderMessage
<1>3. ASSUME UNCHANGED <<turn, created, late>>
      PROVE  /\ Stored(m) /\ m \notin late /\ created[m] # 0 /\ created[m] \in Times
             /\ OneHolder(created[m]) /\ ClaimIsHeld(created[m])
  BY <1>3 DEF Stored, HolderInv, WaitInv, TypeOK, Timestamps
<1>4. ASSUME NEW s \in Sweeps, SweepStep(s) \/ SendFails(s) \/ Die(s)
      PROVE  OneHolder(created[m])' /\ ClaimIsHeld(created[m])'
  <2>1. UNCHANGED <<turn, created, late>>
    BY <1>4, SweepFrame
  <2>2. OneHolder(created[m]) /\ ClaimIsHeld(created[m]) /\ created[m] \in Times /\ created[m] # 0
    BY <1>3, <2>1
  <2> DEFINE p == created[m]
  <2>3. p' = p
    BY <2>1
  <2>4. (\A q \in Times : q # 0 /\ OneHolder(q) /\ ClaimIsHeld(q) => OneHolder(q)' /\ ClaimIsHeld(q)')
    BY <1>4, HolderSweep
  <2> QED BY <2>2, <2>3, <2>4 DEF OneHolder, ClaimIsHeld, Holds
<1>5. CASE ClaimGoesStale
  <2>1. UNCHANGED <<turn, created, late, pending, spc, cand, faults, resumed>>
    BY <1>5 DEF ClaimGoesStale
  <2>2. \A s \in Sweeps : ~Holds(s, created[m])
    BY <1>5 DEF ClaimGoesStale, Holds
  <2> QED BY <1>3, <2>1, <2>2 DEF OneHolder, ClaimIsHeld, Holds
<1>6. CASE HoursChange \/ TimePasses \/ PhoneEcho \/ OperatorTakesOver \/ PauseElapses
             \/ GiveBack \/ UNCHANGED vars
  <2>1. UNCHANGED <<turn, created, late, pending, resume_claim, spc, cand, faults, resumed>>
    BY <1>6 DEF HoursChange, TimePasses, PhoneEcho, OperatorTakesOver, PauseElapses, GiveBack,
                HumanWrites, vars
  <2> QED BY <1>3, <2>1 DEF OneHolder, ClaimIsHeld, Holds
<1> QED BY <1>2, <1>4, <1>5, <1>6 DEF Next

\* The sweeps answer one wait once, and once more for every sweep cut short.
THEOREM ResumeCorrect == Spec => []ResumedOnce
<1>1. Init => HolderInv
  BY OffHoursAssumption DEF Init, HolderInv, StoredMarkers, Stored, Times
<1>2. WaitInv /\ HolderInv /\ [Next]_vars => HolderInv'
  BY HolderStep
<1>3. WaitInv /\ HolderInv => ResumedOnce
  <2> SUFFICES ASSUME WaitInv, HolderInv, NEW m \in Messages, m \notin late
               PROVE  resumed[created[m]] <= 1 + faults
    BY DEF ResumedOnce
  <2>1. CASE Stored(m)
    BY <2>1 DEF HolderInv, OneHolder
  <2>2. CASE ~Stored(m)
    BY <2>2, UnstoredIsNew DEF HolderInv, WaitInv, TypeOK
  <2> QED BY <2>1, <2>2
<1> QED BY WaitCorrect, <1>1, <1>2, <1>3, PTL DEF Spec

=============================================================================
