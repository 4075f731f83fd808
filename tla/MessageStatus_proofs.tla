-------------------------- MODULE MessageStatus_proofs --------------------------
(***************************************************************************)
(* The copies, the ticks and the row of one message, for every number of   *)
(* copies, shutdowns and retries.                                          *)
(***************************************************************************)
EXTENDS MessageStatus, FiniteSetTheorems, TLAPS

\* What the row is before and after a copy is recorded.
RowOfCopy ==
  /\ wa_message_id <= copies
  /\ wa_message_id = 0 => status \in {"absent", "pending", "failed"}
  /\ wa_message_id # 0 => status \in Reports
  /\ status = "absent" => job = "none"

\* The job that records a copy holds one that was accepted.
HeldCopy == job = "recording" => reply \in 1..copies

\* Copies not accepted yet have no history.
FutureCopies == \A c \in Copies : c > copies => seen[c] = "none"

\* A report exists only for what has happened to the copy.
ReportsAreTrue ==
  \A c \in Copies :
    /\ callback[<<c, "delivered">>] # "none" => seen[c] \in {"delivered", "read"}
    /\ callback[<<c, "read">>] # "none" => seen[c] = "read"
    /\ callback[<<c, "failed">>] # "none" => seen[c] = "failed"

\* The job is on its way to one more copy, or the row says that it may go.
Resending == status = "failed" \/ job \in {"wire", "recording", "failing"}

\* A message that has left is sent again only after WhatsApp has reported the
\* copy on the row as failed, and that report has been written.
ResentAfterFailure ==
  wa_message_id # 0 /\ Resending =>
    seen[wa_message_id] = "failed" /\ callback[<<wa_message_id, "failed">>] = "done"

\* A callback about to write is about the copy on the row.
WritersTrackRow ==
  \A c \in Copies, report \in Reports :
    callback[<<c, report>>] = "writing" => c = wa_message_id /\ report # "sent"

RowInv ==
  /\ TypeOK
  /\ RowOfCopy /\ HeldCopy /\ FutureCopies
  /\ ReportsAreTrue /\ ResentAfterFailure /\ WritersTrackRow
  /\ TicksAreTrue /\ ReadWasDelivered

LEMMA RowInit == Init => RowInv
<1> SUFFICES ASSUME Init PROVE RowInv
  OBVIOUS
<1>1. TypeOK
  <2>1. 0 \in 0..MaxCopies
    BY MessageStatusAssumption
  <2>2. callback \in [Copies \X Reports -> {"none", "queued", "writing", "done"}]
    BY DEF Init
  <2>3. seen \in [Copies -> {"none", "sent", "delivered", "read", "failed"}]
    BY DEF Init
  <2> QED BY <2>1, <2>2, <2>3 DEF Init, TypeOK
<1>2. RowOfCopy /\ HeldCopy /\ FutureCopies
  BY DEF Init, RowOfCopy, HeldCopy, FutureCopies
<1>3. ReportsAreTrue
  BY DEF Init, ReportsAreTrue, Reports
<1>4. ResentAfterFailure /\ WritersTrackRow
  BY DEF Init, ResentAfterFailure, WritersTrackRow
<1>5. TicksAreTrue /\ ReadWasDelivered
  BY DEF Init, TicksAreTrue, ReadWasDelivered
<1> QED BY <1>1, <1>2, <1>3, <1>4, <1>5 DEF RowInv

\* While the job may send again, and before a copy is recorded, no callback is
\* about to write.
LEMMA NoWriter ==
  ASSUME RowInv, wa_message_id = 0 \/ Resending,
         NEW c \in Copies, NEW report \in Reports
  PROVE  callback[<<c, report>>] # "writing"
<1> SUFFICES ASSUME callback[<<c, report>>] = "writing" PROVE FALSE
  OBVIOUS
<1>1. c = wa_message_id /\ report # "sent" /\ c # 0
  BY DEF RowInv, WritersTrackRow, Copies
<1>2. seen[c] = "failed" /\ callback[<<c, "failed">>] = "done"
  BY <1>1 DEF RowInv, ResentAfterFailure
<1>3. report \in {"delivered", "read", "failed"}
  BY <1>1 DEF Reports
<1> QED BY <1>2, <1>3 DEF RowInv, ReportsAreTrue

-----------------------------------------------------------------------------
(* The row invariant is inductive. *)

\* The API, and the steps of the job that neither reach the wire nor leave it.
LEMMA RowJob ==
  ASSUME RowInv,
         \/ SendMessage \/ Riprova \/ Start \/ PrecheckFails \/ WireRefuses
         \/ RecordSent \/ RecordFailed \/ Finish \/ Shutdown
  PROVE  RowInv'
<1> USE MessageStatusAssumption DEF row, send, calls
<1>1. UNCHANGED <<seen, copies, callback>>
  BY DEF SendMessage, Riprova, Start, PrecheckFails, WireRefuses, RecordSent, RecordFailed,
         Finish, Shutdown
<1>2. TypeOK'
  BY DEF RowInv, TypeOK, Reports, Copies, SendMessage, Riprova, Start, PrecheckFails,
         WireRefuses, RecordSent, RecordFailed, Finish, Shutdown
<1>3. FutureCopies' /\ ReportsAreTrue'
  BY <1>1 DEF RowInv, FutureCopies, ReportsAreTrue
<1>4. CASE RecordSent
  <2>1. reply \in 1..copies /\ copies \in Nat
    BY <1>4 DEF RowInv, HeldCopy, TypeOK, RecordSent
  <2>2. \A c \in Copies, report \in Reports : callback[<<c, report>>] # "writing"
    BY <1>4, NoWriter DEF RecordSent, Resending
  <2>3. RowOfCopy' /\ HeldCopy'
    BY <1>1, <1>4, <2>1 DEF RecordSent, RowOfCopy, HeldCopy, Reports
  <2>4. ResentAfterFailure' /\ WritersTrackRow'
    BY <1>1, <1>4, <2>2 DEF RecordSent, ResentAfterFailure, Resending, WritersTrackRow
  <2>5. TicksAreTrue' /\ ReadWasDelivered'
    BY <1>4 DEF RecordSent, TicksAreTrue, ReadWasDelivered, RowInv
  <2> QED BY <1>2, <1>3, <2>3, <2>4, <2>5 DEF RowInv
<1>5. CASE ~RecordSent
  <2>1. UNCHANGED <<wa_message_id, delivered_at, read_at, reply>>
    BY <1>5 DEF SendMessage, Riprova, Start, PrecheckFails, WireRefuses, RecordFailed,
                Finish, Shutdown
  <2>2. status' = status \/ (status' \in {"pending", "failed"} /\ wa_message_id = 0)
          \/ (status' = "failed" /\ Resending)
    BY <1>5 DEF SendMessage, Riprova, Start, PrecheckFails, WireRefuses, RecordFailed,
                Finish, Shutdown, Sendable, Resending, RowInv, RowOfCopy, Reports
  <2>3. job' = "recording" => job = "recording"
    BY <1>5 DEF SendMessage, Riprova, Start, PrecheckFails, WireRefuses, RecordFailed,
                Finish, Shutdown
  <2>4. Resending' => wa_message_id = 0 \/ Resending
    BY <1>5, <2>2 DEF SendMessage, Riprova, Start, PrecheckFails, WireRefuses, RecordFailed,
                Finish, Shutdown, Sendable, Resending, RowInv, RowOfCopy, Reports
  <2>5. RowOfCopy' /\ HeldCopy'
    <3>1. status' = "absent" => job' = "none"
      BY <1>5 DEF SendMessage, Riprova, Start, PrecheckFails, WireRefuses, RecordFailed,
                  Finish, Shutdown, RowInv, RowOfCopy
    <3> QED BY <1>1, <2>1, <2>2, <2>3, <3>1 DEF RowInv, RowOfCopy, HeldCopy, Reports
  <2>6. ResentAfterFailure' /\ WritersTrackRow'
    BY <1>1, <2>1, <2>4 DEF RowInv, ResentAfterFailure, WritersTrackRow
  <2>7. TicksAreTrue' /\ ReadWasDelivered'
    BY <1>1, <2>1, <2>2 DEF RowInv, TicksAreTrue, ReadWasDelivered
  <2> QED BY <1>2, <1>3, <2>5, <2>6, <2>7 DEF RowInv
<1> QED BY <1>4, <1>5

\* One more copy is accepted.
LEMMA RowWire ==
  ASSUME RowInv, WireAccepts \/ WireTimesOut
  PROVE  RowInv'
<1> USE MessageStatusAssumption DEF row
<1>1. /\ copies + 1 \in Copies
      /\ copies' = copies + 1
      /\ seen' = [seen EXCEPT ![copies + 1] = "sent"]
      /\ callback' = [callback EXCEPT ![<<copies + 1, "sent">>] = "queued"]
      /\ UNCHANGED <<row, shutdowns, overlapped, retries>>
      /\ job = "wire"
  BY DEF RowInv, TypeOK, Copies, WireAccepts, WireTimesOut, Accepted
<1>2. TypeOK'
  <2>1. callback' \in [Copies \X Reports -> {"none", "queued", "writing", "done"}]
    BY <1>1 DEF RowInv, TypeOK, Reports
  <2>2. seen' \in [Copies -> {"none", "sent", "delivered", "read", "failed"}]
    BY <1>1 DEF RowInv, TypeOK
  <2>3. copies' \in 0..MaxCopies
    BY <1>1 DEF RowInv, TypeOK, Copies
  <2>4. /\ job' \in {"none", "queued", "wire", "recording", "failing", "recorded", "done"}
        /\ reply' \in 0..MaxCopies /\ lost' \in Nat
    BY <1>1, <2>3 DEF RowInv, TypeOK, WireAccepts, WireTimesOut
  <2> QED BY <1>1, <2>1, <2>2, <2>3, <2>4 DEF RowInv, TypeOK
<1>3. \A c \in Copies : c # copies + 1 => seen'[c] = seen[c]
  BY <1>1 DEF RowInv, TypeOK
<1>4. \A c \in Copies, report \in Reports :
        report # "sent" => callback'[<<c, report>>] = callback[<<c, report>>]
  BY <1>1 DEF RowInv, TypeOK
<1>5. copies \in Nat /\ wa_message_id \in Nat /\ wa_message_id # copies + 1
  BY DEF RowInv, TypeOK, RowOfCopy
<1>6. wa_message_id # 0 => wa_message_id \in Copies /\ seen'[wa_message_id] = seen[wa_message_id]
  BY <1>3, <1>5 DEF RowInv, TypeOK, Copies
<1>7. RowOfCopy' /\ HeldCopy'
  BY <1>1, <1>5 DEF RowInv, RowOfCopy, HeldCopy, WireAccepts, WireTimesOut
<1>8. FutureCopies'
  BY <1>1, <1>3, <1>5 DEF RowInv, FutureCopies, Copies
<1>9. ReportsAreTrue'
  <2> SUFFICES ASSUME NEW c \in Copies
               PROVE  /\ callback'[<<c, "delivered">>] # "none" => seen'[c] \in {"delivered", "read"}
                      /\ callback'[<<c, "read">>] # "none" => seen'[c] = "read"
                      /\ callback'[<<c, "failed">>] # "none" => seen'[c] = "failed"
    BY DEF ReportsAreTrue
  <2>1. \A report \in {"delivered", "read", "failed"} :
          callback'[<<c, report>>] = callback[<<c, report>>]
    BY <1>4 DEF Reports
  <2>2. c = copies + 1 => seen[c] = "none"
    BY <1>5 DEF RowInv, FutureCopies
  <2> QED BY <1>3, <2>1, <2>2 DEF RowInv, ReportsAreTrue
<1>10. ResentAfterFailure'
  <2>1. Resending
    BY <1>1 DEF Resending
  <2>2. wa_message_id # 0 => callback'[<<wa_message_id, "failed">>] = callback[<<wa_message_id, "failed">>]
    BY <1>4, <1>6 DEF Reports
  <2> QED BY <1>1, <1>6, <2>1, <2>2 DEF RowInv, ResentAfterFailure
<1>11. WritersTrackRow'
  BY <1>1, <1>4 DEF RowInv, TypeOK, WritersTrackRow
<1>12. TicksAreTrue' /\ ReadWasDelivered'
  BY <1>1, <1>6 DEF RowInv, TicksAreTrue, ReadWasDelivered, RowOfCopy
<1> QED BY <1>2, <1>7, <1>8, <1>9, <1>10, <1>11, <1>12 DEF RowInv

\* WhatsApp moves a copy on and queues the report.
LEMMA RowCopy ==
  ASSUME RowInv, NEW c \in Copies, CopyAdvances(c)
  PROVE  RowInv'
<1> USE DEF row, send
<1>1. PICK now \in {"delivered", "read", "failed"} :
        /\ seen' = [seen EXCEPT ![c] = now]
        /\ callback' = [callback EXCEPT ![<<c, now>>] = "queued"]
        /\ seen[c] \in {"sent", "delivered"}
        /\ now = "read" <=> seen[c] = "delivered"
  BY DEF CopyAdvances, RowInv, TypeOK
<1>2. UNCHANGED <<row, send, overlapped, retries>>
  BY DEF CopyAdvances
<1>3. TypeOK'
  BY <1>1, <1>2 DEF RowInv, TypeOK, Reports
<1>4. RowOfCopy' /\ HeldCopy'
  BY <1>2 DEF RowInv, RowOfCopy, HeldCopy
<1>5. FutureCopies'
  BY <1>1, <1>2 DEF RowInv, FutureCopies, TypeOK
<1>6. \A d \in Copies, report \in Reports :
        <<d, report>> # <<c, now>> => callback'[<<d, report>>] = callback[<<d, report>>]
  BY <1>1 DEF RowInv, TypeOK
<1>7. seen'[c] = now /\ \A d \in Copies : d # c => seen'[d] = seen[d]
  BY <1>1 DEF RowInv, TypeOK
<1>8. ReportsAreTrue'
  <2> SUFFICES ASSUME NEW d \in Copies
               PROVE  /\ callback'[<<d, "delivered">>] # "none" => seen'[d] \in {"delivered", "read"}
                      /\ callback'[<<d, "read">>] # "none" => seen'[d] = "read"
                      /\ callback'[<<d, "failed">>] # "none" => seen'[d] = "failed"
    BY DEF ReportsAreTrue
  <2>1. CASE d # c
    <3>1. \A report \in {"delivered", "read", "failed"} :
            callback'[<<d, report>>] = callback[<<d, report>>]
      BY <1>6, <2>1 DEF Reports
    <3> QED BY <1>7, <2>1, <3>1 DEF RowInv, ReportsAreTrue
  <2>2. CASE d = c
    <3>1. \A report \in {"delivered", "read", "failed"} :
            report # now => callback'[<<c, report>>] = callback[<<c, report>>]
      <4> SUFFICES ASSUME NEW report \in {"delivered", "read", "failed"}, report # now
                   PROVE  callback'[<<c, report>>] = callback[<<c, report>>]
        OBVIOUS
      <4>1. report \in Reports /\ <<c, report>> # <<c, now>>
        BY DEF Reports
      <4> QED BY <1>6, <4>1
    <3> QED BY <1>1, <1>7, <2>2, <3>1 DEF RowInv, ReportsAreTrue
  <2> QED BY <2>1, <2>2
<1>9. ResentAfterFailure'
  <2> SUFFICES ASSUME wa_message_id # 0, Resending
               PROVE  /\ seen'[wa_message_id] = "failed"
                      /\ callback'[<<wa_message_id, "failed">>] = "done"
    BY <1>2 DEF ResentAfterFailure, Resending
  <2>1. /\ wa_message_id \in Copies
        /\ seen[wa_message_id] = "failed"
        /\ callback[<<wa_message_id, "failed">>] = "done"
    BY DEF RowInv, TypeOK, Copies, ResentAfterFailure
  <2>2. wa_message_id # c
    BY <1>1, <2>1
  <2> QED BY <1>6, <1>7, <2>1, <2>2 DEF Reports
<1>10. WritersTrackRow'
  <2> SUFFICES ASSUME NEW d \in Copies, NEW report \in Reports,
                      callback'[<<d, report>>] = "writing"
               PROVE  d = wa_message_id /\ report # "sent"
    BY <1>2 DEF WritersTrackRow
  <2>1. callback[<<d, report>>] = "writing"
    BY <1>1, <1>6 DEF RowInv, TypeOK, Reports
  <2> QED BY <2>1 DEF RowInv, WritersTrackRow
<1>11. TicksAreTrue' /\ ReadWasDelivered'
  <2>1. status \in {"delivered", "read"} => wa_message_id \in Copies
    BY DEF RowInv, TypeOK, RowOfCopy, Copies
  <2> QED BY <1>1, <1>2, <1>7, <2>1 DEF RowInv, TicksAreTrue, ReadWasDelivered
<1> QED BY <1>3, <1>4, <1>5, <1>8, <1>9, <1>10, <1>11 DEF RowInv

\* A callback reads and decides.
LEMMA RowRead ==
  ASSUME RowInv, NEW c \in Copies, NEW report \in Reports, CallbackReads(c, report)
  PROVE  RowInv'
<1> USE DEF row, send
<1>1. PICK then \in {"writing", "done"} :
        /\ callback' = [callback EXCEPT ![<<c, report>>] = then]
        /\ then = "writing" => wa_message_id = c /\ Advances(report)
  BY DEF CallbackReads
<1>2. UNCHANGED <<row, send, seen, retries>> /\ callback[<<c, report>>] = "queued"
  BY DEF CallbackReads
<1>3. TypeOK'
  <2>1. overlapped' \in BOOLEAN
    BY DEF CallbackReads
  <2> QED BY <1>1, <1>2, <2>1 DEF RowInv, TypeOK
<1>4. RowOfCopy' /\ HeldCopy' /\ FutureCopies' /\ TicksAreTrue' /\ ReadWasDelivered'
  BY <1>2 DEF RowInv, RowOfCopy, HeldCopy, FutureCopies, TicksAreTrue, ReadWasDelivered
<1>5. /\ callback'[<<c, report>>] = then
      /\ \A d \in Copies, r \in Reports :
           <<d, r>> # <<c, report>> => callback'[<<d, r>>] = callback[<<d, r>>]
  BY <1>1 DEF RowInv, TypeOK
<1>6. ReportsAreTrue'
  <2>1. \A d \in Copies, r \in Reports :
          callback'[<<d, r>>] # "none" => callback[<<d, r>>] # "none"
    BY <1>2, <1>5
  <2> QED BY <1>2, <2>1 DEF RowInv, ReportsAreTrue, Reports
<1>7. ResentAfterFailure'
  <2>1. wa_message_id # 0 => wa_message_id \in Copies
    BY DEF RowInv, TypeOK, Copies
  <2>2. \A d \in Copies, r \in Reports :
          callback[<<d, r>>] = "done" => callback'[<<d, r>>] = "done"
    BY <1>2, <1>5
  <2> QED BY <1>2, <2>1, <2>2 DEF RowInv, ResentAfterFailure, Resending, Reports
<1>8. WritersTrackRow'
  <2>1. then = "writing" => report # "sent"
    <3>1. then = "writing" => wa_message_id # 0 /\ Advances(report)
      BY <1>1 DEF Copies
    <3>2. wa_message_id # 0 => status \in Reports
      BY DEF RowInv, RowOfCopy
    <3> QED BY <3>1, <3>2 DEF Advances, Rank, Reports
  <2> QED BY <1>1, <1>2, <1>5, <2>1 DEF RowInv, WritersTrackRow
<1> QED BY <1>3, <1>4, <1>6, <1>7, <1>8 DEF RowInv

\* ... and writes.
LEMMA RowWrite ==
  ASSUME RowInv, NEW c \in Copies, NEW report \in Reports, CallbackWrites(c, report)
  PROVE  RowInv'
<1> USE DEF row, send
<1>1. /\ UNCHANGED <<wa_message_id, send, seen, overlapped, retries>>
      /\ callback[<<c, report>>] = "writing"
      /\ callback' = [callback EXCEPT ![<<c, report>>] = "done"]
      /\ status' = report
      /\ delivered_at' = (delivered_at \/ report \in {"delivered", "read"})
      /\ read_at' = (read_at \/ report = "read")
  BY DEF CallbackWrites
<1>2. c = wa_message_id /\ report # "sent" /\ c # 0
  BY <1>1 DEF RowInv, WritersTrackRow, Copies
<1>3. TypeOK'
  BY <1>1 DEF RowInv, TypeOK
<1>4. /\ callback'[<<c, report>>] = "done"
      /\ \A d \in Copies, r \in Reports :
           <<d, r>> # <<c, report>> => callback'[<<d, r>>] = callback[<<d, r>>]
  BY <1>1 DEF RowInv, TypeOK
<1>5. RowOfCopy' /\ HeldCopy' /\ FutureCopies'
  BY <1>1, <1>2 DEF RowInv, RowOfCopy, HeldCopy, FutureCopies, Reports
<1>6. ReportsAreTrue'
  <2>1. \A d \in Copies, r \in Reports :
          callback'[<<d, r>>] # "none" => callback[<<d, r>>] # "none"
    BY <1>1, <1>4
  <2> QED BY <1>1, <2>1 DEF RowInv, ReportsAreTrue, Reports
<1>7. report \in {"delivered", "read"} => seen[c] \in {report, "read"}
  BY <1>1 DEF RowInv, ReportsAreTrue
<1>8. report = "failed" => seen[c] = "failed"
  BY <1>1 DEF RowInv, ReportsAreTrue
<1>9. ResentAfterFailure'
  <2> SUFFICES ASSUME Resending'
               PROVE  seen[c] = "failed" /\ callback'[<<c, "failed">>] = "done"
    BY <1>1, <1>2 DEF ResentAfterFailure
  <2>1. CASE report = "failed"
    BY <1>4, <1>8, <2>1
  <2>2. CASE report # "failed"
    <3>1. seen[c] = "failed" /\ callback[<<c, "failed">>] = "done"
      BY <1>1, <1>2, <2>2 DEF RowInv, ResentAfterFailure, Resending
    <3> QED BY <1>4, <3>1 DEF Reports
  <2> QED BY <2>1, <2>2
<1>10. WritersTrackRow'
  BY <1>1, <1>4 DEF RowInv, WritersTrackRow
<1>11. TicksAreTrue'
  BY <1>1, <1>2, <1>7 DEF TicksAreTrue
<1>12. ReadWasDelivered'
  BY <1>1 DEF RowInv, ReadWasDelivered, TypeOK
<1> QED BY <1>3, <1>5, <1>6, <1>9, <1>10, <1>11, <1>12 DEF RowInv

\* Every step keeps the row invariant.
LEMMA RowStep ==
  ASSUME RowInv, [Next]_vars
  PROVE  RowInv'
<1>1. CASE UNCHANGED vars
  BY <1>1 DEF vars, row, send, calls, RowInv, TypeOK, RowOfCopy, HeldCopy, FutureCopies,
              ReportsAreTrue, Resending, ResentAfterFailure, WritersTrackRow, TicksAreTrue,
              ReadWasDelivered
<1> QED BY <1>1, RowJob, RowWire, RowCopy, RowRead, RowWrite DEF Next, SendJob

LEMMA RowCorrect == Spec => []RowInv
<1>1. RowInv /\ [Next]_vars => RowInv'
  BY RowStep
<1> QED BY RowInit, <1>1, PTL DEF Spec

\* Every variable keeps its type.
THEOREM TypeCorrect == Spec => []TypeOK
<1>1. RowInv => TypeOK BY DEF RowInv
<1> QED BY RowCorrect, <1>1, PTL

\* The ticks on the row are those of the copy it tracks, whatever crossed.
THEOREM TicksCorrect == Spec => []TicksAreTrue
<1>1. RowInv => TicksAreTrue BY DEF RowInv
<1> QED BY RowCorrect, <1>1, PTL

\* A message that was read counts as delivered.
THEOREM ReadCorrect == Spec => []ReadWasDelivered
<1>1. RowInv => ReadWasDelivered BY DEF RowInv
<1> QED BY RowCorrect, <1>1, PTL

-----------------------------------------------------------------------------
(* The ticks go back only where two callbacks have overlapped. *)

\* As long as no two callbacks have overlapped, one of them writes at a time,
\* and what it decided from the row still holds.
OneWriter ==
  ~overlapped =>
    \A c \in Copies, report \in Reports :
      callback[<<c, report>>] = "writing" =>
        /\ Advances(report)
        /\ \A d \in Copies, other \in Reports :
             callback[<<d, other>>] = "writing" => d = c /\ other = report

\* A callback that starts to write, and has not overlapped, is alone.
LEMMA AloneWhenWriting ==
  ASSUME TypeOK, ~(Writing >= 1), NEW c \in Copies, NEW report \in Reports
  PROVE  callback[<<c, report>>] # "writing"
<1> DEFINE writers == {j \in DOMAIN callback : callback[j] = "writing"}
<1>1. IsFiniteSet(DOMAIN callback)
  <2>1. IsFiniteSet(Copies)
    BY FS_Interval, MessageStatusAssumption DEF Copies
  <2>2. IsFiniteSet(Reports)
    <3>1. IsFiniteSet({"sent", "delivered"})
      <4>1. IsFiniteSet({"sent"})
        BY FS_Singleton
      <4>2. IsFiniteSet({"sent"} \union {"delivered"})
        BY <4>1, FS_AddElement
      <4>3. {"sent", "delivered"} = {"sent"} \union {"delivered"}
        OBVIOUS
      <4> QED BY <4>2, <4>3
    <3>2. IsFiniteSet({"sent", "delivered", "read"})
      BY <3>1, FS_AddElement,
         {"sent", "delivered", "read"} = {"sent", "delivered"} \union {"read"}
    <3> QED BY <3>2, FS_AddElement,
               Reports = {"sent", "delivered", "read"} \union {"failed"} DEF Reports
  <2>3. IsFiniteSet(Copies \X Reports)
    BY <2>1, <2>2, FS_Product
  <2> QED BY <2>3 DEF TypeOK
<1>2. IsFiniteSet(writers)
  BY <1>1, FS_Subset
<1>3. Cardinality(writers) \in Nat
  BY <1>2, FS_CardinalityType
<1>4. writers = {}
  BY <1>2, <1>3, FS_EmptySet DEF Writing
<1>5. <<c, report>> \in DOMAIN callback
  BY DEF TypeOK
<1> QED BY <1>4, <1>5

\* Every step keeps it.
LEMMA OneWriterStep ==
  ASSUME RowInv, OneWriter, [Next]_vars
  PROVE  OneWriter'
<1> USE DEF row, send, calls
<1> SUFFICES ASSUME ~overlapped'
             PROVE  \A c \in Copies, report \in Reports :
                      callback'[<<c, report>>] = "writing" =>
                        /\ Advances(report)'
                        /\ \A d \in Copies, other \in Reports :
                             callback'[<<d, other>>] = "writing" => d = c /\ other = report
  BY DEF OneWriter
<1>1. ~overlapped
  BY DEF Next, SendMessage, Riprova, SendJob, Shutdown, CopyAdvances, CallbackReads,
         CallbackWrites, Start, PrecheckFails, WireAccepts, WireTimesOut, WireRefuses,
         RecordSent, RecordFailed, Finish, vars
<1>a. ASSUME status' = status,
             \A c \in Copies, report \in Reports :
               callback'[<<c, report>>] = "writing" => callback[<<c, report>>] = "writing"
      PROVE  OneWriter'
  <2>1. ASSUME NEW report \in Reports PROVE Advances(report)' <=> Advances(report)
    BY <1>a DEF Advances
  <2> SUFFICES ASSUME NEW c \in Copies, NEW report \in Reports,
                      callback'[<<c, report>>] = "writing"
               PROVE  /\ Advances(report)'
                      /\ \A d \in Copies, other \in Reports :
                           callback'[<<d, other>>] = "writing" => d = c /\ other = report
    BY DEF OneWriter
  <2>2. callback[<<c, report>>] = "writing"
    BY <1>a
  <2>3. Advances(report) /\ \A d \in Copies, other \in Reports :
          callback[<<d, other>>] = "writing" => d = c /\ other = report
    BY <1>1, <2>2 DEF OneWriter
  <2>4. Advances(report)'
    BY <2>1, <2>3
  <2> QED BY <1>a, <2>3, <2>4
<1>2. ASSUME UNCHANGED <<status, callback>> PROVE OneWriter'
  BY <1>a, <1>2
<1>3. ASSUME UNCHANGED callback, wa_message_id = 0 \/ Resending PROVE OneWriter'
  BY <1>3, NoWriter DEF OneWriter
<1>4. CASE SendMessage \/ PrecheckFails \/ RecordSent \/ RecordFailed
  <2>1. UNCHANGED callback /\ (wa_message_id = 0 \/ Resending)
    BY <1>4 DEF SendMessage, PrecheckFails, RecordSent, RecordFailed, Sendable, Resending,
                RowInv, RowOfCopy, Reports
  <2> QED BY <1>3, <2>1 DEF OneWriter
<1>5. CASE Riprova \/ Start \/ WireRefuses \/ Finish \/ Shutdown \/ UNCHANGED vars
  BY <1>2, <1>5 DEF Riprova, Start, WireRefuses, Finish, Shutdown, vars, OneWriter
<1>6. ASSUME status' = status,
             NEW j \in Copies \X Reports, NEW then \in {"queued", "done"},
             callback' = [callback EXCEPT ![j] = then]
      PROVE  OneWriter'
  <2>1. \A i \in Copies \X Reports : callback'[i] = "writing" => callback[i] = "writing"
    BY <1>6 DEF RowInv, TypeOK
  <2> QED BY <1>a, <1>6, <2>1
<1>7. CASE WireAccepts \/ WireTimesOut
  <2>1. <<copies + 1, "sent">> \in Copies \X Reports
    <3>1. copies < MaxCopies /\ copies \in 0..MaxCopies
      BY <1>7 DEF WireAccepts, WireTimesOut, Accepted, RowInv, TypeOK
    <3> QED BY <3>1, MessageStatusAssumption DEF Copies, Reports
  <2>2. status' = status /\ callback' = [callback EXCEPT ![<<copies + 1, "sent">>] = "queued"]
    BY <1>7 DEF WireAccepts, WireTimesOut, Accepted
  <2> QED BY <1>6, <2>1, <2>2 DEF OneWriter
<1>8. ASSUME NEW c \in Copies, CopyAdvances(c) PROVE OneWriter'
  <2>1. PICK now \in Reports : callback' = [callback EXCEPT ![<<c, now>>] = "queued"]
    BY <1>8 DEF CopyAdvances, Reports, RowInv, TypeOK
  <2> QED BY <1>6, <1>8, <2>1 DEF CopyAdvances
<1>9. ASSUME NEW c \in Copies, NEW report \in Reports, CallbackReads(c, report)
      PROVE  OneWriter'
  <2>1. \A d \in Copies, r \in Reports : callback[<<d, r>>] # "writing"
    BY <1>9, AloneWhenWriting DEF CallbackReads, RowInv
  <2>2. PICK then \in {"writing", "done"} :
          /\ callback' = [callback EXCEPT ![<<c, report>>] = then]
          /\ then = "writing" => Advances(report)
    BY <1>9 DEF CallbackReads
  <2>3. \A d \in Copies, r \in Reports :
          callback'[<<d, r>>] = "writing" => d = c /\ r = report /\ then = "writing"
    BY <2>1, <2>2 DEF RowInv, TypeOK
  <2>4. status' = status
    BY <1>9 DEF CallbackReads
  <2> QED BY <2>2, <2>3, <2>4 DEF OneWriter, Advances
<1>10. ASSUME NEW c \in Copies, NEW report \in Reports, CallbackWrites(c, report)
       PROVE  OneWriter'
  <2>1. \A d \in Copies, r \in Reports :
          callback[<<d, r>>] = "writing" => d = c /\ r = report
    BY <1>1, <1>10 DEF CallbackWrites, OneWriter
  <2>2. \A d \in Copies, r \in Reports : callback'[<<d, r>>] # "writing"
    BY <1>10, <2>1 DEF CallbackWrites, RowInv, TypeOK
  <2> QED BY <2>2 DEF OneWriter
<1> QED BY <1>4, <1>5, <1>7, <1>8, <1>9, <1>10 DEF Next, SendJob, OneWriter

\* Without an overlap the ticks never go back.
THEOREM OrderCorrect == Spec => OrderedIfSerial
<1>1. Init => OneWriter
  BY DEF Init, OneWriter, Reports
<1>2. RowInv /\ OneWriter /\ [Next]_vars => OneWriter'
  BY OneWriterStep
<1>3. RowInv /\ OneWriter /\ [Next]_vars
        => [status # "failed" /\ ~overlapped => Rank[status'] >= Rank[status]]_vars
  <2> SUFFICES ASSUME RowInv, OneWriter, [Next]_vars, status # "failed", ~overlapped
               PROVE  Rank[status'] >= Rank[status]
    OBVIOUS
  <2>1. status \in {"absent", "pending"} \union Reports
    BY DEF RowInv, TypeOK
  <2>2. CASE status' = status
    BY <2>1, <2>2 DEF Rank, Reports
  <2>3. CASE SendMessage \/ PrecheckFails \/ RecordFailed
    BY <2>1, <2>3 DEF SendMessage, PrecheckFails, RecordFailed, Rank, Reports
  <2>4. CASE RecordSent
    <3>1. status \notin {"delivered", "read"}
      BY <2>4 DEF RecordSent, RowInv, RowOfCopy, ResentAfterFailure, Resending, TicksAreTrue
    <3> QED BY <2>1, <2>4, <3>1 DEF RecordSent, Rank, Reports
  <2>5. ASSUME NEW c \in Copies, NEW report \in Reports, CallbackWrites(c, report)
        PROVE  Rank[status'] >= Rank[status]
    <3>1. Advances(report) /\ status' = report
      BY <2>5 DEF CallbackWrites, OneWriter
    <3> QED BY <2>1, <3>1 DEF Advances, Rank, Reports
  <2>6. \/ status' = status \/ SendMessage \/ PrecheckFails \/ RecordFailed \/ RecordSent
        \/ \E c \in Copies, report \in Reports : CallbackWrites(c, report)
    BY DEF Next, SendJob, Riprova, Start, WireAccepts, WireTimesOut, WireRefuses, Finish,
           Shutdown, CopyAdvances, CallbackReads, row, vars
  <2> QED BY <2>2, <2>3, <2>4, <2>5, <2>6
<1> QED BY RowCorrect, <1>1, <1>2, <1>3, PTL DEF Spec, OrderedIfSerial

-----------------------------------------------------------------------------
(* The customer receives one copy, and one more for every lost answer: the *)
(* copies other than the one that the row, or the job, knows of were lost. *)

Received == {c \in 1..copies : seen[c] # "failed"}
Known == IF job = "recording" THEN reply ELSE wa_message_id
CountInv == Cardinality(Received \ {Known}) <= lost

LEMMA ReceivedFinite ==
  ASSUME RowInv
  PROVE  /\ IsFiniteSet(Received)
         /\ IsFiniteSet(Received \ {Known})
         /\ Cardinality(Received \ {Known}) \in Nat
<1>1. IsFiniteSet(1..copies)
  BY FS_Interval DEF RowInv, TypeOK
<1>2. IsFiniteSet(Received)
  BY <1>1, FS_Subset DEF Received
<1>3. IsFiniteSet(Received \ {Known})
  BY <1>2, FS_RemoveElement
<1> QED BY <1>2, <1>3, FS_CardinalityType

\* Steps after which there are no more unknown copies than before.
LEMMA CountKept ==
  ASSUME RowInv, CountInv, Received' \ {Known'} \subseteq Received \ {Known}, lost' = lost
  PROVE  CountInv'
<1>1. /\ Cardinality(Received' \ {Known'}) <= Cardinality(Received \ {Known})
      /\ IsFiniteSet(Received' \ {Known'})
  BY ReceivedFinite, FS_Subset
<1>2. Cardinality(Received' \ {Known'}) \in Nat
  BY <1>1, FS_CardinalityType
<1> QED BY <1>1, <1>2, ReceivedFinite DEF CountInv, RowInv, TypeOK

\* Steps that lose the answer of one copy.
LEMMA CountLost ==
  ASSUME RowInv, CountInv, NEW c, Received' \ {Known'} \subseteq (Received \ {Known}) \union {c},
         lost' = lost + 1
  PROVE  CountInv'
<1> DEFINE more == (Received \ {Known}) \union {c}
<1>1. IsFiniteSet(more) /\ Cardinality(more) <= Cardinality(Received \ {Known}) + 1
  <2>1. /\ IsFiniteSet(Received \ {Known})
        /\ Cardinality(Received \ {Known}) \in Nat
    BY ReceivedFinite
  <2>2. /\ IsFiniteSet(more)
        /\ Cardinality(more) = IF c \in Received \ {Known} THEN Cardinality(Received \ {Known})
                              ELSE Cardinality(Received \ {Known}) + 1
    BY <2>1, FS_AddElement
  <2> QED BY <2>1, <2>2
<1>2. /\ Cardinality(Received' \ {Known'}) <= Cardinality(more)
      /\ IsFiniteSet(Received' \ {Known'})
  BY <1>1, FS_Subset
<1>3. Cardinality(Received' \ {Known'}) \in Nat /\ Cardinality(more) \in Nat
  BY <1>1, <1>2, FS_CardinalityType
<1> HIDE DEF more
<1> QED BY <1>1, <1>2, <1>3, ReceivedFinite DEF CountInv, RowInv, TypeOK

LEMMA CountStep ==
  ASSUME RowInv, CountInv, [Next]_vars
  PROVE  CountInv'
<1> USE DEF row, send, calls
<1>1. CASE WireAccepts
  <2>1. /\ copies' = copies + 1 /\ copies \in Nat /\ seen' = [seen EXCEPT ![copies + 1] = "sent"]
        /\ job = "wire" /\ job' = "recording" /\ reply' = copies + 1 /\ lost' = lost
    BY <1>1 DEF WireAccepts, Accepted, RowInv, TypeOK
  <2>2. \A c \in 1..copies : seen'[c] = seen[c]
    BY <2>1 DEF RowInv, TypeOK, Copies
  <2>3. Received' \ {Known'} \subseteq Received
    BY <2>1, <2>2 DEF Received, Known
  <2>4. Known \notin Received
    BY <2>1 DEF RowInv, ResentAfterFailure, Resending, Received, Known
  <2> QED BY <2>1, <2>3, <2>4, CountKept
<1>2. CASE WireTimesOut
  <2>1. /\ copies' = copies + 1 /\ copies \in Nat /\ seen' = [seen EXCEPT ![copies + 1] = "sent"]
        /\ job = "wire" /\ job' # "recording" /\ wa_message_id' = wa_message_id
        /\ lost' = lost + 1
    BY <1>2 DEF WireTimesOut, Accepted, RowInv, TypeOK
  <2>2. \A c \in 1..copies : seen'[c] = seen[c]
    BY <2>1 DEF RowInv, TypeOK, Copies
  <2>3. Received' \ {Known'} \subseteq (Received \ {Known}) \union {copies + 1}
    BY <2>1, <2>2 DEF Received, Known
  <2> QED BY <2>1, <2>3, CountLost
<1>3. CASE Shutdown
  <2>1. Received' = Received /\ Known' = wa_message_id
    BY <1>3 DEF Shutdown, Received, Known
  <2>2. CASE job = "recording"
    <3>1. Received' \ {Known'} \subseteq (Received \ {Known}) \union {reply}
      BY <2>1, <2>2 DEF Known
    <3>2. lost' = lost + 1
      BY <1>3, <2>2 DEF Shutdown
    <3> QED BY <3>1, <3>2, CountLost
  <2>3. CASE job # "recording"
    BY <1>3, <2>1, <2>3, CountKept DEF Shutdown, Known
  <2> QED BY <2>2, <2>3
<1>4. ASSUME NEW c \in Copies, CopyAdvances(c) PROVE CountInv'
  <2>1. UNCHANGED <<copies, job, reply, wa_message_id, lost>>
    BY <1>4 DEF CopyAdvances
  <2>2. \A d \in Copies : seen[d] = "failed" => seen'[d] = "failed"
    BY <1>4 DEF CopyAdvances, RowInv, TypeOK
  <2>3. 1..copies \subseteq Copies
    BY MessageStatusAssumption DEF RowInv, TypeOK, Copies
  <2>4. Received' \ {Known'} \subseteq Received \ {Known}
    BY <2>1, <2>2, <2>3 DEF Received, Known
  <2> QED BY <2>1, <2>4, CountKept
<1>5. CASE RecordSent
  BY <1>5, CountKept DEF RecordSent, Received, Known
<1>9. CASE SendMessage
  <2>1. job # "recording" /\ job' # "recording"
    BY <1>9 DEF SendMessage, RowInv, RowOfCopy
  <2> QED BY <1>9, <2>1, CountKept DEF SendMessage, Received, Known
<1>6. CASE Riprova \/ Start \/ PrecheckFails \/ WireRefuses \/ RecordFailed
             \/ Finish
  BY <1>6, CountKept DEF Riprova, Start, PrecheckFails, WireRefuses, RecordFailed,
                         Finish, Received, Known
<1>7. ASSUME NEW c \in Copies, NEW report \in Reports,
             CallbackReads(c, report) \/ CallbackWrites(c, report)
      PROVE  CountInv'
  BY <1>7, CountKept DEF CallbackReads, CallbackWrites, Received, Known
<1>8. CASE UNCHANGED vars
  BY <1>8, CountKept DEF vars, Received, Known
<1> QED BY <1>1, <1>2, <1>3, <1>4, <1>5, <1>6, <1>7, <1>8, <1>9 DEF Next, SendJob

\* No more copies reach the customer than lost answers explain.
THEOREM CopiesCorrect == Spec => []OneCopyPerLostAnswer
<1>1. Init => CountInv
  <2> SUFFICES ASSUME Init PROVE CountInv
    OBVIOUS
  <2>1. Received \ {Known} = {}
    BY DEF Init, Received
  <2> QED BY <2>1, FS_EmptySet DEF Init, CountInv
<1>2. RowInv /\ CountInv /\ [Next]_vars => CountInv'
  BY CountStep
<1>3. RowInv /\ CountInv => OneCopyPerLostAnswer
  <2> SUFFICES ASSUME RowInv, CountInv PROVE Cardinality(Received) <= 1 + lost
    BY DEF OneCopyPerLostAnswer, Received
  <2>1. Cardinality(Received) \in Nat
    BY ReceivedFinite, FS_CardinalityType
  <2>2. Cardinality(Received \ {Known}) =
          IF Known \in Received THEN Cardinality(Received) - 1 ELSE Cardinality(Received)
    BY ReceivedFinite, FS_RemoveElement
  <2> QED BY <2>1, <2>2 DEF CountInv, RowInv, TypeOK
<1> QED BY RowCorrect, <1>1, <1>2, <1>3, PTL DEF Spec

=============================================================================
