---------------------------- MODULE MessageStatus ----------------------------
(***************************************************************************)
(* One message an operator writes in the inbox composer: its row, the ARQ  *)
(* job that puts it on the wire, the copies WhatsApp accepted of it, and   *)
(* the status callbacks, each a job of its own that reads the row, decides *)
(* and writes, with no lock in between.                                    *)
(***************************************************************************)
EXTENDS Integers, FiniteSets

CONSTANTS MaxCopies,     \* bound: copies WhatsApp accepts
          MaxShutdowns,  \* bound: worker shutdowns that interrupt the send job
          MaxRetries,    \* bound: clicks on Riprova
          Faults         \* which of PossibleFaults may happen

PossibleFaults == {"enqueue", "precheck", "refused", "timeout", "shutdown"}

ASSUME MessageStatusAssumption ==
  /\ MaxCopies \in Nat \ {0}
  /\ MaxShutdowns \in Nat
  /\ MaxRetries \in Nat
  /\ Faults \subseteq PossibleFaults

Copies == 1..MaxCopies
Reports == {"sent", "delivered", "read", "failed"}
Rank ==
  [none |-> 0, absent |-> 0, pending |-> 0, sent |-> 1, delivered |-> 2, read |-> 3, failed |-> 99]

VARIABLES
  \* the messages row
  status,        \* "absent" until the POST
  wa_message_id, \* the copy whose callbacks are matched, 0 for NULL
  delivered_at, read_at,   \* are they set?
  \* the send job
  job,
  reply,         \* the copy whose id the job holds, 0 for none
  shutdowns,
  \* WhatsApp
  copies,        \* how many copies were accepted
  seen,          \* what became of each copy
  lost,          \* copies accepted by an attempt whose answer was lost
  \* the callbacks
  callback,      \* the job of each copy and report
  overlapped,    \* two callbacks have been between their read and write at once
  retries        \* clicks on Riprova

row == <<status, wa_message_id, delivered_at, read_at>>
send == <<job, reply, shutdowns, copies, lost>>
calls == <<callback, overlapped>>
vars == <<row, send, seen, calls, retries>>

TypeOK ==
  /\ status \in {"absent", "pending"} \union Reports
  /\ wa_message_id \in 0..MaxCopies
  /\ delivered_at \in BOOLEAN
  /\ read_at \in BOOLEAN
  /\ job \in {"none", "queued", "wire", "recording", "failing", "recorded", "done"}
  /\ reply \in 0..MaxCopies
  /\ shutdowns \in Nat
  /\ copies \in 0..MaxCopies
  /\ seen \in [Copies -> {"none", "sent", "delivered", "read", "failed"}]
  /\ lost \in Nat
  /\ callback \in [Copies \X Reports -> {"none", "queued", "writing", "done"}]
  /\ overlapped \in BOOLEAN
  /\ retries \in Nat

Init ==
  /\ status = "absent"
  /\ wa_message_id = 0
  /\ delivered_at = FALSE
  /\ read_at = FALSE
  /\ job = "none"
  /\ reply = 0
  /\ shutdowns = 0
  /\ copies = 0
  /\ seen = [c \in Copies |-> "none"]
  /\ lost = 0
  /\ callback = [j \in Copies \X Reports |-> "none"]
  /\ overlapped = FALSE
  /\ retries = 0

-----------------------------------------------------------------------------
(* The API. *)

\* The POST: the row is committed, then the job enqueued; an enqueue that
\* fails is logged and forgotten.
SendMessage ==
  /\ status = "absent"
  /\ status' = "pending"
  /\ \/ job' = "queued"
     \/ "enqueue" \in Faults /\ UNCHANGED job
  /\ UNCHANGED <<wa_message_id, delivered_at, read_at, reply, shutdowns, copies, lost,
                 seen, calls, retries>>

\* Riprova posts the same client_message_id: the row is found and returned.
Riprova ==
  /\ status = "failed"
  /\ retries < MaxRetries
  /\ retries' = retries + 1
  /\ UNCHANGED <<row, send, seen, calls>>

-----------------------------------------------------------------------------
(* send_outbound_whatsapp. *)

\* Mutant: the job is run again without a look at the status.
SendableAlways == TRUE

\* A message that has left is not sent twice.
Sendable == status \in {"pending", "failed"}

Start ==
  /\ job = "queued"
  /\ job' = IF Sendable THEN "wire" ELSE "done"
  /\ UNCHANGED <<row, reply, shutdowns, copies, lost, seen, calls, retries>>

\* No routing, no integration, or free text outside of the 24h window.
PrecheckFails ==
  /\ "precheck" \in Faults
  /\ job = "queued"
  /\ Sendable
  /\ status' = "failed"
  /\ job' = "recorded"
  /\ UNCHANGED <<wa_message_id, delivered_at, read_at, reply, shutdowns, copies, lost,
                 seen, calls, retries>>

\* One more copy is on its way to the customer.
Accepted ==
  /\ copies < MaxCopies
  /\ copies' = copies + 1
  /\ seen' = [seen EXCEPT ![copies + 1] = "sent"]
  /\ callback' = [callback EXCEPT ![<<copies + 1, "sent">>] = "queued"]

WireAccepts ==
  /\ job = "wire"
  /\ Accepted
  /\ job' = "recording"
  /\ reply' = copies + 1
  /\ UNCHANGED <<row, shutdowns, lost, overlapped, retries>>

\* The answer is lost on the way: the client posts again, or gives up.
WireTimesOut ==
  /\ "timeout" \in Faults
  /\ job = "wire"
  /\ Accepted
  /\ lost' = lost + 1
  /\ job' \in {"wire", "failing"}
  /\ UNCHANGED <<row, reply, shutdowns, overlapped, retries>>

\* Mutant: the exception escapes and ends the job.
WireRefusesUncaught ==
  /\ "refused" \in Faults
  /\ job = "wire"
  /\ job' = "done"
  /\ UNCHANGED <<row, reply, shutdowns, copies, lost, seen, calls, retries>>

\* A 4xx, or the last of the attempts.
WireRefuses ==
  /\ "refused" \in Faults
  /\ job = "wire"
  /\ job' = "failing"
  /\ UNCHANGED <<row, reply, shutdowns, copies, lost, seen, calls, retries>>

RecordSent ==
  /\ job = "recording"
  /\ status' = "sent"
  /\ wa_message_id' = reply
  /\ job' = "recorded"
  /\ UNCHANGED <<delivered_at, read_at, reply, shutdowns, copies, lost, seen, calls,
                 retries>>

\* Mutant: the error code lands in the status column.
RecordFailedCode ==
  /\ job = "failing"
  /\ status' = "send_failed"
  /\ job' = "recorded"
  /\ UNCHANGED <<wa_message_id, delivered_at, read_at, reply, shutdowns, copies, lost,
                 seen, calls, retries>>

\* _mark_failed.
RecordFailed ==
  /\ job = "failing"
  /\ status' = "failed"
  /\ job' = "recorded"
  /\ UNCHANGED <<wa_message_id, delivered_at, read_at, reply, shutdowns, copies, lost,
                 seen, calls, retries>>

Finish ==
  /\ job = "recorded"
  /\ job' = "done"
  /\ UNCHANGED <<row, reply, shutdowns, copies, lost, seen, calls, retries>>

\* A worker shutdown: ARQ runs the job again, whatever it had done.
Shutdown ==
  /\ "shutdown" \in Faults
  /\ shutdowns < MaxShutdowns
  /\ shutdowns' = shutdowns + 1
  /\ job \in {"wire", "recording", "failing", "recorded"}
  /\ job' = "queued"
  /\ lost' = IF job = "recording" THEN lost + 1 ELSE lost
  /\ UNCHANGED <<row, reply, copies, seen, calls, retries>>

-----------------------------------------------------------------------------
(* WhatsApp and its callbacks. *)

\* A copy makes its way; each report is one job, in no order.
CopyAdvances(c) ==
  /\ \/ seen[c] = "sent" /\ seen' = [seen EXCEPT ![c] = "delivered"]
     \/ seen[c] = "sent" /\ seen' = [seen EXCEPT ![c] = "failed"]
     \/ seen[c] = "delivered" /\ seen' = [seen EXCEPT ![c] = "read"]
  /\ callback' = [callback EXCEPT ![<<c, seen'[c]>>] = "queued"]
  /\ UNCHANGED <<row, send, overlapped, retries>>

\* Mutant: the ranks are not compared.
AdvancesAlways(report) == status # "failed"

\* A failure is terminal, everything else only climbs.
Advances(report) ==
  /\ status # "failed"
  /\ report = "failed" \/ Rank[report] > Rank[status]

\* Callbacks between their read and their write.
Writing == Cardinality({j \in DOMAIN callback : callback[j] = "writing"})

\* Mutant: the row is found without the id of the copy.
CallbackReadsAnyCopy(c, report) ==
  /\ callback[<<c, report>>] = "queued"
  /\ callback' = [callback EXCEPT ![<<c, report>>] =
                    IF wa_message_id # 0 /\ Advances(report) THEN "writing" ELSE "done"]
  /\ overlapped' = (overlapped \/ Writing >= 1)
  /\ UNCHANGED <<row, send, seen, retries>>

\* update_outbound_status reads the row: it is missing as long as the id is
\* not stored.
CallbackReads(c, report) ==
  /\ callback[<<c, report>>] = "queued"
  /\ callback' = [callback EXCEPT ![<<c, report>>] =
                    IF wa_message_id = c /\ Advances(report) THEN "writing" ELSE "done"]
  /\ overlapped' = (overlapped \/ Writing >= 1)
  /\ UNCHANGED <<row, send, seen, retries>>

\* Mutant: a read receipt does not imply a delivery.
CallbackWritesOneStamp(c, report) ==
  /\ callback[<<c, report>>] = "writing"
  /\ callback' = [callback EXCEPT ![<<c, report>>] = "done"]
  /\ status' = report
  /\ delivered_at' = (delivered_at \/ report = "delivered")
  /\ read_at' = (read_at \/ report = "read")
  /\ UNCHANGED <<wa_message_id, send, seen, overlapped, retries>>

\* ... and writes what it decided, by the id of the row.
CallbackWrites(c, report) ==
  /\ callback[<<c, report>>] = "writing"
  /\ callback' = [callback EXCEPT ![<<c, report>>] = "done"]
  /\ status' = report
  /\ delivered_at' = (delivered_at \/ report \in {"delivered", "read"})
  /\ read_at' = (read_at \/ report = "read")
  /\ UNCHANGED <<wa_message_id, send, seen, overlapped, retries>>

-----------------------------------------------------------------------------
SendJob ==
  \/ Start \/ PrecheckFails
  \/ WireAccepts \/ WireTimesOut \/ WireRefuses
  \/ RecordSent \/ RecordFailed \/ Finish

Next ==
  \/ SendMessage \/ Riprova
  \/ SendJob \/ Shutdown
  \/ \E c \in Copies : CopyAdvances(c)
  \/ \E c \in Copies, report \in Reports : CallbackReads(c, report) \/ CallbackWrites(c, report)

Spec == Init /\ [][Next]_vars

\* ARQ runs what it has queued.  WhatsApp owes nothing.
FairSpec == Spec /\ WF_vars(SendJob)

-----------------------------------------------------------------------------
(* Properties. *)

\* The customer receives one copy of a message, and one more for every attempt
\* whose answer was lost: a job that is run again never resends what is sent.
OneCopyPerLostAnswer ==
  Cardinality({c \in 1..copies : seen[c] # "failed"}) <= 1 + lost

\* The ticks the inbox shows are those of the copy the row tracks, whichever
\* copies, callbacks and runs of the job crossed.
TicksAreTrue ==
  status \in {"delivered", "read"} => seen[wa_message_id] \in {status, "read"}

\* A message that was read counts as delivered, though its delivery report came
\* late, was dropped or never came.
ReadWasDelivered == read_at => delivered_at

\* The ticks never go back.
StatusMonotonic == [][status # "failed" => Rank[status'] >= Rank[status]]_vars

\* The ticks go back only where two callbacks have overlapped: late reports, runs
\* of the send job and second copies are no danger to them.
OrderedIfSerial ==
  [][status # "failed" /\ ~overlapped => Rank[status'] >= Rank[status]]_vars

\* A click on Riprova has the message sent again.
RiprovaResends == [][retries' > retries => job' = "queued"]_vars

\* The row of a message whose job was queued does not stay pending.
EventuallySettled == (status = "pending" /\ job = "queued") ~> (status # "pending")

=============================================================================
