---------------------------- MODULE AutomationRun ----------------------------
(***************************************************************************)
(* The runs of one automation: automation_run, its dedup keys and the      *)
(* deferred runs of its wait nodes.  The graph is send, wait, send.        *)
(*                                                                         *)
(* The dispatcher enqueues an event's run again with every dispatch that   *)
(* has the event in view, which on a quiet system is every minute; a key   *)
(* in Redis tells the copies apart.  A run claims it for PendingTTL, and   *)
(* has it live for DedupTTL once it has finished.  ARQ does not run a job  *)
(* again that raises or times out, and does if a shutdown interrupts it.   *)
(***************************************************************************)
EXTENDS Integers, FiniteSets

CONSTANTS Triggers,    \* events the dispatcher has in view
          Runners,     \* jobs the worker runs at a time
          PendingTTL,  \* _DEDUP_PENDING_TTL
          DedupTTL,    \* _DEDUP_TTL
          JobTimeout,  \* ARQ cuts a job off after it
          Wait,        \* wait_minutes of the node
          MaxNow,      \* bound: the instants of the model
          MaxQueued,   \* bound: copies of one job that wait in the queue
          MaxCut       \* bound: runs cut short

ASSUME RunAssumption ==
  /\ {PendingTTL, DedupTTL, JobTimeout, MaxNow} \subseteq Nat \ {0}
  /\ {Wait, MaxQueued, MaxCut} \subseteq Nat
  /\ JobTimeout <= PendingTTL
  /\ PendingTTL <= DedupTTL

Instants == 0..MaxNow
Segments == {"base", "cont"}
Keys == Triggers \X Segments
NoKey == <<>>

VARIABLES
  now,
  active,     \* the automation is enabled, its context resolves, its episode goes on
  key,        \* when auto:dedup:<key> expires, 0 when it was never set
  jobs,       \* automation_run jobs in the queue, per key
  deferred,   \* start times of the deferred ones, per event
  rpc,        \* where each run is
  rkey,       \* its key
  rsince,     \* when it began
  \* history
  sends,      \* messages sent, per key
  cut,        \* runs cut short, per key
  skipped,    \* keys of which a run returned early
  finished    \* when the last run of a key finished, 0 for never

runs == <<rpc, rkey, rsince>>
runVars == <<now, active, key, jobs, deferred, runs, sends, cut, skipped, finished>>

RunTypeOK ==
  /\ now \in Instants
  /\ active \in BOOLEAN
  /\ key \in [Keys -> Nat]
  /\ jobs \in [Keys -> 0..MaxQueued]
  /\ deferred \in [Triggers -> SUBSET Nat]
  /\ rpc \in [Runners -> {"idle", "claimed", "sent", "committed"}]
  /\ rkey \in [Runners -> Keys \union {NoKey}]
  /\ rsince \in [Runners -> Instants]
  /\ sends \in [Keys -> Nat]
  /\ cut \in [Keys -> Nat]
  /\ skipped \in SUBSET Keys
  /\ finished \in [Keys -> Instants]

RunInit ==
  /\ now = 1
  /\ active = TRUE
  /\ key = [k \in Keys |-> 0]
  /\ jobs = [k \in Keys |-> 0]
  /\ deferred = [e \in Triggers |-> {}]
  /\ rpc = [r \in Runners |-> "idle"]
  /\ rkey = [r \in Runners |-> NoKey]
  /\ rsince = [r \in Runners |-> 0]
  /\ sends = [k \in Keys |-> 0]
  /\ cut = [k \in Keys |-> 0]
  /\ skipped = {}
  /\ finished = [k \in Keys |-> 0]

-----------------------------------------------------------------------------
(* The queue. *)

\* Mutant: a job for every edge of the trigger node.
RescanPerEdge(e) ==
  /\ jobs[<<e, "base">>] < MaxQueued
  /\ jobs' = [jobs EXCEPT ![<<e, "base">>] = @ + 2]
  /\ UNCHANGED <<now, active, key, deferred, runs, sends, cut, skipped, finished>>

\* A dispatch has the event in view (Dispatch).
Rescan(e) ==
  /\ jobs[<<e, "base">>] < MaxQueued
  /\ jobs' = [jobs EXCEPT ![<<e, "base">>] = @ + 1]
  /\ UNCHANGED <<now, active, key, deferred, runs, sends, cut, skipped, finished>>

\* A deferred job is due.
Due(e) ==
  /\ jobs[<<e, "cont">>] < MaxQueued
  /\ \E t \in deferred[e] :
       /\ t <= now
       /\ deferred' = [deferred EXCEPT ![e] = @ \ {t}]
  /\ jobs' = [jobs EXCEPT ![<<e, "cont">>] = @ + 1]
  /\ UNCHANGED <<now, active, key, runs, sends, cut, skipped, finished>>

\* The merchant's switch, a reply of the lead, a channel that goes.
Switch ==
  /\ active' = ~active
  /\ UNCHANGED <<now, key, jobs, deferred, runs, sends, cut, skipped, finished>>

-----------------------------------------------------------------------------
(* A run. *)

Live(k) == key[k] > now

\* Mutant: the key is set without NX.
ClaimFreeAlways(k) == TRUE

\* SET NX.
ClaimFree(k) == ~Live(k)

\* A job starts: it claims its key, or is a duplicate and returns.
Take(r, k) ==
  /\ rpc[r] = "idle"
  /\ jobs[k] > 0
  /\ jobs' = [jobs EXCEPT ![k] = @ - 1]
  /\ IF ClaimFree(k)
     THEN /\ key' = [key EXCEPT ![k] = now + PendingTTL]
          /\ rpc' = [rpc EXCEPT ![r] = "claimed"]
          /\ rkey' = [rkey EXCEPT ![r] = k]
          /\ rsince' = [rsince EXCEPT ![r] = now]
     ELSE UNCHANGED <<key, runs>>
  /\ UNCHANGED <<now, active, deferred, sends, cut, skipped, finished>>

Leave(r) ==
  /\ rpc' = [rpc EXCEPT ![r] = "idle"]
  /\ rkey' = [rkey EXCEPT ![r] = NoKey]
  /\ rsince' = [rsince EXCEPT ![r] = 0]

\* An early return leaves the key as it was claimed.
Skip(r) ==
  /\ rpc[r] = "claimed"
  /\ ~active
  /\ Leave(r)
  /\ skipped' = skipped \union {rkey[r]}
  /\ UNCHANGED <<now, active, key, jobs, deferred, sends, cut, finished>>

\* The walk: the message goes out, its row waits for the commit.
Send(r) ==
  /\ rpc[r] = "claimed"
  /\ active
  /\ rpc' = [rpc EXCEPT ![r] = "sent"]
  /\ sends' = [sends EXCEPT ![rkey[r]] = @ + 1]
  /\ UNCHANGED <<now, active, key, jobs, deferred, rkey, rsince, cut, skipped, finished>>

\* Mutant: the job of the second segment is not deferred when a message went out.
ContinuationNever(k) == deferred

\* A wait node of the first segment defers the run of what follows it.
Continuation(k) ==
  IF k[2] = "base" THEN [deferred EXCEPT ![k[1]] = @ \union {now + Wait}] ELSE deferred

\* The commit, and the deferred jobs.
Defer(r) ==
  /\ rpc[r] = "sent"
  /\ rpc' = [rpc EXCEPT ![r] = "committed"]
  /\ deferred' = Continuation(rkey[r])
  /\ UNCHANGED <<now, active, key, jobs, rkey, rsince, sends, cut, skipped, finished>>

\* Mutant: the key stays claimed for the short time.
PromotedNot(k) == key[k]

\* EXPIRE: without effect on a key that has gone.
Promoted(k) == IF Live(k) THEN now + DedupTTL ELSE key[k]

Finish(r) ==
  /\ rpc[r] = "committed"
  /\ key' = [key EXCEPT ![rkey[r]] = Promoted(rkey[r])]
  /\ finished' = [finished EXCEPT ![rkey[r]] = now]
  /\ Leave(r)
  /\ UNCHANGED <<now, active, jobs, deferred, sends, cut, skipped>>

\* The run raises or times out.
RunFails(r) ==
  /\ rpc[r] # "idle"
  /\ cut[rkey[r]] < MaxCut
  /\ cut' = [cut EXCEPT ![rkey[r]] = @ + 1]
  /\ Leave(r)
  /\ UNCHANGED <<now, active, key, jobs, deferred, sends, skipped, finished>>

\* A worker shutdown: ARQ runs the job again, and it meets its own key.
Shutdown(r) ==
  /\ rpc[r] # "idle"
  /\ cut[rkey[r]] < MaxCut
  /\ jobs[rkey[r]] < MaxQueued
  /\ cut' = [cut EXCEPT ![rkey[r]] = @ + 1]
  /\ jobs' = [jobs EXCEPT ![rkey[r]] = @ + 1]
  /\ Leave(r)
  /\ UNCHANGED <<now, active, key, deferred, sends, skipped, finished>>

-----------------------------------------------------------------------------

\* Mutant: a run may take as long as it likes.
InTimeAlways(r) == TRUE

\* At now + 1 ARQ has not cut the run off.
InTime(r) == rpc[r] # "idle" => now + 1 < rsince[r] + JobTimeout

Pass ==
  /\ now < MaxNow
  /\ \A r \in Runners : InTime(r)
  /\ now' = now + 1
  /\ UNCHANGED <<active, key, jobs, deferred, runs, sends, cut, skipped, finished>>

RunNext ==
  \/ Pass
  \/ Switch
  \/ \E e \in Triggers : Rescan(e) \/ Due(e)
  \/ \E r \in Runners :
       \/ \E k \in Keys : Take(r, k)
       \/ Skip(r) \/ Send(r) \/ Defer(r) \/ Finish(r) \/ RunFails(r) \/ Shutdown(r)

RunSpec == RunInit /\ [][RunNext]_runVars

\* The worker works through its queue; time goes on.
RunStep(r) == Skip(r) \/ Send(r) \/ Defer(r) \/ Finish(r)
TakeStep(k) == \E r \in Runners : Take(r, k)
DueStep == \E e \in Triggers : Due(e)

RunFairness ==
  /\ WF_runVars(Pass)
  /\ SF_runVars(DueStep)
  /\ \A k \in Keys : SF_runVars(TakeStep(k))
  /\ \A r \in Runners : WF_runVars(RunStep(r))

RunFairSpec == RunSpec /\ RunFairness

-----------------------------------------------------------------------------
(* Properties. *)

\* A claimed key lives as long as its run, which ARQ cuts off in time: no two runs
\* walk the graph for one key at a time.
OneRunPerKey ==
  /\ \A r \in Runners : rpc[r] # "idle" => Live(rkey[r])
  /\ \A r, q \in Runners : r # q /\ rpc[r] # "idle" => rkey[r] # rkey[q]

\* No two runs of a key walk the graph at a time, whatever expires or is cut short.
RunSafe == RunTypeOK /\ OneRunPerKey

\* However often the event is dispatched, a message goes out again only after a run
\* of its key was cut short, or when the promoted key has run out.
SentAgainOnlyIf ==
  [][\A k \in Keys :
       sends'[k] > sends[k] /\ sends[k] > 0
         => cut[k] > 0 \/ (finished[k] # 0 /\ now >= finished[k] + DedupTTL)]_runVars

\* What follows a wait is sent, unless its run was cut short, or found that the
\* automation is off or the episode over.
EventuallyContinued ==
  \A e \in Triggers :
    (finished[<<e, "base">>] # 0 /\ now + Wait <= MaxNow)
      ~> (sends[<<e, "cont">>] > 0 \/ cut[<<e, "cont">>] > 0 \/ <<e, "cont">> \in skipped)

=============================================================================
