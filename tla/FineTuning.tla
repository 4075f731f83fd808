---- MODULE FineTuning ----
(***************************************************************************)
(* The fine-tuning chain of a tenant and the experiment it opens           *)
(* (workers/fine_tuning/handlers.py, evaluate.py, routers/ab_test.py,      *)
(* repositories/ab.py): train, evaluate against held-out conversations,    *)
(* deploy as the tenant's default and, for the merchant the model targets, *)
(* beside a running baseline-against-ft experiment.                        *)
(***************************************************************************)
EXTENDS Naturals, FiniteSets

CONSTANTS MaxModels,    \* bound: ft_models rows
          Trainers,     \* fine_tune_train jobs that run at a time
          Requests,     \* requests to start an experiment
          MaxTrains,    \* bound: trainings asked
          MaxHalts      \* bound: jobs cut, timed out or aborted

ASSUME FineTuningAssumption ==
  {MaxModels, MaxTrains, MaxHalts} \subseteq Nat /\ IsFiniteSet(Trainers)

VARIABLES trains,      \* fine_tune_train jobs queued
          asks,        \* trainings asked so far
          trainer,     \* their runs
          rows,        \* the ft_models rows
          eval,        \* per row its fine_tune_evaluate job
          deploy,      \* per row its fine_tune_deploy job
          ab,          \* the experiments: "hand" by a user, a row's by its deploy
          starter,     \* start_experiment requests
          halts,
          raced,       \* history: two checks for a running experiment overlapped
          twins        \* history: two trainings read the versions at once

ftVars == <<trains, asks, trainer, rows, eval, deploy, ab, starter, halts, raced, twins>>

Models == 1..MaxModels
Experiments == Models \cup {0}             \* 0: the one a user has made
Missing == [status |-> "none", version |-> 0, default |-> FALSE, passed |-> FALSE]
Idle == [pc |-> "idle", version |-> 0, row |-> 0]
Job == [pc |-> "none", clears |-> {}]

FtTypeOK ==
  /\ trains \in 0..MaxTrains /\ asks \in 0..MaxTrains /\ halts \in 0..MaxHalts
  /\ trainer \in [Trainers -> [pc : {"idle", "submitted", "versioned", "polling"},
                               version : 0..MaxModels + 1, row : 0..MaxModels]]
  /\ rows \in [Models -> [status : {"none", "training", "ready", "failed", "evaluated",
                                    "eval_skipped", "deployed"},
                          version : 0..MaxModels + 1, default : BOOLEAN, passed : BOOLEAN]]
  /\ eval \in [Models -> {"none", "queued", "scoring", "written", "done"}]
  /\ deploy \in [Models -> [pc : {"none", "queued", "loaded", "clearing", "done"},
                            clears : SUBSET Models]]
  /\ ab \in [Experiments -> {"none", "draft", "running", "completed"}]
  /\ starter \in [Requests -> BOOLEAN] /\ raced \in BOOLEAN /\ twins \in BOOLEAN

FtInit ==
  /\ trains = 0 /\ asks = 0 /\ trainer = [x \in Trainers |-> Idle]
  /\ rows = [m \in Models |-> Missing] /\ eval = [m \in Models |-> "none"]
  /\ deploy = [m \in Models |-> Job]
  /\ ab = [e \in Experiments |-> IF e = 0 THEN "draft" ELSE "none"]
  /\ starter = [s \in Requests |-> FALSE]
  /\ halts = 0 /\ raced = FALSE /\ twins = FALSE

There == {m \in Models : rows[m].status # "none"}

(* fine_tune_run: enough pairs were collected, the dataset is exported.    *)
EnqueueTrain ==
  /\ asks < MaxTrains /\ asks' = asks + 1 /\ trains' = trains + 1
  /\ UNCHANGED <<trainer, rows, eval, deploy, ab, starter, halts, raced, twins>>

(* The file is uploaded and the provider's job created. *)
SubmitTraining(x) ==
  /\ trainer[x].pc = "idle" /\ trains > 0 /\ trains' = trains - 1
  /\ trainer' = [trainer EXCEPT ![x].pc = "submitted"]
  /\ UNCHANGED <<asks, rows, eval, deploy, ab, starter, halts, raced, twins>>

(* _next_version, in a session of its own. *)
NextVersion(x) ==
  LET last == CHOOSE v \in 0..MaxModels + 1 :
                /\ \A m \in There : rows[m].version <= v
                /\ v = 0 \/ \E m \in There : rows[m].version = v IN
  /\ trainer[x].pc = "submitted"
  /\ trainer' = [trainer EXCEPT ![x].pc = "versioned", ![x].version = last + 1]
  /\ twins' = (twins \/ \E y \in Trainers : trainer[y].pc = "versioned")
  /\ UNCHANGED <<trains, asks, rows, eval, deploy, ab, starter, halts, raced>>

AddRow(x) == \E m \in Models \ There :
  /\ trainer[x].pc = "versioned" /\ Cardinality(There) = m - 1
  /\ rows' = [rows EXCEPT ![m] = [Missing EXCEPT !.status = "training", !.version = trainer[x].version]]
  /\ trainer' = [trainer EXCEPT ![x].pc = "polling", ![x].row = m]
  /\ UNCHANGED <<trains, asks, eval, deploy, ab, starter, halts, raced, twins>>

(* _poll_to_terminal: a success queues the evaluation. *)
TrainingEnds(x) == \E ok \in BOOLEAN :
  /\ trainer[x].pc = "polling"
  /\ rows' = [rows EXCEPT ![trainer[x].row].status = IF ok THEN "ready" ELSE "failed"]
  /\ eval' = IF ok THEN [eval EXCEPT ![trainer[x].row] = "queued"] ELSE eval
  /\ trainer' = [trainer EXCEPT ![x] = Idle]
  /\ UNCHANGED <<trains, asks, deploy, ab, starter, halts, raced, twins>>

(* The job times out and is over, or the worker shuts down and it runs     *)
(* again: either way its row stays in training.                            *)
TrainingHalts(x) ==
  /\ trainer[x].pc # "idle" /\ halts < MaxHalts /\ halts' = halts + 1
  /\ trains' \in {trains, trains + 1} \cap 0..MaxTrains
  /\ trainer' = [trainer EXCEPT ![x] = Idle]
  /\ UNCHANGED <<asks, rows, eval, deploy, ab, starter, raced, twins>>

(* evaluate_model: only a row that is ready.  (A job cut after the status  *)
(* was written finds it changed when it runs again, and fails.)            *)
StartEvaluation(m) ==
  /\ eval[m] = "queued"
  /\ eval' = [eval EXCEPT ![m] = IF rows[m].status = "ready" THEN "scoring" ELSE "done"]
  /\ UNCHANGED <<trains, asks, trainer, rows, deploy, ab, starter, halts, raced, twins>>

(* Without held-out samples the row leaves the gate; with them it is       *)
(* "evaluated" whether it passed or not.                                   *)
WriteEvaluation(m) == \E verdict \in {"pass", "fail", "no_data"} :
  /\ eval[m] = "scoring" /\ eval' = [eval EXCEPT ![m] = "written"]
  /\ rows' = [rows EXCEPT ![m].status = IF verdict = "no_data" THEN "eval_skipped" ELSE "evaluated",
                          ![m].passed = (verdict = "pass")]
  /\ UNCHANGED <<trains, asks, trainer, deploy, ab, starter, halts, raced, twins>>

(* Mutant: the rollout follows whatever the evaluation says. *)
RolloutAlways(m) ==
  /\ eval[m] = "written" /\ eval' = [eval EXCEPT ![m] = "done"]
  /\ deploy' = IF rows[m].status = "evaluated" THEN [deploy EXCEPT ![m].pc = "queued"] ELSE deploy
  /\ UNCHANGED <<trains, asks, trainer, rows, ab, starter, halts, raced, twins>>

(* Only a model that passed goes on. *)
Rollout(m) ==
  /\ eval[m] = "written" /\ eval' = [eval EXCEPT ![m] = "done"]
  /\ deploy' = IF rows[m].passed THEN [deploy EXCEPT ![m].pc = "queued"] ELSE deploy
  /\ UNCHANGED <<trains, asks, trainer, rows, ab, starter, halts, raced, twins>>

EvaluationCut(m) ==
  /\ eval[m] \in {"scoring", "written"} /\ halts < MaxHalts /\ halts' = halts + 1
  /\ eval' = [eval EXCEPT ![m] = "queued"]
  /\ UNCHANGED <<trains, asks, trainer, rows, deploy, ab, starter, raced, twins>>

Deployable == {"ready", "evaluated"}

(* A row added while another's deploy commits is minutes from its own.     *)
LoadForDeploy(m) ==
  /\ deploy[m].pc = "queued"
  /\ \A n \in Models : deploy[n].pc = "clearing" => m \in deploy[n].clears
  /\ deploy' = [deploy EXCEPT ![m].pc = IF rows[m].status \in Deployable THEN "loaded" ELSE "done"]
  /\ UNCHANGED <<trains, asks, trainer, rows, eval, ab, starter, halts, raced, twins>>

(* Mutant: only the row seen as the default is cleared. *)
Others(m) == {n \in There \ {m} : rows[n].default}

(* Every other row of the tenant, the default or not. *)
OthersOf(m) == There \ {m}

(* The UPDATE that clears is_default on the other rows locks them all, and *)
(* waits for a deploy that holds one of them.                              *)
ClearOthers(m) ==
  /\ deploy[m].pc = "loaded"
  /\ \A n \in Models : deploy[n].pc = "clearing" => OthersOf(m) \cap deploy[n].clears = {}
  /\ deploy' = [deploy EXCEPT ![m] = [pc |-> "clearing", clears |-> OthersOf(m)]]
  /\ UNCHANGED <<trains, asks, trainer, rows, eval, ab, starter, halts, raced, twins>>

Running == {e \in Experiments : ab[e] = "running"}

(* The row's own UPDATE waits for a deploy that has locked it; then the    *)
(* transaction commits, the experiment with it unless one is running.      *)
CommitDeploy(m) ==
  /\ deploy[m].pc = "clearing"
  /\ \A n \in Models \ {m} : deploy[n].pc = "clearing" => m \notin deploy[n].clears
  /\ rows' = [n \in Models |->
       IF n = m THEN [rows[n] EXCEPT !.default = TRUE, !.status = "deployed"]
       ELSE IF n \in deploy[m].clears THEN [rows[n] EXCEPT !.default = FALSE] ELSE rows[n]]
  /\ ab' = IF Running = {} THEN [ab EXCEPT ![m] = "running"] ELSE ab
  /\ raced' = (raced \/ \E s \in Requests : starter[s])
  /\ deploy' = [deploy EXCEPT ![m] = [pc |-> "done", clears |-> {}]]
  /\ UNCHANGED <<trains, asks, trainer, eval, starter, halts, twins>>

(* Two deploys that hold each other's row: the database aborts one, and    *)
(* its job is over; or the worker shuts down, and it runs again.           *)
DeployHalts(m) ==
  /\ deploy[m].pc \in {"loaded", "clearing"}
  /\ \/ /\ \E n \in Models \ {m} : deploy[n].pc = "clearing" /\ m \in deploy[n].clears
                                    /\ deploy[m].pc = "clearing" /\ n \in deploy[m].clears
        /\ deploy' = [deploy EXCEPT ![m] = [pc |-> "done", clears |-> {}]] /\ UNCHANGED halts
     \/ /\ halts < MaxHalts /\ halts' = halts + 1
        /\ deploy' = [deploy EXCEPT ![m] = [pc |-> "queued", clears |-> {}]]
  /\ UNCHANGED <<trains, asks, trainer, rows, eval, ab, starter, raced, twins>>

(* Mutant: the guard is asked of the experiment itself only. *)
StartAnyway(s) ==
  /\ ~starter[s] /\ ab[0] # "running"
  /\ starter' = [starter EXCEPT ![s] = TRUE]
  /\ UNCHANGED <<trains, asks, trainer, rows, eval, deploy, ab, halts, raced, twins>>

(* start_experiment: has_running is asked, the status committed later.     *)
StartExperiment(s) ==
  /\ ~starter[s] /\ ab[0] # "running" /\ Running = {}
  /\ starter' = [starter EXCEPT ![s] = TRUE]
  /\ UNCHANGED <<trains, asks, trainer, rows, eval, deploy, ab, halts, raced, twins>>

CommitStart(s) ==
  /\ starter[s] /\ starter' = [starter EXCEPT ![s] = FALSE]
  /\ ab' = [ab EXCEPT ![0] = "running"]
  /\ UNCHANGED <<trains, asks, trainer, rows, eval, deploy, halts, raced, twins>>

(* stop_experiment: the model stays the default. *)
StopExperiment == \E e \in Experiments :
  /\ ab[e] = "running" /\ ab' = [ab EXCEPT ![e] = "completed"]
  /\ UNCHANGED <<trains, asks, trainer, rows, eval, deploy, starter, halts, raced, twins>>

FtNext ==
  \/ EnqueueTrain \/ StopExperiment
  \/ \E x \in Trainers : \/ SubmitTraining(x) \/ NextVersion(x) \/ AddRow(x)
                         \/ TrainingEnds(x) \/ TrainingHalts(x)
  \/ \E m \in Models : \/ StartEvaluation(m) \/ WriteEvaluation(m) \/ Rollout(m) \/ EvaluationCut(m)
                       \/ LoadForDeploy(m) \/ ClearOthers(m) \/ CommitDeploy(m) \/ DeployHalts(m)
  \/ \E s \in Requests : StartExperiment(s) \/ CommitStart(s)

FtSpec == FtInit /\ [][FtNext]_ftVars

(* However the deploys of two models cross, abort or run again, the tenant *)
(* has one default, FtModelResolver's LIMIT 1 has no choice to make, and   *)
(* the model has passed its evaluation.                                    *)
OneDefaultModel ==
  /\ Cardinality({m \in Models : rows[m].default}) <= 1
  /\ \A m \in Models : rows[m].default => rows[m].passed /\ rows[m].status = "deployed"

(* Two experiments of a merchant run at once, and the newer one's leads    *)
(* get the older one's variants, only if a start overlapped a deploy or    *)
(* another start; two models share a version only if two trainings did.    *)
OneRunning == Cardinality(Running) <= 1 \/ raced
OneVersion == \A m, n \in There : rows[m].version = rows[n].version => m = n \/ twins

FtSafe == FtTypeOK /\ OneDefaultModel /\ OneRunning /\ OneVersion

(* What should_use_ft answers for a merchant: the model for every          *)
(* conversation, for the ft arm only, or for none.                         *)
Routed(gate) == IF ~\E m \in Models : rows[m].default THEN "none"
                ELSE IF gate THEN "ft arm" ELSE "all"

(* handlers.py:214-218: a model that targets a merchant reaches its        *)
(* conversations through the ft arm of an experiment "until the experiment *)
(* is stopped", never all of them at once.                                 *)
RolledOutByExperiment ==
  Routed(\E e \in Models : ab[e] = "running") = "all" => \E e \in Models : ab[e] = "completed"
====
