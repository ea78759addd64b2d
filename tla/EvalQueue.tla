------------------------------ MODULE EvalQueue ------------------------------
(***************************************************************************)
(* Asynchronous evaluation of exported models.  The trainer enqueues one   *)
(* task per cadence update in state/eval_queue.json; one worker process    *)
(* claims the lowest pending update, probes the retriever and the GPU,     *)
(* evaluates, publishes eval/update_XXX with one rename, appends metric    *)
(* records and completes the task, or puts it back on any exception.  The  *)
(* job supervisor waits for the trainer and then for the worker.           *)
(*                                                                         *)
(* Every queue operation runs under one file lock and replaces the file    *)
(* atomically, so it is one step.  A task is named by the number of its    *)
(* cadence update.  run_worker reads retriever_runtime and _aggregate      *)
(* reads config, and neither name is bound where it is read: UnboundNames  *)
(* is {"probe", "aggregate"} for the code as it stands, and {} shows what  *)
(* the code behind them does.                                              *)
(***************************************************************************)
EXTENDS Integers, FiniteSets

CONSTANTS Evaluations,    \* cadence updates up to the target, which is the last
          Records,        \* metric records of one evaluation (domains, overall)
          UnboundNames,   \* where the worker reads an unbound name
          MaxTransient,   \* bound: exceptions and deferrals before publication
          MaxDiskFaults,  \* bound: failing writes after it
          MaxKills        \* bound: kills of the worker

ASSUME EvalConstants ==
  /\ {Evaluations, Records} \subseteq Nat \ {0}
  /\ UnboundNames \subseteq {"probe", "aggregate"}
  /\ {MaxTransient, MaxDiskFaults, MaxKills} \subseteq Nat

Updates == 1 .. Evaluations

VARIABLES
  trainer,     \* "training", or what the trainer process ended with
  next,        \* the next update the trainer will enqueue
  tasks,       \* status of each task in eval_queue.json
  published,   \* updates with a directory eval/update_XXX
  metrics,     \* records of each update in eval_metrics.jsonl
  worker,      \* where the worker is
  current,     \* the task it has in hand, 0 for none
  written,     \* records of that task appended so far
  sawPass,     \* trainer_result.json said PASS when the worker read it
  finished,    \* eval_worker_result.json exists
  stop,        \* stop_requested
  supervisor,  \* what _run_runtime_job.sh waits for
  faults       \* faults so far, by kind

queueVars == <<tasks, published, metrics>>
workerVars == <<worker, current, written, sawPass, finished>>
jobVars == <<trainer, next, stop, supervisor>>
evalVars == <<queueVars, workerVars, jobVars, faults>>

Pending == {u \in Updates : tasks[u] = "pending"}
Queued == {u \in Updates : tasks[u] # "absent"}
-----------------------------------------------------------------------------
(* The trainer, as far as the queue sees it.  A resumed one first enqueues  *)
(* the update it restored.                                                  *)

EnqueueEval ==
  /\ trainer = "training"
  /\ next <= Evaluations
  /\ next' = next + 1
  /\ tasks' = [tasks EXCEPT ![next] = IF @ = "absent" THEN "pending" ELSE @]
  /\ UNCHANGED <<published, metrics, workerVars, trainer, stop, supervisor,
                 faults>>

TrainerEnds ==
  /\ trainer = "training"
  /\ \/ next > Evaluations /\ trainer' = "passed"
     \/ trainer' = "failed"
  /\ UNCHANGED <<queueVars, workerVars, next, stop, supervisor, faults>>
-----------------------------------------------------------------------------
(* run_worker: the loop                                                     *)

Step(from, to) == worker = from /\ worker' = to

(* Defect: the newest pending update is claimed.                             *)
ClaimNewest ==
  /\ ~ stop
  /\ Step("loop", "probe")
  /\ \E u \in Pending :
       /\ \A v \in Pending : v <= u
       /\ current' = u
       /\ tasks' = [tasks EXCEPT ![u] = "running"]
  /\ UNCHANGED <<published, metrics, written, sawPass, finished, jobVars,
                 faults>>

ClaimNextEval ==
  /\ ~ stop
  /\ Step("loop", "probe")
  /\ \E u \in Pending :
       /\ \A v \in Pending : u <= v
       /\ current' = u
       /\ tasks' = [tasks EXCEPT ![u] = "running"]
  /\ UNCHANGED <<published, metrics, written, sawPass, finished, jobVars,
                 faults>>

NothingPending ==
  /\ ~ stop
  /\ Pending = {}
  /\ Step("loop", "idle")
  /\ UNCHANGED <<queueVars, current, written, sawPass, finished, jobVars,
                 faults>>

(* Defect: the trainer's result is taken for granted.                        *)
ReadNoTrainerResult ==
  /\ Step("idle", "snapshot")
  /\ sawPass' = TRUE
  /\ UNCHANGED <<queueVars, current, written, finished, jobVars, faults>>

ReadTrainerResult ==
  /\ Step("idle", "snapshot")
  /\ sawPass' = (trainer = "passed")
  /\ UNCHANGED <<queueVars, current, written, finished, jobVars, faults>>

(* Defect: a resumed run waits for updates that were evaluated before it.    *)
SnapshotEveryUpdate ==
  /\ worker = "snapshot"
  /\ LET complete == sawPass /\ \A u \in Updates : tasks[u] = "completed"
     IN  /\ finished' = (finished \/ complete)
         /\ worker' = IF complete THEN "exited" ELSE "loop"
  /\ UNCHANGED <<queueVars, current, written, sawPass, jobVars, faults>>

(* The queue is read after the trainer's result.  Not complete: sleep, loop.*)
SnapshotQueue ==
  /\ worker = "snapshot"
  /\ LET complete == /\ sawPass
                     /\ tasks[Evaluations] = "completed"
                     /\ \A u \in Queued : tasks[u] = "completed"
     IN  /\ finished' = (finished \/ complete)
         /\ worker' = IF complete THEN "exited" ELSE "loop"
  /\ UNCHANGED <<queueVars, current, written, sawPass, jobVars, faults>>

(* A signal is noticed at the head of the loop.                             *)
StopWorker ==
  /\ stop
  /\ Step("loop", "exited")
  /\ UNCHANGED <<queueVars, current, written, sawPass, finished, jobVars,
                 faults>>
-----------------------------------------------------------------------------
(* run_worker: one claimed task                                             *)

Probe ==
  /\ Step("probe", "work")
  /\ "probe" \notin UnboundNames
  /\ UNCHANGED <<queueVars, current, written, sawPass, finished, jobVars,
                 faults>>

(* Defect: a deferred task stays claimed.                                    *)
DeferClaimed ==
  /\ Step("probe", "loop")
  /\ "probe" \notin UnboundNames
  /\ faults.transient < MaxTransient
  /\ faults' = [faults EXCEPT !.transient = @ + 1]
  /\ UNCHANGED tasks
  /\ current' = 0
  /\ UNCHANGED <<published, metrics, written, sawPass, finished, jobVars>>

(* Too little free GPU memory.                                              *)
DeferEval ==
  /\ Step("probe", "loop")
  /\ "probe" \notin UnboundNames
  /\ faults.transient < MaxTransient
  /\ faults' = [faults EXCEPT !.transient = @ + 1]
  /\ tasks' = [tasks EXCEPT ![current] = "pending"]
  /\ current' = 0
  /\ UNCHANGED <<published, metrics, written, sawPass, finished, jobVars>>

(* Defect: an output of an earlier attempt is overwritten.                   *)
RunTaskAgain ==
  /\ worker = "work"
  /\ worker' = "evaluating"
  /\ UNCHANGED <<queueVars, current, written, sawPass, finished, jobVars,
                 faults>>

(* FileExistsError if the output is there; otherwise a fresh temporary.     *)
RunTask ==
  /\ worker = "work"
  /\ worker' = IF current \in published THEN "failing" ELSE "evaluating"
  /\ UNCHANGED <<queueVars, current, written, sawPass, finished, jobVars,
                 faults>>

Aggregate ==
  /\ Step("evaluating", "publish")
  /\ "aggregate" \notin UnboundNames
  /\ UNCHANGED <<queueVars, current, written, sawPass, finished, jobVars,
                 faults>>

Publish ==
  /\ Step("publish", "metrics")
  /\ published' = published \union {current}
  /\ written' = 0
  /\ UNCHANGED <<tasks, metrics, current, sawPass, finished, jobVars, faults>>

AppendMetric ==
  /\ worker = "metrics"
  /\ metrics' = [metrics EXCEPT ![current] = @ + 1]
  /\ written' = written + 1
  /\ worker' = IF written' = Records THEN "complete" ELSE "metrics"
  /\ UNCHANGED <<tasks, published, current, sawPass, finished, jobVars, faults>>

CompleteEval ==
  /\ Step("complete", "log")
  /\ tasks' = [tasks EXCEPT ![current] = "completed"]
  /\ UNCHANGED <<published, metrics, current, written, sawPass, finished,
                 jobVars, faults>>

(* The event line, after a completion as after a failure.                   *)
LogEvent ==
  /\ worker \in {"log", "logFailure"}
  /\ worker' = "loop"
  /\ current' = 0
  /\ UNCHANGED <<queueVars, written, sawPass, finished, jobVars, faults>>

(* Defect: an error closes the task.                                         *)
FailClosed ==
  /\ Step("failing", "logFailure")
  /\ tasks' = [tasks EXCEPT ![current] = "completed"]
  /\ UNCHANGED <<published, metrics, current, written, sawPass, finished,
                 jobVars, faults>>

(* Defect: an error has a status of its own.                                 *)
FailAsFailed ==
  /\ Step("failing", "logFailure")
  /\ tasks' = [tasks EXCEPT ![current] = "failed"]
  /\ UNCHANGED <<published, metrics, current, written, sawPass, finished,
                 jobVars, faults>>

(* The handler: complete_eval with an error makes the task pending again.   *)
FailEval ==
  /\ Step("failing", "logFailure")
  /\ tasks' = [tasks EXCEPT ![current] = "pending"]
  /\ UNCHANGED <<published, metrics, current, written, sawPass, finished,
                 jobVars, faults>>
-----------------------------------------------------------------------------
(* Faults                                                                   *)

(* A name that is not bound where it is read                                *)
NameErrorIsDue ==
  \/ worker = "probe" /\ "probe" \in UnboundNames
  \/ worker = "evaluating" /\ "aggregate" \in UnboundNames

(* The retriever, the GPU, the model or the scoring raises, within a bound; *)
(* a NameError is no fault of theirs.                                       *)
TaskRaises ==
  /\ worker \in {"probe", "work", "evaluating", "publish"}
  /\ NameErrorIsDue \/ faults.transient < MaxTransient
  /\ worker' = "failing"
  /\ faults' = IF NameErrorIsDue THEN faults
                 ELSE [faults EXCEPT !.transient = @ + 1]
  /\ UNCHANGED <<queueVars, current, written, sawPass, finished, jobVars>>

(* A write raises; in the handler itself that ends the worker.              *)
DiskFault ==
  /\ worker \in {"metrics", "complete", "log", "failing", "logFailure"}
  /\ faults.disk < MaxDiskFaults
  /\ worker' = IF worker \in {"failing", "logFailure"} THEN "exited"
                                                       ELSE "failing"
  /\ faults' = [faults EXCEPT !.disk = @ + 1]
  /\ UNCHANGED <<queueVars, current, written, sawPass, finished, jobVars>>

KillWorker ==
  /\ worker # "exited"
  /\ faults.kills < MaxKills
  /\ worker' = "exited"
  /\ faults' = [faults EXCEPT !.kills = @ + 1]
  /\ UNCHANGED <<queueVars, current, written, sawPass, finished, jobVars>>
-----------------------------------------------------------------------------
(* _run_runtime_job.sh                                                      *)

DriverReturns ==
  /\ supervisor = "driver"
  /\ trainer # "training"
  /\ supervisor' = IF trainer = "passed" THEN "worker" ELSE "cleanup"
  /\ stop' = (stop \/ trainer = "failed")
  /\ UNCHANGED <<queueVars, workerVars, trainer, next, faults>>

WorkerReturns ==
  /\ supervisor \in {"worker", "cleanup"}
  /\ worker = "exited"
  /\ supervisor' = "done"
  /\ UNCHANGED <<queueVars, workerVars, trainer, next, stop, faults>>

(* INT or TERM: the trap terminates the driver, then the worker.            *)
Interrupt ==
  /\ supervisor \in {"driver", "worker"}
  /\ supervisor' = "cleanup"
  /\ stop' = TRUE
  /\ trainer' = IF trainer = "training" THEN "failed" ELSE trainer
  /\ UNCHANGED <<queueVars, workerVars, next, faults>>
-----------------------------------------------------------------------------
QueueInit ==
  /\ trainer = "training"
  /\ next \in Updates
  /\ tasks = [u \in Updates |-> "absent"]
  /\ published = {}
  /\ metrics = [u \in Updates |-> 0]
  /\ worker = "loop"
  /\ current = 0
  /\ written = 0
  /\ sawPass = FALSE
  /\ finished = FALSE
  /\ stop = FALSE
  /\ supervisor = "driver"
  /\ faults = [transient |-> 0, disk |-> 0, kills |-> 0]

Trainer == EnqueueEval \/ TrainerEnds

Worker == ClaimNextEval \/ NothingPending \/ ReadTrainerResult \/ SnapshotQueue
          \/ StopWorker \/ Probe \/ DeferEval \/ RunTask \/ Aggregate \/ Publish
          \/ AppendMetric \/ CompleteEval \/ LogEvent \/ FailEval
          \/ TaskRaises \/ DiskFault

Supervisor == DriverReturns \/ WorkerReturns

QueueNext == Trainer \/ Worker \/ Supervisor \/ KillWorker \/ Interrupt

(* Three processes, each of which executes its next instruction; a training *)
(* process ends, as StrictUpdate shows.  Kills and signals are never owed.  *)
QueueSpec == QueueInit /\ [][QueueNext]_evalVars
             /\ WF_evalVars(Trainer) /\ WF_evalVars(Worker) /\ WF_evalVars(Supervisor)
-----------------------------------------------------------------------------
(* Every variable keeps its type.                                           *)
QueueTypeOK ==
  /\ trainer \in {"training", "passed", "failed"}
  /\ next \in 1 .. Evaluations + 1
  /\ tasks \in [Updates -> {"absent", "pending", "running", "completed"}]
  /\ published \subseteq Updates
  /\ metrics \in [Updates -> Nat]
  /\ worker \in {"loop", "idle", "snapshot", "probe", "work", "evaluating",
                 "publish", "metrics", "complete", "log", "failing",
                 "logFailure", "exited"}
  /\ current \in 0 .. Evaluations
  /\ written \in 0 .. Records
  /\ {sawPass, finished, stop} \subseteq BOOLEAN
  /\ supervisor \in {"driver", "worker", "cleanup", "done"}
  /\ faults \in [transient : Nat, disk : Nat, kills : Nat]

(* eval_metrics.jsonl is append-only and read as a learning curve: no       *)
(* sequence of failures and retries of one task writes a record twice, and  *)
(* no record precedes the predictions it summarises.                        *)
RecordsWrittenOnce ==
  \A u \in Updates : /\ metrics[u] <= Records
                     /\ metrics[u] > 0 => u \in published

(* A task is closed only by an evaluation whose directory and metric        *)
(* records are all on disk, whatever went wrong before.                     *)
CompletedMeansScored ==
  \A u \in Updates :
    tasks[u] = "completed" => u \in published /\ metrics[u] = Records

(* Retries and deferrals do not reorder the queue: when an update is        *)
(* scored, every earlier update of the run has been.                        *)
ScoredInOrder ==
  \A u, v \in Updates :
    u < v /\ v \in published => tasks[u] \in {"absent", "completed"}

(* eval_worker_result.json says PASS only if the training passed and every  *)
(* task, the one of the target update included, is completed.               *)
FinishedMeansAllScored ==
  finished => /\ trainer = "passed"
              /\ tasks[Evaluations] = "completed"
              /\ \A u \in Queued : tasks[u] = "completed"

(* Every enqueued evaluation completes, unless the job is being stopped.    *)
EveryTaskCompletes ==
  \A u \in Updates :
    tasks[u] # "absent" ~> tasks[u] = "completed" \/ stop

(* The supervisor returns once the trainer has: it never waits for ever for *)
(* the worker.                                                              *)
JobEnds == supervisor # "driver" ~> supervisor = "done"
=============================================================================
