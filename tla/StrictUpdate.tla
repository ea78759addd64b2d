----------------------------- MODULE StrictUpdate -----------------------------
(***************************************************************************)
(* The trainer driver: _run_updates calls run_attempt until the target     *)
(* number of successful updates is reached.  An attempt freezes one        *)
(* snapshot on the FSDP ranks and the vLLM replicas, collects prompt       *)
(* groups, refills the pool or skips, accumulates the gradients of the     *)
(* selected prompts, steps the optimizer and the scheduler once and makes  *)
(* the update durable.                                                     *)
(*                                                                         *)
(* Calls on the worker group run on the ranks in parallel; any call inside *)
(* run_attempt's try block may raise while only some ranks have executed   *)
(* it, and the process may be killed between any two steps.  A new process *)
(* starts from scratch or from a checkpoint saved by an earlier one.       *)
(*                                                                         *)
(* A model is represented by its history: the sequence of attempts whose   *)
(* gradients its optimizer steps applied; Torn marks a step that raised    *)
(* half way.  A checksum of a sharded model is the set of shard histories. *)
(***************************************************************************)
EXTENDS Integers, Sequences

CONSTANTS Ranks,              \* the FSDP ranks
          InitialPrompts,     \* rollout.candidate_prompts_initial
          RefillPrompts,      \* rollout.refill_prompts
          MaximumPrompts,     \* rollout.candidate_prompts_max
          MinSelected,        \* selection.minimum_selected_prompts
          MaxSelected,        \* selection.maximum_selected_prompts
          TargetUpdates,      \* target_successful_updates
          AttemptsPerUpdate,  \* attempt budget per successful update (20)
          CheckpointEvery,    \* checkpoint_every_successful_updates
          MaxMicrobatches,    \* bound: microbatches of one attempt
          MaxReplacements,    \* bound: invalid prompts replaced per collection
          MaxLaunches         \* bound: trainer processes

ASSUME UpdateConstants ==
  /\ Ranks # {}
  /\ {InitialPrompts, RefillPrompts, MaximumPrompts, MinSelected, MaxSelected,
      TargetUpdates, AttemptsPerUpdate, CheckpointEvery} \subseteq Nat \ {0}
  /\ {MaxMicrobatches, MaxReplacements, MaxLaunches} \subseteq Nat
  /\ InitialPrompts <= MaximumPrompts
  /\ MinSelected <= MaxSelected

(* run_attempt refuses a configuration whose refills miss the maximum.      *)
ASSUME WholeRefills == (MaximumPrompts - InitialPrompts) % RefillPrompts = 0

AllowedPoolSizes ==
  {n \in InitialPrompts .. MaximumPrompts :
     (n - InitialPrompts) % RefillPrompts = 0}

VARIABLES
  pc,          \* where the driver is; "down" when there is no process
  state, rec, returned,   \* see StrictTransaction
  done,        \* the ranks that have executed the worker-group call in flight
  rank,        \* one FSDP worker per rank
  engine,      \* the vLLM replicas: weights loaded, version stamp
  pool,        \* CandidatePool: its size and the policies that rolled it out
  chosen,      \* decision.selected_count
  batches,     \* len(selected_microbatches)
  draws,       \* cursor of the prompt sampler
  attempts,    \* run_attempt calls of this process
  launches,    \* processes started so far
  totals,      \* starting step, optimizer steps and scheduler steps since
  ledger,      \* events/successful_updates.jsonl of this run directory
  saved,       \* committed checkpoints on disk
  lineage      \* history variable: the attempts the run's model has learnt from

Torn == 0
Model == Seq(Nat)

INSTANCE StrictTransaction WITH AllowedCounts <- AllowedPoolSizes,
                                Checksums <- SUBSET Model

attemptVars == <<state, rec, returned>>
poolVars == <<pool, chosen, batches, draws>>
runVars == <<attempts, launches, totals, ledger, saved, lineage>>
vars == <<pc, attemptVars, done, rank, engine, poolVars, runVars>>
-----------------------------------------------------------------------------
Worker == [snapshot : Int, rewardStep : Int, reward : SUBSET Model,
           zeroGrad : Nat, backward : Nat, optimizer : Nat, scheduler : Nat,
           committed : BOOLEAN, grads : SUBSET (Nat \X Nat), params : Model,
           schedule : Nat]

(* _initialize: a worker holding params, with no snapshot yet.              *)
NewWorker(params, schedule) ==
  [snapshot |-> -1, rewardStep |-> -1, reward |-> {}, zeroGrad |-> 0,
   backward |-> 0, optimizer |-> 0, scheduler |-> 0, committed |-> FALSE,
   grads |-> {}, params |-> params, schedule |-> schedule]

(* actor_parameter_checksum over every shard                                *)
ActorChecksum == {rank[r].params : r \in Ranks}

(* sleep_for_scoring drops the weights; wake_for_rollout reloads those of   *)
(* the actor, but only if the replicas sleep, and leaves the stamp alone.   *)
Asleep(e) == [e EXCEPT !.awake = FALSE, !.weights = {}]
Awake(e) == IF e.awake THEN e
                       ELSE [e EXCEPT !.awake = TRUE, !.weights = ActorChecksum]

(* synchronize_from_actor: sleep, wake and only then stamp the version.     *)
Synchronized(e, step) == [Awake(Asleep(e)) EXCEPT !.stamp = step]

Running == pc \notin {"down", "passed"}
-----------------------------------------------------------------------------
(* Processes.  What is not on disk starts anew with each of them.           *)

Memory(workers, start) ==
  /\ rank' = workers
  /\ state' = start
  /\ returned' = start
  /\ rec' = NewRecord(start)
  /\ draws' = start.cursor
  /\ engine' = [awake |-> FALSE, stamp |-> -1, weights |-> {}]
  /\ done' = {}
  /\ pool' = [size |-> 0, policies |-> {}]
  /\ chosen' = 0
  /\ batches' = 0
  /\ attempts' = 0
  /\ totals' = [start |-> start.step, optimizer |-> 0, scheduler |-> 0]
  /\ ledger' = <<>>
  /\ UNCHANGED saved

Untrained == [r \in Ranks |-> NewWorker(<<>>, 0)]
ZeroState == [attempt |-> 0, step |-> 0, cursor |-> 0]

(* The driver and its workers are gone.                                     *)
ProcessEnds ==
  /\ pc' = "down"
  /\ Memory(Untrained, ZeroState)
  /\ lineage' = <<>>
  /\ UNCHANGED launches

Boot(workers, start) ==
  /\ pc = "down"
  /\ pc' = "idle"
  /\ launches < MaxLaunches
  /\ launches' = launches + 1
  /\ Memory(workers, start)

StartFresh ==
  /\ Boot(Untrained, ZeroState)
  /\ lineage' = <<>>

(* load_distributed_training_state                                          *)
Restored(ckpt, r) == NewWorker(ckpt.shards[r], ckpt.schedule[r])

(* load_restored_reward_snapshot_from_hf: the reward policy is read from    *)
(* the model exported at the restored step.  That file is in bfloat16; a    *)
(* history does not tell a rounded model from the one it was rounded from.  *)
Preloaded(w, ckpt) ==
  [w EXCEPT !.rewardStep = ckpt.state.step,
            !.reward = {ckpt.shards[q] : q \in Ranks}]

(* Defect: the attempt counter is not part of what a checkpoint restores.    *)
ResumeCountingAnew(ckpt, preload) ==
  /\ Boot([r \in Ranks |-> Restored(ckpt, r)], [ckpt.state EXCEPT !.attempt = 0])
  /\ \E r \in Ranks : lineage' = ckpt.shards[r]

(* _restore_checkpoint; preload says that the cadence artifacts of the      *)
(* restored step are materialized before the first attempt.                 *)
Resume(ckpt, preload) ==
  /\ Boot([r \in Ranks |-> IF preload THEN Preloaded(Restored(ckpt, r), ckpt)
                                     ELSE Restored(ckpt, r)],
          ckpt.state)
  /\ \E r \in Ranks : lineage' = ckpt.shards[r]
-----------------------------------------------------------------------------
(* The loop of _run_updates                                                 *)

StartAttempt ==
  /\ pc = "idle"
  /\ state.step < TargetUpdates
  /\ attempts < TargetUpdates * AttemptsPerUpdate
  /\ pc' = "boundary"
  /\ rec' = NewRecord(state)
  /\ pool' = [size |-> 0, policies |-> {}]
  /\ UNCHANGED <<state, returned, done, rank, engine, chosen, batches, draws,
                 runVars>>

GiveUpOverBudget ==
  /\ pc = "idle"
  /\ state.step < TargetUpdates
  /\ attempts >= TargetUpdates * AttemptsPerUpdate
  /\ ProcessEnds

(* The two final totals checks turn a wrong count into a RuntimeError.      *)
TotalsAgree ==
  /\ totals.optimizer = TargetUpdates - totals.start
  /\ totals.scheduler = TargetUpdates - totals.start

Pass ==
  /\ pc = "idle"
  /\ state.step >= TargetUpdates
  /\ IF TotalsAgree
       THEN /\ pc' = "passed"
            /\ UNCHANGED <<attemptVars, done, rank, engine, poolVars, runVars>>
       ELSE ProcessEnds
-----------------------------------------------------------------------------
(* Defect: the reward policy is read once per process.                       *)
BeginStaleSnapshot(w, step) ==
  [w EXCEPT !.snapshot = step, !.zeroGrad = 0, !.backward = 0,
            !.optimizer = 0, !.scheduler = 0, !.committed = FALSE,
            !.rewardStep = step,
            !.reward = IF w.rewardStep = -1 THEN ActorChecksum ELSE @]

(* _sync_reward_snapshot: tensor by tensor, every shard of the actor.       *)
SyncReward(w, step) == [w EXCEPT !.rewardStep = step, !.reward = ActorChecksum]

(* freeze_rollout_boundary: begin_snapshot on every rank re-reads the       *)
(* reward policy only when the step changed, then the replicas reload.      *)
BeginSnapshot(w, step) ==
  LET fresh == [w EXCEPT !.snapshot = step, !.zeroGrad = 0, !.backward = 0,
                         !.optimizer = 0, !.scheduler = 0, !.committed = FALSE]
  IN  IF w.rewardStep # step THEN SyncReward(fresh, step) ELSE fresh

FreezeBoundary ==
  /\ pc = "boundary"
  /\ pc' = "collect"
  /\ rank' = [r \in Ranks |-> BeginSnapshot(rank[r], state.step)]
  /\ engine' = Synchronized(engine, state.step)
  /\ FreezeSnapshot([actor |-> state.step, rollout |-> state.step,
                     oldPolicy |-> state.step, rewardPolicy |-> state.step])
  /\ UNCHANGED <<done, poolVars, runVars>>

(* Defect: a refill that comes back empty is accepted.                       *)
CollectNothing(count, live) ==
  /\ pool.size + count <= MaximumPrompts
  /\ pool' = [pool EXCEPT !.policies = @ \union {live.weights}]
  /\ engine' = Asleep(live)
  /\ UNCHANGED draws

(* One collection on the replicas as live has them.  A prompt with invalid  *)
(* trajectories is replaced by a fresh draw, for which they wake again.     *)
CollectGroups(count, live) ==
  \E replaced \in 0..MaxReplacements :
    /\ pool.size + count <= MaximumPrompts
    /\ pool' = [size |-> pool.size + count,
                policies |-> pool.policies \union {live.weights} \union
                  {Awake(Asleep(live)).weights : n \in 1..replaced}]
    /\ draws' = draws + count + replaced
    /\ engine' = Asleep(live)

CollectInitial ==
  /\ pc = "collect"
  /\ pc' = "select"
  /\ CollectGroups(InitialPrompts, Awake(engine))
  /\ UNCHANGED <<attemptVars, done, rank, chosen, batches, runVars>>

SelectPrompts ==
  /\ pc = "select"
  /\ \E n \in 0 .. MaxSelected :
       /\ n <= pool.size
       /\ chosen' = n
       /\ pc' = IF n < MinSelected /\ pool.size < MaximumPrompts
                  THEN "refill" ELSE "selected"
  /\ UNCHANGED <<attemptVars, done, rank, engine, pool, batches, draws, runVars>>

Refill ==
  /\ pc = "refill"
  /\ pc' = "select"
  /\ CollectGroups(RefillPrompts,
        IF engine.stamp = state.step
          THEN Awake(engine)
          ELSE [Awake(engine) EXCEPT !.stamp = state.step])
  /\ UNCHANGED <<attemptVars, done, rank, chosen, batches, runVars>>

(* Defect: the initial collection is taken for a refill.                     *)
RolloutMiscounted ==
  /\ pc = "selected"
  /\ pc' = "scoring"
  /\ CompleteRollout(pool.size, (pool.size - InitialPrompts) \div RefillPrompts - 1)
  /\ UNCHANGED <<done, rank, engine, poolVars, runVars>>

FinishRollout ==
  /\ pc = "selected"
  /\ pc' = "scoring"
  /\ CompleteRollout(pool.size, (pool.size - InitialPrompts) \div RefillPrompts)
  /\ UNCHANGED <<done, rank, engine, poolVars, runVars>>

FinishScoring ==
  /\ pc = "scoring"
  /\ pc' = "decide"
  /\ CompleteScoring
  /\ UNCHANGED <<done, rank, engine, poolVars, runVars>>

(* Defect: a skip forgets the prompts it consumed.                           *)
SkipRewound ==
  /\ pc = "decide"
  /\ chosen < MinSelected
  /\ pc' = "return"
  /\ Skip(state.cursor)
  /\ UNCHANGED <<done, rank, engine, poolVars, runVars>>

SkipAttempt ==
  /\ pc = "decide"
  /\ chosen < MinSelected
  /\ pc' = "return"
  /\ Skip(draws)
  /\ UNCHANGED <<done, rank, engine, poolVars, runVars>>

SelectAttempt ==
  /\ pc = "decide"
  /\ chosen >= MinSelected
  /\ pc' = "prepare"
  /\ Select(chosen)
  /\ UNCHANGED <<done, rank, engine, poolVars, runVars>>

(* Exact-IG finalisation, stop branches and learner packing.  The branches  *)
(* are generated by replicas of the attempt's version, which then sleep.    *)
PrepareBatches ==
  /\ pc = "prepare"
  /\ pc' = "zero"
  /\ engine.stamp = state.step
  /\ engine' = Asleep(Awake(engine))
  /\ batches' \in 0..MaxMicrobatches
  /\ UNCHANGED <<attemptVars, done, rank, pool, chosen, draws, runVars>>
-----------------------------------------------------------------------------
(* execute_all_sync: while the driver waits, each rank executes the call    *)
(* once; the driver goes on when all of them have.                          *)

RankCall(r, where, guard, worker) ==
  /\ pc = where
  /\ r \notin done
  /\ guard
  /\ done' = done \union {r}
  /\ rank' = [rank EXCEPT ![r] = worker]
  /\ UNCHANGED <<pc, attemptVars, engine, poolVars, runVars>>

AllRanksDone(where, next) ==
  /\ pc = where
  /\ done = Ranks
  /\ done' = {}
  /\ pc' = next

(* Defect: the call is counted, the gradients of the last attempt stay.      *)
RankCountsZeroGrad(r) ==
  RankCall(r, "zero", rank[r].zeroGrad = 0, [rank[r] EXCEPT !.zeroGrad = 1])

RankZeroGrad(r) ==
  RankCall(r, "zero", rank[r].zeroGrad = 0,
           [rank[r] EXCEPT !.grads = {}, !.zeroGrad = 1])

ZeroGrad ==
  /\ AllRanksDone("zero", "learn")
  /\ RecordZeroGrad
  /\ UNCHANGED <<rank, engine, poolVars, runVars>>

(* The checksum is recorded before the microbatch is sent to the ranks.     *)
StartMicrobatch ==
  /\ pc = "learn"
  /\ rec.microbatches < batches
  /\ pc' = "backward"
  /\ RecordBackward(ActorChecksum)
  /\ UNCHANGED <<done, rank, engine, poolVars, runVars>>

RankBackward(r) ==
  RankCall(r, "backward",
           /\ rank[r].zeroGrad = 1
           /\ rank[r].optimizer = 0
           /\ rank[r].scheduler = 0
           /\ rank[r].snapshot = state.step,
           [rank[r] EXCEPT !.grads = @ \union {<<rec.attempt, rec.microbatches>>},
                           !.backward = @ + 1])

FinishMicrobatch ==
  /\ AllRanksDone("backward", "learn")
  /\ UNCHANGED <<attemptVars, rank, engine, poolVars, runVars>>

(* complete_backward, gradient clipping and the before_optimizer preflight. *)
FinishBackward ==
  /\ pc = "learn"
  /\ rec.microbatches >= batches
  /\ \A r \in Ranks : rank[r].backward >= 1 /\ rank[r].optimizer = 0
  /\ pc' = "step"
  /\ CompleteBackward(ActorChecksum)
  /\ UNCHANGED <<done, rank, engine, poolVars, runVars>>

StartOptimizer ==
  /\ pc = "step"
  /\ pc' = "optimizer"
  /\ BeginOptimizerStep
  /\ UNCHANGED <<done, rank, engine, poolVars, runVars>>

Steppable(w) == w.zeroGrad = 1 /\ w.backward >= 1 /\ w.optimizer = 0

RankOptimizerStep(r) ==
  RankCall(r, "optimizer", Steppable(rank[r]),
           [rank[r] EXCEPT !.params = Append(@, rec.attempt), !.optimizer = 1,
                           !.committed = TRUE])

(* actor_optimizer.step() raises after it has written some parameters: the  *)
(* worker has neither counted the step nor flagged it.                      *)
RankOptimizerTears(r) ==
  /\ pc = "optimizer"
  /\ r \notin done
  /\ Steppable(rank[r])
  /\ pc' = "raised"
  /\ rank' = [rank EXCEPT ![r].params = Append(@, Torn)]
  /\ UNCHANGED <<attemptVars, done, engine, poolVars, runVars>>

FinishOptimizer ==
  /\ AllRanksDone("optimizer", "stepped")
  /\ RecordOptimizerStep
  /\ totals' = [totals EXCEPT !.optimizer = @ + 1]
  /\ UNCHANGED <<rank, engine, poolVars, attempts, launches, ledger, saved,
                 lineage>>

StartScheduler ==
  /\ pc = "stepped"
  /\ pc' = "scheduler"
  /\ BeginSchedulerStep
  /\ UNCHANGED <<done, rank, engine, poolVars, runVars>>

RankSchedulerStep(r) ==
  RankCall(r, "scheduler", rank[r].optimizer = 1 /\ rank[r].scheduler = 0,
           [rank[r] EXCEPT !.schedule = @ + 1, !.scheduler = 1])

FinishScheduler ==
  /\ AllRanksDone("scheduler", "propose")
  /\ RecordSchedulerStep
  /\ totals' = [totals EXCEPT !.scheduler = @ + 1]
  /\ UNCHANGED <<rank, engine, poolVars, attempts, launches, ledger, saved,
                 lineage>>

Propose ==
  /\ pc = "propose"
  /\ pc' = "commit"
  /\ ProposeCommit(draws)
  /\ UNCHANGED <<done, rank, engine, poolVars, runVars>>
-----------------------------------------------------------------------------
(* commit_successful_update(returned)                                       *)

StrictCounts(w) ==
  w.zeroGrad = 1 /\ w.optimizer = 1 /\ w.scheduler = 1 /\ w.backward >= 1

(* _should_checkpoint of the formal stage                                   *)
ShouldCheckpoint(step) == step % CheckpointEvery = 0

(* Refused unless every rank counts one step; then the replicas reload.     *)
SynchronizeCommit ==
  /\ pc = "commit"
  /\ \A r \in Ranks : StrictCounts(rank[r])
  /\ engine' = Asleep(Synchronized(engine, returned.step))
  /\ pc' = IF ShouldCheckpoint(returned.step) THEN "save" ELSE "publish"
  /\ UNCHANGED <<attemptVars, done, rank, poolVars, runVars>>

(* The counters of _checkpoint_metadata beside the shards of every rank.    *)
CheckpointOf(counters) ==
  [state |-> counters,
   shards |-> [r \in Ranks |-> rank[r].params],
   schedule |-> [r \in Ranks |-> rank[r].schedule]]

(* Defect: the checkpoint carries the state the attempt started from.        *)
SaveStartingState ==
  /\ pc = "save"
  /\ pc' = "publish"
  /\ saved' = saved \union {CheckpointOf(state)}
  /\ UNCHANGED <<attemptVars, done, rank, engine, poolVars, attempts, launches,
                 totals, ledger, lineage>>

SaveCheckpoint ==
  /\ pc = "save"
  /\ pc' = "publish"
  /\ saved' = saved \union {CheckpointOf(returned)}
  /\ UNCHANGED <<attemptVars, done, rank, engine, poolVars, attempts, launches,
                 totals, ledger, lineage>>

(* Defect: the event names the state the attempt started from.               *)
PublishStartingStep ==
  /\ pc = "publish"
  /\ pc' = "committed"
  /\ ledger' = Append(ledger, state.step)
  /\ UNCHANGED <<attemptVars, done, rank, engine, poolVars, attempts, launches,
                 totals, saved, lineage>>

PublishUpdate ==
  /\ pc = "publish"
  /\ pc' = "committed"
  /\ ledger' = Append(ledger, returned.step)
  /\ UNCHANGED <<attemptVars, done, rank, engine, poolVars, attempts, launches,
                 totals, saved, lineage>>

FinishCommit ==
  /\ pc = "committed"
  /\ pc' = "return"
  /\ RecordCommitSuccess
  /\ UNCHANGED <<done, rank, engine, poolVars, runVars>>

(* run_attempt returns an AttemptResult and the loop adopts its state.      *)
ReturnAttempt ==
  /\ pc = "return"
  /\ pc' = "idle"
  /\ state' = returned
  /\ attempts' = attempts + 1
  /\ lineage' = IF rec.phase = "committed" THEN Append(lineage, rec.attempt)
                                           ELSE lineage
  /\ UNCHANGED <<rec, returned, done, rank, engine, poolVars, launches, totals,
                 ledger, saved>>
-----------------------------------------------------------------------------
(* Failures                                                                 *)

(* Where an exception reaches run_attempt's handler.  record_skipped_attempt *)
(* runs before the return of a skip, nothing after record_commit_success.   *)
InTryBlock ==
  \/ pc \in {"collect", "select", "refill", "selected", "scoring", "decide",
             "prepare", "zero", "learn", "backward", "step", "optimizer",
             "stepped", "scheduler", "propose", "commit", "save", "publish",
             "committed"}
  \/ pc = "return" /\ rec.phase = "skipped"

Raise ==
  /\ InTryBlock
  /\ pc' = "raised"
  /\ UNCHANGED <<attemptVars, done, rank, engine, poolVars, runVars>>

StartRollback ==
  /\ pc = "raised"
  /\ CanRollbackPreStep
  /\ pc' = "rollback"
  /\ done' = {}
  /\ UNCHANGED <<attemptVars, rank, engine, poolVars, runVars>>

(* Defect: the rollback resets the counters and keeps the gradients.         *)
RankRollbackCounters(r) ==
  RankCall(r, "rollback", ~ rank[r].committed,
           [rank[r] EXCEPT !.zeroGrad = 0, !.backward = 0])

RankRollback(r) ==
  RankCall(r, "rollback", ~ rank[r].committed,
           [rank[r] EXCEPT !.grads = {}, !.zeroGrad = 0, !.backward = 0])

(* The handler's abort, after the rollback or without one.  It raises for a *)
(* skipped attempt; either way the process ends with an exception.          *)
AbortAttempt ==
  /\ \/ AllRanksDone("rollback", "failed")
     \/ /\ pc = "raised"
        /\ ~ CanRollbackPreStep
        /\ pc' = "failed"
        /\ UNCHANGED done
  /\ IF rec.phase = "skipped" THEN UNCHANGED attemptVars ELSE Abort(draws)
  /\ UNCHANGED <<rank, engine, poolVars, runVars>>

(* The exception leaves run(), topology.shutdown() stops the workers.  A    *)
(* freeze_rollout_boundary or a rollback that raises ends here directly.    *)
ExitOnFailure ==
  /\ pc \in {"failed", "boundary", "rollback"}
  /\ ProcessEnds

(* kill -9, a lost node, the watchdog.                                      *)
Die ==
  /\ Running
  /\ ProcessEnds
-----------------------------------------------------------------------------
Init ==
  /\ pc = "down"
  /\ rank = Untrained
  /\ state = ZeroState
  /\ returned = ZeroState
  /\ rec = NewRecord(ZeroState)
  /\ engine = [awake |-> FALSE, stamp |-> -1, weights |-> {}]
  /\ done = {}
  /\ pool = [size |-> 0, policies |-> {}]
  /\ chosen = 0 /\ batches = 0 /\ draws = 0
  /\ attempts = 0 /\ launches = 0
  /\ totals = [start |-> 0, optimizer |-> 0, scheduler |-> 0]
  /\ ledger = <<>>
  /\ saved = {}
  /\ lineage = <<>>

Launch == StartFresh \/ \E c \in saved, preload \in BOOLEAN : Resume(c, preload)

Loop == StartAttempt \/ GiveUpOverBudget \/ Pass \/ ReturnAttempt

Rollout == FreezeBoundary \/ CollectInitial \/ SelectPrompts \/ Refill
           \/ FinishRollout \/ FinishScoring \/ SkipAttempt \/ SelectAttempt
           \/ PrepareBatches

Learn == ZeroGrad \/ StartMicrobatch \/ FinishMicrobatch \/ FinishBackward
         \/ StartOptimizer \/ FinishOptimizer \/ StartScheduler
         \/ FinishScheduler \/ Propose

Commit == SynchronizeCommit \/ SaveCheckpoint \/ PublishUpdate \/ FinishCommit

RankStep == \E r \in Ranks : \/ RankZeroGrad(r) \/ RankBackward(r)
                            \/ RankOptimizerStep(r) \/ RankSchedulerStep(r)
                            \/ RankRollback(r)

Handle == StartRollback \/ AbortAttempt \/ ExitOnFailure

Failure == Raise \/ Die \/ \E r \in Ranks : RankOptimizerTears(r)

Progress == Loop \/ Rollout \/ Learn \/ Commit \/ RankStep \/ Handle

Next == Launch \/ Progress \/ Failure

(* The driver is one thread whose next instruction returns or raises, and a *)
(* worker that got a call executes it; deaths and launches are never owed.  *)
Spec == Init /\ [][Next]_vars /\ WF_vars(Progress \/ Raise)
-----------------------------------------------------------------------------
Pcs == {"down", "passed", "idle", "boundary", "collect", "select", "refill",
        "selected", "scoring", "decide", "prepare", "zero", "learn", "backward",
        "step", "optimizer", "stepped", "scheduler", "propose", "commit",
        "save", "publish", "committed", "return", "raised", "rollback", "failed"}

Checkpoint == [state : TrainingState, shards : [Ranks -> Model],
               schedule : [Ranks -> Nat]]

(* Every variable keeps its type.                                           *)
TypeOK ==
  /\ pc \in Pcs
  /\ TxTypeOK
  /\ done \subseteq Ranks
  /\ rank \in [Ranks -> Worker]
  /\ engine \in [awake : BOOLEAN, stamp : Int, weights : SUBSET Model]
  /\ pool \in [size : Nat, policies : SUBSET SUBSET Model]
  /\ chosen \in Nat /\ batches \in Nat /\ draws \in Nat
  /\ attempts \in Nat /\ launches \in Nat
  /\ totals \in [start : Nat, optimizer : Nat, scheduler : Nat]
  /\ ledger \in Seq(Nat)
  /\ saved \subseteq Checkpoint
  /\ lineage \in Model

(* Between attempts every rank holds exactly the model that the committed   *)
(* attempts produced, its optimizer and scheduler have stepped once per     *)
(* successful update, and the prompt cursor is the one a resume restores:   *)
(* neither a skip, nor a refill, nor a failed attempt leaves a trace.  The  *)
(* event file lists the updates of the run without a gap and agrees.        *)
ModelMatchesState ==
  /\ pc \in {"idle", "passed"} =>
       /\ Len(lineage) = state.step
       /\ \A r \in Ranks : rank[r].params = lineage /\ rank[r].schedule = state.step
       /\ draws = state.cursor
       /\ totals.optimizer = state.step - totals.start
       /\ totals.scheduler = state.step - totals.start
  /\ \A i \in 1 .. Len(ledger) : ledger[i] = totals.start + i
  /\ pc = "idle" => Len(ledger) = state.step - totals.start

(* On-policy: whatever the optimizer is about to learn from was generated,  *)
(* rewarded and version-stamped with the parameters the ranks hold.         *)
OnPolicy ==
  pc \in {"select", "selected", "prepare", "zero", "learn", "backward", "step"} =>
    /\ pool.policies = {{lineage}}
    /\ engine.stamp = state.step
    /\ \A r \in Ranks : /\ rank[r].params = lineage
                        /\ rank[r].reward = {lineage}
                        /\ rank[r].rewardStep = state.step

(* The gradient a rank steps on holds each selected microbatch of this      *)
(* attempt once and nothing of the attempts before it.                      *)
GradientsOfThisAttempt ==
  pc \in {"step", "optimizer"} =>
    \A r \in Ranks : rank[r].grads = {<<rec.attempt, i>> : i \in 1 .. batches}

(* An attempt that ends as aborted has been undone on every rank; if any    *)
(* rank has started its step the verdict is untrusted instead.              *)
AbortedMeansUndone ==
  /\ rec.phase = "aborted" /\ pc = "failed" =>
       \A r \in Ranks : rank[r].params = lineage /\ rank[r].grads = {}
  /\ pc = "failed" /\ (\E r \in Ranks : rank[r].params # lineage) =>
       rec.phase = "untrusted"

(* Every trainer process ends, as a pass or as a failure: refills, skips    *)
(* and retries of the loop are bounded by the pool and the attempt budget.  *)
EveryProcessEnds == Running ~> ~ Running

(* The attempt protocol implements the atomic ledger: what a rank saves is  *)
(* the whole model of its attempt, and a resume learns from none twice.     *)
Ledger == INSTANCE TrainingLedger WITH
            running <- Running,
            attempt <- state.attempt,
            model <- lineage,
            durable <- {[attempt |-> c.state.attempt, model |-> c.shards[r]] :
                          c \in saved, r \in Ranks}

ImplementsLedger == Ledger!LedgerSpec
=============================================================================
