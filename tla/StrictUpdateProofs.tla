-------------------------- MODULE StrictUpdateProofs --------------------------
(* The attempt protocol for any number of ranks, pool sizes, microbatches,  *)
(* updates and processes.                                                   *)
EXTENDS StrictUpdate, TLAPS

-----------------------------------------------------------------------------
(* Where an attempt stands.                                                 *)

PhasesAgree ==
  /\ pc = "boundary" => rec.phase = "created"
  /\ pc \in {"collect", "select", "refill", "selected"} =>
       rec.phase = "snapshot_frozen"
  /\ pc = "scoring" => rec.phase = "rollout_complete"
  /\ pc = "decide" => rec.phase = "scored"
  /\ pc \in {"prepare", "zero", "learn", "backward"} => rec.phase = "selected"
  /\ pc = "step" => rec.phase = "backward_complete"
  /\ pc = "optimizer" => rec.phase = "optimizer_step_in_progress"
  /\ pc = "stepped" => rec.phase = "optimizer_stepped"
  /\ pc = "scheduler" => rec.phase = "scheduler_step_in_progress"
  /\ pc = "propose" => rec.phase = "scheduler_stepped"
  /\ pc \in {"commit", "save", "publish", "committed"} =>
       rec.phase = "commit_in_progress"
  /\ pc = "return" => rec.phase \in {"committed", "skipped"}
  /\ pc = "raised" =>
       rec.phase \in PreStepPhases \union PostStepPhases \union {"skipped"}
  /\ pc = "rollback" => rec.phase \in PreStepPhases
  /\ pc = "failed" => rec.phase \in {"aborted", "untrusted", "skipped"}

Committing ==
  \/ pc \in {"commit", "save", "publish", "committed"}
  \/ pc = "return" /\ rec.phase = "committed"

OwnAttempt ==
  pc \notin {"down", "idle", "passed"} => rec.attempt = state.attempt + 1

HandedBack ==
  /\ Committing => returned = [attempt |-> rec.attempt, step |-> state.step + 1,
                               cursor |-> draws]
  /\ pc = "return" /\ rec.phase = "skipped" => returned = AttemptConsumed(draws)

CallsAnswered ==
  pc \notin {"zero", "backward", "optimizer", "scheduler", "rollback", "raised",
             "failed"} => done = {}

AttemptInv == PhasesAgree /\ OwnAttempt /\ HandedBack /\ CallsAnswered
-----------------------------------------------------------------------------
(* What the ranks hold.                                                     *)

Learnt == Append(lineage, rec.attempt)

Unstepped ==
  \/ pc \in {"down", "idle", "passed"}
  \/ rec.phase \in PreStepPhases \union {"skipped", "aborted"}

ParamsInv ==
  /\ Unstepped => \A r \in Ranks : rank[r].params = lineage
  /\ pc = "optimizer" =>
       \A r \in Ranks : rank[r].params = IF r \in done THEN Learnt ELSE lineage
  /\ Committing \/ pc \in {"stepped", "scheduler", "propose"} =>
       \A r \in Ranks : rank[r].params = Learnt

ScheduleInv ==
  /\ Unstepped \/ pc \in {"optimizer", "stepped"} =>
       \A r \in Ranks : rank[r].schedule = state.step
  /\ pc = "scheduler" =>
       \A r \in Ranks :
         rank[r].schedule = IF r \in done THEN state.step + 1 ELSE state.step
  /\ Committing \/ pc = "propose" =>
       \A r \in Ranks : rank[r].schedule = state.step + 1

SavedInv ==
  \A c \in saved, r \in Ranks :
    /\ Len(c.shards[r]) = c.state.step
    /\ c.schedule[r] = c.state.step
    /\ \A q \in Ranks : c.shards[q] = c.shards[r]

ModelInv == Len(lineage) = state.step /\ ParamsInv /\ ScheduleInv /\ SavedInv
-----------------------------------------------------------------------------
(* What the gradients hold.                                                 *)

Microbatches(n) == {<<rec.attempt, i>> : i \in 1 .. n}

GradientInv ==
  /\ pc \in {"boundary", "collect", "select", "refill", "selected", "scoring",
             "decide", "prepare", "zero"} => rec.microbatches = 0
  /\ pc = "zero" => \A r \in done : rank[r].grads = {}
  /\ pc = "learn" =>
       /\ rec.microbatches <= batches
       /\ \A r \in Ranks : rank[r].grads = Microbatches(rec.microbatches)
  /\ pc = "backward" =>
       /\ rec.microbatches \in 1 .. batches
       /\ \A r \in Ranks : rank[r].grads =
            Microbatches(IF r \in done THEN rec.microbatches
                                       ELSE rec.microbatches - 1)
  /\ pc \in {"step", "optimizer"} =>
       \A r \in Ranks : rank[r].grads = Microbatches(batches)
  /\ pc = "rollback" => \A r \in done : rank[r].grads = {}
  /\ pc = "failed" /\ rec.phase = "aborted" =>
       \A r \in Ranks : rank[r].grads = {}
-----------------------------------------------------------------------------
(* Which policy generates and rewards.                                      *)

RewardInv ==
  \A r \in Ranks : /\ rank[r].rewardStep <= state.step
                   /\ rank[r].rewardStep = state.step => rank[r].reward = {lineage}

SampledPcs == {"select", "refill", "selected", "scoring", "decide", "prepare",
               "zero", "learn", "backward", "step"}

EngineInv ==
  pc \in SampledPcs \union {"collect"} =>
    /\ engine.stamp = state.step
    /\ engine.awake => engine.weights = {lineage}
    /\ \A r \in Ranks : rank[r].rewardStep = state.step

PoolInv ==
  /\ pc \in {"boundary", "collect"} => pool.policies = {}
  /\ pc \in SampledPcs => pool.policies = {{lineage}}

SampleInv == EngineInv /\ PoolInv

PolicyInv == RewardInv /\ SampleInv
-----------------------------------------------------------------------------
(* What is counted.                                                         *)

UnsteppedPcs ==
  {"idle", "passed", "boundary", "collect", "select", "refill", "selected",
   "scoring", "decide", "prepare", "zero", "learn", "backward", "step",
   "optimizer"}

Skipping == pc = "return" /\ rec.phase = "skipped"

TotalsInv ==
  /\ pc \in UnsteppedPcs \/ Skipping =>
       totals.optimizer = state.step - totals.start
  /\ Committing \/ pc \in {"stepped", "scheduler", "propose"} =>
       totals.optimizer = state.step + 1 - totals.start
  /\ pc \in UnsteppedPcs \union {"stepped", "scheduler"} \/ Skipping =>
       totals.scheduler = state.step - totals.start
  /\ Committing \/ pc = "propose" =>
       totals.scheduler = state.step + 1 - totals.start

LedgerInv ==
  /\ \A i \in 1 .. Len(ledger) : ledger[i] = totals.start + i
  /\ \/ pc \in UnsteppedPcs \union {"stepped", "scheduler", "propose", "commit",
                                    "save", "publish"}
     \/ Skipping
     => Len(ledger) = state.step - totals.start
  /\ pc = "committed" \/ (pc = "return" /\ rec.phase = "committed") =>
       Len(ledger) = state.step + 1 - totals.start

CursorInv == pc \in {"idle", "passed"} => draws = state.cursor

CountInv == TotalsInv /\ LedgerInv /\ CursorInv

UpdateInv == TypeOK /\ AttemptInv /\ ModelInv /\ GradientInv /\ PolicyInv /\ CountInv
-----------------------------------------------------------------------------
(* The constants, one by one.                                               *)
LEMMA Constants ==
  /\ InitialPrompts \in Nat \ {0} /\ RefillPrompts \in Nat \ {0}
  /\ MaximumPrompts \in Nat \ {0} /\ MinSelected \in Nat \ {0}
  /\ MaxSelected \in Nat \ {0} /\ TargetUpdates \in Nat \ {0}
  /\ AttemptsPerUpdate \in Nat \ {0} /\ CheckpointEvery \in Nat \ {0}
  /\ MaxMicrobatches \in Nat /\ MaxReplacements \in Nat /\ MaxLaunches \in Nat
BY UpdateConstants

EngineType == [awake : BOOLEAN, stamp : Int, weights : SUBSET Model]
PoolType == [size : Nat, policies : SUBSET SUBSET Model]
TotalsType == [start : Nat, optimizer : Nat, scheduler : Nat]

(* What a process starts from.                                              *)
LEMMA StartTypes ==
  /\ ZeroState \in TrainingState
  /\ <<>> \in Model
  /\ \A st \in TrainingState : NewRecord(st) \in AttemptRecord
  /\ \A p \in Model, n \in Nat : NewWorker(p, n) \in Worker
<1>1. ZeroState \in TrainingState
  BY DEF ZeroState, TrainingState
<1>2. <<>> \in Model
  BY DEF Model
<1>3. \A st \in TrainingState : NewRecord(st) \in AttemptRecord
  BY DEF TrainingState, NewRecord, AttemptRecord, AttemptPhase, PreStepPhases
<1>4. \A p \in Model, n \in Nat : NewWorker(p, n) \in Worker
  BY DEF NewWorker, Worker
<1> QED
  BY <1>1, <1>2, <1>3, <1>4

(* A process that begins or ends: its memory is that of start.              *)
LEMMA MemoryTypes ==
  ASSUME NEW workers \in [Ranks -> Worker], NEW start \in TrainingState,
         saved \subseteq Checkpoint, Memory(workers, start),
         pc' \in Pcs, launches' \in Nat, lineage' \in Model
  PROVE  TypeOK'
<1>1. NewRecord(start) \in AttemptRecord
  BY StartTypes
<1>2. TxTypeOK'
  BY <1>1 DEF Memory, TxTypeOK
<1>3. /\ draws' \in Nat /\ engine' \in EngineType /\ pool' \in PoolType
      /\ totals' \in TotalsType /\ ledger' \in Seq(Nat)
  BY DEF Memory, TrainingState, EngineType, PoolType, TotalsType
<1> QED
  BY <1>2, <1>3 DEF Memory, TypeOK, EngineType, PoolType, TotalsType

(* A method of the transaction keeps its types.                             *)
LEMMA MethodTypes ==
  ASSUME TxTypeOK, NEW cursor \in Nat, NEW checksum \in SUBSET Model,
         NEW count \in Nat, NEW refills \in Nat, NEW versions,
         \/ FreezeSnapshot(versions) \/ CompleteRollout(count, refills)
         \/ CompleteScoring \/ Select(count) \/ Skip(cursor) \/ RecordZeroGrad
         \/ RecordBackward(checksum) \/ CompleteBackward(checksum)
         \/ BeginOptimizerStep \/ RecordOptimizerStep \/ BeginSchedulerStep
         \/ RecordSchedulerStep \/ ProposeCommit(cursor) \/ RecordCommitSuccess
         \/ Abort(cursor)
  PROVE  TxTypeOK'
<1> USE DEF TxTypeOK
<1>1. /\ rec.attempt \in Nat /\ rec.zeroGrads \in Nat /\ rec.microbatches \in Nat
      /\ rec.optimizerSteps \in Nat /\ rec.schedulerSteps \in Nat
      /\ state.step \in Nat /\ rec \in AttemptRecord
  BY DEF AttemptRecord, TrainingState
<1>2. ASSUME NEW phase \in AttemptPhase
      PROVE  [rec EXCEPT !.phase = phase] \in AttemptRecord
  BY <1>1 DEF AttemptRecord
<1>3. \A x \in {"snapshot_frozen", "rollout_complete", "scored", "selected",
               "skipped", "backward_complete", "optimizer_step_in_progress",
               "optimizer_stepped", "scheduler_step_in_progress",
               "scheduler_stepped", "commit_in_progress", "committed", "aborted",
               "untrusted"} : x \in AttemptPhase
  BY DEF AttemptPhase, PreStepPhases, PostStepPhases, FinalPhases
<1>4. CASE FreezeSnapshot(versions)
  BY <1>2, <1>3, <1>4 DEF FreezeSnapshot
<1>5. CASE CompleteRollout(count, refills)
  BY <1>1, <1>3, <1>5 DEF CompleteRollout, AttemptRecord
<1>6. CASE CompleteScoring
  BY <1>2, <1>3, <1>6 DEF CompleteScoring
<1>7. CASE Select(count)
  BY <1>1, <1>3, <1>7 DEF Select, AttemptRecord
<1>8. AttemptConsumed(cursor) \in TrainingState
  BY <1>1 DEF AttemptConsumed, TrainingState
<1>9. CASE Skip(cursor)
  BY <1>2, <1>3, <1>8, <1>9 DEF Skip
<1>10. CASE RecordZeroGrad
  BY <1>1, <1>10 DEF RecordZeroGrad, AttemptRecord
<1>11. CASE RecordBackward(checksum)
  <2>1. {checksum} \in SUBSET SUBSET Model /\ rec.microbatches + 1 \in Nat
    BY <1>1
  <2> QED
    BY <1>1, <1>11, <2>1 DEF RecordBackward, AttemptRecord
<1>12. CASE CompleteBackward(checksum)
  BY <1>2, <1>3, <1>12 DEF CompleteBackward
<1>13. CASE BeginOptimizerStep
  BY <1>2, <1>3, <1>13 DEF BeginOptimizerStep
<1>14. CASE RecordOptimizerStep
  <2>1. [rec EXCEPT !.phase = "optimizer_stepped", !.optimizerSteps = rec.optimizerSteps + 1]
          \in AttemptRecord
    <3>1. "optimizer_stepped" \in AttemptPhase /\ rec.optimizerSteps + 1 \in Nat
      BY <1>1, <1>3
    <3> QED
      BY <1>1, <3>1 DEF AttemptRecord
  <2> QED
    BY <1>14, <2>1 DEF RecordOptimizerStep
<1>15. CASE BeginSchedulerStep
  BY <1>2, <1>3, <1>15 DEF BeginSchedulerStep
<1>16. CASE RecordSchedulerStep
  <2>1. [rec EXCEPT !.phase = "scheduler_stepped", !.schedulerSteps = rec.schedulerSteps + 1]
          \in AttemptRecord
    <3>1. "scheduler_stepped" \in AttemptPhase /\ rec.schedulerSteps + 1 \in Nat
      BY <1>1, <1>3
    <3> QED
      BY <1>1, <3>1 DEF AttemptRecord
  <2> QED
    BY <1>16, <2>1 DEF RecordSchedulerStep
<1>17. CASE ProposeCommit(cursor)
  <2>1. [attempt |-> rec.attempt, step |-> state.step + 1, cursor |-> cursor]
          \in TrainingState
    BY <1>1 DEF TrainingState
  <2> QED
    BY <1>2, <1>3, <1>17, <2>1 DEF ProposeCommit
<1>18. CASE RecordCommitSuccess
  BY <1>2, <1>3, <1>18 DEF RecordCommitSuccess
<1>19. CASE Abort(cursor)
  BY <1>2, <1>3, <1>8, <1>19 DEF Abort
<1> QED
  BY <1>4, <1>5, <1>6, <1>7, <1>9, <1>10, <1>11, <1>12, <1>13, <1>14, <1>15,
     <1>16, <1>17, <1>18, <1>19

(* The workers and the replicas.                                            *)
LEMMA WorkerTypes ==
  ASSUME TypeOK
  PROVE  /\ ActorChecksum \in SUBSET Model
         /\ \A e \in EngineType, n \in Int :
              /\ Asleep(e) \in EngineType /\ Awake(e) \in EngineType
              /\ Synchronized(e, n) \in EngineType
              /\ [e EXCEPT !.stamp = n] \in EngineType
         /\ \A w \in Worker, n \in Int : BeginSnapshot(w, n) \in Worker
<1>1. rank \in [Ranks -> Worker]
  BY DEF TypeOK
<1>2. ActorChecksum \in SUBSET Model
  BY <1>1 DEF ActorChecksum, Worker
<1>3. \A e \in EngineType : Asleep(e) \in EngineType /\ Awake(e) \in EngineType
  BY <1>2 DEF Asleep, Awake, EngineType
<1>4. \A e \in EngineType, n \in Int : [e EXCEPT !.stamp = n] \in EngineType
  BY DEF EngineType
<1>5. \A e \in EngineType, n \in Int : Synchronized(e, n) \in EngineType
  BY <1>3, <1>4 DEF Synchronized
<1>6. ASSUME NEW w \in Worker, NEW n \in Int
      PROVE  BeginSnapshot(w, n) \in Worker
  <2> DEFINE fresh == [w EXCEPT !.snapshot = n, !.zeroGrad = 0, !.backward = 0,
                                !.optimizer = 0, !.scheduler = 0, !.committed = FALSE]
  <2>1. fresh \in Worker
    BY DEF Worker
  <2> HIDE DEF fresh
  <2>2. SyncReward(fresh, n) \in Worker
    BY <1>2, <2>1 DEF Worker, SyncReward
  <2>3. BeginSnapshot(w, n) \in {fresh, SyncReward(fresh, n)}
    BY DEF BeginSnapshot, fresh
  <2> QED
    BY <2>1, <2>2, <2>3
<1> QED
  BY <1>2, <1>3, <1>4, <1>5, <1>6

(* A worker-group call keeps the types.                                     *)
LEMMA RankCallTypes ==
  ASSUME TypeOK, NEW r \in Ranks, NEW where, NEW guard, NEW STATE worker,
         worker \in Worker, RankCall(r, where, guard, worker)
  PROVE  TypeOK'
<1>1. rank' \in [Ranks -> Worker] /\ done' \subseteq Ranks
  BY DEF RankCall, TypeOK
<1> QED
  BY <1>1 DEF RankCall, TypeOK, TxTypeOK, attemptVars, poolVars, runVars

(* A step of the driver that calls one method of the transaction.           *)
LEMMA MethodStepTypes ==
  ASSUME TypeOK, TxTypeOK', pc' \in Pcs, done' \subseteq Ranks,
         UNCHANGED <<rank, engine, poolVars, attempts, launches, ledger, saved, lineage>>,
         totals' \in TotalsType
  PROVE  TypeOK'
BY DEF TypeOK, poolVars, TotalsType

(* Every step keeps the types.                                              *)
LEMMA StepTypes == TypeOK /\ [Next]_vars => TypeOK'
<1> SUFFICES ASSUME TypeOK, [Next]_vars PROVE TypeOK'
  OBVIOUS
<1> USE DEF attemptVars, poolVars, runVars
<1>1. /\ TxTypeOK /\ state \in TrainingState /\ returned \in TrainingState
      /\ rank \in [Ranks -> Worker] /\ done \subseteq Ranks
      /\ engine \in EngineType /\ pool \in PoolType /\ totals \in TotalsType
      /\ chosen \in Nat /\ batches \in Nat /\ draws \in Nat
      /\ attempts \in Nat /\ launches \in Nat /\ ledger \in Seq(Nat)
      /\ saved \subseteq Checkpoint /\ lineage \in Model
      /\ rec \in AttemptRecord
  BY DEF TypeOK, TxTypeOK, EngineType, PoolType, TotalsType
<1>2. /\ state.step \in Nat /\ state.attempt \in Nat /\ state.cursor \in Nat
      /\ returned.step \in Nat /\ rec.attempt \in Nat
      /\ rec.microbatches \in Nat /\ pool.size \in Nat
      /\ totals.optimizer \in Nat /\ totals.scheduler \in Nat
  BY <1>1 DEF TrainingState, AttemptRecord, PoolType, TotalsType
<1>2a. state.step \in Int /\ returned.step \in Int
  BY <1>2
<1>3. \A p \in {"down", "passed", "idle", "boundary", "collect", "select", "refill",
        "selected", "scoring", "decide", "prepare", "zero", "learn", "backward",
        "step", "optimizer", "stepped", "scheduler", "propose", "commit",
        "save", "publish", "committed", "return", "raised", "rollback", "failed"} :
        p \in Pcs
  BY DEF Pcs
<1>4. Untrained \in [Ranks -> Worker]
  BY StartTypes DEF Untrained
<1>5. ProcessEnds => TypeOK'
  <2> SUFFICES ASSUME ProcessEnds PROVE TypeOK'
    OBVIOUS
  <2> QED
    BY <1>1, <1>3, <1>4, StartTypes, MemoryTypes DEF ProcessEnds
<1>6. CASE StartFresh
  <2>1. launches' \in Nat
    BY <1>1, <1>6 DEF StartFresh, Boot
  <2> QED
    BY <1>1, <1>3, <1>4, <1>6, <2>1, StartTypes, MemoryTypes DEF StartFresh, Boot
<1>7. ASSUME NEW c \in saved, NEW preload \in BOOLEAN, Resume(c, preload)
      PROVE  TypeOK'
  <2>1. c \in Checkpoint
    BY <1>1
  <2>2. /\ c.state \in TrainingState /\ c.state.step \in Nat
        /\ \A r \in Ranks : c.shards[r] \in Model /\ c.schedule[r] \in Nat
    BY <2>1 DEF Checkpoint, TrainingState
  <2>3. \A r \in Ranks : Restored(c, r) \in Worker
    BY <2>2, StartTypes DEF Restored
  <2>4. ASSUME NEW w \in Worker
        PROVE  Preloaded(w, c) \in Worker
    <3> DEFINE read == {c.shards[q] : q \in Ranks}
    <3>1. read \in SUBSET Model /\ c.state.step \in Int
      BY <2>2
    <3>2. Preloaded(w, c) = [w EXCEPT !.rewardStep = c.state.step, !.reward = read]
      BY DEF Preloaded
    <3> HIDE DEF read
    <3> QED
      BY <3>1, <3>2 DEF Worker
  <2> DEFINE workers == [r \in Ranks |-> IF preload THEN Preloaded(Restored(c, r), c)
                                                   ELSE Restored(c, r)]
  <2>5. workers \in [Ranks -> Worker]
    BY <2>3, <2>4
  <2>6. Memory(workers, c.state) /\ pc' = "idle" /\ launches' = launches + 1
    BY <1>7 DEF Resume, Boot
  <2> HIDE DEF workers
  <2>7. lineage' \in Model /\ launches' \in Nat
    BY <1>1, <1>7, <2>2, <2>6 DEF Resume
  <2> QED
    BY <1>1, <1>3, <2>2, <2>5, <2>6, <2>7, MemoryTypes
<1>8. CASE StartAttempt
  <2>1. NewRecord(state) \in AttemptRecord
    BY <1>1, StartTypes
  <2>2. [size |-> 0, policies |-> {}] \in PoolType
    BY DEF PoolType
  <2> QED
    BY <1>1, <1>3, <1>8, <2>1, <2>2
    DEF StartAttempt, TypeOK, TxTypeOK, PoolType
<1>9. CASE GiveUpOverBudget
  BY <1>5, <1>9 DEF GiveUpOverBudget
<1>10. CASE Pass
  BY <1>1, <1>3, <1>5, <1>10 DEF Pass, TypeOK, TxTypeOK
<1>11. CASE ReturnAttempt
  <2>1. lineage' \in Model
    BY <1>1, <1>2, <1>11 DEF ReturnAttempt, Model
  <2>2. attempts' \in Nat
    BY <1>1, <1>11 DEF ReturnAttempt
  <2> QED
    BY <1>1, <1>3, <1>11, <2>1, <2>2 DEF ReturnAttempt, TypeOK, TxTypeOK
<1>12. CASE FreezeBoundary
  <2>1. TxTypeOK'
    BY <1>1, <1>12, MethodTypes DEF FreezeBoundary
  <2>2. \A r \in Ranks : BeginSnapshot(rank[r], state.step) \in Worker
    BY <1>1, <1>2a, WorkerTypes
  <2>3. rank' \in [Ranks -> Worker] /\ engine' \in EngineType
    BY <1>1, <1>2a, <1>12, <2>2, WorkerTypes DEF FreezeBoundary
  <2> QED
    BY <1>1, <1>3, <1>12, <2>1, <2>3 DEF FreezeBoundary, TypeOK, EngineType
<1>13. ASSUME NEW count \in Nat, NEW STATE live, live \in EngineType,
              CollectGroups(count, live), pc' \in Pcs,
              UNCHANGED <<attemptVars, done, rank, chosen, batches, runVars>>
       PROVE  TypeOK'
  <2>1. PICK replaced \in 0..MaxReplacements :
          /\ pool' = [size |-> pool.size + count,
                      policies |-> pool.policies \union {live.weights} \union
                        {Awake(Asleep(live)).weights : n \in 1..replaced}]
          /\ draws' = draws + count + replaced
          /\ engine' = Asleep(live)
    BY <1>13 DEF CollectGroups
  <2>2. Asleep(live) \in EngineType /\ Awake(Asleep(live)) \in EngineType
    <3>1. \A e \in EngineType : Asleep(e) \in EngineType /\ Awake(e) \in EngineType
      BY <1>2a, WorkerTypes
    <3> QED
      BY <1>13, <3>1
  <2>3. live.weights \in SUBSET Model /\ Awake(Asleep(live)).weights \in SUBSET Model
    BY <1>13, <2>2 DEF EngineType
  <2>4. pool' \in PoolType
    <3>1. pool.policies \union {live.weights} \union
            {Awake(Asleep(live)).weights : n \in 1..replaced} \in SUBSET SUBSET Model
      BY <1>1, <2>3 DEF PoolType
    <3> QED
      BY <1>2, <2>1, <3>1 DEF PoolType
  <2>5. draws' \in Nat
    BY <1>1, <2>1, Constants
  <2> QED
    BY <1>1, <1>13, <2>1, <2>2, <2>4, <2>5 DEF TypeOK, TxTypeOK, EngineType, PoolType
<1>14. CASE CollectInitial
  <2>1. Awake(engine) \in EngineType
    <3>1. \A e \in EngineType : Awake(e) \in EngineType
      BY <1>2a, WorkerTypes
    <3> QED
      BY <1>1, <3>1
  <2>2. CollectGroups(InitialPrompts, Awake(engine)) /\ pc' = "select"
        /\ UNCHANGED <<attemptVars, done, rank, chosen, batches, runVars>>
    BY <1>14 DEF CollectInitial
  <2> QED
    BY <1>3, <1>13, <2>1, <2>2, Constants
<1>15. CASE SelectPrompts
  <2>1. PICK n \in 0 .. MaxSelected : chosen' = n
    BY <1>15 DEF SelectPrompts
  <2>2. chosen' \in Nat
    BY <2>1, Constants
  <2> QED
    BY <1>1, <1>3, <1>15, <2>2 DEF SelectPrompts, TypeOK, TxTypeOK
<1>16. CASE Refill
  <2> DEFINE live == IF engine.stamp = state.step
                       THEN Awake(engine)
                       ELSE [Awake(engine) EXCEPT !.stamp = state.step]
  <2>1. live \in EngineType
    BY <1>1, <1>2a, WorkerTypes
  <2>2. CollectGroups(RefillPrompts, live) /\ pc' = "select"
        /\ UNCHANGED <<attemptVars, done, rank, chosen, batches, runVars>>
    BY <1>16 DEF Refill
  <2> HIDE DEF live
  <2> QED
    BY <1>3, <1>13, <2>1, <2>2, Constants
<1>17. CASE FinishRollout
  <2> DEFINE refills == (pool.size - InitialPrompts) \div RefillPrompts
  <2>1. CompleteRollout(pool.size, refills) /\ pc' = "scoring"
        /\ UNCHANGED <<done, rank, engine, poolVars, runVars>>
    BY <1>17 DEF FinishRollout
  <2>2. pool.size >= InitialPrompts
    BY <1>2, <2>1, Constants DEF CompleteRollout, AllowedPoolSizes
  <2>3. refills \in Nat
    BY <1>2, <2>2, Constants
  <2> HIDE DEF refills
  <2>4. TxTypeOK'
    BY <1>1, <1>2, <2>1, <2>3, MethodTypes
  <2> QED
    BY <1>1, <1>3, <2>1, <2>4, MethodStepTypes
<1>18. CASE FinishScoring
  <2>1. TxTypeOK'
    BY <1>1, <1>18, MethodTypes DEF FinishScoring
  <2> QED
    BY <1>1, <1>3, <1>18, <2>1, MethodStepTypes DEF FinishScoring
<1>19. CASE SkipAttempt
  <2>1. TxTypeOK'
    BY <1>1, <1>19, MethodTypes DEF SkipAttempt
  <2> QED
    BY <1>1, <1>3, <1>19, <2>1, MethodStepTypes DEF SkipAttempt
<1>20. CASE SelectAttempt
  <2>1. TxTypeOK'
    BY <1>1, <1>20, MethodTypes DEF SelectAttempt
  <2> QED
    BY <1>1, <1>3, <1>20, <2>1, MethodStepTypes DEF SelectAttempt
<1>21. CASE PrepareBatches
  <2>1. engine' \in EngineType
    <3>1. \A e \in EngineType : Asleep(e) \in EngineType /\ Awake(e) \in EngineType
      BY <1>2a, WorkerTypes
    <3> QED
      BY <1>1, <1>21, <3>1 DEF PrepareBatches
  <2>2. batches' \in Nat
    BY <1>21, Constants DEF PrepareBatches
  <2> QED
    BY <1>1, <1>3, <1>21, <2>1, <2>2 DEF PrepareBatches, TypeOK, TxTypeOK, EngineType
<1>22. CASE ZeroGrad
  <2>1. TxTypeOK'
    BY <1>1, <1>22, MethodTypes DEF ZeroGrad
  <2> QED
    BY <1>1, <1>3, <1>22, <2>1, MethodStepTypes DEF ZeroGrad, AllRanksDone
<1>23. CASE StartMicrobatch
  <2>1. TxTypeOK'
    BY <1>1, <1>23, MethodTypes, WorkerTypes DEF StartMicrobatch
  <2> QED
    BY <1>1, <1>3, <1>23, <2>1, MethodStepTypes DEF StartMicrobatch
<1>24. CASE FinishMicrobatch
  BY <1>1, <1>3, <1>24 DEF FinishMicrobatch, AllRanksDone, TypeOK, TxTypeOK
<1>25. CASE FinishBackward
  <2>1. TxTypeOK'
    BY <1>1, <1>25, MethodTypes, WorkerTypes DEF FinishBackward
  <2> QED
    BY <1>1, <1>3, <1>25, <2>1, MethodStepTypes DEF FinishBackward
<1>26. CASE StartOptimizer
  <2>1. TxTypeOK'
    BY <1>1, <1>26, MethodTypes DEF StartOptimizer
  <2> QED
    BY <1>1, <1>3, <1>26, <2>1, MethodStepTypes DEF StartOptimizer
<1>27. CASE FinishOptimizer
  <2>1. TxTypeOK'
    BY <1>1, <1>27, MethodTypes DEF FinishOptimizer
  <2>2. totals' \in TotalsType
    <3>1. totals.optimizer + 1 \in Nat
      BY <1>2
    <3>2. totals' = [totals EXCEPT !.optimizer = totals.optimizer + 1]
      BY <1>27 DEF FinishOptimizer
    <3> QED
      BY <1>1, <3>1, <3>2 DEF TotalsType
  <2> QED
    BY <1>1, <1>3, <1>27, <2>1, <2>2, MethodStepTypes DEF FinishOptimizer, AllRanksDone
<1>28. CASE StartScheduler
  <2>1. TxTypeOK'
    BY <1>1, <1>28, MethodTypes DEF StartScheduler
  <2> QED
    BY <1>1, <1>3, <1>28, <2>1, MethodStepTypes DEF StartScheduler
<1>29. CASE FinishScheduler
  <2>1. TxTypeOK'
    BY <1>1, <1>29, MethodTypes DEF FinishScheduler
  <2>2. totals' \in TotalsType
    <3>1. totals.scheduler + 1 \in Nat
      BY <1>2
    <3>2. totals' = [totals EXCEPT !.scheduler = totals.scheduler + 1]
      BY <1>29 DEF FinishScheduler
    <3> QED
      BY <1>1, <3>1, <3>2 DEF TotalsType
  <2> QED
    BY <1>1, <1>3, <1>29, <2>1, <2>2, MethodStepTypes DEF FinishScheduler, AllRanksDone
<1>30. CASE Propose
  <2>1. TxTypeOK'
    BY <1>1, <1>30, MethodTypes DEF Propose
  <2> QED
    BY <1>1, <1>3, <1>30, <2>1, MethodStepTypes DEF Propose
<1>31. CASE SynchronizeCommit
  <2>1. engine' \in EngineType
    <3>1. \A e \in EngineType, n \in Int :
            Asleep(e) \in EngineType /\ Synchronized(e, n) \in EngineType
      BY WorkerTypes
    <3> QED
      BY <1>1, <1>2a, <1>31, <3>1 DEF SynchronizeCommit
  <2> QED
    BY <1>1, <1>3, <1>31, <2>1 DEF SynchronizeCommit, TypeOK, TxTypeOK, EngineType
<1>32. CASE SaveCheckpoint
  <2>1. CheckpointOf(returned) \in Checkpoint
    BY <1>1 DEF CheckpointOf, Checkpoint, Worker
  <2> QED
    BY <1>1, <1>3, <1>32, <2>1 DEF SaveCheckpoint, TypeOK, TxTypeOK
<1>33. CASE PublishUpdate
  <2>1. ledger' \in Seq(Nat)
    BY <1>1, <1>2, <1>33 DEF PublishUpdate
  <2> QED
    BY <1>1, <1>3, <1>33, <2>1 DEF PublishUpdate, TypeOK, TxTypeOK
<1>34. CASE FinishCommit
  <2>1. TxTypeOK'
    BY <1>1, <1>34, MethodTypes DEF FinishCommit
  <2> QED
    BY <1>1, <1>3, <1>34, <2>1, MethodStepTypes DEF FinishCommit
<1>35. ASSUME NEW r \in Ranks,
              \/ RankZeroGrad(r) \/ RankBackward(r) \/ RankOptimizerStep(r)
              \/ RankSchedulerStep(r) \/ RankRollback(r)
       PROVE  TypeOK'
  <2>1. /\ rank[r] \in Worker /\ rank[r].params \in Seq(Nat)
        /\ rank[r].backward \in Nat /\ rank[r].schedule \in Nat
        /\ rank[r].grads \in SUBSET (Nat \X Nat)
    BY <1>1 DEF Worker, Model
  <2>2. [rank[r] EXCEPT !.grads = {}, !.zeroGrad = 1] \in Worker
    BY <2>1 DEF Worker
  <2>3. [rank[r] EXCEPT !.grads = @ \union {<<rec.attempt, rec.microbatches>>},
                        !.backward = @ + 1] \in Worker
    <3>1. rank[r].grads \union {<<rec.attempt, rec.microbatches>>} \in SUBSET (Nat \X Nat)
      BY <1>2, <2>1
    <3>2. rank[r].backward + 1 \in Nat
      BY <2>1
    <3> QED
      BY <2>1, <3>1, <3>2 DEF Worker
  <2>4. [rank[r] EXCEPT !.params = Append(@, rec.attempt), !.optimizer = 1,
                        !.committed = TRUE] \in Worker
    <3>1. Append(rank[r].params, rec.attempt) \in Model
      BY <1>2, <2>1 DEF Model
    <3> QED
      BY <2>1, <3>1 DEF Worker
  <2>5. [rank[r] EXCEPT !.schedule = @ + 1, !.scheduler = 1] \in Worker
    <3>1. rank[r].schedule + 1 \in Nat
      BY <2>1
    <3> QED
      BY <2>1, <3>1 DEF Worker
  <2>6. [rank[r] EXCEPT !.grads = {}, !.zeroGrad = 0, !.backward = 0] \in Worker
    BY <2>1 DEF Worker
  <2> QED
    BY <1>35, <2>2, <2>3, <2>4, <2>5, <2>6, RankCallTypes
    DEF RankZeroGrad, RankBackward, RankOptimizerStep, RankSchedulerStep, RankRollback
<1>36. ASSUME NEW r \in Ranks, RankOptimizerTears(r)
       PROVE  TypeOK'
  <2>1. rank[r] \in Worker /\ rank[r].params \in Seq(Nat)
    BY <1>1 DEF Worker, Model
  <2>2. Append(rank[r].params, Torn) \in Model
    BY <2>1 DEF Model, Torn
  <2>3. rank' = [rank EXCEPT ![r].params = Append(rank[r].params, Torn)]
    BY <1>36 DEF RankOptimizerTears
  <2>4. rank' \in [Ranks -> Worker]
    BY <1>1, <2>1, <2>2, <2>3 DEF Worker
  <2> QED
    BY <1>1, <1>3, <1>36, <2>4 DEF RankOptimizerTears, TypeOK, TxTypeOK
<1>37. CASE Raise
  BY <1>1, <1>3, <1>37 DEF Raise, TypeOK, TxTypeOK
<1>38. CASE StartRollback
  BY <1>1, <1>3, <1>38 DEF StartRollback, TypeOK, TxTypeOK
<1>39. CASE AbortAttempt
  <2>1. TxTypeOK'
    BY <1>1, <1>39, MethodTypes DEF AbortAttempt, TxTypeOK
  <2>2. pc' = "failed" /\ done' \subseteq Ranks
    BY <1>1, <1>39 DEF AbortAttempt, AllRanksDone
  <2> QED
    BY <1>1, <1>3, <1>39, <2>1, <2>2, MethodStepTypes DEF AbortAttempt
<1>40. CASE ExitOnFailure
  BY <1>5, <1>40 DEF ExitOnFailure
<1>41. CASE Die
  BY <1>5, <1>41 DEF Die
<1>42. CASE UNCHANGED vars
  BY <1>1, <1>42 DEF vars, TypeOK, TxTypeOK
<1>43. CASE Launch
  BY <1>6, <1>7, <1>43 DEF Launch
<1>44. CASE Progress
  BY <1>8, <1>9, <1>10, <1>11, <1>12, <1>14, <1>15, <1>16, <1>17, <1>18, <1>19,
     <1>20, <1>21, <1>22, <1>23, <1>24, <1>25, <1>26, <1>27, <1>28, <1>29, <1>30,
     <1>31, <1>32, <1>33, <1>34, <1>35, <1>38, <1>39, <1>40, <1>44
  DEF Progress, Loop, Rollout, Learn, Commit, RankStep, Handle
<1>45. CASE Failure
  BY <1>36, <1>37, <1>41, <1>45 DEF Failure
<1> QED
  BY <1>42, <1>43, <1>44, <1>45 DEF Next
-----------------------------------------------------------------------------
(* What a method of the transaction changes.                                *)
Moves(from, to) ==
  /\ rec.phase = from
  /\ rec'.phase = to
  /\ rec'.attempt = rec.attempt
  /\ UNCHANGED state

SameCount == rec'.microbatches = rec.microbatches

LEMMA MethodEffects ==
  ASSUME TxTypeOK
  PROVE
    /\ \A versions : FreezeSnapshot(versions) =>
         Moves("created", "snapshot_frozen") /\ SameCount /\ UNCHANGED returned
    /\ \A count, refills : CompleteRollout(count, refills) =>
         Moves("snapshot_frozen", "rollout_complete") /\ SameCount /\ UNCHANGED returned
    /\ CompleteScoring =>
         Moves("rollout_complete", "scored") /\ SameCount /\ UNCHANGED returned
    /\ \A count : Select(count) =>
         Moves("scored", "selected") /\ SameCount /\ UNCHANGED returned
    /\ \A cursor : Skip(cursor) =>
         Moves("scored", "skipped") /\ SameCount /\ returned' = AttemptConsumed(cursor)
    /\ RecordZeroGrad =>
         Moves("selected", "selected") /\ SameCount /\ UNCHANGED returned
    /\ \A checksum : RecordBackward(checksum) =>
         /\ Moves("selected", "selected") /\ UNCHANGED returned
         /\ rec'.microbatches = rec.microbatches + 1
    /\ \A checksum : CompleteBackward(checksum) =>
         Moves("selected", "backward_complete") /\ SameCount /\ UNCHANGED returned
    /\ BeginOptimizerStep =>
         /\ Moves("backward_complete", "optimizer_step_in_progress")
         /\ SameCount /\ UNCHANGED returned
    /\ RecordOptimizerStep =>
         /\ Moves("optimizer_step_in_progress", "optimizer_stepped")
         /\ SameCount /\ UNCHANGED returned
    /\ BeginSchedulerStep =>
         /\ Moves("optimizer_stepped", "scheduler_step_in_progress")
         /\ SameCount /\ UNCHANGED returned
    /\ RecordSchedulerStep =>
         /\ Moves("scheduler_step_in_progress", "scheduler_stepped")
         /\ SameCount /\ UNCHANGED returned
    /\ \A cursor : ProposeCommit(cursor) =>
         /\ Moves("scheduler_stepped", "commit_in_progress") /\ SameCount
         /\ returned' = [attempt |-> rec.attempt, step |-> state.step + 1,
                         cursor |-> cursor]
    /\ RecordCommitSuccess =>
         Moves("commit_in_progress", "committed") /\ SameCount /\ UNCHANGED returned
    /\ \A cursor : Abort(cursor) =>
         /\ UNCHANGED state /\ rec'.attempt = rec.attempt /\ SameCount
         /\ \/ rec.phase \in PostStepPhases /\ rec'.phase = "untrusted"
            \/ rec.phase \in PreStepPhases \union {"aborted"} /\ rec'.phase = "aborted"
<1> USE DEF TxTypeOK, AttemptRecord, Moves, SameCount
<1>1. \A versions : FreezeSnapshot(versions) =>
        Moves("created", "snapshot_frozen") /\ SameCount /\ UNCHANGED returned
  BY DEF FreezeSnapshot
<1>2. \A count, refills : CompleteRollout(count, refills) =>
        Moves("snapshot_frozen", "rollout_complete") /\ SameCount /\ UNCHANGED returned
  BY DEF CompleteRollout
<1>3. CompleteScoring =>
        Moves("rollout_complete", "scored") /\ SameCount /\ UNCHANGED returned
  BY DEF CompleteScoring
<1>4. \A count : Select(count) =>
        Moves("scored", "selected") /\ SameCount /\ UNCHANGED returned
  BY DEF Select
<1>5. \A cursor : Skip(cursor) =>
        Moves("scored", "skipped") /\ SameCount /\ returned' = AttemptConsumed(cursor)
  BY DEF Skip
<1>6. RecordZeroGrad =>
        Moves("selected", "selected") /\ SameCount /\ UNCHANGED returned
  BY DEF RecordZeroGrad
<1>7. \A checksum : RecordBackward(checksum) =>
        /\ Moves("selected", "selected") /\ UNCHANGED returned
        /\ rec'.microbatches = rec.microbatches + 1
  BY DEF RecordBackward
<1>8. \A checksum : CompleteBackward(checksum) =>
        Moves("selected", "backward_complete") /\ SameCount /\ UNCHANGED returned
  BY DEF CompleteBackward
<1>9. BeginOptimizerStep =>
        /\ Moves("backward_complete", "optimizer_step_in_progress")
        /\ SameCount /\ UNCHANGED returned
  BY DEF BeginOptimizerStep
<1>10. RecordOptimizerStep =>
         /\ Moves("optimizer_step_in_progress", "optimizer_stepped")
         /\ SameCount /\ UNCHANGED returned
  BY DEF RecordOptimizerStep
<1>11. BeginSchedulerStep =>
         /\ Moves("optimizer_stepped", "scheduler_step_in_progress")
         /\ SameCount /\ UNCHANGED returned
  BY DEF BeginSchedulerStep
<1>12. RecordSchedulerStep =>
         /\ Moves("scheduler_step_in_progress", "scheduler_stepped")
         /\ SameCount /\ UNCHANGED returned
  BY DEF RecordSchedulerStep
<1>13. \A cursor : ProposeCommit(cursor) =>
         /\ Moves("scheduler_stepped", "commit_in_progress") /\ SameCount
         /\ returned' = [attempt |-> rec.attempt, step |-> state.step + 1,
                         cursor |-> cursor]
  BY DEF ProposeCommit
<1>14. RecordCommitSuccess =>
         Moves("commit_in_progress", "committed") /\ SameCount /\ UNCHANGED returned
  BY DEF RecordCommitSuccess
<1>15. \A cursor : Abort(cursor) =>
         /\ UNCHANGED state /\ rec'.attempt = rec.attempt /\ SameCount
         /\ \/ rec.phase \in PostStepPhases /\ rec'.phase = "untrusted"
            \/ rec.phase \in PreStepPhases \union {"aborted"} /\ rec'.phase = "aborted"
  BY DEF Abort
<1> QED
  BY <1>1, <1>2, <1>3, <1>4, <1>5, <1>6, <1>7, <1>8, <1>9, <1>10, <1>11, <1>12,
     <1>13, <1>14, <1>15
-----------------------------------------------------------------------------
(* What a process starts from, and leaves when it ends.                     *)
LEMMA EndMemory ==
  ASSUME NEW workers, NEW start, Memory(workers, start)
  PROVE  /\ state' = start /\ returned' = start /\ rank' = workers /\ done' = {}
         /\ draws' = start.cursor /\ totals'.start = start.step
         /\ totals'.optimizer = 0 /\ totals'.scheduler = 0
         /\ ledger' = <<>> /\ saved' = saved
         /\ rec'.phase = "created"
BY DEF Memory, NewRecord

(* The transaction's phase follows the driver.                              *)
LEMMA AttemptStep == TypeOK /\ AttemptInv /\ [Next]_vars => AttemptInv'
<1> SUFFICES ASSUME TypeOK, AttemptInv, [Next]_vars PROVE AttemptInv'
  OBVIOUS
<1> USE DEF attemptVars, poolVars, runVars
<1>1. TxTypeOK
  BY DEF TypeOK
<1>2. ASSUME NEW workers, NEW start, Memory(workers, start), pc' \in {"down", "idle"}
      PROVE  AttemptInv'
  BY <1>2, EndMemory
  DEF AttemptInv, PhasesAgree, OwnAttempt, HandedBack, Committing, CallsAnswered
<1>3. ProcessEnds => AttemptInv'
  BY <1>2 DEF ProcessEnds
<1>4. CASE StartFresh
  BY <1>2, <1>4 DEF StartFresh, Boot
<1>5. ASSUME NEW c \in saved, NEW preload \in BOOLEAN, Resume(c, preload)
      PROVE  AttemptInv'
  BY <1>2, <1>5 DEF Resume, Boot
<1>6. CASE StartAttempt
  BY <1>1, <1>6 DEF StartAttempt, NewRecord,
      AttemptInv, PhasesAgree, OwnAttempt, HandedBack, Committing,
      CallsAnswered
<1>7. CASE GiveUpOverBudget
  BY <1>3, <1>7 DEF GiveUpOverBudget
<1>8. CASE Pass
  BY <1>3, <1>8 DEF Pass, AttemptInv, PhasesAgree, OwnAttempt, HandedBack, Committing,
      CallsAnswered
<1>9. CASE ReturnAttempt
  BY <1>9 DEF ReturnAttempt, AttemptInv, PhasesAgree, OwnAttempt, HandedBack, Committing,
      CallsAnswered
<1>10. CASE FreezeBoundary
  BY <1>1, <1>10, MethodEffects
  DEF FreezeBoundary, Moves, SameCount,
      AttemptInv, PhasesAgree, OwnAttempt, HandedBack, Committing,
      CallsAnswered
<1>11. CASE FinishRollout
  BY <1>1, <1>11, MethodEffects
  DEF FinishRollout, Moves, SameCount,
      AttemptInv, PhasesAgree, OwnAttempt, HandedBack, Committing,
      CallsAnswered
<1>12. CASE FinishScoring
  BY <1>1, <1>12, MethodEffects
  DEF FinishScoring, Moves, SameCount,
      AttemptInv, PhasesAgree, OwnAttempt, HandedBack, Committing,
      CallsAnswered
<1>13. CASE SkipAttempt
  BY <1>1, <1>13, MethodEffects
  DEF SkipAttempt, Moves, SameCount, AttemptConsumed,
      AttemptInv, PhasesAgree, OwnAttempt, HandedBack, Committing,
      CallsAnswered
<1>14. CASE SelectAttempt
  BY <1>1, <1>14, MethodEffects
  DEF SelectAttempt, Moves, SameCount,
      AttemptInv, PhasesAgree, OwnAttempt, HandedBack, Committing,
      CallsAnswered
<1>15. CASE StartMicrobatch
  BY <1>1, <1>15, MethodEffects
  DEF StartMicrobatch, Moves, SameCount,
      AttemptInv, PhasesAgree, OwnAttempt, HandedBack, Committing,
      CallsAnswered
<1>16. CASE FinishBackward
  BY <1>1, <1>16, MethodEffects
  DEF FinishBackward, Moves, SameCount,
      AttemptInv, PhasesAgree, OwnAttempt, HandedBack, Committing,
      CallsAnswered
<1>17. CASE StartOptimizer
  BY <1>1, <1>17, MethodEffects
  DEF StartOptimizer, Moves, SameCount,
      AttemptInv, PhasesAgree, OwnAttempt, HandedBack, Committing,
      CallsAnswered
<1>18. CASE StartScheduler
  BY <1>1, <1>18, MethodEffects
  DEF StartScheduler, Moves, SameCount,
      AttemptInv, PhasesAgree, OwnAttempt, HandedBack, Committing,
      CallsAnswered
<1>19. CASE Propose
  BY <1>1, <1>19, MethodEffects
  DEF Propose, Moves, SameCount,
      AttemptInv, PhasesAgree, OwnAttempt, HandedBack, Committing,
      CallsAnswered
<1>20. CASE FinishCommit
  BY <1>1, <1>20, MethodEffects
  DEF FinishCommit, Moves, SameCount,
      AttemptInv, PhasesAgree, OwnAttempt, HandedBack, Committing,
      CallsAnswered
<1>21. CASE ZeroGrad
  BY <1>1, <1>21, MethodEffects
  DEF ZeroGrad, AllRanksDone, Moves, SameCount,
      AttemptInv, PhasesAgree, OwnAttempt, HandedBack, Committing,
      CallsAnswered
<1>22. CASE FinishOptimizer
  BY <1>1, <1>22, MethodEffects
  DEF FinishOptimizer, AllRanksDone, Moves, SameCount,
      AttemptInv, PhasesAgree, OwnAttempt, HandedBack, Committing,
      CallsAnswered
<1>23. CASE FinishScheduler
  BY <1>1, <1>23, MethodEffects
  DEF FinishScheduler, AllRanksDone, Moves, SameCount,
      AttemptInv, PhasesAgree, OwnAttempt, HandedBack, Committing,
      CallsAnswered
<1>24. CASE CollectInitial
  BY <1>24 DEF CollectInitial, AttemptInv, PhasesAgree, OwnAttempt, HandedBack, Committing,
      CallsAnswered
<1>25. CASE Refill
  BY <1>25 DEF Refill, AttemptInv, PhasesAgree, OwnAttempt, HandedBack, Committing,
      CallsAnswered
<1>26. CASE SelectPrompts
  BY <1>26 DEF SelectPrompts, AttemptInv, PhasesAgree, OwnAttempt, HandedBack, Committing,
      CallsAnswered
<1>27. CASE PrepareBatches
  BY <1>27 DEF PrepareBatches, AttemptInv, PhasesAgree, OwnAttempt, HandedBack, Committing,
      CallsAnswered
<1>28. CASE SynchronizeCommit
  BY <1>28 DEF SynchronizeCommit, AttemptInv, PhasesAgree, OwnAttempt, HandedBack, Committing,
      CallsAnswered
<1>29. CASE SaveCheckpoint
  BY <1>29 DEF SaveCheckpoint, AttemptInv, PhasesAgree, OwnAttempt, HandedBack, Committing,
      CallsAnswered
<1>30. CASE PublishUpdate
  BY <1>30 DEF PublishUpdate, AttemptInv, PhasesAgree, OwnAttempt, HandedBack, Committing,
      CallsAnswered
<1>31. CASE FinishMicrobatch
  BY <1>31 DEF FinishMicrobatch, AllRanksDone,
      AttemptInv, PhasesAgree, OwnAttempt, HandedBack, Committing,
      CallsAnswered
<1>32. CASE Raise
  BY <1>32 DEF Raise, InTryBlock, PreStepPhases, PostStepPhases,
      AttemptInv, PhasesAgree, OwnAttempt, HandedBack, Committing,
      CallsAnswered
<1>33. CASE StartRollback
  BY <1>33 DEF StartRollback, CanRollbackPreStep,
      AttemptInv, PhasesAgree, OwnAttempt, HandedBack, Committing,
      CallsAnswered
<1>34. CASE AbortAttempt
  BY <1>1, <1>34, MethodEffects
  DEF AbortAttempt, AllRanksDone, SameCount, CanRollbackPreStep,
      PreStepPhases, PostStepPhases,
      AttemptInv, PhasesAgree, OwnAttempt, HandedBack, Committing,
      CallsAnswered
<1>35. CASE ExitOnFailure
  BY <1>3, <1>35 DEF ExitOnFailure
<1>36. CASE Die
  BY <1>3, <1>36 DEF Die
<1>37. ASSUME NEW r \in Ranks, NEW where, NEW guard, NEW STATE worker,
              RankCall(r, where, guard, worker),
              where \in {"zero", "backward", "optimizer", "scheduler", "rollback"}
       PROVE  AttemptInv'
  BY <1>37 DEF RankCall, AttemptInv, PhasesAgree, OwnAttempt, HandedBack, Committing,
      CallsAnswered
<1>38. CASE RankStep
  BY <1>37, <1>38
  DEF RankStep, RankZeroGrad, RankBackward, RankOptimizerStep, RankSchedulerStep,
      RankRollback
<1>39. ASSUME NEW r \in Ranks, RankOptimizerTears(r)
       PROVE  AttemptInv'
  BY <1>39 DEF RankOptimizerTears, PostStepPhases,
      AttemptInv, PhasesAgree, OwnAttempt, HandedBack, Committing,
      CallsAnswered
<1>40. CASE UNCHANGED vars
  BY <1>40 DEF vars, AttemptConsumed,
      AttemptInv, PhasesAgree, OwnAttempt, HandedBack, Committing,
      CallsAnswered
<1>41. CASE Launch
  BY <1>4, <1>5, <1>41 DEF Launch
<1>42. CASE Progress
  BY <1>6, <1>7, <1>8, <1>9, <1>10, <1>11, <1>12, <1>13, <1>14, <1>15, <1>16,
     <1>17, <1>18, <1>19, <1>20, <1>21, <1>22, <1>23, <1>24, <1>25, <1>26,
     <1>27, <1>28, <1>29, <1>30, <1>31, <1>33, <1>34, <1>35, <1>38, <1>42
  DEF Progress, Loop, Rollout, Learn, Commit, Handle
<1>43. CASE Failure
  BY <1>32, <1>36, <1>39, <1>43 DEF Failure
<1> QED
  BY <1>40, <1>41, <1>42, <1>43 DEF Next
-----------------------------------------------------------------------------
(* What a worker-group call leaves on the ranks.                            *)
LEMMA CallEffects ==
  ASSUME rank \in [Ranks -> Worker], NEW r \in Ranks
  PROVE  /\ RankZeroGrad(r) \/ RankBackward(r) \/ RankOptimizerStep(r)
              \/ RankSchedulerStep(r) \/ RankRollback(r) =>
              /\ \A q \in Ranks \ {r} : rank'[q] = rank[q]
              /\ rank'[r].snapshot = rank[r].snapshot
              /\ rank'[r].rewardStep = rank[r].rewardStep
              /\ rank'[r].reward = rank[r].reward
              /\ r \notin done /\ done' = done \union {r}
              /\ UNCHANGED <<pc, state, rec, returned, engine, poolVars, runVars>>
         /\ RankZeroGrad(r) =>
              /\ pc = "zero" /\ rank'[r].grads = {}
              /\ rank'[r].params = rank[r].params
              /\ rank'[r].schedule = rank[r].schedule
         /\ RankBackward(r) =>
              /\ pc = "backward"
              /\ rank'[r].grads = rank[r].grads \union {<<rec.attempt, rec.microbatches>>}
              /\ rank'[r].params = rank[r].params
              /\ rank'[r].schedule = rank[r].schedule
         /\ RankOptimizerStep(r) =>
              /\ pc = "optimizer" /\ rank'[r].grads = rank[r].grads
              /\ rank'[r].params = Append(rank[r].params, rec.attempt)
              /\ rank'[r].schedule = rank[r].schedule
         /\ RankSchedulerStep(r) =>
              /\ pc = "scheduler" /\ rank'[r].grads = rank[r].grads
              /\ rank'[r].params = rank[r].params
              /\ rank'[r].schedule = rank[r].schedule + 1
         /\ RankRollback(r) =>
              /\ pc = "rollback" /\ rank'[r].grads = {}
              /\ rank'[r].params = rank[r].params
              /\ rank'[r].schedule = rank[r].schedule
<1>1. rank[r] \in Worker
  OBVIOUS
<1>2. RankZeroGrad(r) =>
        /\ \A q \in Ranks \ {r} : rank'[q] = rank[q]
        /\ rank'[r].snapshot = rank[r].snapshot
        /\ rank'[r].rewardStep = rank[r].rewardStep
        /\ rank'[r].reward = rank[r].reward
        /\ r \notin done /\ done' = done \union {r}
        /\ UNCHANGED <<pc, state, rec, returned, engine, poolVars, runVars>>
        /\ pc = "zero" /\ rank'[r].grads = {}
        /\ rank'[r].params = rank[r].params
        /\ rank'[r].schedule = rank[r].schedule
  BY <1>1 DEF RankZeroGrad, RankCall, Worker, attemptVars
<1>3. RankBackward(r) =>
        /\ \A q \in Ranks \ {r} : rank'[q] = rank[q]
        /\ rank'[r].snapshot = rank[r].snapshot
        /\ rank'[r].rewardStep = rank[r].rewardStep
        /\ rank'[r].reward = rank[r].reward
        /\ r \notin done /\ done' = done \union {r}
        /\ UNCHANGED <<pc, state, rec, returned, engine, poolVars, runVars>>
        /\ pc = "backward"
        /\ rank'[r].grads = rank[r].grads \union {<<rec.attempt, rec.microbatches>>}
        /\ rank'[r].params = rank[r].params
        /\ rank'[r].schedule = rank[r].schedule
  BY <1>1 DEF RankBackward, RankCall, Worker, attemptVars
<1>4. RankOptimizerStep(r) =>
        /\ \A q \in Ranks \ {r} : rank'[q] = rank[q]
        /\ rank'[r].snapshot = rank[r].snapshot
        /\ rank'[r].rewardStep = rank[r].rewardStep
        /\ rank'[r].reward = rank[r].reward
        /\ r \notin done /\ done' = done \union {r}
        /\ UNCHANGED <<pc, state, rec, returned, engine, poolVars, runVars>>
        /\ pc = "optimizer" /\ rank'[r].grads = rank[r].grads
        /\ rank'[r].params = Append(rank[r].params, rec.attempt)
        /\ rank'[r].schedule = rank[r].schedule
  BY <1>1 DEF RankOptimizerStep, RankCall, Worker, attemptVars
<1>5. RankSchedulerStep(r) =>
        /\ \A q \in Ranks \ {r} : rank'[q] = rank[q]
        /\ rank'[r].snapshot = rank[r].snapshot
        /\ rank'[r].rewardStep = rank[r].rewardStep
        /\ rank'[r].reward = rank[r].reward
        /\ r \notin done /\ done' = done \union {r}
        /\ UNCHANGED <<pc, state, rec, returned, engine, poolVars, runVars>>
        /\ pc = "scheduler" /\ rank'[r].grads = rank[r].grads
        /\ rank'[r].params = rank[r].params
        /\ rank'[r].schedule = rank[r].schedule + 1
  BY <1>1 DEF RankSchedulerStep, RankCall, Worker, attemptVars
<1>6. RankRollback(r) =>
        /\ \A q \in Ranks \ {r} : rank'[q] = rank[q]
        /\ rank'[r].snapshot = rank[r].snapshot
        /\ rank'[r].rewardStep = rank[r].rewardStep
        /\ rank'[r].reward = rank[r].reward
        /\ r \notin done /\ done' = done \union {r}
        /\ UNCHANGED <<pc, state, rec, returned, engine, poolVars, runVars>>
        /\ pc = "rollback" /\ rank'[r].grads = {}
        /\ rank'[r].params = rank[r].params
        /\ rank'[r].schedule = rank[r].schedule
  BY <1>1 DEF RankRollback, RankCall, Worker, attemptVars
<1> QED
  BY <1>2, <1>3, <1>4, <1>5, <1>6

(* What begin_snapshot leaves on a rank.                                    *)
LEMMA SnapshotEffects ==
  ASSUME NEW w \in Worker, NEW n \in Int
  PROVE  /\ BeginSnapshot(w, n).params = w.params
         /\ BeginSnapshot(w, n).schedule = w.schedule
         /\ BeginSnapshot(w, n).grads = w.grads
         /\ BeginSnapshot(w, n).rewardStep = n
         /\ BeginSnapshot(w, n).reward =
              IF w.rewardStep # n THEN ActorChecksum ELSE w.reward
<1> DEFINE fresh == [w EXCEPT !.snapshot = n, !.zeroGrad = 0, !.backward = 0,
                              !.optimizer = 0, !.scheduler = 0, !.committed = FALSE]
<1>1. /\ fresh \in Worker /\ fresh.params = w.params /\ fresh.schedule = w.schedule
      /\ fresh.grads = w.grads /\ fresh.rewardStep = w.rewardStep
      /\ fresh.reward = w.reward
  BY DEF Worker
<1>2. BeginSnapshot(w, n) =
        IF w.rewardStep # n THEN SyncReward(fresh, n) ELSE fresh
  BY DEF BeginSnapshot
<1> HIDE DEF fresh
<1>3. /\ SyncReward(fresh, n).params = fresh.params
      /\ SyncReward(fresh, n).schedule = fresh.schedule
      /\ SyncReward(fresh, n).grads = fresh.grads
      /\ SyncReward(fresh, n).rewardStep = n
      /\ SyncReward(fresh, n).reward = ActorChecksum
  BY <1>1 DEF SyncReward, Worker
<1> QED
  BY <1>1, <1>2, <1>3

(* The ranks step together, from the lineage to what this attempt learnt.   *)
LEMMA ParamsStep ==
  TypeOK /\ AttemptInv /\ ParamsInv /\ SavedInv /\ [Next]_vars => ParamsInv'
<1> SUFFICES ASSUME TypeOK, AttemptInv, ParamsInv, SavedInv, [Next]_vars
             PROVE  ParamsInv'
  OBVIOUS
<1> USE DEF attemptVars, poolVars, runVars
<1>1. TxTypeOK /\ rank \in [Ranks -> Worker] /\ done \subseteq Ranks
  BY DEF TypeOK
<1>2. ASSUME NEW workers, NEW start, Memory(workers, start), pc' \in {"down", "idle"},
             \A r \in Ranks : workers[r].params = lineage'
      PROVE  ParamsInv'
  BY <1>2, EndMemory DEF ParamsInv, Unstepped, Committing
<1>3. ProcessEnds => ParamsInv'
  <2>1. \A r \in Ranks : Untrained[r].params = <<>>
    BY DEF Untrained, NewWorker
  <2> QED
    BY <1>2, <2>1 DEF ProcessEnds
<1>4. CASE StartFresh
  <2>1. \A r \in Ranks : Untrained[r].params = <<>>
    BY DEF Untrained, NewWorker
  <2> QED
    BY <1>2, <1>4, <2>1 DEF StartFresh, Boot
<1>5. ASSUME NEW c \in saved, NEW preload \in BOOLEAN, Resume(c, preload)
      PROVE  ParamsInv'
  <2> DEFINE workers == [r \in Ranks |-> IF preload THEN Preloaded(Restored(c, r), c)
                                                   ELSE Restored(c, r)]
  <2>1. /\ Memory(workers, c.state) /\ pc' = "idle"
        /\ \E r \in Ranks : lineage' = c.shards[r]
    BY <1>5 DEF Resume, Boot
  <2>2. \A r \in Ranks : workers[r].params = c.shards[r]
    BY DEF Preloaded, Restored, NewWorker
  <2>3. \A r \in Ranks : workers[r].params = lineage'
    BY <2>1, <2>2 DEF SavedInv
  <2> HIDE DEF workers
  <2> QED
    BY <1>2, <2>1, <2>3
<1>6. CASE StartAttempt
  BY <1>1, <1>6
  DEF StartAttempt, NewRecord, ParamsInv, Unstepped, Learnt, Committing,
      PhasesAgree, AttemptInv
<1>7. CASE GiveUpOverBudget
  BY <1>3, <1>7 DEF GiveUpOverBudget
<1>8. CASE Pass
  BY <1>1, <1>3, <1>8
  DEF Pass, ParamsInv, Unstepped, Learnt, Committing, PhasesAgree, AttemptInv
<1>9. CASE ReturnAttempt
  BY <1>1, <1>9
  DEF ReturnAttempt, ParamsInv, Unstepped, Learnt, Committing, PhasesAgree,
      AttemptInv
<1>10. CASE FreezeBoundary
  <2>1. state.step \in Int /\ \A r \in Ranks : rank[r] \in Worker
    BY <1>1 DEF TxTypeOK, TrainingState
  <2>2. \A r \in Ranks : /\ rank'[r].params = rank[r].params
                        /\ rank'[r].schedule = rank[r].schedule
    BY <1>10, <2>1, SnapshotEffects DEF FreezeBoundary
  <2> QED
    BY <1>1, <2>2, <1>10, MethodEffects
    DEF FreezeBoundary, Moves, PreStepPhases, ParamsInv, Unstepped, Learnt, Committing,
        PhasesAgree, AttemptInv
<1>11. CASE FinishRollout
  BY <1>1, MethodEffects, <1>11
  DEF FinishRollout, Moves, PreStepPhases, ParamsInv, Unstepped, Learnt,
      Committing, PhasesAgree, AttemptInv
<1>12. CASE FinishScoring
  BY <1>1, MethodEffects, <1>12
  DEF FinishScoring, Moves, PreStepPhases, ParamsInv, Unstepped, Learnt,
      Committing, PhasesAgree, AttemptInv
<1>13. CASE SkipAttempt
  BY <1>1, MethodEffects, <1>13
  DEF SkipAttempt, Moves, AttemptConsumed, PreStepPhases, ParamsInv, Unstepped,
      Learnt, Committing, PhasesAgree, AttemptInv
<1>14. CASE SelectAttempt
  BY <1>1, MethodEffects, <1>14
  DEF SelectAttempt, Moves, PreStepPhases, ParamsInv, Unstepped, Learnt,
      Committing, PhasesAgree, AttemptInv
<1>15. CASE CollectInitial
  BY <1>1, <1>15
  DEF CollectInitial, PreStepPhases, ParamsInv, Unstepped, Learnt, Committing,
      PhasesAgree, AttemptInv
<1>16. CASE SelectPrompts
  BY <1>1, <1>16
  DEF SelectPrompts, PreStepPhases, ParamsInv, Unstepped, Learnt, Committing,
      PhasesAgree, AttemptInv
<1>17. CASE Refill
  BY <1>1, <1>17
  DEF Refill, PreStepPhases, ParamsInv, Unstepped, Learnt, Committing,
      PhasesAgree, AttemptInv
<1>18. CASE PrepareBatches
  BY <1>1, <1>18
  DEF PrepareBatches, PreStepPhases, ParamsInv, Unstepped, Learnt, Committing,
      PhasesAgree, AttemptInv
<1>19. CASE ZeroGrad
  BY <1>1, MethodEffects, <1>19
  DEF ZeroGrad, AllRanksDone, Moves, PreStepPhases, ParamsInv, Unstepped,
      Learnt, Committing, PhasesAgree, AttemptInv
<1>20. CASE StartMicrobatch
  BY <1>1, MethodEffects, <1>20
  DEF StartMicrobatch, Moves, PreStepPhases, ParamsInv, Unstepped, Learnt,
      Committing, PhasesAgree, AttemptInv
<1>21. CASE FinishMicrobatch
  BY <1>1, <1>21
  DEF FinishMicrobatch, AllRanksDone, PreStepPhases, ParamsInv, Unstepped,
      Learnt, Committing, PhasesAgree, AttemptInv
<1>22. CASE FinishBackward
  BY <1>1, MethodEffects, <1>22
  DEF FinishBackward, Moves, PreStepPhases, ParamsInv, Unstepped, Learnt,
      Committing, PhasesAgree, AttemptInv
<1>23. CASE StartOptimizer
  BY <1>1, MethodEffects, <1>23
  DEF StartOptimizer, Moves, PreStepPhases, ParamsInv, Unstepped, Learnt, Committing,
      PhasesAgree, CallsAnswered, AttemptInv
<1>24. CASE FinishOptimizer
  BY <1>1, MethodEffects, <1>24
  DEF FinishOptimizer, AllRanksDone, Moves, PreStepPhases, ParamsInv, Unstepped,
      Learnt, Committing, PhasesAgree, AttemptInv
<1>25. CASE StartScheduler
  BY <1>1, MethodEffects, <1>25
  DEF StartScheduler, Moves, PreStepPhases, ParamsInv, Unstepped, Learnt,
      Committing, PhasesAgree, AttemptInv
<1>26. CASE FinishScheduler
  BY <1>1, MethodEffects, <1>26
  DEF FinishScheduler, AllRanksDone, Moves, PreStepPhases, ParamsInv, Unstepped,
      Learnt, Committing, PhasesAgree, AttemptInv
<1>27. CASE Propose
  BY <1>1, MethodEffects, <1>27
  DEF Propose, Moves, PreStepPhases, ParamsInv, Unstepped, Learnt, Committing,
      PhasesAgree, AttemptInv
<1>28. CASE SynchronizeCommit
  BY <1>1, <1>28
  DEF SynchronizeCommit, PreStepPhases, ParamsInv, Unstepped, Learnt,
      Committing, PhasesAgree, AttemptInv
<1>29. CASE SaveCheckpoint
  BY <1>1, <1>29
  DEF SaveCheckpoint, PreStepPhases, ParamsInv, Unstepped, Learnt, Committing,
      PhasesAgree, AttemptInv
<1>30. CASE PublishUpdate
  BY <1>1, <1>30
  DEF PublishUpdate, PreStepPhases, ParamsInv, Unstepped, Learnt, Committing,
      PhasesAgree, AttemptInv
<1>31. CASE FinishCommit
  BY <1>1, MethodEffects, <1>31
  DEF FinishCommit, Moves, PreStepPhases, ParamsInv, Unstepped, Learnt,
      Committing, PhasesAgree, AttemptInv
<1>32. CASE Raise
  BY <1>1, <1>32
  DEF Raise, InTryBlock, PreStepPhases, PostStepPhases, ParamsInv, Unstepped,
      Learnt, Committing, PhasesAgree, AttemptInv
<1>33. CASE StartRollback
  BY <1>1, <1>33
  DEF StartRollback, CanRollbackPreStep, PreStepPhases, ParamsInv, Unstepped,
      Learnt, Committing, PhasesAgree, AttemptInv
<1>34. CASE AbortAttempt
  BY <1>1, MethodEffects, <1>34
  DEF AbortAttempt, AllRanksDone, CanRollbackPreStep, PreStepPhases,
      PostStepPhases, ParamsInv, Unstepped, Learnt, Committing, PhasesAgree,
      AttemptInv
<1>35. CASE ExitOnFailure
  BY <1>3, <1>35 DEF ExitOnFailure
<1>36. CASE Die
  BY <1>3, <1>36 DEF Die
<1>37. CASE RankStep
  <2> SUFFICES ASSUME NEW r \in Ranks,
                      \/ RankZeroGrad(r) \/ RankBackward(r) \/ RankOptimizerStep(r)
                      \/ RankSchedulerStep(r) \/ RankRollback(r)
               PROVE  ParamsInv'
    BY <1>37 DEF RankStep
  <2>1. CASE RankZeroGrad(r) \/ RankBackward(r) \/ RankSchedulerStep(r)
             \/ RankRollback(r)
    <3>1. /\ \A q \in Ranks : rank'[q].params = rank[q].params
          /\ UNCHANGED <<pc, rec, lineage>>
          /\ pc \in {"zero", "backward", "scheduler", "rollback"}
      BY <1>1, <2>1, CallEffects
    <3> QED
      BY <3>1 DEF ParamsInv, Unstepped, Learnt, Committing
  <2>2. CASE RankOptimizerStep(r)
    <3>1. /\ pc = "optimizer" /\ r \notin done /\ done' = done \union {r}
          /\ UNCHANGED <<pc, rec, lineage>>
      BY <2>2 DEF RankOptimizerStep, RankCall
    <3>2. /\ rank'[r].params = Append(rank[r].params, rec.attempt)
          /\ \A q \in Ranks \ {r} : rank'[q] = rank[q]
      BY <1>1, <2>2, CallEffects
    <3>3. rec.phase = "optimizer_step_in_progress"
      BY <3>1 DEF AttemptInv, PhasesAgree
    <3> QED
      BY <3>1, <3>2, <3>3 DEF ParamsInv, Unstepped, Learnt, Committing, PreStepPhases
  <2> QED
    BY <2>1, <2>2
<1>38. ASSUME NEW r \in Ranks, RankOptimizerTears(r)
      PROVE  ParamsInv'
  BY <1>38
  DEF RankOptimizerTears, ParamsInv, Unstepped, Committing, PhasesAgree, AttemptInv,
      PreStepPhases
<1>39. CASE UNCHANGED vars
  BY <1>1, <1>39
  DEF vars, ParamsInv, Unstepped, Learnt, Committing,
      PhasesAgree, AttemptInv
<1>40. CASE Launch
  BY <1>4, <1>5, <1>40
  DEF Launch
<1>41. CASE Progress
  BY <1>6, <1>7, <1>8, <1>9, <1>10, <1>11, <1>12, <1>13, <1>14, <1>15, <1>16,
     <1>17, <1>18, <1>19, <1>20, <1>21, <1>22, <1>23, <1>24, <1>25, <1>26,
     <1>27, <1>28, <1>29, <1>30, <1>31, <1>32, <1>33, <1>34, <1>35, <1>37, <1>41
  DEF Progress, Loop, Rollout, Learn, Commit, Handle
<1>42. CASE Failure
  BY <1>32, <1>36, <1>38, <1>42
  DEF Failure
<1> QED
  BY <1>39, <1>40, <1>41, <1>42 DEF Next

(* The schedules advance once, between the optimizer and the commit.        *)
LEMMA ScheduleStep ==
  TypeOK /\ AttemptInv /\ ScheduleInv /\ SavedInv /\ [Next]_vars => ScheduleInv'
<1> SUFFICES ASSUME TypeOK, AttemptInv, ScheduleInv, SavedInv, [Next]_vars
             PROVE  ScheduleInv'
  OBVIOUS
<1> USE DEF attemptVars, poolVars, runVars
<1>1. TxTypeOK /\ rank \in [Ranks -> Worker] /\ done \subseteq Ranks
  BY DEF TypeOK
<1>2. ASSUME NEW workers, NEW start, Memory(workers, start), pc' \in {"down", "idle"},
             \A r \in Ranks : workers[r].schedule = start.step
      PROVE  ScheduleInv'
  BY <1>2, EndMemory DEF ScheduleInv, Unstepped, Committing
<1>3. ProcessEnds => ScheduleInv'
  <2>1. \A r \in Ranks : Untrained[r].schedule = ZeroState.step
    BY DEF Untrained, NewWorker, ZeroState
  <2> QED
    BY <1>2, <2>1 DEF ProcessEnds
<1>4. CASE StartFresh
  <2>1. \A r \in Ranks : Untrained[r].schedule = ZeroState.step
    BY DEF Untrained, NewWorker, ZeroState
  <2> QED
    BY <1>2, <1>4, <2>1 DEF StartFresh, Boot
<1>5. ASSUME NEW c \in saved, NEW preload \in BOOLEAN, Resume(c, preload)
      PROVE  ScheduleInv'
  <2> DEFINE workers == [r \in Ranks |-> IF preload THEN Preloaded(Restored(c, r), c)
                                                   ELSE Restored(c, r)]
  <2>1. Memory(workers, c.state) /\ pc' = "idle"
    BY <1>5 DEF Resume, Boot
  <2>2. \A r \in Ranks : workers[r].schedule = c.schedule[r]
    BY DEF Preloaded, Restored, NewWorker
  <2>3. \A r \in Ranks : workers[r].schedule = c.state.step
    BY <2>2 DEF SavedInv
  <2> HIDE DEF workers
  <2> QED
    BY <1>2, <2>1, <2>3
<1>6. CASE StartAttempt
  BY <1>1, <1>6
  DEF StartAttempt, NewRecord, ScheduleInv, Unstepped, Committing, PhasesAgree,
      AttemptInv
<1>7. CASE GiveUpOverBudget
  BY <1>3, <1>7 DEF GiveUpOverBudget
<1>8. CASE Pass
  BY <1>1, <1>3, <1>8
  DEF Pass, ScheduleInv, Unstepped, Committing, PhasesAgree, AttemptInv
<1>9. CASE ReturnAttempt
  <2>1. \/ rec.phase = "committed" /\ returned.step = state.step + 1
        \/ rec.phase = "skipped" /\ returned.step = state.step
    BY <1>9 DEF ReturnAttempt, AttemptInv, PhasesAgree, HandedBack, Committing,
        AttemptConsumed
  <2> QED
    BY <1>9, <2>1 DEF ReturnAttempt, ScheduleInv, Unstepped, Committing
<1>10. CASE FreezeBoundary
  <2>1. state.step \in Int /\ \A r \in Ranks : rank[r] \in Worker
    BY <1>1 DEF TxTypeOK, TrainingState
  <2>2. \A r \in Ranks : /\ rank'[r].params = rank[r].params
                        /\ rank'[r].schedule = rank[r].schedule
    BY <1>10, <2>1, SnapshotEffects DEF FreezeBoundary
  <2> QED
    BY <1>1, <2>2, <1>10, MethodEffects
    DEF FreezeBoundary, Moves, PreStepPhases, ScheduleInv, Unstepped, Committing,
        PhasesAgree, AttemptInv
<1>11. CASE FinishRollout
  BY <1>1, MethodEffects, <1>11
  DEF FinishRollout, Moves, PreStepPhases, ScheduleInv, Unstepped, Committing,
      PhasesAgree, AttemptInv
<1>12. CASE FinishScoring
  BY <1>1, MethodEffects, <1>12
  DEF FinishScoring, Moves, PreStepPhases, ScheduleInv, Unstepped, Committing,
      PhasesAgree, AttemptInv
<1>13. CASE SkipAttempt
  BY <1>1, MethodEffects, <1>13
  DEF SkipAttempt, Moves, AttemptConsumed, PreStepPhases, ScheduleInv,
      Unstepped, Committing, PhasesAgree, AttemptInv
<1>14. CASE SelectAttempt
  BY <1>1, MethodEffects, <1>14
  DEF SelectAttempt, Moves, PreStepPhases, ScheduleInv, Unstepped, Committing,
      PhasesAgree, AttemptInv
<1>15. CASE CollectInitial
  BY <1>1, <1>15
  DEF CollectInitial, PreStepPhases, ScheduleInv, Unstepped, Committing,
      PhasesAgree, AttemptInv
<1>16. CASE SelectPrompts
  BY <1>1, <1>16
  DEF SelectPrompts, PreStepPhases, ScheduleInv, Unstepped, Committing,
      PhasesAgree, AttemptInv
<1>17. CASE Refill
  BY <1>1, <1>17
  DEF Refill, PreStepPhases, ScheduleInv, Unstepped, Committing, PhasesAgree,
      AttemptInv
<1>18. CASE PrepareBatches
  BY <1>1, <1>18
  DEF PrepareBatches, PreStepPhases, ScheduleInv, Unstepped, Committing,
      PhasesAgree, AttemptInv
<1>19. CASE ZeroGrad
  BY <1>1, MethodEffects, <1>19
  DEF ZeroGrad, AllRanksDone, Moves, PreStepPhases, ScheduleInv, Unstepped,
      Committing, PhasesAgree, AttemptInv
<1>20. CASE StartMicrobatch
  BY <1>1, MethodEffects, <1>20
  DEF StartMicrobatch, Moves, PreStepPhases, ScheduleInv, Unstepped, Committing,
      PhasesAgree, AttemptInv
<1>21. CASE FinishMicrobatch
  BY <1>1, <1>21
  DEF FinishMicrobatch, AllRanksDone, PreStepPhases, ScheduleInv, Unstepped,
      Committing, PhasesAgree, AttemptInv
<1>22. CASE FinishBackward
  BY <1>1, MethodEffects, <1>22
  DEF FinishBackward, Moves, PreStepPhases, ScheduleInv, Unstepped, Committing,
      PhasesAgree, AttemptInv
<1>23. CASE StartOptimizer
  BY <1>1, MethodEffects, <1>23
  DEF StartOptimizer, Moves, PreStepPhases, ScheduleInv, Unstepped, Committing,
      PhasesAgree, AttemptInv
<1>24. CASE FinishOptimizer
  BY <1>1, MethodEffects, <1>24
  DEF FinishOptimizer, AllRanksDone, Moves, PreStepPhases, ScheduleInv,
      Unstepped, Committing, PhasesAgree, AttemptInv
<1>25. CASE StartScheduler
  BY <1>1, MethodEffects, <1>25
  DEF StartScheduler, Moves, PreStepPhases, ScheduleInv, Unstepped, Committing,
      PhasesAgree, CallsAnswered, AttemptInv
<1>26. CASE FinishScheduler
  BY <1>1, MethodEffects, <1>26
  DEF FinishScheduler, AllRanksDone, Moves, PreStepPhases, ScheduleInv,
      Unstepped, Committing, PhasesAgree, AttemptInv
<1>27. CASE Propose
  BY <1>1, MethodEffects, <1>27
  DEF Propose, Moves, PreStepPhases, ScheduleInv, Unstepped, Committing,
      PhasesAgree, AttemptInv
<1>28. CASE SynchronizeCommit
  BY <1>1, <1>28
  DEF SynchronizeCommit, PreStepPhases, ScheduleInv, Unstepped, Committing,
      PhasesAgree, AttemptInv
<1>29. CASE SaveCheckpoint
  BY <1>1, <1>29
  DEF SaveCheckpoint, PreStepPhases, ScheduleInv, Unstepped, Committing,
      PhasesAgree, AttemptInv
<1>30. CASE PublishUpdate
  BY <1>1, <1>30
  DEF PublishUpdate, PreStepPhases, ScheduleInv, Unstepped, Committing,
      PhasesAgree, AttemptInv
<1>31. CASE FinishCommit
  BY <1>1, MethodEffects, <1>31
  DEF FinishCommit, Moves, PreStepPhases, ScheduleInv, Unstepped, Committing,
      PhasesAgree, AttemptInv
<1>32. CASE Raise
  BY <1>1, <1>32
  DEF Raise, InTryBlock, PreStepPhases, PostStepPhases, ScheduleInv, Unstepped,
      Committing, PhasesAgree, AttemptInv
<1>33. CASE StartRollback
  BY <1>1, <1>33
  DEF StartRollback, CanRollbackPreStep, PreStepPhases, ScheduleInv, Unstepped,
      Committing, PhasesAgree, AttemptInv
<1>34. CASE AbortAttempt
  BY <1>1, MethodEffects, <1>34
  DEF AbortAttempt, AllRanksDone, CanRollbackPreStep, PreStepPhases,
      PostStepPhases, ScheduleInv, Unstepped, Committing, PhasesAgree,
      AttemptInv
<1>35. CASE ExitOnFailure
  BY <1>3, <1>35 DEF ExitOnFailure
<1>36. CASE Die
  BY <1>3, <1>36 DEF Die
<1>37. CASE RankStep
  <2> SUFFICES ASSUME NEW r \in Ranks,
                      \/ RankZeroGrad(r) \/ RankBackward(r) \/ RankOptimizerStep(r)
                      \/ RankSchedulerStep(r) \/ RankRollback(r)
               PROVE  ScheduleInv'
    BY <1>37 DEF RankStep
  <2>1. CASE RankZeroGrad(r) \/ RankBackward(r) \/ RankOptimizerStep(r)
             \/ RankRollback(r)
    <3>1. /\ \A q \in Ranks : rank'[q].schedule = rank[q].schedule
          /\ UNCHANGED <<pc, rec, state>>
          /\ pc \in {"zero", "backward", "optimizer", "rollback"}
      BY <1>1, <2>1, CallEffects
    <3> QED
      BY <3>1 DEF ScheduleInv, Unstepped, Committing
  <2>2. CASE RankSchedulerStep(r)
    <3>1. /\ pc = "scheduler" /\ r \notin done /\ done' = done \union {r}
          /\ UNCHANGED <<pc, rec, state>>
          /\ rank'[r].schedule = rank[r].schedule + 1
          /\ \A q \in Ranks \ {r} : rank'[q] = rank[q]
      BY <1>1, <2>2, CallEffects
    <3>2. rec.phase = "scheduler_step_in_progress"
      BY <3>1 DEF AttemptInv, PhasesAgree
    <3> QED
      BY <3>1, <3>2 DEF ScheduleInv, Unstepped, Committing, PreStepPhases
  <2> QED
    BY <2>1, <2>2
<1>38. ASSUME NEW r \in Ranks, RankOptimizerTears(r)
      PROVE  ScheduleInv'
  BY <1>38
  DEF RankOptimizerTears, ScheduleInv, Unstepped, Committing, PhasesAgree, AttemptInv,
      PreStepPhases
<1>39. CASE UNCHANGED vars
  BY <1>1, <1>39
  DEF vars, ScheduleInv, Unstepped, Committing, PhasesAgree,
      AttemptInv
<1>40. CASE Launch
  BY <1>4, <1>5, <1>40
  DEF Launch
<1>41. CASE Progress
  BY <1>6, <1>7, <1>8, <1>9, <1>10, <1>11, <1>12, <1>13, <1>14, <1>15, <1>16,
     <1>17, <1>18, <1>19, <1>20, <1>21, <1>22, <1>23, <1>24, <1>25, <1>26,
     <1>27, <1>28, <1>29, <1>30, <1>31, <1>32, <1>33, <1>34, <1>35, <1>37, <1>41
  DEF Progress, Loop, Rollout, Learn, Commit, Handle
<1>42. CASE Failure
  BY <1>32, <1>36, <1>38, <1>42
  DEF Failure
<1> QED
  BY <1>39, <1>40, <1>41, <1>42 DEF Next

(* The steps that change the training state or a saved checkpoint.          *)
LEMMA StateSteps ==
  ASSUME TypeOK, [Next]_vars
  PROVE  \/ UNCHANGED <<state, lineage, saved>> /\ (Running' => Running)
         \/ ReturnAttempt /\ UNCHANGED saved
         \/ SaveCheckpoint /\ UNCHANGED <<state, lineage>>
         \/ /\ state' = ZeroState /\ lineage' = <<>> /\ UNCHANGED saved
            /\ Running' = ~ Running
         \/ \E c \in saved : /\ state' = c.state /\ UNCHANGED saved
                             /\ \E r \in Ranks : lineage' = c.shards[r]
                             /\ ~ Running /\ Running'
<1> USE DEF attemptVars, poolVars, runVars
<1> DEFINE Quiet == UNCHANGED <<state, lineage, saved>> /\ (Running' => Running)
           Zero == /\ state' = ZeroState /\ lineage' = <<>> /\ UNCHANGED saved
                   /\ Running' = ~ Running
<1>1. TxTypeOK /\ rank \in [Ranks -> Worker]
  BY DEF TypeOK
<1>2. ProcessEnds /\ Running => Zero
  BY EndMemory DEF ProcessEnds, Running
<1>3. CASE Launch
  <2>1. CASE StartFresh
    BY <2>1, EndMemory DEF StartFresh, Boot, Running
  <2>2. ASSUME NEW c \in saved, NEW preload \in BOOLEAN, Resume(c, preload)
        PROVE  /\ state' = c.state /\ UNCHANGED saved
               /\ \E r \in Ranks : lineage' = c.shards[r]
               /\ ~ Running /\ Running'
    BY <2>2, EndMemory DEF Resume, Boot, Running
  <2> QED
    BY <1>3, <2>1, <2>2 DEF Launch
<1>4. CASE Loop
  BY <1>2, <1>4
  DEF Loop, StartAttempt, GiveUpOverBudget, Pass, ReturnAttempt, Running
<1>5. Rollout => Quiet
  BY <1>1, MethodEffects
  DEF Rollout, FreezeBoundary, CollectInitial, SelectPrompts, Refill, FinishRollout,
      FinishScoring, SkipAttempt, SelectAttempt, PrepareBatches, Moves, Running
<1>6. Learn => Quiet
  BY <1>1, MethodEffects
  DEF Learn, ZeroGrad, StartMicrobatch, FinishMicrobatch, FinishBackward,
      StartOptimizer, FinishOptimizer, StartScheduler, FinishScheduler, Propose, Moves,
      AllRanksDone, Running
<1>7. CASE Commit
  BY <1>1, <1>7, MethodEffects
  DEF Commit, SynchronizeCommit, SaveCheckpoint, PublishUpdate, FinishCommit, Moves,
      Running
<1>8. RankStep => Quiet
  BY <1>1, CallEffects DEF RankStep, Running
<1>9. CASE Handle
  BY <1>1, <1>2, <1>9, MethodEffects
  DEF Handle, StartRollback, AbortAttempt, AllRanksDone, ExitOnFailure, Running
<1>10. CASE Failure
  BY <1>2, <1>10 DEF Failure, Raise, InTryBlock, Die, RankOptimizerTears, Running
<1>11. CASE UNCHANGED vars
  BY <1>11 DEF vars, Running
<1> QED
  BY <1>3, <1>4, <1>5, <1>6, <1>7, <1>8, <1>9, <1>10, <1>11 DEF Next, Progress

(* A checkpoint is taken of ranks that agree, after their one step.         *)
LEMMA SavedStep ==
  TypeOK /\ AttemptInv /\ ModelInv /\ [Next]_vars => SavedInv' /\ (Len(lineage) = state.step)'
<1> SUFFICES ASSUME TypeOK, AttemptInv, ModelInv, [Next]_vars
             PROVE  SavedInv' /\ Len(lineage') = state'.step
  OBVIOUS
<1>1. /\ lineage \in Seq(Nat) /\ rec.attempt \in Nat /\ state.step \in Nat
      /\ Len(lineage) = state.step
      /\ Len(Learnt) = state.step + 1
  <2>1. /\ lineage \in Seq(Nat) /\ rec.attempt \in Nat /\ state.step \in Nat
        /\ Len(lineage) = state.step
    BY DEF TypeOK, TxTypeOK, AttemptRecord, TrainingState, Model, ModelInv
  <2> QED
    BY <2>1 DEF Learnt
<1>2. CASE UNCHANGED <<state, lineage, saved>>
  BY <1>1, <1>2 DEF ModelInv, SavedInv
<1>3. CASE ReturnAttempt /\ UNCHANGED saved
  <2>1. \/ rec.phase = "committed" /\ returned.step = state.step + 1
        \/ rec.phase = "skipped" /\ returned.step = state.step
    BY <1>3 DEF ReturnAttempt, AttemptInv, PhasesAgree, HandedBack, Committing,
        AttemptConsumed
  <2>2. SavedInv'
    BY <1>3 DEF ModelInv, SavedInv
  <2> QED
    BY <1>1, <1>3, <2>1, <2>2 DEF ReturnAttempt, Learnt
<1>4. CASE SaveCheckpoint /\ UNCHANGED <<state, lineage>>
  <2> DEFINE c == CheckpointOf(returned)
  <2>1. /\ returned.step = state.step + 1
        /\ \A r \in Ranks : rank[r].params = Learnt /\ rank[r].schedule = state.step + 1
    BY <1>4
    DEF SaveCheckpoint, AttemptInv, HandedBack, Committing, ModelInv, ParamsInv,
        ScheduleInv
  <2>2. /\ c.state = returned
        /\ \A r \in Ranks : c.shards[r] = Learnt /\ c.schedule[r] = state.step + 1
    BY <2>1 DEF CheckpointOf
  <2>3. saved' = saved \union {c}
    BY <1>4 DEF SaveCheckpoint
  <2> HIDE DEF c
  <2>4. SavedInv'
    BY <1>1, <2>1, <2>2, <2>3 DEF ModelInv, SavedInv
  <2> QED
    BY <1>1, <1>4, <2>4
<1>5. CASE state' = ZeroState /\ lineage' = <<>> /\ UNCHANGED saved
  BY <1>5 DEF ModelInv, SavedInv, ZeroState
<1>6. CASE \E c \in saved : /\ state' = c.state /\ UNCHANGED saved
                            /\ \E r \in Ranks : lineage' = c.shards[r]
  BY <1>6 DEF ModelInv, SavedInv
<1> QED
  BY <1>2, <1>3, <1>4, <1>5, <1>6, StateSteps

(* The model, on the ranks and on disk.                                     *)
LEMMA ModelStep == TypeOK /\ AttemptInv /\ ModelInv /\ [Next]_vars => ModelInv'
BY ParamsStep, ScheduleStep, SavedStep DEF ModelInv

(* Gradients: cleared, accumulated per microbatch, cleared by a rollback.   *)
LEMMA GradientStep ==
  TypeOK /\ AttemptInv /\ GradientInv /\ [Next]_vars => GradientInv'
<1> SUFFICES ASSUME TypeOK, AttemptInv, GradientInv, [Next]_vars
             PROVE  GradientInv'
  OBVIOUS
<1> USE DEF attemptVars, poolVars, runVars
<1>1. TxTypeOK /\ rank \in [Ranks -> Worker] /\ done \subseteq Ranks
  BY DEF TypeOK
<1>2. ASSUME NEW workers, NEW start, Memory(workers, start), pc' \in {"down", "idle"}
      PROVE  GradientInv'
  BY <1>2 DEF GradientInv
<1>3. ProcessEnds => GradientInv'
  BY <1>2 DEF ProcessEnds
<1>4. CASE StartFresh
  BY <1>2, <1>4 DEF StartFresh, Boot
<1>5. ASSUME NEW c \in saved, NEW preload \in BOOLEAN, Resume(c, preload)
      PROVE  GradientInv'
  BY <1>2, <1>5 DEF Resume, Boot
<1>6. CASE StartAttempt
  BY <1>1, <1>6
  DEF StartAttempt, NewRecord, GradientInv, Committing, PhasesAgree, AttemptInv
<1>7. CASE GiveUpOverBudget
  BY <1>3, <1>7 DEF GiveUpOverBudget
<1>8. CASE Pass
  BY <1>1, <1>3, <1>8 DEF Pass, GradientInv, Committing, PhasesAgree, AttemptInv
<1>9. CASE ReturnAttempt
  BY <1>1, <1>9
  DEF ReturnAttempt, GradientInv, Committing, PhasesAgree, AttemptInv
<1>10. CASE FreezeBoundary
  <2>1. pc' = "collect" /\ rec'.microbatches = rec.microbatches /\ pc = "boundary"
    BY <1>1, <1>10, MethodEffects DEF FreezeBoundary, SameCount
  <2> QED
    BY <2>1 DEF GradientInv
<1>11. CASE FinishRollout
  <2>1. pc' = "scoring" /\ rec'.microbatches = rec.microbatches /\ pc = "selected"
    BY <1>1, <1>11, MethodEffects DEF FinishRollout, SameCount
  <2> QED
    BY <2>1 DEF GradientInv
<1>12. CASE FinishScoring
  <2>1. pc' = "decide" /\ rec'.microbatches = rec.microbatches /\ pc = "scoring"
    BY <1>1, <1>12, MethodEffects DEF FinishScoring, SameCount
  <2> QED
    BY <2>1 DEF GradientInv
<1>13. CASE SkipAttempt
  BY <1>1, MethodEffects, <1>13
  DEF SkipAttempt, Moves, AttemptConsumed, PreStepPhases, GradientInv,
      Committing, PhasesAgree, AttemptInv
<1>14. CASE SelectAttempt
  <2>1. pc' = "prepare" /\ rec'.microbatches = rec.microbatches /\ pc = "decide"
    BY <1>1, <1>14, MethodEffects DEF SelectAttempt, SameCount
  <2> QED
    BY <2>1 DEF GradientInv
<1>15. CASE CollectInitial
  BY <1>1, <1>15
  DEF CollectInitial, PreStepPhases, GradientInv, Committing, PhasesAgree,
      AttemptInv
<1>16. CASE SelectPrompts
  BY <1>1, <1>16
  DEF SelectPrompts, PreStepPhases, GradientInv, Committing, PhasesAgree,
      AttemptInv
<1>17. CASE Refill
  BY <1>1, <1>17
  DEF Refill, PreStepPhases, GradientInv, Committing, PhasesAgree, AttemptInv
<1>18. CASE PrepareBatches
  <2>1. pc = "prepare" /\ pc' = "zero" /\ UNCHANGED <<rec, done>>
    BY <1>18 DEF PrepareBatches
  <2>2. done = {}
    BY <2>1 DEF AttemptInv, CallsAnswered
  <2> QED
    BY <2>1, <2>2 DEF GradientInv
<1>19. CASE ZeroGrad
  <2>1. /\ pc = "zero" /\ pc' = "learn" /\ done = Ranks /\ UNCHANGED <<rank, batches>>
        /\ rec'.microbatches = rec.microbatches
    BY <1>1, <1>19, MethodEffects DEF ZeroGrad, AllRanksDone, SameCount
  <2>2. rec'.microbatches = 0 /\ batches \in Nat
    BY <2>1 DEF GradientInv, TypeOK
  <2>3. Microbatches(rec.microbatches)' = {}
    BY <2>2 DEF Microbatches
  <2> QED
    BY <2>1, <2>2, <2>3 DEF GradientInv
<1>20. CASE StartMicrobatch
  <2>1. /\ pc = "learn" /\ pc' = "backward" /\ UNCHANGED <<rank, done, batches>>
        /\ rec'.attempt = rec.attempt /\ rec'.microbatches = rec.microbatches + 1
        /\ rec.microbatches < batches
    BY <1>1, <1>20, MethodEffects DEF StartMicrobatch, Moves
  <2>2. /\ rec.microbatches \in Nat /\ batches \in Nat /\ done = {}
        /\ \A r \in Ranks : rank[r].grads = Microbatches(rec.microbatches)
    BY <2>1 DEF TypeOK, TxTypeOK, AttemptRecord, AttemptInv, CallsAnswered, GradientInv
  <2>3. rec'.microbatches - 1 = rec.microbatches /\ rec'.microbatches \in 1 .. batches
    BY <2>1, <2>2
  <2>4. \A r \in Ranks : rank'[r].grads = Microbatches(rec.microbatches - 1)'
    BY <2>1, <2>2, <2>3 DEF Microbatches
  <2> QED
    BY <2>1, <2>2, <2>3, <2>4 DEF GradientInv
<1>21. CASE FinishMicrobatch
  <2>1. /\ pc = "backward" /\ pc' = "learn" /\ done = Ranks
        /\ UNCHANGED <<rank, rec, batches>>
    BY <1>21 DEF FinishMicrobatch, AllRanksDone
  <2>2. /\ rec.microbatches <= batches
        /\ \A r \in Ranks : rank[r].grads = Microbatches(rec.microbatches)
    BY <2>1 DEF GradientInv, TypeOK
  <2> QED
    BY <2>1, <2>2 DEF GradientInv, Microbatches
<1>22. CASE FinishBackward
  <2>1. /\ pc = "learn" /\ pc' = "step" /\ UNCHANGED <<rank, batches>>
        /\ rec'.attempt = rec.attempt /\ rec.microbatches >= batches
    <3>1. CompleteBackward(ActorChecksum) => rec'.attempt = rec.attempt
      BY <1>1, MethodEffects DEF Moves
    <3> QED
      BY <3>1, <1>22 DEF FinishBackward
  <2>2. /\ rec.microbatches <= batches /\ rec.microbatches \in Nat /\ batches \in Nat
        /\ \A r \in Ranks : rank[r].grads = Microbatches(rec.microbatches)
    BY <2>1 DEF GradientInv, TypeOK, TxTypeOK, AttemptRecord
  <2>3. rec.microbatches = batches
    BY <2>1, <2>2
  <2> QED
    BY <2>1, <2>2, <2>3 DEF GradientInv, Microbatches
<1>23. CASE StartOptimizer
  <2>1. /\ pc = "step" /\ pc' = "optimizer" /\ UNCHANGED <<rank, batches>>
        /\ rec'.attempt = rec.attempt
    BY <1>1, <1>23, MethodEffects DEF StartOptimizer, Moves
  <2> QED
    BY <2>1 DEF GradientInv, Microbatches
<1>24. CASE FinishOptimizer
  BY <1>1, MethodEffects, <1>24
  DEF FinishOptimizer, AllRanksDone, Moves, PreStepPhases, GradientInv,
      Committing, PhasesAgree, AttemptInv
<1>25. CASE StartScheduler
  BY <1>1, MethodEffects, <1>25
  DEF StartScheduler, Moves, PreStepPhases, GradientInv, Committing,
      PhasesAgree, AttemptInv
<1>26. CASE FinishScheduler
  BY <1>1, MethodEffects, <1>26
  DEF FinishScheduler, AllRanksDone, Moves, PreStepPhases, GradientInv,
      Committing, PhasesAgree, AttemptInv
<1>27. CASE Propose
  BY <1>1, MethodEffects, <1>27
  DEF Propose, Moves, PreStepPhases, GradientInv, Committing, PhasesAgree,
      AttemptInv
<1>28. CASE SynchronizeCommit
  BY <1>1, <1>28
  DEF SynchronizeCommit, PreStepPhases, GradientInv, Committing, PhasesAgree,
      AttemptInv
<1>29. CASE SaveCheckpoint
  BY <1>1, <1>29
  DEF SaveCheckpoint, PreStepPhases, GradientInv, Committing, PhasesAgree,
      AttemptInv
<1>30. CASE PublishUpdate
  BY <1>1, <1>30
  DEF PublishUpdate, PreStepPhases, GradientInv, Committing, PhasesAgree,
      AttemptInv
<1>31. CASE FinishCommit
  BY <1>1, MethodEffects, <1>31
  DEF FinishCommit, Moves, PreStepPhases, GradientInv, Committing, PhasesAgree,
      AttemptInv
<1>32. CASE Raise
  BY <1>1, <1>32
  DEF Raise, InTryBlock, PreStepPhases, PostStepPhases, GradientInv, Committing,
      PhasesAgree, AttemptInv
<1>33. CASE StartRollback
  BY <1>1, <1>33
  DEF StartRollback, CanRollbackPreStep, PreStepPhases, GradientInv, Committing,
      PhasesAgree, AttemptInv
<1>34. CASE AbortAttempt
  <2>1. pc' = "failed" /\ UNCHANGED rank
    BY <1>34 DEF AbortAttempt, AllRanksDone
  <2>2. CASE pc = "rollback"
    BY <1>34, <2>1, <2>2 DEF AbortAttempt, AllRanksDone, GradientInv
  <2>3. CASE pc = "raised"
    <3>1. rec.phase \in PostStepPhases \union {"skipped"}
      BY <1>34, <2>3 DEF AbortAttempt, AllRanksDone, CanRollbackPreStep, AttemptInv, PhasesAgree
    <3>2. rec'.phase # "aborted"
      BY <1>1, <1>34, <3>1, MethodEffects
      DEF AbortAttempt, PostStepPhases, PreStepPhases
    <3> QED
      BY <2>1, <3>2 DEF GradientInv
  <2> QED
    BY <1>34, <2>2, <2>3 DEF AbortAttempt, AllRanksDone
<1>35. CASE ExitOnFailure
  BY <1>3, <1>35 DEF ExitOnFailure
<1>36. CASE Die
  BY <1>3, <1>36 DEF Die
<1>37. CASE RankStep
  <2> SUFFICES ASSUME NEW r \in Ranks,
                      \/ RankZeroGrad(r) \/ RankBackward(r) \/ RankOptimizerStep(r)
                      \/ RankSchedulerStep(r) \/ RankRollback(r)
               PROVE  GradientInv'
    BY <1>37 DEF RankStep
  <2>1. /\ \A q \in Ranks \ {r} : rank'[q] = rank[q]
        /\ r \notin done /\ done' = done \union {r}
        /\ UNCHANGED <<pc, rec, batches>>
    BY <1>1, CallEffects
  <2>2. CASE RankZeroGrad(r)
    <3>1. pc = "zero" /\ rank'[r].grads = {}
      BY <1>1, <2>2, CallEffects
    <3> QED
      BY <1>1, <2>1, <3>1 DEF GradientInv
  <2>3. CASE RankBackward(r)
    <3>1. /\ pc = "backward"
          /\ rank'[r].grads = rank[r].grads \union {<<rec.attempt, rec.microbatches>>}
      BY <1>1, <2>3, CallEffects
    <3>2. /\ rec.microbatches \in Nat /\ batches \in Nat
          /\ rec.microbatches \in 1 .. batches
          /\ rank[r].grads = Microbatches(rec.microbatches - 1)
      BY <2>1, <3>1 DEF GradientInv, TypeOK, TxTypeOK, AttemptRecord
    <3>3. rank'[r].grads = Microbatches(rec.microbatches)
      <4>1. 1 .. rec.microbatches = (1 .. rec.microbatches - 1) \union {rec.microbatches}
        BY <3>2
      <4> QED
        BY <3>1, <3>2, <4>1 DEF Microbatches
    <3> QED
      BY <2>1, <3>1, <3>2, <3>3 DEF GradientInv, Microbatches
  <2>4. CASE RankOptimizerStep(r)
    <3>1. pc = "optimizer" /\ rank'[r].grads = rank[r].grads
      BY <1>1, <2>4, CallEffects
    <3> QED
      BY <2>1, <3>1 DEF GradientInv, Microbatches
  <2>5. CASE RankSchedulerStep(r)
    BY <1>1, <2>1, <2>5, CallEffects DEF GradientInv
  <2>6. CASE RankRollback(r)
    <3>1. pc = "rollback" /\ rank'[r].grads = {}
      BY <1>1, <2>6, CallEffects
    <3> QED
      BY <1>1, <2>1, <3>1 DEF GradientInv
  <2> QED
    BY <2>2, <2>3, <2>4, <2>5, <2>6
<1>38. ASSUME NEW r \in Ranks, RankOptimizerTears(r)
      PROVE  GradientInv'
  BY <1>38 DEF RankOptimizerTears, GradientInv
<1>39. CASE UNCHANGED vars
  BY <1>39 DEF vars, GradientInv, Microbatches
<1>40. CASE Launch
  BY <1>4, <1>5, <1>40
  DEF Launch
<1>41. CASE Progress
  BY <1>6, <1>7, <1>8, <1>9, <1>10, <1>11, <1>12, <1>13, <1>14, <1>15, <1>16,
     <1>17, <1>18, <1>19, <1>20, <1>21, <1>22, <1>23, <1>24, <1>25, <1>26,
     <1>27, <1>28, <1>29, <1>30, <1>31, <1>32, <1>33, <1>34, <1>35, <1>37, <1>41
  DEF Progress, Loop, Rollout, Learn, Commit, Handle
<1>42. CASE Failure
  BY <1>32, <1>36, <1>38, <1>42
  DEF Failure
<1> QED
  BY <1>39, <1>40, <1>41, <1>42 DEF Next

(* The steps that change what a rank rewards with.                          *)
LEMMA RewardSteps ==
  ASSUME TypeOK, [Next]_vars
  PROVE  \/ Launch \/ ReturnAttempt \/ FreezeBoundary
         \/ rank' = Untrained /\ state' = ZeroState /\ lineage' = <<>>
         \/ /\ UNCHANGED <<state, lineage>>
            /\ \A r \in Ranks : /\ rank'[r].rewardStep = rank[r].rewardStep
                                /\ rank'[r].reward = rank[r].reward
<1> USE DEF attemptVars, poolVars, runVars
<1> DEFINE Same == /\ UNCHANGED <<state, lineage>>
                   /\ \A r \in Ranks : /\ rank'[r].rewardStep = rank[r].rewardStep
                                       /\ rank'[r].reward = rank[r].reward
           Ended == rank' = Untrained /\ state' = ZeroState /\ lineage' = <<>>
<1>1. TxTypeOK /\ rank \in [Ranks -> Worker]
  BY DEF TypeOK
<1>2. ProcessEnds => Ended
  BY EndMemory DEF ProcessEnds
<1>3. CASE Loop
  BY <1>2, <1>3 DEF Loop, StartAttempt, GiveUpOverBudget, Pass
<1>4. Rollout => FreezeBoundary \/ Same
  BY <1>1, MethodEffects
  DEF Rollout, CollectInitial, SelectPrompts, Refill, FinishRollout, FinishScoring,
      SkipAttempt, SelectAttempt, PrepareBatches, Moves
<1>5. Learn => Same
  BY <1>1, MethodEffects
  DEF Learn, ZeroGrad, StartMicrobatch, FinishMicrobatch, FinishBackward,
      StartOptimizer, FinishOptimizer, StartScheduler, FinishScheduler, Propose, Moves
<1>6. Commit => Same
  BY <1>1, MethodEffects
  DEF Commit, SynchronizeCommit, SaveCheckpoint, PublishUpdate, FinishCommit, Moves
<1>7. RankStep => Same
  BY <1>1, CallEffects DEF RankStep
<1>8. Handle => Same \/ Ended
  BY <1>1, <1>2, MethodEffects DEF Handle, StartRollback, AbortAttempt, ExitOnFailure
<1>9. ASSUME NEW r \in Ranks, RankOptimizerTears(r)
      PROVE  Same
  <2>1. /\ rank' = [rank EXCEPT ![r].params = Append(rank[r].params, Torn)]
        /\ UNCHANGED <<state, lineage>>
    BY <1>9 DEF RankOptimizerTears
  <2> QED
    BY <1>1, <2>1 DEF Worker
<1>10. CASE Failure
  BY <1>2, <1>9, <1>10 DEF Failure, Raise, Die
<1>11. CASE UNCHANGED vars
  BY <1>11 DEF vars
<1> QED
  BY <1>3, <1>4, <1>5, <1>6, <1>7, <1>8, <1>10, <1>11 DEF Next, Progress

(* Before the step the shards of the actor are one model.                   *)
LEMMA OneModel ==
  ASSUME ParamsInv, Unstepped
  PROVE  ActorChecksum = {lineage}
BY UpdateConstants DEF ParamsInv, ActorChecksum

(* A reward policy that is not re-read is still the current one.            *)
LEMMA RewardInvStep ==
  TypeOK /\ AttemptInv /\ ModelInv /\ RewardInv /\ [Next]_vars => RewardInv'
<1> SUFFICES ASSUME TypeOK, AttemptInv, ModelInv, RewardInv, [Next]_vars
             PROVE  RewardInv'
  OBVIOUS
<1> USE DEF attemptVars, poolVars, runVars
<1>1. /\ rank \in [Ranks -> Worker] /\ state.step \in Nat /\ saved \subseteq Checkpoint
      /\ \A r \in Ranks : rank[r].rewardStep \in Int
  BY DEF TypeOK, TxTypeOK, TrainingState, Worker
<1>2. CASE rank' = Untrained /\ state' = ZeroState
  BY <1>2 DEF Untrained, NewWorker, ZeroState, RewardInv
<1>3. CASE StartFresh
  BY <1>2, <1>3, EndMemory DEF StartFresh, Boot
<1>4. ASSUME NEW c \in saved, NEW preload \in BOOLEAN, Resume(c, preload)
      PROVE  RewardInv'
  <2>1. c.state.step \in Nat
    BY <1>1 DEF Checkpoint, TrainingState
  <2>2. /\ rank' = [r \in Ranks |-> IF preload THEN Preloaded(Restored(c, r), c)
                                              ELSE Restored(c, r)]
        /\ state' = c.state
        /\ \E r \in Ranks : lineage' = c.shards[r]
    BY <1>4, EndMemory DEF Resume, Boot
  <2>3. {c.shards[q] : q \in Ranks} = {lineage'}
    BY <2>2 DEF ModelInv, SavedInv
  <2>4. ASSUME NEW r \in Ranks
        PROVE  \/ rank'[r].rewardStep = c.state.step /\ rank'[r].reward = {lineage'}
               \/ rank'[r].rewardStep = -1
    BY <2>2, <2>3 DEF Preloaded, Restored, NewWorker
  <2> QED
    BY <2>1, <2>2, <2>4 DEF RewardInv
<1>5. CASE Launch
  BY <1>3, <1>4, <1>5 DEF Launch
<1>6. CASE ReturnAttempt
  <2>1. /\ pc = "return" /\ state' = returned /\ UNCHANGED rank
        /\ lineage' = IF rec.phase = "committed" THEN Append(lineage, rec.attempt)
                                                 ELSE lineage
    BY <1>6 DEF ReturnAttempt
  <2>2. \/ rec.phase = "committed" /\ returned.step = state.step + 1
        \/ rec.phase = "skipped" /\ returned.step = state.step
    BY <2>1 DEF AttemptInv, PhasesAgree, HandedBack, Committing, AttemptConsumed
  <2> QED
    BY <1>1, <2>1, <2>2 DEF RewardInv
<1>7. CASE FreezeBoundary
  <2>1. ActorChecksum = {lineage}
    BY <1>7, OneModel
    DEF FreezeBoundary, AttemptInv, PhasesAgree, PreStepPhases, Unstepped, ModelInv
  <2>2. UNCHANGED <<state, lineage>>
    BY <1>7, MethodEffects DEF FreezeBoundary, Moves, TypeOK
  <2>3. \A r \in Ranks : rank'[r] = BeginSnapshot(rank[r], state.step)
    BY <1>7 DEF FreezeBoundary
  <2>4. state.step \in Int /\ \A r \in Ranks : rank[r] \in Worker
    BY <1>1
  <2>5. \A r \in Ranks :
          /\ rank'[r].rewardStep = state.step
          /\ rank'[r].reward = IF rank[r].rewardStep # state.step THEN ActorChecksum
                                                                  ELSE rank[r].reward
    BY <2>3, <2>4, SnapshotEffects
  <2> QED
    BY <1>1, <2>1, <2>2, <2>5 DEF RewardInv
<1>8. CASE /\ UNCHANGED <<state, lineage>>
           /\ \A r \in Ranks : /\ rank'[r].rewardStep = rank[r].rewardStep
                               /\ rank'[r].reward = rank[r].reward
  BY <1>8 DEF RewardInv
<1> QED
  BY <1>2, <1>5, <1>6, <1>7, <1>8, RewardSteps

(* The replicas asleep, awake and synchronized.                             *)
LEMMA EngineEffects ==
  ASSUME NEW e \in EngineType
  PROVE  /\ Asleep(e) \in EngineType
         /\ Asleep(e).stamp = e.stamp /\ ~ Asleep(e).awake
         /\ Awake(e).stamp = e.stamp
         /\ Awake(e).weights = IF e.awake THEN e.weights ELSE ActorChecksum
         /\ \A n : Synchronized(e, n).stamp = n /\ Synchronized(e, n).weights = ActorChecksum
<1>1. Asleep(e) = [e EXCEPT !.awake = FALSE, !.weights = {}]
  BY DEF Asleep
<1>2. Asleep(e).stamp = e.stamp /\ ~ Asleep(e).awake /\ Asleep(e) \in EngineType
  BY <1>1 DEF EngineType
<1>3. ASSUME NEW d \in EngineType
      PROVE  /\ Awake(d).stamp = d.stamp
             /\ Awake(d).weights = IF d.awake THEN d.weights ELSE ActorChecksum
  BY DEF Awake, EngineType
<1>4. ASSUME NEW n
      PROVE  Synchronized(e, n).stamp = n /\ Synchronized(e, n).weights = ActorChecksum
  <2> DEFINE up == Awake(Asleep(e))
  <2>1. up = [Asleep(e) EXCEPT !.awake = TRUE, !.weights = ActorChecksum]
    BY <1>2 DEF Awake
  <2>2. up.weights = ActorChecksum /\ up.stamp = e.stamp
        /\ up \in [awake : BOOLEAN, stamp : Int, weights : {ActorChecksum}]
    BY <1>2, <2>1 DEF EngineType
  <2>3. Synchronized(e, n) = [up EXCEPT !.stamp = n]
    BY DEF Synchronized
  <2> HIDE DEF up
  <2> QED
    BY <2>2, <2>3
<1> QED
  BY <1>2, <1>3, <1>4

(* A collection from replicas that hold the model of the ranks.             *)
LEMMA CollectEffects ==
  ASSUME TypeOK, NEW count \in Nat, NEW STATE live, live \in EngineType,
         live.weights = {lineage}, ActorChecksum = {lineage},
         pool.policies \subseteq {{lineage}}, CollectGroups(count, live)
  PROVE  pool'.policies = {{lineage}} /\ engine' = Asleep(live)
<1>1. PICK replaced \in 0..MaxReplacements :
        /\ pool' = [size |-> pool.size + count,
                    policies |-> pool.policies \union {live.weights} \union
                      {Awake(Asleep(live)).weights : n \in 1..replaced}]
        /\ engine' = Asleep(live)
  BY DEF CollectGroups
<1>2. Asleep(live) \in EngineType /\ ~ Asleep(live).awake
  BY EngineEffects
<1>3. Awake(Asleep(live)).weights = {lineage}
  BY <1>2, EngineEffects
<1>4. {Awake(Asleep(live)).weights : n \in 1..replaced} \subseteq {{lineage}}
  BY <1>3
<1> QED
  BY <1>1, <1>4

(* Replicas that wake load the model that the ranks hold.                   *)
LEMMA SampleStep ==
  TypeOK /\ AttemptInv /\ ModelInv /\ SampleInv /\ [Next]_vars => SampleInv'
<1> SUFFICES ASSUME TypeOK, AttemptInv, ModelInv, SampleInv, [Next]_vars
             PROVE  SampleInv'
  OBVIOUS
<1> USE DEF attemptVars, poolVars, runVars
<1>1. TxTypeOK /\ rank \in [Ranks -> Worker] /\ done \subseteq Ranks
  BY DEF TypeOK
<1>2. engine \in EngineType
  BY DEF TypeOK, EngineType
<1>3. Unstepped => ActorChecksum = {lineage}
  BY OneModel DEF ModelInv
<1>4. ASSUME NEW workers, NEW start, Memory(workers, start), pc' \in {"down", "idle"}
      PROVE  SampleInv'
  BY <1>4 DEF SampleInv, EngineInv, PoolInv, SampledPcs
<1>5. ProcessEnds => SampleInv'
  BY <1>4 DEF ProcessEnds
<1>6. CASE StartFresh
  BY <1>4, <1>6 DEF StartFresh, Boot
<1>7. ASSUME NEW c \in saved, NEW preload \in BOOLEAN, Resume(c, preload)
      PROVE  SampleInv'
  BY <1>4, <1>7 DEF Resume, Boot
<1>8. CASE StartAttempt
  BY <1>1, <1>8
  DEF StartAttempt, NewRecord, SampleInv, EngineInv, PoolInv, SampledPcs,
      Committing, PhasesAgree, AttemptInv
<1>9. CASE GiveUpOverBudget
  BY <1>5, <1>9 DEF GiveUpOverBudget
<1>10. CASE Pass
  BY <1>1, <1>5, <1>10
  DEF Pass, SampleInv, EngineInv, PoolInv, SampledPcs, Committing, PhasesAgree,
      AttemptInv
<1>11. CASE ReturnAttempt
  BY <1>1, <1>11
  DEF ReturnAttempt, SampleInv, EngineInv, PoolInv, SampledPcs, Committing,
      PhasesAgree, AttemptInv
<1>12. CASE FreezeBoundary
  <2>1. /\ pc = "boundary" /\ pc' = "collect" /\ UNCHANGED <<pool, lineage>>
        /\ engine' = Synchronized(engine, state.step)
        /\ rank' = [r \in Ranks |-> BeginSnapshot(rank[r], state.step)]
    BY <1>12 DEF FreezeBoundary
  <2>2. state' = state
    BY <1>1, <1>12, MethodEffects DEF FreezeBoundary, Moves
  <2>3. ActorChecksum = {lineage}
    BY <1>3, <2>1 DEF AttemptInv, PhasesAgree, PreStepPhases, Unstepped
  <2>4. engine'.stamp = state.step /\ engine'.weights = {lineage}
    BY <1>2, <2>1, <2>3, EngineEffects
  <2>5. state.step \in Int /\ \A r \in Ranks : rank[r] \in Worker
    BY <1>1 DEF TxTypeOK, TrainingState
  <2>6. \A r \in Ranks : rank'[r].rewardStep = state.step
    BY <2>1, <2>5, SnapshotEffects
  <2> QED
    BY <2>1, <2>2, <2>4, <2>6 DEF SampleInv, EngineInv, PoolInv, SampledPcs
<1>13. CASE FinishRollout
  BY <1>1, MethodEffects, <1>13
  DEF FinishRollout, Moves, PreStepPhases, SampleInv, EngineInv, PoolInv,
      SampledPcs, Committing, PhasesAgree, AttemptInv
<1>14. CASE FinishScoring
  BY <1>1, MethodEffects, <1>14
  DEF FinishScoring, Moves, PreStepPhases, SampleInv, EngineInv, PoolInv,
      SampledPcs, Committing, PhasesAgree, AttemptInv
<1>15. CASE SkipAttempt
  BY <1>1, MethodEffects, <1>15
  DEF SkipAttempt, Moves, AttemptConsumed, PreStepPhases, SampleInv, EngineInv,
      PoolInv, SampledPcs, Committing, PhasesAgree, AttemptInv
<1>16. CASE SelectAttempt
  BY <1>1, MethodEffects, <1>16
  DEF SelectAttempt, Moves, PreStepPhases, SampleInv, EngineInv, PoolInv,
      SampledPcs, Committing, PhasesAgree, AttemptInv
<1>17. CASE CollectInitial
  <2>1. /\ pc = "collect" /\ pc' = "select" /\ UNCHANGED <<state, lineage, rank>>
        /\ CollectGroups(InitialPrompts, Awake(engine))
    BY <1>17 DEF CollectInitial
  <2>2. ActorChecksum = {lineage}
    BY <1>3, <2>1 DEF AttemptInv, PhasesAgree, PreStepPhases, Unstepped
  <2>3. /\ engine.stamp = state.step
        /\ engine.awake => engine.weights = {lineage}
        /\ pool.policies = {} /\ \A r \in Ranks : rank[r].rewardStep = state.step
    BY <2>1 DEF SampleInv, EngineInv, PoolInv
  <2>4. Awake(engine) \in EngineType
    <3>1. 0 \in Int
      OBVIOUS
    <3> QED
      BY <1>2, <3>1, WorkerTypes
  <2>5. Awake(engine).weights = {lineage} /\ Awake(engine).stamp = state.step
    BY <1>2, <2>2, <2>3, EngineEffects
  <2>6. pool'.policies = {{lineage}} /\ engine' = Asleep(Awake(engine))
    BY <2>1, <2>2, <2>3, <2>4, <2>5, CollectEffects, Constants
  <2>7. engine'.stamp = state.step /\ ~ engine'.awake
    BY <2>4, <2>5, <2>6, EngineEffects
  <2> QED
    BY <2>1, <2>3, <2>6, <2>7 DEF SampleInv, EngineInv, PoolInv, SampledPcs
<1>18. CASE SelectPrompts
  BY <1>1, <1>18
  DEF SelectPrompts, PreStepPhases, SampleInv, EngineInv, PoolInv, SampledPcs,
      Committing, PhasesAgree, AttemptInv
<1>19. CASE Refill
  <2>1. /\ pc = "refill" /\ pc' = "select" /\ UNCHANGED <<state, lineage, rank>>
    BY <1>19 DEF Refill
  <2>2. ActorChecksum = {lineage}
    BY <1>3, <2>1 DEF AttemptInv, PhasesAgree, PreStepPhases, Unstepped
  <2>3. /\ engine.stamp = state.step
        /\ engine.awake => engine.weights = {lineage}
        /\ pool.policies = {{lineage}} /\ \A r \in Ranks : rank[r].rewardStep = state.step
    BY <2>1 DEF SampleInv, EngineInv, PoolInv, SampledPcs
  <2>4. Awake(engine) \in EngineType
    <3>1. 0 \in Int
      OBVIOUS
    <3> QED
      BY <1>2, <3>1, WorkerTypes
  <2>5. Awake(engine).weights = {lineage} /\ Awake(engine).stamp = state.step
    BY <1>2, <2>2, <2>3, EngineEffects
  <2>6. pool'.policies = {{lineage}} /\ engine' = Asleep(Awake(engine))
    <3>1. CollectGroups(RefillPrompts, Awake(engine))
      BY <1>19, <2>3 DEF Refill
    <3> QED
      BY <2>2, <2>3, <2>4, <2>5, <3>1, CollectEffects, Constants
  <2>7. engine'.stamp = state.step /\ ~ engine'.awake
    BY <2>4, <2>5, <2>6, EngineEffects
  <2> QED
    BY <2>1, <2>3, <2>6, <2>7 DEF SampleInv, EngineInv, PoolInv, SampledPcs
<1>20. CASE PrepareBatches
  <2>1. /\ pc = "prepare" /\ pc' = "zero" /\ UNCHANGED <<state, lineage, rank, pool>>
        /\ engine' = Asleep(Awake(engine))
    BY <1>20 DEF PrepareBatches
  <2>2. Awake(engine) \in EngineType
    <3>1. 0 \in Int
      OBVIOUS
    <3> QED
      BY <1>2, <3>1, WorkerTypes
  <2>3. engine'.stamp = engine.stamp /\ ~ engine'.awake
    BY <1>2, <2>1, <2>2, EngineEffects
  <2> QED
    BY <2>1, <2>3 DEF SampleInv, EngineInv, PoolInv, SampledPcs
<1>21. CASE ZeroGrad
  BY <1>1, MethodEffects, <1>21
  DEF ZeroGrad, AllRanksDone, Moves, PreStepPhases, SampleInv, EngineInv,
      PoolInv, SampledPcs, Committing, PhasesAgree, AttemptInv
<1>22. CASE StartMicrobatch
  BY <1>1, MethodEffects, <1>22
  DEF StartMicrobatch, Moves, PreStepPhases, SampleInv, EngineInv, PoolInv,
      SampledPcs, Committing, PhasesAgree, AttemptInv
<1>23. CASE FinishMicrobatch
  BY <1>1, <1>23
  DEF FinishMicrobatch, AllRanksDone, PreStepPhases, SampleInv, EngineInv,
      PoolInv, SampledPcs, Committing, PhasesAgree, AttemptInv
<1>24. CASE FinishBackward
  BY <1>1, MethodEffects, <1>24
  DEF FinishBackward, Moves, PreStepPhases, SampleInv, EngineInv, PoolInv,
      SampledPcs, Committing, PhasesAgree, AttemptInv
<1>25. CASE StartOptimizer
  BY <1>1, MethodEffects, <1>25
  DEF StartOptimizer, Moves, PreStepPhases, SampleInv, EngineInv, PoolInv,
      SampledPcs, Committing, PhasesAgree, AttemptInv
<1>26. CASE FinishOptimizer
  BY <1>1, MethodEffects, <1>26
  DEF FinishOptimizer, AllRanksDone, Moves, PreStepPhases, SampleInv, EngineInv,
      PoolInv, SampledPcs, Committing, PhasesAgree, AttemptInv
<1>27. CASE StartScheduler
  BY <1>1, MethodEffects, <1>27
  DEF StartScheduler, Moves, PreStepPhases, SampleInv, EngineInv, PoolInv,
      SampledPcs, Committing, PhasesAgree, AttemptInv
<1>28. CASE FinishScheduler
  BY <1>1, MethodEffects, <1>28
  DEF FinishScheduler, AllRanksDone, Moves, PreStepPhases, SampleInv, EngineInv,
      PoolInv, SampledPcs, Committing, PhasesAgree, AttemptInv
<1>29. CASE Propose
  BY <1>1, MethodEffects, <1>29
  DEF Propose, Moves, PreStepPhases, SampleInv, EngineInv, PoolInv, SampledPcs,
      Committing, PhasesAgree, AttemptInv
<1>30. CASE SynchronizeCommit
  BY <1>1, <1>30
  DEF SynchronizeCommit, PreStepPhases, SampleInv, EngineInv, PoolInv,
      SampledPcs, Committing, PhasesAgree, AttemptInv
<1>31. CASE SaveCheckpoint
  BY <1>1, <1>31
  DEF SaveCheckpoint, PreStepPhases, SampleInv, EngineInv, PoolInv, SampledPcs,
      Committing, PhasesAgree, AttemptInv
<1>32. CASE PublishUpdate
  BY <1>1, <1>32
  DEF PublishUpdate, PreStepPhases, SampleInv, EngineInv, PoolInv, SampledPcs,
      Committing, PhasesAgree, AttemptInv
<1>33. CASE FinishCommit
  BY <1>1, MethodEffects, <1>33
  DEF FinishCommit, Moves, PreStepPhases, SampleInv, EngineInv, PoolInv,
      SampledPcs, Committing, PhasesAgree, AttemptInv
<1>34. CASE Raise
  BY <1>1, <1>34
  DEF Raise, InTryBlock, PreStepPhases, PostStepPhases, SampleInv, EngineInv,
      PoolInv, SampledPcs, Committing, PhasesAgree, AttemptInv
<1>35. CASE StartRollback
  BY <1>1, <1>35
  DEF StartRollback, CanRollbackPreStep, PreStepPhases, SampleInv, EngineInv,
      PoolInv, SampledPcs, Committing, PhasesAgree, AttemptInv
<1>36. CASE AbortAttempt
  BY <1>1, MethodEffects, <1>36
  DEF AbortAttempt, AllRanksDone, CanRollbackPreStep, PreStepPhases,
      PostStepPhases, SampleInv, EngineInv, PoolInv, SampledPcs, Committing,
      PhasesAgree, AttemptInv
<1>37. CASE ExitOnFailure
  BY <1>5, <1>37 DEF ExitOnFailure
<1>38. CASE Die
  BY <1>5, <1>38 DEF Die
<1>39. CASE RankStep
  <2>1. /\ UNCHANGED <<pc, state, engine, pool, lineage>>
        /\ \A r \in Ranks : rank'[r].rewardStep = rank[r].rewardStep
    BY <1>1, <1>39, CallEffects DEF RankStep
  <2> QED
    BY <2>1 DEF SampleInv, EngineInv, PoolInv
<1>40. ASSUME NEW r \in Ranks, RankOptimizerTears(r)
      PROVE  SampleInv'
  BY <1>40 DEF RankOptimizerTears, SampleInv, EngineInv, PoolInv, SampledPcs
<1>41. CASE UNCHANGED vars
  BY <1>1, <1>41
  DEF vars, SampleInv, EngineInv, PoolInv, SampledPcs,
      Committing, PhasesAgree, AttemptInv
<1>42. CASE Launch
  BY <1>6, <1>7, <1>42
  DEF Launch
<1>43. CASE Progress
  BY <1>8, <1>9, <1>10, <1>11, <1>12, <1>13, <1>14, <1>15, <1>16, <1>17, <1>18,
     <1>19, <1>20, <1>21, <1>22, <1>23, <1>24, <1>25, <1>26, <1>27, <1>28,
     <1>29, <1>30, <1>31, <1>32, <1>33, <1>34, <1>35, <1>36, <1>37, <1>39, <1>43
  DEF Progress, Loop, Rollout, Learn, Commit, Handle
<1>44. CASE Failure
  BY <1>34, <1>38, <1>40, <1>44
  DEF Failure
<1> QED
  BY <1>41, <1>42, <1>43, <1>44 DEF Next

(* The totals, the event file and the prompt cursor.                        *)
LEMMA CountStep ==
  TypeOK /\ AttemptInv /\ CountInv /\ [Next]_vars => CountInv'
<1> SUFFICES ASSUME TypeOK, AttemptInv, CountInv, [Next]_vars
             PROVE  CountInv'
  OBVIOUS
<1> USE DEF attemptVars, poolVars, runVars
<1>1. TxTypeOK /\ rank \in [Ranks -> Worker] /\ done \subseteq Ranks
  BY DEF TypeOK
<1>2. /\ totals.start \in Nat /\ state.step \in Nat /\ ledger \in Seq(Nat)
      /\ totals.optimizer \in Nat /\ totals.scheduler \in Nat
      /\ Len(ledger) \in Nat
  BY DEF TypeOK, TxTypeOK, TrainingState
<1>3. ASSUME NEW workers, NEW start, start \in TrainingState, Memory(workers, start),
             pc' \in {"down", "idle"}
      PROVE  CountInv'
  <2>1. /\ state' = start /\ start.step \in Nat /\ draws' = start.cursor
        /\ totals'.start = start.step /\ totals'.optimizer = 0
        /\ totals'.scheduler = 0 /\ ledger' = <<>>
    BY <1>3, EndMemory DEF TrainingState
  <2>2. start.step - start.step = 0 /\ Len(<<>>) = 0 /\ 1 .. 0 = {}
    BY <2>1
  <2> QED
    BY <1>3, <2>1, <2>2
    DEF CountInv, TotalsInv, LedgerInv, CursorInv, UnsteppedPcs, Skipping, Committing
<1>4. ProcessEnds => CountInv'
  BY <1>3, StartTypes DEF ProcessEnds
<1>5. CASE StartFresh
  BY <1>3, <1>5, StartTypes DEF StartFresh, Boot
<1>6. ASSUME NEW c \in saved, NEW preload \in BOOLEAN, Resume(c, preload)
      PROVE  CountInv'
  <2>1. c.state \in TrainingState
    BY DEF TypeOK, Checkpoint
  <2> QED
    BY <1>3, <2>1, <1>6 DEF Resume, Boot
<1>7. CASE StartAttempt
  BY <1>1, <1>7
  DEF StartAttempt, NewRecord, CountInv, TotalsInv, LedgerInv, CursorInv,
      UnsteppedPcs, Skipping, Committing, PhasesAgree, AttemptInv
<1>8. CASE GiveUpOverBudget
  BY <1>4, <1>8 DEF GiveUpOverBudget
<1>9. CASE Pass
  BY <1>1, <1>4, <1>9
  DEF Pass, CountInv, TotalsInv, LedgerInv, CursorInv, UnsteppedPcs, Skipping,
      Committing, PhasesAgree, AttemptInv
<1>10. CASE ReturnAttempt
  <2>1. /\ pc = "return" /\ pc' = "idle" /\ state' = returned
        /\ UNCHANGED <<totals, ledger, draws>>
    BY <1>10 DEF ReturnAttempt
  <2>2. /\ returned.cursor = draws
        /\ \/ rec.phase = "committed" /\ returned.step = state.step + 1
           \/ rec.phase = "skipped" /\ returned.step = state.step
    BY <2>1 DEF AttemptInv, PhasesAgree, HandedBack, Committing, AttemptConsumed
  <2> QED
    BY <1>2, <2>1, <2>2
    DEF CountInv, TotalsInv, LedgerInv, CursorInv, UnsteppedPcs, Skipping,
        Committing
<1>11. CASE FreezeBoundary
  BY <1>1, MethodEffects, <1>11
  DEF FreezeBoundary, Moves, CountInv, TotalsInv, LedgerInv, CursorInv,
      UnsteppedPcs, Skipping, Committing, PhasesAgree, AttemptInv
<1>12. CASE FinishRollout
  BY <1>1, MethodEffects, <1>12
  DEF FinishRollout, Moves, PreStepPhases, CountInv, TotalsInv, LedgerInv,
      CursorInv, UnsteppedPcs, Skipping, Committing, PhasesAgree, AttemptInv
<1>13. CASE FinishScoring
  BY <1>1, MethodEffects, <1>13
  DEF FinishScoring, Moves, PreStepPhases, CountInv, TotalsInv, LedgerInv,
      CursorInv, UnsteppedPcs, Skipping, Committing, PhasesAgree, AttemptInv
<1>14. CASE SkipAttempt
  BY <1>1, MethodEffects, <1>14
  DEF SkipAttempt, Moves, AttemptConsumed, PreStepPhases, CountInv, TotalsInv,
      LedgerInv, CursorInv, UnsteppedPcs, Skipping, Committing, PhasesAgree,
      AttemptInv
<1>15. CASE SelectAttempt
  BY <1>1, MethodEffects, <1>15
  DEF SelectAttempt, Moves, PreStepPhases, CountInv, TotalsInv, LedgerInv,
      CursorInv, UnsteppedPcs, Skipping, Committing, PhasesAgree, AttemptInv
<1>16. CASE CollectInitial
  BY <1>1, <1>16
  DEF CollectInitial, PreStepPhases, CountInv, TotalsInv, LedgerInv, CursorInv,
      UnsteppedPcs, Skipping, Committing, PhasesAgree, AttemptInv
<1>17. CASE SelectPrompts
  BY <1>1, <1>17
  DEF SelectPrompts, PreStepPhases, CountInv, TotalsInv, LedgerInv, CursorInv,
      UnsteppedPcs, Skipping, Committing, PhasesAgree, AttemptInv
<1>18. CASE Refill
  BY <1>1, <1>18
  DEF Refill, PreStepPhases, CountInv, TotalsInv, LedgerInv, CursorInv,
      UnsteppedPcs, Skipping, Committing, PhasesAgree, AttemptInv
<1>19. CASE PrepareBatches
  BY <1>1, <1>19
  DEF PrepareBatches, PreStepPhases, CountInv, TotalsInv, LedgerInv, CursorInv,
      UnsteppedPcs, Skipping, Committing, PhasesAgree, AttemptInv
<1>20. CASE ZeroGrad
  BY <1>1, MethodEffects, <1>20
  DEF ZeroGrad, AllRanksDone, Moves, PreStepPhases, CountInv, TotalsInv,
      LedgerInv, CursorInv, UnsteppedPcs, Skipping, Committing, PhasesAgree,
      AttemptInv
<1>21. CASE StartMicrobatch
  BY <1>1, MethodEffects, <1>21
  DEF StartMicrobatch, Moves, PreStepPhases, CountInv, TotalsInv, LedgerInv,
      CursorInv, UnsteppedPcs, Skipping, Committing, PhasesAgree, AttemptInv
<1>22. CASE FinishMicrobatch
  BY <1>1, <1>22
  DEF FinishMicrobatch, AllRanksDone, PreStepPhases, CountInv, TotalsInv,
      LedgerInv, CursorInv, UnsteppedPcs, Skipping, Committing, PhasesAgree,
      AttemptInv
<1>23. CASE FinishBackward
  BY <1>1, MethodEffects, <1>23
  DEF FinishBackward, Moves, PreStepPhases, CountInv, TotalsInv, LedgerInv,
      CursorInv, UnsteppedPcs, Skipping, Committing, PhasesAgree, AttemptInv
<1>24. CASE StartOptimizer
  BY <1>1, MethodEffects, <1>24
  DEF StartOptimizer, Moves, PreStepPhases, CountInv, TotalsInv, LedgerInv,
      CursorInv, UnsteppedPcs, Skipping, Committing, PhasesAgree, AttemptInv
<1>25. CASE FinishOptimizer
  <2>1. /\ pc = "optimizer" /\ pc' = "stepped" /\ UNCHANGED <<ledger, draws>>
        /\ totals' = [totals EXCEPT !.optimizer = totals.optimizer + 1]
        /\ state' = state
    BY <1>1, <1>25, MethodEffects DEF FinishOptimizer, AllRanksDone, Moves
  <2>2. /\ totals'.optimizer = totals.optimizer + 1 /\ totals'.start = totals.start
        /\ totals'.scheduler = totals.scheduler
    BY <2>1 DEF TypeOK
  <2> QED
    BY <1>2, <2>1, <2>2
    DEF CountInv, TotalsInv, LedgerInv, CursorInv, UnsteppedPcs, Skipping,
        Committing
<1>26. CASE StartScheduler
  BY <1>1, MethodEffects, <1>26
  DEF StartScheduler, Moves, PreStepPhases, CountInv, TotalsInv, LedgerInv,
      CursorInv, UnsteppedPcs, Skipping, Committing, PhasesAgree, AttemptInv
<1>27. CASE FinishScheduler
  <2>1. /\ pc = "scheduler" /\ pc' = "propose" /\ UNCHANGED <<ledger, draws>>
        /\ totals' = [totals EXCEPT !.scheduler = totals.scheduler + 1]
        /\ state' = state
    BY <1>1, <1>27, MethodEffects DEF FinishScheduler, AllRanksDone, Moves
  <2>2. /\ totals'.scheduler = totals.scheduler + 1 /\ totals'.start = totals.start
        /\ totals'.optimizer = totals.optimizer
    BY <2>1 DEF TypeOK
  <2> QED
    BY <1>2, <2>1, <2>2
    DEF CountInv, TotalsInv, LedgerInv, CursorInv, UnsteppedPcs, Skipping,
        Committing
<1>28. CASE Propose
  BY <1>1, MethodEffects, <1>28
  DEF Propose, Moves, PreStepPhases, CountInv, TotalsInv, LedgerInv, CursorInv,
      UnsteppedPcs, Skipping, Committing, PhasesAgree, AttemptInv
<1>29. CASE SynchronizeCommit
  BY <1>1, <1>29
  DEF SynchronizeCommit, PreStepPhases, CountInv, TotalsInv, LedgerInv,
      CursorInv, UnsteppedPcs, Skipping, Committing, PhasesAgree, AttemptInv
<1>30. CASE SaveCheckpoint
  BY <1>1, <1>30
  DEF SaveCheckpoint, PreStepPhases, CountInv, TotalsInv, LedgerInv, CursorInv,
      UnsteppedPcs, Skipping, Committing, PhasesAgree, AttemptInv
<1>31. CASE PublishUpdate
  <2>1. /\ pc = "publish" /\ pc' = "committed" /\ UNCHANGED <<state, rec, totals, draws>>
        /\ ledger' = Append(ledger, returned.step)
    BY <1>31 DEF PublishUpdate
  <2>2. returned.step = state.step + 1 /\ Len(ledger) = state.step - totals.start
    BY <2>1 DEF AttemptInv, HandedBack, Committing, CountInv, LedgerInv, UnsteppedPcs
  <2>3. /\ Len(ledger') = Len(ledger) + 1
        /\ \A i \in 1 .. Len(ledger) : ledger'[i] = ledger[i]
        /\ ledger'[Len(ledger) + 1] = totals.start + (Len(ledger) + 1)
    BY <1>2, <2>1, <2>2
  <2>4. \A i \in 1 .. Len(ledger') : ledger'[i] = totals'.start + i
    <3> SUFFICES ASSUME NEW i \in 1 .. Len(ledger')
                 PROVE  ledger'[i] = totals.start + i
      BY <2>1
    <3>1. CASE i \in 1 .. Len(ledger)
      BY <2>3, <3>1 DEF CountInv, LedgerInv
    <3>2. CASE i = Len(ledger) + 1
      BY <2>3, <3>2
    <3> QED
      BY <1>2, <2>3, <3>1, <3>2
  <2>5. Len(ledger') = state.step + 1 - totals.start
    BY <1>2, <2>2, <2>3
  <2>6. LedgerInv'
    BY <2>1, <2>4, <2>5 DEF LedgerInv, UnsteppedPcs, Skipping
  <2>7. TotalsInv' /\ CursorInv'
    BY <2>1 DEF CountInv, TotalsInv, CursorInv, UnsteppedPcs, Skipping, Committing
  <2> QED
    BY <2>6, <2>7 DEF CountInv
<1>32. CASE FinishCommit
  BY <1>1, MethodEffects, <1>32
  DEF FinishCommit, Moves, PreStepPhases, CountInv, TotalsInv, LedgerInv,
      CursorInv, UnsteppedPcs, Skipping, Committing, PhasesAgree, AttemptInv
<1>33. CASE Raise
  BY <1>1, <1>33
  DEF Raise, InTryBlock, PreStepPhases, PostStepPhases, CountInv, TotalsInv,
      LedgerInv, CursorInv, UnsteppedPcs, Skipping, Committing, PhasesAgree,
      AttemptInv
<1>34. CASE StartRollback
  BY <1>1, <1>34
  DEF StartRollback, CanRollbackPreStep, PreStepPhases, CountInv, TotalsInv,
      LedgerInv, CursorInv, UnsteppedPcs, Skipping, Committing, PhasesAgree,
      AttemptInv
<1>35. CASE AbortAttempt
  BY <1>1, MethodEffects, <1>35
  DEF AbortAttempt, AllRanksDone, CanRollbackPreStep, PreStepPhases,
      PostStepPhases, CountInv, TotalsInv, LedgerInv, CursorInv, UnsteppedPcs,
      Skipping, Committing, PhasesAgree, AttemptInv
<1>36. CASE ExitOnFailure
  BY <1>4, <1>36 DEF ExitOnFailure
<1>37. CASE Die
  BY <1>4, <1>37 DEF Die
<1>38. CASE RankStep
  <2>1. UNCHANGED <<pc, state, rec, totals, ledger, draws>>
    BY <1>1, <1>38, CallEffects DEF RankStep
  <2> QED
    BY <2>1 DEF CountInv, TotalsInv, LedgerInv, CursorInv, Skipping, Committing
<1>39. ASSUME NEW r \in Ranks, RankOptimizerTears(r)
      PROVE  CountInv'
  BY <1>39
  DEF RankOptimizerTears, CountInv, TotalsInv, LedgerInv, CursorInv, UnsteppedPcs,
      Skipping, Committing
<1>40. CASE UNCHANGED vars
  BY <1>1, <1>40
  DEF vars, CountInv, TotalsInv, LedgerInv, CursorInv,
      UnsteppedPcs, Skipping, Committing, PhasesAgree, AttemptInv
<1>41. CASE Launch
  BY <1>5, <1>6, <1>41
  DEF Launch
<1>42. CASE Progress
  BY <1>7, <1>8, <1>9, <1>10, <1>11, <1>12, <1>13, <1>14, <1>15, <1>16, <1>17,
     <1>18, <1>19, <1>20, <1>21, <1>22, <1>23, <1>24, <1>25, <1>26, <1>27,
     <1>28, <1>29, <1>30, <1>31, <1>32, <1>33, <1>34, <1>35, <1>36, <1>38, <1>42
  DEF Progress, Loop, Rollout, Learn, Commit, Handle
<1>43. CASE Failure
  BY <1>33, <1>37, <1>39, <1>43
  DEF Failure
<1> QED
  BY <1>40, <1>41, <1>42, <1>43 DEF Next

(* The whole invariant.                                                     *)
LEMMA InitInv == Init => UpdateInv
<1> SUFFICES ASSUME Init PROVE UpdateInv
  OBVIOUS
<1>1. TypeOK
  <2>1. /\ Untrained \in [Ranks -> Worker] /\ NewRecord(ZeroState) \in AttemptRecord
        /\ ZeroState \in TrainingState
    BY StartTypes DEF Untrained
  <2>2. /\ engine \in [awake : BOOLEAN, stamp : Int, weights : SUBSET Model]
        /\ pool \in [size : Nat, policies : SUBSET SUBSET Model]
        /\ totals \in [start : Nat, optimizer : Nat, scheduler : Nat]
        /\ ledger \in Seq(Nat) /\ lineage \in Model
    BY DEF Init, Model
  <2> QED
    BY <2>1, <2>2 DEF Init, TypeOK, TxTypeOK, Pcs
<1>2. AttemptInv
  BY DEF Init, AttemptInv, PhasesAgree, OwnAttempt, HandedBack, Committing, CallsAnswered
<1>3. ModelInv
  BY DEF Init, ModelInv, ParamsInv, ScheduleInv, SavedInv, Unstepped, Committing,
         Untrained, NewWorker, ZeroState
<1>4. GradientInv
  BY DEF Init, GradientInv
<1>5. PolicyInv
  BY DEF Init, PolicyInv, RewardInv, SampleInv, EngineInv, PoolInv, SampledPcs,
         Untrained, NewWorker, ZeroState
<1>6. CountInv
  BY DEF Init, CountInv, TotalsInv, LedgerInv, CursorInv, UnsteppedPcs, Skipping,
         Committing
<1> QED
  BY <1>1, <1>2, <1>3, <1>4, <1>5, <1>6 DEF UpdateInv

LEMMA StepInv == UpdateInv /\ [Next]_vars => UpdateInv'
BY StepTypes, AttemptStep, ModelStep, GradientStep, RewardInvStep, SampleStep, CountStep
DEF UpdateInv, PolicyInv

LEMMA UpdateInvariant == Spec => []UpdateInv
BY InitInv, StepInv, PTL DEF Spec
-----------------------------------------------------------------------------
(* Every variable keeps its type.                                           *)
THEOREM UpdateTypeCorrect == Spec => []TypeOK
<1>1. UpdateInv => TypeOK
  BY DEF UpdateInv
<1> QED
  BY <1>1, UpdateInvariant, PTL

(* Between attempts the ranks hold the model, the step counts and the       *)
(* prompt cursor that the committed attempts produced, and the event file   *)
(* lists the updates without a gap: no skip or failure leaves a trace.      *)
THEOREM StateIsTheModels == Spec => []ModelMatchesState
<1>1. UpdateInv => ModelMatchesState
  BY DEF UpdateInv, ModelInv, ParamsInv, ScheduleInv, Unstepped, CountInv, TotalsInv,
         LedgerInv, CursorInv, UnsteppedPcs, ModelMatchesState
<1> QED
  BY <1>1, UpdateInvariant, PTL

(* Whatever the optimizer is about to learn from was generated, rewarded    *)
(* and stamped with the parameters the ranks hold.                          *)
THEOREM LearningIsOnPolicy == Spec => []OnPolicy
<1>1. UpdateInv => OnPolicy
  <2> SUFFICES ASSUME UpdateInv,
                      pc \in {"select", "selected", "prepare", "zero", "learn",
                              "backward", "step"}
               PROVE  /\ pool.policies = {{lineage}}
                      /\ engine.stamp = state.step
                      /\ \A r \in Ranks : /\ rank[r].params = lineage
                                          /\ rank[r].reward = {lineage}
                                          /\ rank[r].rewardStep = state.step
    BY DEF OnPolicy
  <2>1. rec.phase \in PreStepPhases
    BY DEF UpdateInv, AttemptInv, PhasesAgree, PreStepPhases
  <2>2. \A r \in Ranks : rank[r].params = lineage
    BY <2>1 DEF UpdateInv, ModelInv, ParamsInv, Unstepped
  <2>3. /\ pool.policies = {{lineage}} /\ engine.stamp = state.step
        /\ \A r \in Ranks : rank[r].rewardStep = state.step
    BY DEF UpdateInv, PolicyInv, SampleInv, EngineInv, PoolInv, SampledPcs
  <2>4. \A r \in Ranks : rank[r].reward = {lineage}
    BY <2>3 DEF UpdateInv, PolicyInv, RewardInv
  <2> QED
    BY <2>2, <2>3, <2>4
<1> QED
  BY <1>1, UpdateInvariant, PTL

(* The gradient a rank steps on holds each microbatch of the attempt once   *)
(* and nothing of the attempts before it.                                   *)
THEOREM GradientsAreOwn == Spec => []GradientsOfThisAttempt
<1>1. UpdateInv => GradientsOfThisAttempt
  BY DEF UpdateInv, GradientInv, GradientsOfThisAttempt, Microbatches
<1> QED
  BY <1>1, UpdateInvariant, PTL

(* An attempt that ends as aborted has been undone on every rank.           *)
THEOREM AbortIsUndone == Spec => []AbortedMeansUndone
<1>1. UpdateInv => AbortedMeansUndone
  BY DEF UpdateInv, AttemptInv, PhasesAgree, ModelInv, ParamsInv, Unstepped,
         GradientInv, AbortedMeansUndone
<1> QED
  BY <1>1, UpdateInvariant, PTL
-----------------------------------------------------------------------------
(* The refinement.                                                          *)

Durable == {[attempt |-> c.state.attempt, model |-> c.shards[r]] :
              c \in saved, r \in Ranks}

(* A saved checkpoint is the pending model of the ledger.                   *)
LEMMA SaveRefines ==
  ASSUME UpdateInv, SaveCheckpoint, UNCHANGED <<state, lineage>>
  PROVE  Ledger!SavePending
<1> DEFINE n == state.attempt + 1
           m == Append(lineage, n)
           c == CheckpointOf(returned)
<1>1. pc = "save" /\ pc' = "publish" /\ saved' = saved \union {c}
  BY DEF SaveCheckpoint
<1>2. /\ returned.attempt = rec.attempt /\ rec.attempt = n
      /\ \A r \in Ranks : rank[r].params = Append(lineage, rec.attempt)
  BY <1>1 DEF UpdateInv, AttemptInv, HandedBack, OwnAttempt, Committing, ModelInv,
              ParamsInv, Learnt
<1>3. c.state = returned /\ \A r \in Ranks : c.shards[r] = m
  BY <1>2 DEF CheckpointOf
<1>4. c.state.attempt = n
  BY <1>2, <1>3
<1> HIDE DEF c, n, m
<1>5. Durable' = Durable \union {[attempt |-> n, model |-> m]}
  BY <1>1, <1>3, <1>4, UpdateConstants DEF Durable
<1> QED
  BY <1>1, <1>5 DEF Ledger!SavePending, Durable, Running, n, m

LEMMA StepRefines ==
  UpdateInv /\ [Next]_vars => [Ledger!LedgerNext]_(Ledger!ledgerVars)
<1> SUFFICES ASSUME UpdateInv, [Next]_vars
             PROVE  [Ledger!LedgerNext]_(Ledger!ledgerVars)
  OBVIOUS
<1>0. /\ (Running = TRUE) <=> Running
      /\ (Running' = TRUE) <=> Running'
      /\ (Running' = FALSE) <=> ~ Running'
      /\ (Running' = Running) <=> (Running' <=> Running)
      /\ (Running' = ~ Running) <=> (Running' <=> ~ Running)
  BY DEF Running
<1>1. CASE UNCHANGED <<state, lineage, saved>> /\ (Running' => Running)
  <2>1. CASE Running' = Running
    BY <1>1, <2>1 DEF Ledger!ledgerVars
  <2>2. CASE Running /\ ~ Running'
    BY <1>1, <2>2 DEF Ledger!LedgerNext, Ledger!Stop
  <2> QED
    BY <1>0, <1>1, <2>1, <2>2
<1>2. CASE ReturnAttempt /\ UNCHANGED saved
  <2>1. /\ pc = "return" /\ pc' = "idle" /\ state' = returned
        /\ lineage' = IF rec.phase = "committed" THEN Append(lineage, rec.attempt)
                                                 ELSE lineage
    BY <1>2 DEF ReturnAttempt
  <2>2. /\ rec.attempt = state.attempt + 1 /\ returned.attempt = rec.attempt
    BY <2>1 DEF UpdateInv, AttemptInv, PhasesAgree, OwnAttempt, HandedBack, Committing,
                AttemptConsumed
  <2>3. Running /\ Running'
    BY <2>1 DEF Running
  <2>4. CASE rec.phase = "committed"
    BY <1>2, <2>1, <2>2, <2>3, <2>4 DEF Ledger!LedgerNext, Ledger!CommitOne
  <2>5. CASE rec.phase # "committed"
    BY <1>2, <2>1, <2>2, <2>3, <2>5 DEF Ledger!LedgerNext, Ledger!SkipOne
  <2> QED
    BY <2>4, <2>5
<1>3. CASE SaveCheckpoint /\ UNCHANGED <<state, lineage>>
  BY <1>3, SaveRefines DEF Ledger!LedgerNext
<1>4. CASE /\ state' = ZeroState /\ lineage' = <<>> /\ UNCHANGED saved
           /\ Running' = ~ Running
  <2>1. state'.attempt = 0
    BY <1>4 DEF ZeroState
  <2>2. CASE Running
    BY <1>0, <1>4, <2>1, <2>2 DEF Ledger!LedgerNext, Ledger!Stop
  <2>3. CASE ~ Running
    BY <1>0, <1>4, <2>1, <2>3 DEF Ledger!LedgerNext, Ledger!Start
  <2> QED
    BY <2>2, <2>3
<1>5. ASSUME NEW c \in saved, NEW r \in Ranks, state' = c.state, UNCHANGED saved,
             lineage' = c.shards[r], ~ Running, Running'
      PROVE  Ledger!LedgerNext
  <2> DEFINE s == [attempt |-> c.state.attempt, model |-> c.shards[r]]
  <2>1. s \in Durable /\ state'.attempt = s.attempt /\ lineage' = s.model
    BY <1>5 DEF Durable
  <2> HIDE DEF s
  <2>2. Ledger!Start
    BY <1>5, <2>1 DEF Ledger!Start, Durable
  <2> QED
    BY <2>2 DEF Ledger!LedgerNext
<1> QED
  BY <1>1, <1>2, <1>3, <1>4, <1>5, StateSteps DEF UpdateInv

(* What a rank saves is the whole model of its attempt and a resume learns  *)
(* from none twice: every step of the protocol, with all its interleavings, *)
(* failures and deaths, is one atomic step of the ledger or none.           *)
THEOREM UpdateImplementsLedger == Spec => ImplementsLedger
<1>1. Init => Ledger!LedgerInit
  BY DEF Init, Ledger!LedgerInit, Running, ZeroState
<1>2. Spec => Ledger!LedgerInit /\ [][Ledger!LedgerNext]_(Ledger!ledgerVars)
  BY <1>1, UpdateInvariant, StepRefines, PTL DEF Spec
<1> QED
  BY <1>2 DEF ImplementsLedger, Ledger!LedgerSpec

Proved == INSTANCE LedgerProofs WITH
            AllowedCounts <- AllowedPoolSizes,
            Checksums <- SUBSET Model,
            running <- Running,
            attempt <- state.attempt,
            model <- lineage,
            durable <- Durable

(* What the transaction assumes of the pool sizes and the bounds.           *)
LEMMA PoolSizesAreLegal ==
  /\ AllowedPoolSizes \subseteq Nat \ {0} /\ AllowedPoolSizes # {}
  /\ \E m \in AllowedPoolSizes : \A c \in AllowedPoolSizes : c <= m
  /\ MinSelected \in Nat \ {0} /\ MaxSelected \in Nat /\ MinSelected <= MaxSelected
<1>1. MaximumPrompts \in AllowedPoolSizes /\ \A c \in AllowedPoolSizes : c <= MaximumPrompts
  BY UpdateConstants, WholeRefills DEF AllowedPoolSizes
<1>2. AllowedPoolSizes \subseteq Nat \ {0}
  BY UpdateConstants DEF AllowedPoolSizes
<1> QED
  BY <1>1, <1>2, UpdateConstants

(* No attempt is learnt from twice, by the model that trains or by one that *)
(* was saved, and no model has learnt from an attempt that was not taken.   *)
THEOREM UpdateLearnsOnce == Spec => []Proved!EachAttemptOnce
<1>1. Init => Proved!LedgerInit
  BY DEF Init, Proved!LedgerInit, Running, ZeroState, Durable
<1>2. UpdateInv /\ [Next]_vars => [Proved!LedgerNext]_(Proved!ledgerVars)
  <2>1. [Ledger!LedgerNext]_(Ledger!ledgerVars) =>
          [Proved!LedgerNext]_(Proved!ledgerVars)
    BY DEF Ledger!LedgerNext, Ledger!ledgerVars, Ledger!Start, Ledger!CommitOne,
           Ledger!SkipOne, Ledger!SavePending, Ledger!Stop, Proved!LedgerNext,
           Proved!ledgerVars, Proved!Start, Proved!CommitOne, Proved!SkipOne,
           Proved!SavePending, Proved!Stop, Durable
  <2> QED
    BY <2>1, StepRefines
<1>3. /\ Proved!LedgerInit => Proved!LedgerInv
      /\ Proved!LedgerInv /\ [Proved!LedgerNext]_(Proved!ledgerVars) => Proved!LedgerInv'
  BY PoolSizesAreLegal, Proved!LedgerInitInv, Proved!LedgerStepInv
<1> QED
  BY <1>1, <1>2, <1>3, UpdateInvariant, PTL DEF Spec, Proved!LedgerInv
=============================================================================
