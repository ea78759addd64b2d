# AetherSearch: a verification project

TLA+ models of the control of AetherSearch's reinforcement-learning system,
checked with TLC on small instances and, where it pays, proved with TLAPS for
every value of the constants.  AetherSearch trains a search agent on-policy:
one trainer process drives FSDP2 workers and vLLM replicas, a retrieval service
answers the agent's queries, a second process evaluates exported models, and
shell scripts launch, supervise and resume all of it.  What is hard in it is
not the mathematics of the losses but that one update is a long protocol over
several processes and many files, any step of which may raise or be killed.

Paths below are relative to the repository; `agentic_rl/` is `src/agentic_rl/`.

## 1. The system

| part | state it keeps | operations | talks to |
|---|---|---|---|
| attempt transaction (`controller/transaction.py`, `attempt_state.py`) | phase, counters and checksums of one attempt, the starting `TrainingState` | freeze, complete rollout and scoring, select or skip, zero grad, backward, optimizer, scheduler, propose, commit, abort | called by `run_attempt` only |
| update controller (`controller/update_controller.py`, `_run_updates` of the adapter) | current `TrainingState`, attempts so far, totals | one attempt per iteration, rollback handler, attempt budget | transaction, adapter |
| runtime adapter (`runtime/verl_runtime_adapter.py`) | prompt cursor, run directory, metrics | everything `run_attempt` asks for; `commit_successful_update`; resume | worker group, rollout manager, actors, disk |
| FSDP2 workers (`runtime/fsdp_worker.py`) | parameters, gradients, schedule, reward snapshot, strict counters, per rank | `begin_snapshot`, zero grad, backward, steps, rollback, save | called in parallel by the driver |
| rollout engine (`runtime/capped_vllm.py`) | loaded weights, version stamp, awake or asleep | sleep, wake, synchronize, generate | loads weights from the workers |
| search agent loop (`runtime/search_agent_loop.py`) | one trajectory: tokens, turns, passages seen | generate, parse, search, observe | vLLM, retriever client |
| retriever client (`retriever/client.py`) | bounded queue, batch in hand, open futures | `retrieve_one`, batch loop, `close` | retrieval service over HTTP |
| retrieval service (`runtime_assets/retriever`) | request queue, indexes | batch search | HTTP threads |
| candidate pool, sampler, selection (`controller/prompt_sampler.py`, `selection/`) | epoch and cursor, pooled groups, channel scales | allocate, add, select, refill | adapter, controller |
| exact information gain (`exact_ig/`) | none beyond a call | build and pack tasks, score them, fall back to one prefix at a time | workers, rank by rank |
| credit (`advantage/`, `runtime/stop_branching.py`, `learner_batch.py`, `policy/`) | the facts of each turn of an attempt | probe, reclassify, assign, review, pack, calibrate | workers, engine |
| checkpoints and run directory (`checkpoint/`, adapter, `scripts/*resume*`) | files | commit, retain, verify, point, export, enqueue, publish | disk; the next process |
| evaluation (`runtime/formal_state.py`, `async_eval_worker.py`, `_run_runtime_job.sh`) | `eval_queue.json`, outputs, metric lines | enqueue, claim, defer, run, publish, complete, retry | trainer's files, retriever |
| resources, topology, configuration, metrics, SFT, DPO | read-only after start, or derived | | |

How they interact: inside the trainer everything is a blocking call from one
driver thread, but a worker-group call runs on all ranks in parallel and may
raise on one after another has done it.  Trainer, evaluation worker and
supervisor share only files: the queue under a lock, everything else by atomic
rename or append.  Trajectories share one event loop and one retriever client.
Inside a worker-group call the ranks meet in collectives, so a rank that raises
between two of them leaves its peers waiting.
A run never continues in its own directory: every launch and every resume gets
a new one, so what a crash left behind is read, not repaired in place.

What makes each part correct:

* *transaction, controller*: exactly one optimizer and one scheduler step per
  committed attempt; nothing is called undone that was not; the model a process
  trains is the one its counters describe; training data are on-policy.
* *ledger of attempts across crashes*: no attempt is learnt from twice.
* *prompts and selection*: no row of the shuffled data is lost or drawn twice
  over epochs, failures and resumes; a pool holds its own attempt's groups;
  what is trained on is a smallest top set of the score mass.
* *search loop*: whatever ends a trajectory, its record validates, credits the
  model's tokens only, and tells the truth about novelty.
* *exact information gain*: the packed, batched, distributed scorer scores each
  answer token as the sequential oracle would.
* *credit*: no layer refuses what another one made; a positive credit has been
  earned, a gate falls only on the tokens it is about.
* *ranks*: all of them run the same number of collectives; a trajectory weighs
  once; calibration leaves nothing behind.
* *run directory*: whatever a resume accepts is complete; pointers do not
  dangle, except in the window of a retention of one (section 4); publication comes last; no evaluation is lost.
* *evaluation*: no record twice, none missing from a completed task, order
  kept, and the job ends.
* *retriever client*: no call lost or waiting for ever, no answer to the wrong
  trajectory.

`PROJECT.json` lists every component, every hazard at the line where it bites
with the properties that watch it, and the source lines of every definition.

## 2. The modules

| module | models | of the code |
|---|---|---|
| `StrictTransaction` | one transaction object, one action per method; `TxSpec` is an arbitrary caller | `transaction.py`, `attempt_state.py` |
| `StrictUpdate` | driver, ranks, engine, pool sizes, checkpoints, deaths and resumes; instantiates the transaction | `update_controller.py`, adapter, `fsdp_worker.py`, `capped_vllm.py` |
| `TrainingLedger` | abstract: one atomic step per attempt | what `StrictUpdate` implements |
| `Ordering` | Python's `sorted()` and subsequences, by rank: pure operators | wherever `selection/` and the adapter sort |
| `Selection` | variances, channel scales and gate, scores, top-p, cap: pure operators; extends `Ordering` | `selection/` |
| `AttemptData` | sampler, waves, replacement, pool, deferred tasks, selection, commit, checkpoint, resume; extends `Selection` | `prompt_sampler.py`, `dataset_view.py`, `candidate_pool.py`, adapter |
| `SearchAction` | what a generated action means, and which tokens own its thought, decision and query: pure operators | `outcome/parser.py`, `search_role_provenance.py` |
| `SearchLoop` | one trajectory from its prompt to its validated record; extends `SearchAction` | `search_agent_loop.py`, `trajectory_schema.py`, `postprocess.py` |
| `SearchCredit` | from the record to the backward pass: gains, probes, credit, reviews, masks; extends `SearchLoop` | `advantage/`, `stop_branching.py`, `learner_batch.py`, adapter, `fsdp_worker.py` |
| `ExactIG` | the packed row and the sequential oracle: pure operators | `exact_ig/` |
| `RankWork` | scoring, packing, backward rounds and gate calibration, rank by rank and collective by collective; extends `ExactIG` and `Ordering` | adapter, `fsdp_worker.py`, `vectorized_scorer.py`, `learner_batch.py`, `gate_gradient_calibration.py` |
| `RunDirectory` | the files of a commit, one write per action, over several run directories | `atomic_commit.py`, adapter, resume scripts |
| `EvalQueue` | trainer (as a producer), worker and supervisor | `formal_state.py`, `async_eval_worker.py`, `_run_runtime_job.sh` |
| `RetrieverClient` | trajectories, queue, batch loop, close | `retriever/client.py` |
| `MC*` | instances for TLC: symmetry, workloads, the arbitrary caller's finite arguments | |
| `DataInduction` | lemmas: induction over finite sets, folds and sums | |
| `*Proofs` | theorems and their invariants | |

**StrictTransaction.**  `rec` is `self.record`, `state` the starting state,
`returned` what `skip`, `abort` or `propose_commit` handed out.  A method that
raises is a disabled action; the one refusal that changes the record
(`record_zero_grad` counts before it raises) is modelled.  A defensive branch
that only detects a broken invariant is a guard.  Channel statistics are left
out of the state.

**StrictUpdate.**  `pc` is the driver's position.  A worker-group call is a
phase in which each rank acts once, in any order (`done` collects them), so an
exception can find any subset of ranks done.  `RankOptimizerTears` is
`optimizer.step()` raising after it wrote parameters.  A model is represented
by its history, the sequence of attempts whose gradients it absorbed, with 0
for a torn step: equality of histories is what a checksum decides.  `engine`
distinguishes the weights the replicas hold from the version they are stamped
with, because sleep drops the first and keeps the second.  `lineage` is a
history variable, the attempts the adopted states say the model has learnt
from.  Selection is any count the pool allows.  Commit is
`commit_successful_update` at the grain at which it interacts with the
attempt (synchronize, save, publish, committed); its files are RunDirectory's.
A death or an exception that leaves `run()` loses all memory and keeps
`saved`.

**Selection, AttemptData.**  A draw is a row `[epoch, prompt]` of the sampler's
stream; `stream` and `trained` are history variables.  A rollout ends in one of
`Groups` or in fewer valid trajectories than a group needs, which is then
replaced; `ReadyGroups` is what a wave leaves for the pool.  Scores are exact: variances and means are integers in units chosen
so that nothing is rounded, and the code's epsilons, which only keep a division
from failing, are zero.  The three modes are the code's two signals and its
RAGEN-2 selection; the last two defer information gain until after selection.

**SearchAction, SearchLoop.**  A text is a sequence of symbols (tags, white
space, letters) and a token covers some of them, so that one may reach over the
border of two spans.  A token of the trajectory is its source and turn.  The
two awaits of a turn, generation and retrieval, are two steps: between them
nothing of the trajectory's own changes, and other trajectories share no state
with it.  `RecordValidates` is the conjunction of the checks of
`TrajectoryRecord.validate` that its fields can fail.  With the gate on, an
answer whose text also opens a `<search>` tag is read as one (line 298) and its
payload strictly (line 319), so it raises out of `run()` although it is a valid
answer: `GenerationRaises` is about every action the parser accepts.
`IsSample` is what is assumed of a tokenizer: a thought owns at least a token.

**SearchCredit.**  One trajectory and one peer of its prompt group.  With two
values the normalization gives equal and opposite results, so a sign is kept
for each gain and small sums of signs for accumulated ones.  The five credit
modes are separate operators, as in the code; `load_config` admits `gate`,
`routed` and `mica`, and the dispatch of the code has `novelty` and `consensus`
as well, so all are checked.  Each check of the four layers that raises is a
disjunct of an operator named `*Refuses`, and one raise ends the attempt in
`refused`.  The reviews at the learner boundary are translated on their own,
never as the operator they re-calculate.

**ExactIG.**  A score is represented by what it depends on: the token scored,
and the tokens with their positions that the predicting row sees, each with
those that it sees itself.  Two scores are equal when a causal model must
compute the same number for both.

**RankWork.**  A call of the worker group gives every rank its share; a rank
runs collectives one after another and can only pass one that all enter, and a
rank that raised never enters again.  A gradient is the list of trajectories
that entered it with weight one.  The reward model is a replica on each rank, so
the scorer's forwards are local; what ranks share there is the count of tasks,
which they reduce before.  Norms are not numbers here: a trajectory says in which
channels its gradient is not zero (`live`), and a calibration has `Enough` only
when each channel was nonzero in some batch.  `Fault` is anything that is not the
program's: a NaN, the parity canary, an NCCL failure.  The driver's exception
path (`abort_gate_gradient_profile`) runs on the ranks that still answer.

**RunDirectory.**  An update stands for a cadence update (every 20th).  A
directory is the set of its parts, so `rmtree` is `RemovePart`, killed
anywhere; `integrity.sha256.json` is the set of parts it lists.  A fresh run takes
its `limit` (`checkpoint.formal_limit`, any positive number) from `Limits`; a
resumed run has none, as the resume scripts set it, which `Target` as the limit
says.  The exported
model is written by the ranks into a temporary directory (`ExportWeights`) and
renamed (`ExportModel`).  Pointers name a run and an update.  `Materialize` is
what a resumed run first does: export and enqueue what its ancestor died
before, or trust the model of the source run (`external`).

**EvalQueue.**  A queue operation runs under `flock` and replaces the file, so
it is one action.  The worker is sequential with one `worker` position per
statement that can raise.  `UnboundNames` is the set of places where the
worker reads an unbound name, see *Findings*.

**RetrieverClient.**  One action per stretch between two awaits, or finer.
`putters` and `woken` are the asyncio queue's waiting and woken puts; these
three operators are external, modelled from the way the client uses
`asyncio.Queue`.  A query and the documents found for it share a name, so an
answer for the wrong query is visible.  Batches are posted one after the other
by one task, so the client's semaphore never has a second holder and is not
modelled; for the same reason `maximum_concurrency` does not bound anything
beyond the connection pool.

*How they compose.*  `StrictUpdate` instantiates the transaction and refines
the ledger.  `SearchCredit` runs `SearchLoop` and continues with the record it
leaves, so its inputs are trajectories the loop can produce.  `AttemptData` and
`RankWork` model phases that are one step each in `StrictUpdate` (collection
and selection, the backward pass); what they need of each other is a group of
trajectories and a list of selected prompts.  `RunDirectory` and `EvalQueue`
meet in the queue file only: the first ends where an entry is written
(`PublishedLast` says the model is there by then), the second begins there.

## 3. The runs

| run | instance | distinct states | shows |
|---|---|---|---|
| `transaction` | arbitrary caller, three pool sizes, two checksums | 8.8 k | the object's promises do not depend on its caller |
| `strict_update` | 2 ranks, 2 updates, 2 launches, a refill, a replacement, 2 microbatches | 549 k | model, cursor, scheduler, event file, gradients, on-policy data and checkpoints agree through skips, exceptions, torn steps, kills and a resume; the protocol implements `TrainingLedger`; every process ends |
| `attempt_data` | 3 prompts, 3 epochs, groups of 2, 2 attempts, 2 launches | 139 k | no row lost or repeated, a pool of its own attempt, a minimal selection, channels that stay alive |
| `search_loop` | about 40 actions, 2 searches, 19 response tokens, 2 passages, gate on and off | 57 k | every ending leaves a record that validates (one case excepted), explains itself and credits the model only |
| `search_loop_failure` | the same | | **violated**: the excepted case |
| `search_credit` | up to 3 searches, 5 modes, 3 gains, 3 kinds of probe answer | 777 k | nothing between rollout and backward pass raises; credit is earned; gates keep to their role |
| `rank_work` | 3 ranks, 6 workloads, training and calibration | 327 k | ranks never part without a cause, scores are the oracle's, trajectories weigh once, calibration leaves no trace |
| `run_directory` | 2 ranks, 3 cadence updates, retention 1 or 2, 2 runs | 88 k | resumable means whole, pointers resolve or, with a retention of one, are replaced, publication last, no evaluation lost |
| `eval_queue` | 3 evaluations, 2 records, 2 transient and 2 disk faults, a kill | 14 k | no duplicate, missing or reordered score; no early finish |
| `eval_queue_live` | 3 evaluations, 2 transient faults | 2.9 k | every task completes and the job ends |
| `eval_queue_as_is` | the worker as it stands, no fault | | **violated**: nothing completes |
| `retriever_client` | 4 trajectories with 2 queries, queue of 2, batch of 2, 1 retry | 211 k | no lost call, no crossed answer, calls and close return |

*Why the bounds are enough.*  Two ranks give every mixed outcome of a parallel
call: one done and one not, one torn and one whole.  A second successful
update is the first one for which data, gradients, reward snapshot or stamps of
an earlier update can be stale; a second launch is the first one that resumes.
Three prompts with waves of one and pools of two or three make every attempt
cross an epoch at some offset, so that a prompt is met twice; the middle epoch
has another permutation, so a row and its prompt are told apart.  Two channels
with a group that moves neither, one or both reach every arm of the channel
gate.  In the search loop the response budget lies where it can be hit behind
an action, behind an observation and exactly at its end; the second search is
the first one that can repeat a query or find nothing new, the third is the one
over budget; tokens are merged over every border of spans.  Three searches give
an accumulation a beginning, a middle and an end at which it may stop.  In
`rank_work` the budgets let one task fit packed, one only prefix by prefix, one
not at all, and three ranks with uneven workloads need fillers on two of them.
Three cadence updates with retention two are the first at which retention
removes something, and the removed directory is not the previous one; with
retention one it is the previous one, on the way from the first update to the
second and from the second to the third.  Two disk
faults hit a task and its retry, and three evaluations let one be put back
between two others.  A batch of two with a queue of two and four trajectories
reaches a full queue, two blocked puts, a woken put that loses its slot, and a
sentinel that overtakes a blocked put.  The queue has `QueueFactor` slots per
batch entry, four in the code; one makes it full with few trajectories.  Larger
instances of `run_directory` with a retention of two (three runs, 388 k states with two updates and
3.7 M with three) passed as well and are left out for their time.  Every bound
is a CONSTANT marked `bound` in its module.

Runs say `CHECK_DEADLOCK FALSE` because the modelled systems do stop: a
transaction ends, launches are used up, the job is done, calls are answered.
`rank_work` does check deadlock: there a state without a step would be ranks
waiting for one another, and the finished driver has a step of its own,
`Rest`.

*Fairness.*  StrictUpdate has weak fairness on the driver's next step or its
exception: the driver is one thread, and a worker that received a call runs
it.  Deaths and launches are never owed.  EvalQueue has weak fairness of each
of its three processes; `eval_queue_live` admits faults only before
publication, since a failing append after it strands the task in the code
(hazard at `async_eval_worker.py:399`).  RetrieverClient has weak fairness of
the batch task, of each woken put and of the close: the event loop runs ready
callbacks, and aiohttp's total timeout ends a post.  Nothing asks a trajectory
to search again.  The other modules claim no liveness.

*Findings.*

1. `run_worker` reads `retriever_runtime`, a local of `_run_task`
   (`async_eval_worker.py:470`), and `_aggregate` reads `config` (line 271),
   which it does not bind either.  Every claimed task raises `NameError` and is
   retried for ever; `eval_queue_as_is` is that behaviour.  The other EvalQueue
   runs set `UnboundNames = {}` to say what the protocol behind the two names
   does.
2. A retriever that fails after a search was observed takes the credit of all
   turns (`search_agent_loop.py:644`), as the schema demands of a system-invalid
   trajectory; with the role-localized gate on, the observed search keeps its
   branch, of which the schema demands the credit it has just lost, and the
   record's validation raises in the driver, where the prompt was to be
   replaced.  `search_loop_failure` shows it; `OtherRecordsValidate` is the
   property for all other trajectories.

Every property has a mutant in `PROJECT.json`: a plausible bug, written as an
operator marked *Defect* above the definition it would replace, under which
TLC finds the property violated.  Each module also states its types; where
they are not a property of a run they are proved, or document the state.

## 4. The theorems

| theorem | states | module |
|---|---|---|
| `TxTypeCorrect`, `TxExactlyOneStep`, `TxRollbackSound`, `TxAdvanceEarned`, `TxNoReturn` | types, and the properties of the run `transaction`, for all pool sizes, limits, checksums, cursors and callers | `LedgerProofs` |
| `LedgerLearnsOnce` | `EachAttemptOnce`, for histories of any length and any number of processes | `LedgerProofs` |
| `UpdateTypeCorrect`, `StateIsTheModels`, `LearningIsOnPolicy`, `GradientsAreOwn`, `AbortIsUndone` | types, and the four invariants of the run `strict_update`, for any ranks, pool sizes, limits, updates, microbatches and processes | `StrictUpdateProofs` |
| `UpdateImplementsLedger` | `ImplementsLedger`: every step of the protocol is a step of `TrainingLedger` or a stutter | `StrictUpdateProofs` |
| `UpdateLearnsOnce` | `EachAttemptOnce` of the model that `StrictUpdate` trains and of those it saves | `StrictUpdateProofs` |
| `StreamStaysWhole`, `PoolBelongsToAttempt`, `SelectionIsMinimalMass`, `AChannelStaysAlive` | `StreamIsWhole`, `PoolIsOfThisAttempt`, `SelectedIsMinimalMass`, `ScalesStayAlive`: the four invariants of the run `attempt_data`, for any data set, permutations, epochs, waves, groups, processes | `AttemptDataProofs` |
| `LoopTypeCorrect`, `RecordsPassValidation`, `EndsAreExplained`, `CreditGoesToTheModel`, `NoveltyIsTrue`, `AbortsAreExplained` | types, and the five invariants of the run `search_loop` (`OtherRecordsValidate`, `EndIsExplained`, `CreditIsTheModels`, `NoveltyMatchesHistory`, `AbortsOnlyOnNesting`), for any actions, documents and budgets | `SearchProofs` |
| `NothingEverRaises`, `CreditWasEarned`, `GatesKeptToTheirRole` | `CreditIsNeverRefused`, `CreditIsEarned`, `GatesKeepToTheirRole`: the three invariants of the run `search_credit`, in every mode, for trajectories of any length, any gains and any probe answers | `SearchProofs` |
| `FastIsOracle` | the packed row scores every prefix as the sequential oracle does, for trajectories, targets and numbers of prefixes of any size | `RankWorkProofs` |
| `AnswerTokensCover` | the tokens scored are those that overlap the answer's characters | `RankWorkProofs` |
| `ScoresAreTheOracles`, `EachWeighsOnce`, `NoRaiseWithoutCause`, `CalibrationCleansUp` | `EveryTaskScored`, `EachTrajectoryWeighsOnce`, `RaisesOnlyForCause`, `CalibrationLeavesNoTrace`: the four invariants of the run `rank_work`, for any ranks, workloads, budgets and batches | `RankWorkProofs` |
| `QueueTypeCorrect`, `RecordsAreWrittenOnce`, `CompletedTasksAreScored`, `UpdatesScoredInOrder`, `FinishedWorkerScoredAll` | types, and the four invariants of the run `eval_queue`, for any number of evaluations, records and faults, names bound or not | `ArtifactProofs` |
| `DirectoryTypeCorrect`, `AcceptedMeansWhole`, `PointersAlwaysResolve`, `PublishedStaysResumable`, `PublicationComesLast`, `EveryUpdateIsEnqueued` | types, and the five invariants of the run `run_directory` (`ResumableMeansWhole`, `PointersResolve`, `PublishedIsResumable`, `PublishedLast`, `NoEvaluationLost`), for any ranks, target, number of runs and positive limits | `ArtifactProofs` |
| `ClientTypeCorrect`, `AnswersAreOwn`, `CallsAreHeld` | types, `AnswersMatch` and `EveryCallIsHeld`, for any trajectories, queries, queue and batch sizes, retries | `RetrieverClientProofs` |

*Transaction.*  None of the properties is inductive: that a committed attempt
has one optimizer step says nothing about the phases before.  `PhaseInv` says
for every phase what the counters are; its steps are one per method.  The
assumptions are those of `TransactionConstants`: legal pool sizes exist and
have a maximum, limits are ordered.

*Ledger.*  `EachAttemptOnce` with the types of the ledger is inductive;
`IncreasingAppend` is the lemma that learning from a fresh attempt keeps a
model strictly increasing.  `UpdateLearnsOnce` carries this through the
refinement: no crash and resume makes the trained model learn an attempt twice.
What the transaction assumes of its pool sizes follows from `UpdateConstants`
(`PoolSizesAreLegal`), so nothing is assumed twice.

*Attempt protocol.*  The invariant is built in layers, each inductive given the
ones before.  `AttemptInv` ties the transaction's phase to the driver's
position and says what a returning attempt hands back.  `ModelInv` says what
parameters and schedule a rank holds: those of the lineage until its own
optimizer step, those learnt after it (`done` tells which, while the call is in
flight), and that the shards of a checkpoint agree.  It is stated by phase and
not only by position, because an exception can come from any position and only
the phase tells whether the ranks have moved.  `GradientInv` counts the
microbatches a rank holds.  `RewardInv` is the fact that makes a snapshot that
is not re-read sound: a reward policy of the current step is the current
policy, since its step never runs ahead of the state's.  `SampleInv` follows
the weights and the stamp of the replicas; `CountInv` totals, event file and
cursor.  For the refinement (`StepRefines`) the driver's returns are commits or
skips, a save is the pending model (`SaveRefines`, which needs `ModelInv`), and
all other steps stutter, start or stop.  The assumption is `UpdateConstants`.
The layers were first checked with TLC on the instance of `strict_update`.

*Attempt data.*  `DataInv` has three layers, which TLC first checked on the
instance of `attempt_data`.  `StreamInv`: what the attempt has drawn is the end
of the stream, and the stream of a saved checkpoint, like its list of trained
rows, is what it was when it was saved.  That a row occurs once is then
arithmetic: the sampler's position counts epochs and offsets
(`RowsAreDistinct`), and a permutation meets each prompt once per epoch
(`ShuffleIsOneToOne`).  `CollectionInv`: every row that is pending, finished
or pooled was drawn by this attempt, and in the deferred modes a finished or
pooled group has all of its tasks until the selected ones are scored.
`DecisionInv`: the selection at hand is the one that scores and scales
of this pool give.  `SelectedIsMinimalMass` needs the operators themselves:
variances are not negative (`SquareOfSum`), sorting by rank meets every group
once (`RanksAreAll`, `EndsOfOrder`), and the prefix that reaches the mass is no
larger than any set that does.  `AChannelStaysAlive` rests on
`CommittedKeepsScale`: an update is only committed behind the channel gate, and
a channel that passed it keeps its scale or gets one.  Sums are folds over finite sets; `DataInduction` has
the induction they need, over the cardinality of SETS of values (an operator
cannot be a parameter of a theorem here, a set can).  Assumed are
`DataConstants` and `SelectionConstants`.

*Exact information gain.*  `Place` sends each position of the oracle's forward
for a prefix to the position of the packed row that holds the same token.
`SegmentsOrdered` and `OwnSegment` say that the copies do not overlap, so that
a position lies in one of them; `PlaceKeepsRow` that token, position id and
visible set go along with `Place`; `ContextsAgree` that a context built from
them is the same set.  A target whose answer begins with the first token of a
segment is the one case where the predicting row is not in the copy; the code
refuses it, or scores it sequentially, and the theorem assumes it away by the
same condition (`BuildRefuses`).

*Rank work.*  Each property has an inductive invariant of its own.
`CalibrationInv`: outside of a profile a rank has no gradient, count or open
channel; a backward passes its refusal only while a channel is open, and the
driver leaves a profile only by `finish` or by the abort, both of which clean
the rank.  `ScoreInv`: a rank that answered has the forwards that its share
gives, and the shares of a call cover the tasks in equal numbers (fillers
included).  Packing is a fold over the tasks; lemmas by induction over its
prefixes say that the batches lie apart, are not empty and fit the budget.
With `FastIsOracle` and `AnswerTokensCover` the scores are the oracle's.
`CauseInv`: without a fault the counters and profile of every rank are where
the driver's call expects them (`TrainStep`, `CalibrateStep`), so no refusal
applies (`NoneRefuses`), and the builder refuses only tasks that
`SequentialFits` excludes.  `WeighInv`: packing puts each trajectory on one
rank, once (`PackedGroups`); the rows of weight one of round k are the next
stretch of a rank's share and fillers weigh nothing (`RealAppends`); so after
k rounds its gradient is what k rounds hold of the share, and after the last
one all of it (`AllSent`), in training and in each channel of a profile, whose
events are counted over the same rounds (`EventsCounted`).  With faults nothing
is claimed of ranks that raised or were told to abort.  The last three were
checked with TLC on the instance of `rank_work` before they were proved.
Assumed are `RankConstants`, `ExactIGConstants` and `WorkloadConstants`:
trajectory ids are unique, a workload has at least one selected group, and an
answer does not begin with the first token of its target, because the templates
of `target_schema.py:10` put text before it.

*Search loop.*  `LoopInv` has five parts.  `ControlInv`: before the end every
search has one turn and one action, and one action more is on its way while the
retriever works; a loop that raised did so for a listed cause.  `TokenInv`:
every token belongs to the prompt, an observation or one turn, and the tokens of
a search are a run that begins where its prefix ends, which is what the record's
check of positions asks.  `ObservedInv`: all turns but the last are searches that
were observed, each told relative to what was asked and found before it (`Asked`,
`Found`), and the loop's sets of queries and passages are the last of these.
`DoneInv` says what the last turn of a finished loop is, by its reason, and
`ParseInv` what the parser makes of its actions.  The parts need each other: an
observed search is new relative to turns that control counts, and its spans lie
in tokens that the positions describe.  What the text contributes is proved from
the operators of `SearchAction`: which causes make an accepted search raise
(`OnlyNestingRaises`), that an accepted answer never leads to a search
(`AnswerNeverSearches`), that the roles of an action share no token and stay
within it (`RolesDistinct`, `RolesWithin`).  The sets an action's spans are
built from are positions of a text, so `PositionEnds` gives their first and last.
TLC checked the five parts on the instance of `search_loop` first.  Assumed is
`LoopConstants`.

*Credit.*  `CreditInv` adds to `LoopInv` what a stage has been given: a selected
trajectory can be scored (`Scorable`), then it has its gains (`Gained`) and the
answers of its mode's probes (`Probed`), and a trained one has a credit that was
earned.  What the refusals and the calculations need of the loop is gathered in
`Scored`: every search but perhaps the last was observed, and the last is over
budget or malformed.  Three steps carry the weight.  `PreProbeKeepsLoop`: turns
that the probes reclassify still satisfy all of `LoopInv`, so the record
validates again.  `NothingIsRefused`: each mode's second calculation agrees with
its first, because walking to the last counted search finds what the credit
`Reaches` (`CountedReaches`), the branches the review classifies are those the
probes left, and an accumulation always contains the search itself.
`CalculatedIsEarned`: when two sums differ, two of their summands differ in the
same direction (`SummandOfSum`), so a sign always has a search to blame; for the
depth-by-depth returns both sums are first extended to the same depths
(`ReturnIsSum`).  Sums are those of the community module's fold, and their laws
come from `DataInduction`.  Assumed are `LoopConstants` and `CreditConstants`:
gains and rewards are integers there, and a probe fits behind the longest
response, as the resource plan ensures.  TLC checked `CreditInv` on a
smaller instance of `search_credit` (two gains, two probe answers) as well.

*Evaluation queue.*  `ScoredInOrder` needs to know that while the worker holds
a task, every earlier one is settled and none later is published (`ClaimInv`);
`RecordsWrittenOnce` and `CompletedMeansScored` need the number of appended
lines tied to the worker's position (`PublishInv`); `FinishedMeansAllScored`
needs that what the worker read of the trainer stays true (`ResultInv`).  The
conjunction `QueueInv` is inductive, assuming only `EvalConstants`; it was
first checked with TLC on the instance of `eval_queue`.

*Run directory.*  `DirectoryInv` says of a directory by itself what holds at
any moment: a checkpoint that still has its metadata lists everything
(`Sound`), own pointers lead to verified good checkpoints, events to reports,
models and tasks.  It is not inductive alone: `TrainerInv` adds where the
trainer stands, write by write, and above all that whatever has been pointed to
or published is of the current update or the one before it.  That is what
retention needs (`RecentStay`): at most one kept checkpoint is newer than such
an update, so a limit of two or more keeps its checkpoint.  A limit of one, which
`_enforce_checkpoint_limit` accepts, does not: it removes the predecessor right
after the rename, before verification and before link, resume files and event
line move on, and a death in that window leaves these dangling.  The properties
say what remains true then: a target is gone only when it is `Replaced`, that is
when `latest_checkpoint.json` names the next update and its checkpoint is whole;
and that file never dangles.  `TrainerInv` therefore knows that it names the
current update from its write on, and the one before until then.  The committed
recipes keep two, three or all.  `SourceInv` says that a run descends from an earlier
run, whose directory no one writes any more.  `WriteKeeps` reduces every action
to the one directory it writes.  `NoEvaluationLost` speaks of a run and all it
descends from.  Its `Lineages` are the sets of runs closed under "was resumed
from" (the smallest is the ancestry): a definition without recursion, with
which the claim is inductive.  `EvalInv` says that an update has its checkpoint
only after every earlier one has its task in the lineage, since `Materialize`
or `EnqueueTask` comes before the next update can begin; a resumed run inherits
that through its source (`EvalBoot`).

*Retriever client.*  A waiting call is in the queue, in the batch being posted,
or among the blocked puts; what makes `EveryCallIsHeld` inductive is that it is
in one of them only, once.  `LineInv` says so of the line that batch and queue
form (no two entries name the same call, and every entry's call waits for it),
`PutInv` of the puts (blocked or woken, never both, and not in the line).  The
end of a batch, resolved or raised, then concerns the calls whose query is in
it and no other (`BatchResolved`).  `AnswersAreOwn` needs besides that a reply
which `_execute_batch` accepts is as long as the batch, and so is the batch
(`WholeReply`): a short one is not zipped.  The assumption is
`ClientConstants`; the conjunction `ClientInv` is inductive.

*Only model-checked:* the liveness properties.  Every invariant a passing run
checks is the statement of a theorem.  Liveness under fairness, ENABLED, and what
recursive definitions compute for all inputs are beyond the prover used here and
stay with TLC.

## 5. Not modelled, and why

* Floating-point computation: losses, divergences, token F1, encoders, indexes,
  the parity canary.  The models decide *which* data enter an update, in which
  context and with which sign, not their values.
* Rounding of saved weights.  The export is written as bfloat16
  (`fsdp_worker.py:2712`) while the sharded actor is float32
  (`verl_config.py:199`), and a resume that materializes cadence artifacts
  loads the export as the reward policy: until its next update it rewards with
  rounded weights, which an uninterrupted run never does.  A model here is its
  history of attempts, so this is written down and not checked.
* Text beyond tags and tokens: chat templates, byte-level decoding, reports.
* The retrieval service: the client model admits whatever it may answer or
  fail to; its batching thread, index search and encoders are behind HTTP.
* Resources and topology: arithmetic over the configuration, done once before
  any state exists; measured memory and placement are the machine's and Ray's.
* Configuration: read once; its constraints are the ASSUMEs of the modules.
* Metrics records: derived from state that is modelled; no control depends on
  them.  `record_selection_metrics` enters as the property it re-checks.
* `FailureCoordinator` has no caller in the trainer.  `runtime_guard.py` only
  observes files; it stops on a result file with PASS or FAIL, and no code
  writes FAIL there, so after a failed training it watches for ever.
* Power loss: a crash here is the death of a process; the page cache survives.
  Directories below a checkpoint's root are not synced one by one.
* Python 3.10, which `pyproject.toml` admits and where `asyncio.TimeoutError`
  is not the builtin `TimeoutError` the client retries on: the model is of 3.11
  and later.
* SFT, DPO and the generation of their data: stand-alone scripts around a
  library trainer and an external API, no shared state with the rest.

## 6. What could come next

1. The retrieval service's request thread, composed with `RetrieverClient` as
   its server.
2. Budgets of the resource plans as a pure module against a reference.
