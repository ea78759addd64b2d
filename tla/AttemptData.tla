------------------------------ MODULE AttemptData ------------------------------
(***************************************************************************)
(* The data of the attempts: where their prompts come from, what happens   *)
(* to a prompt whose trajectories fail, what is pooled, selected and       *)
(* trained on, and what survives a death of the process.                   *)
(*                                                                         *)
(* A draw is a row [epoch, prompt] of the sampler's stream.  The rollout   *)
(* of a draw ends in a group of trajectories, or in fewer system-valid     *)
(* trajectories than a group needs.  "answer" and "paper" are the modes    *)
(* that defer exact information gain until after the selection.            *)
(***************************************************************************)
EXTENDS Selection

CONSTANTS Size,               \* prompts of the logical data set
          Shuffle,            \* permutation of each epoch: seed + epoch
          Groups,             \* groups of trajectories a rollout may end in
          Initial, WaveSize,  \* rollout.candidate_prompts_initial, prompt_wave_size
          Refill, Maximum,    \* rollout.refill_prompts, candidate_prompts_max
          ReplacementRounds,  \* 3 in the code
          SaveEvery,          \* checkpoint_every_successful_updates
          MaxAttempts, MaxLaunches  \* bounds

Epochs == DOMAIN Shuffle
Prompts == 1..Size

(* A trajectory of a group: its outcome, whether it may be rewarded for it, *)
(* and the gains of its eligible search turns by search index.              *)
IsTrajectory(t) ==
  /\ t.outcome \in Int
  /\ IsFiniteSet(DOMAIN t.gains) /\ \A k \in DOMAIN t.gains : t.gains[k] \in Int

ASSUME DataConstants ==
  /\ {Size, Initial, WaveSize, Refill, Maximum, SaveEvery} \subseteq Nat \ {0}
  /\ Initial % WaveSize = 0
  /\ Maximum >= Initial /\ (Maximum - Initial) % Refill = 0
  /\ ReplacementRounds \in Nat
  /\ IsFiniteSet(Epochs) /\ 0 \in Epochs /\ Epochs = 0..Cardinality(Epochs) - 1
  /\ \A e \in Epochs : /\ Shuffle[e] \in [Prompts -> Prompts]
                       /\ \A p \in Prompts : \E i \in Prompts : Shuffle[e][i] = p
  /\ \A g \in Groups : /\ DOMAIN g = 1..GroupSize
                        /\ \A i \in 1..GroupSize : IsTrajectory(g[i])

VARIABLES
  mode,      \* selection.signal and selection.mode
  pc,        \* where run_attempt is
  sampler,   \* PromptSamplerActor: epoch and cursor
  want,      \* prompts of the collection under way
  chunk,     \* prompts of its next allocation
  pending,   \* rows whose rollouts are out
  drawn,     \* rows this attempt has drawn
  rounds,    \* replacement rounds of this collection
  target,    \* groups this collection owes
  groups,    \* valid groups it has
  pool,      \* CandidatePool
  tasks,     \* deferred exact-IG tasks: trajectories by prompt
  decision,  \* the last SelectionDecision
  channels,  \* channel scales of the training state
  step,      \* successful_update_step
  stream,    \* history: all rows the lineage of the current state has drawn
  trained,   \* history: the rows its updates learnt from
  saved,     \* the checkpoint a launch resumes from
  attempts, launches

collection == <<want, chunk, pending, drawn, rounds, target, groups, pool, tasks,
                decision>>
model == <<channels, step, trained>>
vars == <<mode, pc, sampler, collection, model, stream, saved, attempts, launches>>

Deferred == mode # "dual"
NoDecision == [scores |-> <<>>, stats |-> <<>>, selected |-> {},
               refill |-> FALSE, skip |-> FALSE]
Members == 1..GroupSize
-----------------------------------------------------------------------------
(* The sampler                                                              *)

Position(s) == s.epoch * Size + s.cursor
RowAt(n) == [epoch |-> n \div Size, prompt |-> Shuffle[n \div Size][(n % Size) + 1]]

(* ImmutableDatasetPromptSampler.allocate: the permutation of the next      *)
(* epoch is made only when a row of it is needed.                           *)
Allocated(s, count) == [i \in 1..count |-> RowAt(Position(s) + i - 1)]
AfterAllocating(s, count) ==
  LET last == Position(s) + count - 1
  IN  [epoch |-> last \div Size, cursor |-> (last % Size) + 1]

CanDraw(count) == Position(sampler) + count <= Size * Cardinality(Epochs)

(* PromptSamplerActor.restore_state: the permutation is made again from     *)
(* the seed and the epoch.                                                  *)
Restored(s) == [epoch |-> s.epoch, cursor |-> s.cursor]
-----------------------------------------------------------------------------
(* Results of rollouts.  An invalid prompt may leave tasks of those of its  *)
(* trajectories that were valid.                                            *)
Results == [group : Groups, tasks : {Members}]
             \cup [group : {<<>>}, tasks : SUBSET Members]

Of(rows, p) == {i \in DOMAIN rows : rows[i].prompt = p}
DrawnPrompts(rows) == {rows[i].prompt : i \in DOMAIN rows}

(* "Duplicate deferred Exact-IG task"                                       *)
TaskTwice(rows, results) ==
  Deferred /\ \E p \in DrawnPrompts(rows) :
    \/ \E i \in Of(rows, p) : results[i].tasks \cap tasks[p] # {}
    \/ \E i, j \in Of(rows, p) : i # j /\ results[i].tasks \cap results[j].tasks # {}

ReadyPrompts(rows, results) ==
  {p \in DrawnPrompts(rows) : \A i \in Of(rows, p) : results[i].group # <<>>}

(* prompt_groups_from_records: two draws of one prompt make a group of      *)
(* twice the size.                                                          *)
WrongGroupSize(rows, results) ==
  \E p \in ReadyPrompts(rows, results) : Cardinality(Of(rows, p)) > 1

(* prompt_groups_from_records, in the order of the prompts                  *)
ReadyGroups(rows, results) ==
  LET ready == SetInOrder(ReadyPrompts(rows, results), <)
  IN  [k \in DOMAIN ready |->
         LET i == CHOOSE n \in Of(rows, ready[k]) : TRUE
         IN  [epoch |-> rows[i].epoch, prompt |-> rows[i].prompt,
              group |-> results[i].group]]

(* CandidatePool.add: all or nothing.                                       *)
PoolRefuses(incoming) ==
  \/ \E i, j \in DOMAIN incoming : i # j /\ incoming[i].prompt = incoming[j].prompt
  \/ \E i \in DOMAIN incoming : incoming[i].prompt \in DOMAIN pool
  \/ Cardinality(DOMAIN pool) + Len(incoming) > Maximum
PoolWith(incoming) ==
  [p \in DOMAIN pool \cup DrawnPrompts(incoming) |->
     IF p \in DOMAIN pool THEN pool[p]
     ELSE LET row == incoming[CHOOSE i \in Of(incoming, p) : TRUE]
              variance == PromptGroup(row.group, Deferred)
          IN  [ig |-> variance.ig, outcome |-> variance.outcome, epoch |-> row.epoch]]
-----------------------------------------------------------------------------
(* Defect: the state of the sampler is taken before the attempt's draws.    *)
RecordBeforeDraws(c) ==
  [sampler |-> IF drawn = <<>> THEN sampler
               ELSE LET n == Position(sampler) - Len(drawn)
                    IN  [epoch |-> n \div Size, cursor |-> n % Size],
   channels |-> c, step |-> step + 1, stream |-> stream, trained |-> trained
     \o SetToSeq({[epoch |-> pool[p].epoch, prompt |-> p] : p \in decision.selected})]

(* What commit_successful_update writes of this: rng_state, data_cursor,    *)
(* the channels and the step.                                               *)
CheckpointRecord(c) ==
  [sampler |-> sampler, channels |-> c, step |-> step + 1, stream |-> stream,
   trained |-> trained
     \o SetToSeq({[epoch |-> pool[p].epoch, prompt |-> p] : p \in decision.selected})]

EmptyRecord ==
  [sampler |-> [epoch |-> 0, cursor |-> 0], channels |-> [c \in Channels |-> NewScale],
   step |-> 0, stream |-> <<>>, trained |-> <<>>]

NothingCollected ==
  /\ want = 0 /\ chunk = 0 /\ pending = <<>> /\ drawn = <<>> /\ rounds = 0
  /\ target = 0 /\ groups = <<>> /\ pool = <<>> /\ decision = NoDecision
  /\ tasks = [p \in Prompts |-> {}]

Init ==
  /\ mode \in Modes
  /\ pc = "idle"
  /\ saved = EmptyRecord
  /\ sampler = saved.sampler
  /\ channels = saved.channels
  /\ step = 0 /\ stream = <<>> /\ trained = <<>>
  /\ attempts = 0 /\ launches = 1
  /\ NothingCollected
-----------------------------------------------------------------------------
Collect(count, unit) ==
  /\ target' = count /\ want' = count /\ chunk' = unit
  /\ rounds' = 0 /\ groups' = <<>> /\ pending' = <<>>

(* Defect: the pool of the previous attempt is kept.                        *)
ClearAttemptKeepsPool ==
  /\ drawn' = <<>> /\ decision' = NoDecision
  /\ tasks' = [p \in Prompts |-> {}]
  /\ UNCHANGED pool

(* start_attempt_metrics and the new CandidatePool of run_attempt           *)
ClearAttempt ==
  /\ drawn' = <<>> /\ pool' = <<>> /\ decision' = NoDecision
  /\ tasks' = [p \in Prompts |-> {}]

(* start_attempt_metrics and the begin of collect_initial_scored_prompt_groups *)
StartAttempt ==
  /\ pc = "idle" /\ attempts < MaxAttempts
  /\ attempts' = attempts + 1
  /\ Collect(Initial, WaveSize)
  /\ ClearAttempt
  /\ pc' = "collect"
  /\ UNCHANGED <<mode, sampler, model, stream, saved, launches>>

(* _allocate_rows and the dispatch of one wave                              *)
DrawWave ==
  /\ pc = "collect" /\ CanDraw(chunk)
  /\ LET rows == Allocated(sampler, chunk)
     IN  /\ pending' = pending \o rows
         /\ drawn' = drawn \o rows
         /\ stream' = stream \o rows
  /\ sampler' = AfterAllocating(sampler, chunk)
  /\ pc' = IF Len(pending') = want THEN "results" ELSE "collect"
  /\ UNCHANGED <<mode, want, chunk, rounds, target, groups, pool, tasks, decision,
                 model, saved, attempts, launches>>

(* Defect: the budget is compared after the round that used it up.          *)
MayReplaceOnceMore == rounds <= ReplacementRounds
(* _replace_invalid_groups                                                  *)
MayReplace == rounds < ReplacementRounds

(* _finish_submissions, then one turn of _replace_invalid_groups            *)
FinishSubmissions(results) ==
  LET valid == ReadyGroups(pending, results)
      missing == target - (Len(groups) + Len(valid))
  IN  /\ ~TaskTwice(pending, results) /\ ~WrongGroupSize(pending, results)
      /\ tasks' = IF ~Deferred THEN tasks
                  ELSE [p \in Prompts |->
                          tasks[p] \cup UNION {results[i].tasks : i \in Of(pending, p)}]
      /\ groups' = groups \o valid
      /\ pending' = <<>>
      /\ \/ /\ missing = 0
            /\ pc' = "collected"
            /\ UNCHANGED <<want, chunk, rounds>>
         \/ /\ missing > 0 /\ MayReplace
            /\ rounds' = rounds + 1
            /\ want' = missing /\ chunk' = missing
            /\ pc' = "collect"
         \/ /\ missing > 0 /\ ~MayReplace
            /\ pc' = "dead"
            /\ UNCHANGED <<want, chunk, rounds>>

Finish ==
  /\ pc = "results"
  /\ \E results \in [DOMAIN pending -> Results] : FinishSubmissions(results)
  /\ UNCHANGED <<mode, sampler, drawn, target, pool, decision, model, stream,
                 saved, attempts, launches>>

FinishRaises ==
  /\ pc = "results"
  /\ \E results \in [DOMAIN pending -> Results] :
       TaskTwice(pending, results) \/ WrongGroupSize(pending, results)
  /\ pc' = "dead"
  /\ UNCHANGED <<mode, sampler, collection, model, stream, saved, attempts, launches>>

(* CandidatePool.add and _select, in run_attempt                            *)
AddAndSelect ==
  /\ pc = "collected" /\ ~PoolRefuses(groups)
  /\ pool' = PoolWith(groups)
  /\ decision' = SelectionDecision(mode, channels, pool', step = 0, Maximum)
  /\ \/ /\ decision'.refill
        /\ Collect(Refill, Refill)
        /\ pc' = "collect"
     \/ /\ decision'.skip
        /\ pc' = "idle"
        /\ UNCHANGED <<want, chunk, pending, rounds, target, groups>>
     \/ /\ ~decision'.refill /\ ~decision'.skip
        /\ pc' = "selected"
        /\ UNCHANGED <<want, chunk, pending, rounds, target, groups>>
  /\ UNCHANGED <<mode, sampler, drawn, tasks, model, stream, saved, attempts, launches>>

AddRaises ==
  /\ pc = "collected" /\ PoolRefuses(groups)
  /\ pc' = "dead"
  /\ UNCHANGED <<mode, sampler, collection, model, stream, saved, attempts, launches>>

(* finalize_selected_exact_ig: every candidate has its tasks, those of the  *)
(* selected are scored, all are released.                                   *)
FinalizeSelectedExactIg ==
  /\ pc = "selected" /\ Deferred
  /\ \A p \in DOMAIN pool : tasks[p] = Members
  /\ tasks' = [p \in Prompts |-> {}]
  /\ pc' = "ready"
  /\ UNCHANGED <<mode, sampler, want, chunk, pending, drawn, rounds, target, groups,
                 pool, decision, model, stream, saved, attempts, launches>>

(* The update, propose_commit and the checkpoint of its boundary            *)
Commit ==
  /\ pc = (IF Deferred THEN "ready" ELSE "selected")
  /\ \E c \in [Channels -> UNION {CommittedAfterSuccess(channels[d],
                                    decision.stats[d], step = 0) : d \in Channels}] :
       /\ \A d \in Channels :
            c[d] \in CommittedAfterSuccess(channels[d], decision.stats[d], step = 0)
       /\ LET record == CheckpointRecord(c)
          IN  /\ channels' = c
              /\ step' = record.step
              /\ trained' = record.trained
              /\ saved' = IF step' % SaveEvery = 0 THEN record ELSE saved
  /\ pc' = "idle"
  /\ UNCHANGED <<mode, sampler, collection, stream, attempts, launches>>

(* An exception anywhere in the attempt aborts it and ends the process, and *)
(* so does a kill at any time.                                              *)
Die ==
  /\ pc # "dead"
  /\ pc' = "dead"
  /\ UNCHANGED <<mode, sampler, collection, model, stream, saved, attempts, launches>>

(* _restore_checkpoint, or a first launch when nothing was saved            *)
Resume ==
  /\ pc = "dead" /\ launches < MaxLaunches
  /\ launches' = launches + 1
  /\ sampler' = Restored(saved.sampler)
  /\ channels' = saved.channels
  /\ step' = saved.step
  /\ stream' = saved.stream
  /\ trained' = saved.trained
  /\ pc' = "idle"
  /\ Collect(0, 0)
  /\ ClearAttempt
  /\ UNCHANGED <<mode, saved, attempts>>

Next ==
  \/ StartAttempt \/ DrawWave \/ Finish \/ FinishRaises
  \/ AddAndSelect \/ AddRaises \/ FinalizeSelectedExactIg \/ Commit
  \/ Die \/ Resume

Spec == Init /\ [][Next]_vars
-----------------------------------------------------------------------------
Row == [epoch : Epochs, prompt : Prompts]

(* Types, and the sizes of what a collection holds.                         *)
TypeOK ==
  /\ mode \in Modes
  /\ pc \in {"idle", "collect", "results", "collected", "selected", "ready", "dead"}
  /\ sampler \in [epoch : Epochs, cursor : 0..Size]
  /\ pending \in Seq(Row) /\ drawn \in Seq(Row)
  /\ stream \in Seq(Row) /\ trained \in Seq(Row)
  /\ rounds \in 0..ReplacementRounds
  /\ tasks \in [Prompts -> SUBSET Members]
  /\ DOMAIN pool \subseteq Prompts /\ Cardinality(DOMAIN pool) <= Maximum
  /\ decision.selected \subseteq DOMAIN pool
  /\ DOMAIN channels = Channels /\ step \in Nat
  /\ attempts \in 0..MaxAttempts /\ launches \in 1..MaxLaunches

(* Whatever crashes, replacements and resumes happened, the rows that led   *)
(* to the current state are the stream of the sampler from its beginning:   *)
(* every finished epoch gave every prompt exactly once, the current one     *)
(* none twice, and no row taught the model twice (prompt_sampler.py,        *)
(* rng_state and _restore_checkpoint).                                      *)
StreamIsWhole ==
  /\ \A e \in Epochs : \A p \in Prompts :
       LET times == Cardinality({i \in DOMAIN stream :
                                   stream[i] = [epoch |-> e, prompt |-> p]})
       IN  /\ times <= 1
           /\ e < sampler.epoch => times = 1
  /\ \A i, j \in DOMAIN trained : i # j => trained[i] # trained[j]
  /\ ToSet(trained) \subseteq ToSet(stream)

(* A pooled group is one this attempt drew in the epoch it says, with all   *)
(* of its deferred tasks at hand until the selected ones are scored; and an *)
(* attempt meets one prompt twice only when it draws from two epochs        *)
(* (CandidatePool.add, _finish_submissions, finalize_selected_exact_ig).    *)
PoolIsOfThisAttempt ==
  /\ \A p \in DOMAIN pool : [epoch |-> pool[p].epoch, prompt |-> p] \in ToSet(drawn)
  /\ pc = "selected" /\ Deferred => \A p \in DOMAIN pool : tasks[p] = Members
  /\ Cardinality(DrawnPrompts(drawn)) < Len(drawn) =>
       Cardinality({drawn[i].epoch : i \in DOMAIN drawn}) > 1

Mass(S) == SumOver(S, decision.scores)

(* What is trained on is a smallest top set of the pool that holds the      *)
(* share RhoNum/RhoDen of all score mass, cut at MaxSelected: with its      *)
(* weakest member left out it would not (stable_mass_top_p, select, and     *)
(* what record_selection_metrics checks again in "paper").                  *)
SelectedIsMinimalMass ==
  pc \in {"selected", "ready"} =>
    LET S == decision.selected
        total == Mass(DOMAIN pool)
    IN  /\ Cardinality(S) \in MinSelected..MaxSelected
        /\ \A p \in S, q \in DOMAIN pool \ S :
             decision.scores[p] > 0 /\ decision.scores[p] >= decision.scores[q]
        /\ \A p \in S : Mass(S \ {p}) * RhoDen < RhoNum * total
        /\ \/ Mass(S) * RhoDen >= RhoNum * total
           \/ Cardinality(S) = MaxSelected

(* A scale is only born in the first update, so a run in which no channel   *)
(* got one then could never select again: the first successful update       *)
(* leaves at least one channel alive, and none dies later                   *)
(* (committed_after_success, _select).                                      *)
ScalesStayAlive ==
  mode # "paper" /\ step > 0 =>
    \E c \in Channels : channels[c].scale > 0
=============================================================================
