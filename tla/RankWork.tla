-------------------------------- MODULE RankWork --------------------------------
(***************************************************************************)
(* What the driver has the FSDP ranks do between the rollout and the       *)
(* optimizer step: exact information gains scored, the selected            *)
(* trajectories packed into synchronized rounds, old log-probabilities     *)
(* and one backward pass per round; and the gate calibration, which sends  *)
(* the same rounds three times and must leave nothing behind.              *)
(*                                                                         *)
(* Every call is execute_all_sync: all ranks get it, the driver returns    *)
(* when all have answered or one has raised.  A rank is a single-threaded  *)
(* actor; inside a call it meets the others in collectives, and a rank     *)
(* that raised between two of them is never met again.                     *)
(*                                                                         *)
(* Abstract: a gradient is the list of trajectories that entered it with   *)
(* weight one, per channel; a score is what it depends on, see ExactIG; a  *)
(* budget in bytes has the form of the budgets in tokens and cost.         *)
(***************************************************************************)
EXTENDS ExactIG, Ordering, SequencesExt, FiniteSetsExt

CONSTANTS
  WorldSize,     \* _rl_world_size
  MicroBatch,    \* micro_batch_size_per_rank
  Workloads,     \* what rollout and selection may hand over: prompt groups
  MaxRecords,    \* max_records_per_forward
  MaxCost,       \* max_attention_cost_per_batch
  MaxTokens,     \* max_extended_tokens_per_batch
  MaxBatches,    \* maximum_batches, 20
  MinProfiles,   \* three representative batches
  MinDecision,   \* 128 decision events
  MinQuery,      \* 64 query events
  Stages         \* subset of {"train", "calibrate"}

ASSUME RankConstants ==
  /\ {WorldSize, MicroBatch, MaxRecords, MaxBatches, MinProfiles} \subseteq Nat \ {0}
  /\ {MaxCost, MaxTokens, MinDecision, MinQuery} \subseteq Nat
  /\ Stages \subseteq {"train", "calibrate"}

Ranks == 0 .. WorldSize - 1
Channels == <<"main", "decision", "query">>

(* A group has trajectories, each a task whose answers stand behind the     *)
(* first token: the templates of target_schema.py put a sentence before it. *)
(* In the channels of live its gradient is not zero; gradients of several   *)
(* trajectories are not taken to cancel out.                                *)
IsGroup(g) ==
  /\ g.selected \in BOOLEAN
  /\ g.trajectories \in Seq(ToSet(g.trajectories)) /\ g.trajectories # <<>>
  /\ \A t \in ToSet(g.trajectories) :
       /\ IsTask(t) /\ {t.id, t.tokens, t.decision, t.query} \subseteq Nat
       /\ t.live \subseteq ToSet(Channels)
       /\ "decision" \in t.live => t.decision > 0
       /\ "query" \in t.live => t.query > 0
       /\ \A target \in {t.prior, t.retrieved} :
            IsTarget(target) /\ target.offsets[1].end <= target.from

(* A trajectory has one identity and one group, and some group is learnt    *)
(* from.                                                                    *)
IsWorkload(w) ==
  /\ w \in Seq(ToSet(w)) /\ \E i \in DOMAIN w : w[i].selected
  /\ \A i \in DOMAIN w : IsGroup(w[i])
  /\ \A i, j \in DOMAIN w :
       \A a \in DOMAIN w[i].trajectories, b \in DOMAIN w[j].trajectories :
         w[i].trajectories[a].id = w[j].trajectories[b].id => i = j /\ a = b

ASSUME WorkloadConstants == \A w \in Workloads : IsWorkload(w)

VARIABLES
  stage,      \* the sub-command: one update, or GATE_CALIBRATION
  call,       \* what the driver does or waits for
  aborting,   \* abort_gate_gradient_profile was sent
  groups,     \* prompt groups of this batch, scored and perhaps selected
  dispatch,   \* Exact-IG tasks sent to each rank
  scored,     \* by_trajectory
  rounds,     \* microbatches: one payload per rank and round
  round,      \* the round being executed
  channel,    \* position in Channels
  events,     \* decision and query events counted for the profile
  attempted,  \* attempted_batches
  profiles,   \* profiles of this calibration
  manifest,   \* who wrote the calibration manifest
  phase,      \* how far each rank is in the call
  entered,    \* collectives it entered in this call
  forwards,   \* batches of tasks each rank ran the scorer on
  grads,      \* gradient each rank accumulates
  zeroed,     \* _zero_grad_calls
  backward,   \* _backward_calls
  profile,    \* _gate_calibration_* of each rank
  faulted     \* something outside the program failed

driverVars == <<call, aborting, groups, dispatch, scored, rounds, round, channel,
                events, attempted, profiles, manifest>>
rankVars == <<forwards, grads, zeroed, backward, profile>>
vars == <<stage, driverVars, phase, entered, rankVars, faulted>>

NoProfile == [open |-> FALSE, channel |-> "none", gradients |-> <<>>]

----------------------------------------------------------------------------
(* Exact information gain: dispatch and budgets                             *)

SumOf(f) == MapThenSumSet(LAMBDA i : f[i], DOMAIN f)
Cost(t) == ExtendedLength(t) * ExtendedLength(t)
CostOf(ts) == SumOf([i \in DOMAIN ts |-> Cost(ts[i])])

(* Every trajectory has a task.  All of them are scored before selection,   *)
(* or in MICA mode the selected ones after it: then no group is a spare.    *)
TasksOf(gs) == FlattenSeq([g \in DOMAIN gs |-> gs[g].trajectories])
Tasks == TasksOf(groups)
Selected(gs) == Subsequence(gs, {i \in DOMAIN gs : gs[i].selected})
Trajectories == TasksOf(Selected(groups))

CostlierTask(a, b) == \/ ExtendedLength(a) > ExtendedLength(b)
                      \/ ExtendedLength(a) = ExtendedLength(b) /\ a.id < b.id

CheapestRank(given) ==
  LET load == [r \in Ranks |-> CostOf(given[r])]
  IN CHOOSE r \in Ranks : \A q \in Ranks :
       load[r] < load[q] \/ (load[r] = load[q] /\ r <= q)

ByCost(tasks) ==
  FoldLeft(LAMBDA given, t : [given EXCEPT ![CheapestRank(given)] = Append(@, t)],
           [r \in Ranks |-> <<>>], SeqInOrder(tasks, CostlierTask))

(* Defect: the ranks keep their unequal shares.                             *)
DispatchUnpadded(tasks) == ByCost(tasks)

(* Every rank gets the same number: the shortest task fills up.             *)
Dispatch(tasks) ==
  LET given == ByCost(tasks)
      target == Max({Len(given[r]) : r \in Ranks})
      filler == tasks[CHOOSE i \in DOMAIN tasks : \A j \in DOMAIN tasks :
                  \/ ExtendedLength(tasks[i]) < ExtendedLength(tasks[j])
                  \/ ExtendedLength(tasks[i]) = ExtendedLength(tasks[j]) /\ i <= j]
  IN [r \in Ranks |-> given[r] \o [i \in 1 .. target - Len(given[r]) |-> filler]]

Longest(batch) == Max({ExtendedLength(batch[i]) : i \in DOMAIN batch})
(* Defect: the batch is measured by the lengths it has, not as padded.      *)
FastFitsUnpadded(batch) ==
  /\ Len(batch) <= MaxRecords
  /\ CostOf(batch) <= MaxCost
  /\ SumOf([i \in DOMAIN batch |-> ExtendedLength(batch[i])]) <= MaxTokens

FastFits(batch) ==
  /\ Len(batch) <= MaxRecords
  /\ Len(batch) * Longest(batch) * Longest(batch) <= MaxCost
  /\ Len(batch) * Longest(batch) <= MaxTokens

(* A prefix and its target at a time, without the packing of all of them.   *)
SequentialFits(t) ==
  \A k \in PrefixesOf(t) :
    LET length == t.endpoints[k] + TargetLength(t, k)
    IN ~ PrefixRefuses(t, k) /\ length * length <= MaxCost /\ length <= MaxTokens

(* Defect: only the shape of a task decides for the fast path.              *)
FastByShape(t) == ~ Sequential(t)

Fast(t) == ~ Sequential(t) /\ FastFits(<<t>>)

(* Shortest first; a batch is closed by the task that no longer fits.       *)
ShorterTask(a, b) == \/ ExtendedLength(a) < ExtendedLength(b)
                     \/ ExtendedLength(a) = ExtendedLength(b) /\ a.id < b.id
Pack(tasks) ==
  LET Place(batches, t) ==
        IF batches # <<>> /\ FastFits(Append(batches[Len(batches)], t))
        THEN [batches EXCEPT ![Len(batches)] = Append(@, t)]
        ELSE Append(batches, <<t>>)
  IN FoldLeft(Place, <<>>, SeqInOrder(tasks, ShorterTask))

(* SingleFastTaskBudgetExceeded                                             *)
PackRefuses(tasks) == \E i \in DOMAIN tasks : ~ FastFits(<<tasks[i]>>)

Unique(tasks) ==
  Subsequence(tasks, {i \in DOMAIN tasks : \A j \in 1 .. i - 1 : tasks[j] # tasks[i]})

FastShare(tasks) ==
  LET unique == Unique(tasks) IN Subsequence(unique, {i \in DOMAIN unique : Fast(unique[i])})
SlowShare(tasks) ==
  LET unique == Unique(tasks) IN Subsequence(unique, {i \in DOMAIN unique : ~ Fast(unique[i])})
ScoreManyRefuses(tasks) ==
  \/ \E i \in DOMAIN tasks : ~ Fast(tasks[i]) /\ ~ SequentialFits(tasks[i])
  \/ PackRefuses(FastShare(tasks))
(* The forwards: a fast one scores a batch, a sequential one a task.        *)
ScoreMany(tasks) ==
  LET batches == Pack(FastShare(tasks))
      slow == SlowShare(tasks)
  IN [i \in DOMAIN batches |-> [path |-> "fast", batch |-> batches[i]]]
       \o [i \in DOMAIN slow |-> [path |-> "sequential", batch |-> <<slow[i]>>]]

ScoresOf(forward, t) == IF forward.path = "fast" THEN FastScores(t) ELSE OracleScores(t)

----------------------------------------------------------------------------
(* Packing of the learner batch                                             *)

ActionTokens(group) ==
  SumOf([i \in DOMAIN group.trajectories |-> group.trajectories[i].tokens])
Load(gs) == SumOf([i \in DOMAIN gs |-> ActionTokens(gs[i])])

HeavierGroup(a, b) ==
  \/ ActionTokens(a) > ActionTokens(b)
  \/ ActionTokens(a) = ActionTokens(b) /\ a.trajectories[1].id < b.trajectories[1].id

(* Prompts are whole on one rank: least loaded, then fewest prompts.        *)
LightestRank(given) ==
  LET key == [r \in Ranks |-> <<Load(given[r]), Len(given[r])>>]
  IN CHOOSE r \in Ranks : \A q \in Ranks \ {r} :
       \/ key[r][1] < key[q][1]
       \/ key[r][1] = key[q][1] /\ key[r][2] < key[q][2]
       \/ key[r][1] = key[q][1] /\ key[r][2] = key[q][2] /\ r < q

GroupsByLoad(gs) ==
  FoldLeft(LAMBDA given, g : [given EXCEPT ![LightestRank(given)] = Append(@, g)],
           [r \in Ranks |-> <<>>], SeqInOrder(gs, HeavierGroup))

PackGroups(gs) ==
  LET given == GroupsByLoad(gs) IN [r \in Ranks |-> TasksOf(given[r])]

Weighted(t, weight) == [trajectory |-> t, weight |-> weight]

Filler(given, r) ==
  IF given[r] # <<>> THEN given[r][1]
  ELSE given[Min({q \in Ranks : given[q] # <<>>})][1]

(* Defect: a filler weighs like the trajectory it repeats.                  *)
FillerRowWeighs(given, r) == Weighted(Filler(given, r), 1)

FillerRow(given, r) == Weighted(Filler(given, r), 0)

RoundCount(given) ==
  Max({(Len(given[r]) + MicroBatch - 1) \div MicroBatch : r \in Ranks})

Payload(given, k, r) ==
  [i \in 1 .. MicroBatch |->
    LET n == (k - 1) * MicroBatch + i
    IN IF n <= Len(given[r]) THEN Weighted(given[r][n], 1) ELSE FillerRow(given, r)]

SynchronizedRounds(gs) ==
  LET given == PackGroups(gs)
  IN [k \in 1 .. RoundCount(given) |-> [r \in Ranks |-> Payload(given, k, r)]]

Real(payload) ==
  LET rows == Subsequence(payload, {i \in DOMAIN payload : payload[i].weight = 1})
  IN [i \in DOMAIN rows |-> rows[i].trajectory]

(* _gate_event_counts                                                       *)
Decisions(rows) == SumOf([i \in DOMAIN rows |-> rows[i].decision])
Queries(rows) == SumOf([i \in DOMAIN rows |-> rows[i].query])
GateEvents(rs) ==
  LET rows == FlattenSeq([k \in DOMAIN rs |->
                FlattenSeq([r \in 1 .. WorldSize |-> Real(rs[k][r - 1])])])
  IN [decision |-> Decisions(rows), query |-> Queries(rows)]

----------------------------------------------------------------------------
(* A call on every rank                                                     *)

Send(name) ==
  /\ call' = name
  /\ phase' = [r \in Ranks |-> "called"]
  /\ entered' = [r \in Ranks |-> 0]

AllAnswered(name) == call = name /\ \A r \in Ranks : phase[r] = "answered"

Counted(r) == zeroed[r] > 0 \/ backward[r] > 0

(* What a worker method refuses before it meets the other ranks.            *)
Refuses(r) ==
  CASE call = "zero_grad" -> zeroed[r] # 0
    [] call = "backward" /\ profile[r].channel = "none" -> zeroed[r] # 1
    [] call = "backward" /\ profile[r].channel # "none" -> ~ profile[r].open \/ Counted(r)
    [] call = "begin_profile" -> Counted(r) \/ profile[r].open
    [] call = "begin_channel" ->
         \/ ~ profile[r].open \/ profile[r].channel # "none" \/ Counted(r)
         \/ Channels[channel] \in DOMAIN profile[r].gradients
    [] call = "finish_channel" ->
         ~ profile[r].open \/ profile[r].channel # Channels[channel]
    [] call = "finish_profile" ->
         \/ ~ profile[r].open \/ profile[r].channel # "none"
         \/ DOMAIN profile[r].gradients # ToSet(Channels)
    [] OTHER -> FALSE

Answer(r) == phase' = [phase EXCEPT ![r] = "answered"]
RaiseOn(r) == phase' = [phase EXCEPT ![r] = "raised"]

Enter(r) ==
  /\ phase' = [phase EXCEPT ![r] = "waiting"]
  /\ entered' = [entered EXCEPT ![r] = @ + 1]

Meet(r) ==
  /\ phase[r] = "called"
  /\ call \in {"score", "materialize", "backward", "finish_profile"}
  /\ IF Refuses(r) THEN RaiseOn(r) /\ UNCHANGED entered ELSE Enter(r)
  /\ UNCHANGED <<stage, driverVars, rankVars, faulted>>

(* A collective ends for a rank when every rank has entered it.             *)
Leave(r) ==
  /\ phase[r] = "waiting"
  /\ \A q \in Ranks : entered[q] >= entered[r]
  /\ phase' = [phase EXCEPT ![r] = "local"]
  /\ UNCHANGED <<stage, driverVars, entered, rankVars, faulted>>

(* NCCL gives up on a peer that will never come, and ends the process.      *)
Watchdog(r) ==
  /\ phase[r] = "waiting"
  /\ \E q \in Ranks : entered[q] < entered[r] /\ phase[q] \in {"raised", "dead", "aborted"}
  /\ phase' = [phase EXCEPT ![r] = "dead"]
  /\ UNCHANGED <<stage, driverVars, entered, rankVars, faulted>>

(* Out of memory, a NaN in one rank's loss, an Oracle canary that fails.    *)
Fault(r) ==
  /\ ~ faulted /\ phase[r] = "local"
  /\ call = "backward" => entered[r] = 1
  /\ faulted' = TRUE
  /\ RaiseOn(r)
  /\ UNCHANGED <<stage, driverVars, entered, rankVars>>

(* score_exact_ig_tasks, after the two all_reduce of the task count         *)
Score(r) ==
  /\ call = "score" /\ phase[r] = "local"
  /\ IF \/ \E q \in Ranks : Len(dispatch[q]) # Len(dispatch[r])
        \/ ScoreManyRefuses(dispatch[r])
     THEN RaiseOn(r) /\ UNCHANGED forwards
     ELSE Answer(r) /\ forwards' = [forwards EXCEPT ![r] = ScoreMany(dispatch[r])]
  /\ UNCHANGED <<stage, driverVars, entered, grads, zeroed, backward, profile, faulted>>

Materialize(r) ==
  /\ call = "materialize" /\ phase[r] = "local"
  /\ Answer(r)
  /\ UNCHANGED <<stage, driverVars, entered, rankVars, faulted>>

ZeroGrad(r) ==
  /\ call = "zero_grad" /\ phase[r] = "called"
  /\ IF Refuses(r)
     THEN RaiseOn(r) /\ UNCHANGED <<grads, zeroed>>
     ELSE /\ Answer(r)
          /\ grads' = [grads EXCEPT ![r] = <<>>]
          /\ zeroed' = [zeroed EXCEPT ![r] = 1]
  /\ UNCHANGED <<stage, driverVars, entered, forwards, backward, profile, faulted>>

(* Every row was checked and the loss is finite: loss.backward() begins.    *)
LossIsFinite(r) ==
  /\ call = "backward" /\ phase[r] = "local" /\ entered[r] = 1
  /\ Enter(r)
  /\ UNCHANGED <<stage, driverVars, rankVars, faulted>>

(* Defect: the counter does not tell a calibration from an update.          *)
CountsEveryBackward(r) == TRUE

CountsBackward(r) == profile[r].channel = "none"

BackwardEnds(r) ==
  /\ call = "backward" /\ phase[r] = "local" /\ entered[r] = 2
  /\ Answer(r)
  /\ grads' = [grads EXCEPT ![r] = @ \o Real(rounds[round][r])]
  /\ backward' = [backward EXCEPT ![r] = @ + (IF CountsBackward(r) THEN 1 ELSE 0)]
  /\ UNCHANGED <<stage, driverVars, entered, forwards, zeroed, profile, faulted>>

----------------------------------------------------------------------------
(* Gate calibration on a rank                                               *)

Profiling(r, name, after) ==
  /\ call = name /\ phase[r] = "called"
  /\ IF Refuses(r)
     THEN RaiseOn(r) /\ UNCHANGED <<grads, profile>>
     ELSE /\ Answer(r)
          /\ grads' = [grads EXCEPT ![r] = <<>>]
          /\ profile' = [profile EXCEPT ![r] = after]
  /\ UNCHANGED <<stage, driverVars, entered, forwards, zeroed, backward, faulted>>

BeginProfile(r) ==
  Profiling(r, "begin_profile", [NoProfile EXCEPT !.open = TRUE])
BeginChannel(r) ==
  Profiling(r, "begin_channel", [profile[r] EXCEPT !.channel = Channels[channel]])
FinishChannel(r) ==
  Profiling(r, "finish_channel",
    [profile[r] EXCEPT
      !.gradients = [c \in DOMAIN @ \cup {Channels[channel]} |->
                       IF c = Channels[channel] THEN grads[r] ELSE @[c]],
      !.channel = "none"])

FinishProfile(r) ==
  /\ call = "finish_profile" /\ phase[r] = "local"
  /\ Answer(r)
  /\ grads' = [grads EXCEPT ![r] = <<>>]
  /\ profile' = [profile EXCEPT ![r] = NoProfile]
  /\ UNCHANGED <<stage, driverVars, entered, forwards, zeroed, backward, faulted>>

(* The abort waits in the actor's queue behind the call that is running.    *)
CanAbort(r) == aborting /\ phase[r] \in {"answered", "raised"}

(* Defect: the abort forgets the profile and keeps the gradients.           *)
AbortProfileOnly(r) ==
  /\ CanAbort(r)
  /\ phase' = [phase EXCEPT ![r] = "aborted"]
  /\ profile' = [profile EXCEPT ![r] = NoProfile]
  /\ UNCHANGED <<stage, driverVars, entered, forwards, grads, zeroed, backward, faulted>>
AbortProfile(r) ==
  /\ CanAbort(r)
  /\ phase' = [phase EXCEPT ![r] = "aborted"]
  /\ grads' = [grads EXCEPT ![r] = <<>>]
  /\ profile' = [profile EXCEPT ![r] = NoProfile]
  /\ UNCHANGED <<stage, driverVars, entered, forwards, zeroed, backward, faulted>>

----------------------------------------------------------------------------
(* The driver                                                               *)

Init ==
  /\ stage \in Stages
  /\ call = "collect" /\ aborting = FALSE
  /\ groups = <<>> /\ rounds = <<>> /\ round = 1 /\ channel = 1
  /\ dispatch = [r \in Ranks |-> <<>>] /\ scored = {}
  /\ events = [decision |-> 0, query |-> 0]
  /\ attempted = 0 /\ profiles = <<>>
  /\ manifest \in IF stage = "train" THEN {"none"} ELSE {"none", "earlier run"}
  /\ phase = [r \in Ranks |-> "answered"] /\ entered = [r \in Ranks |-> 0]
  /\ forwards = [r \in Ranks |-> <<>>] /\ grads = [r \in Ranks |-> <<>>]
  /\ zeroed = [r \in Ranks |-> 0] /\ backward = [r \in Ranks |-> 0]
  /\ profile = [r \in Ranks |-> NoProfile]
  /\ faulted = FALSE

Limit == IF stage = "train" THEN 1 ELSE MaxBatches

SkipBatch ==
  /\ call = "collect" /\ attempted < Limit
  /\ attempted' = attempted + 1
  /\ UNCHANGED <<stage, call, aborting, groups, dispatch, scored, rounds, round,
                 channel, events, profiles, manifest, phase, entered, rankVars, faulted>>

TakeBatch ==
  /\ call = "collect" /\ attempted < Limit
  /\ attempted' = attempted + 1
  /\ scored' = {}
  /\ forwards' = [r \in Ranks |-> <<>>]
  /\ \E w \in Workloads :
       /\ groups' = w
       /\ IF \E i \in DOMAIN TasksOf(w) : BuildRefuses(TasksOf(w)[i])
          THEN call' = "raised" /\ UNCHANGED <<dispatch, phase, entered>>
          ELSE Send("score") /\ dispatch' = Dispatch(TasksOf(w))
  /\ UNCHANGED <<stage, aborting, rounds, round, channel, events, profiles, manifest,
                 grads, zeroed, backward, profile, faulted>>

Ran(r) == FlattenSeq([i \in DOMAIN forwards[r] |-> forwards[r][i].batch])

(* by_trajectory; a task without a result raises                            *)
ScoresArrive ==
  /\ AllAnswered("score")
  /\ scored' = {t.id : t \in UNION {ToSet(Ran(r)) : r \in Ranks}}
  /\ call' = IF \E i \in DOMAIN Tasks : Tasks[i].id \notin scored' THEN "raised" ELSE "pack"
  /\ UNCHANGED <<stage, aborting, groups, dispatch, rounds, round, channel, events,
                 attempted, profiles, manifest, phase, entered, rankVars, faulted>>

PackRounds ==
  /\ call = "pack"
  /\ rounds' = SynchronizedRounds(Selected(groups))
  /\ round' = 1
  /\ Send("materialize")
  /\ UNCHANGED <<stage, aborting, groups, dispatch, scored, channel, events, attempted,
                 profiles, manifest, rankVars, faulted>>

RestUnchanged ==
  UNCHANGED <<stage, aborting, groups, dispatch, scored, rounds, attempted,
              manifest, rankVars, faulted>>

NextRound ==
  /\ AllAnswered("materialize") \/ AllAnswered("backward")
  /\ round < Len(rounds)
  /\ round' = round + 1
  /\ Send(call)
  /\ UNCHANGED <<channel, events, profiles>> /\ RestUnchanged

AfterMaterialize ==
  /\ AllAnswered("materialize") /\ round = Len(rounds)
  /\ round' = 1 /\ channel' = 1
  /\ IF stage = "train"
     THEN Send("zero_grad") /\ UNCHANGED events
     ELSE Send("begin_profile") /\ events' = GateEvents(rounds)
  /\ UNCHANGED profiles /\ RestUnchanged

AfterZeroGrad ==
  /\ AllAnswered("zero_grad") \/ AllAnswered("begin_channel")
  /\ round' = 1
  /\ Send("backward")
  /\ UNCHANGED <<channel, events, profiles>> /\ RestUnchanged

AfterBeginProfile ==
  /\ AllAnswered("begin_profile")
  /\ Send("begin_channel")
  /\ UNCHANGED <<round, channel, events, profiles>> /\ RestUnchanged

(* The update goes on to clip, step and commit: see StrictUpdate.           *)
AfterBackward ==
  /\ AllAnswered("backward") /\ round = Len(rounds)
  /\ IF stage = "train"
     THEN call' = "done" /\ UNCHANGED <<phase, entered>>
     ELSE Send("finish_channel")
  /\ UNCHANGED <<round, channel, events, profiles>> /\ RestUnchanged

AfterFinishChannel ==
  /\ AllAnswered("finish_channel")
  /\ IF channel < Len(Channels)
     THEN channel' = channel + 1 /\ Send("begin_channel")
     ELSE channel' = channel /\ Send("finish_profile")
  /\ UNCHANGED <<round, events, profiles>> /\ RestUnchanged

(* Enough events, and for each channel a batch where its norm is positive.  *)
Enough(ps) ==
  /\ Len(ps) >= MinProfiles /\ Decisions(ps) >= MinDecision /\ Queries(ps) >= MinQuery
  /\ \A c \in ToSet(Channels) : \E i \in DOMAIN ps : c \in ps[i].nonzero

AfterFinishProfile ==
  /\ AllAnswered("finish_profile")
  /\ profiles' = Append(profiles, [decision |-> events.decision, query |-> events.query,
                                    nonzero |-> UNION {t.live : t \in ToSet(Trajectories)}])
  /\ call' = IF \E r \in Ranks : Counted(r) THEN "raised"
             ELSE IF Enough(profiles') THEN "calibrate" ELSE "collect"
  /\ UNCHANGED <<round, channel, events, phase, entered>> /\ RestUnchanged

(* calibrate_role_localized_gate_lambdas, then the manifest                 *)
Calibrate ==
  /\ \/ call = "calibrate"
     \/ stage = "calibrate" /\ call = "collect" /\ attempted = Limit
  /\ call' = IF Enough(profiles) THEN "publish" ELSE "raised"
  /\ UNCHANGED <<round, channel, events, profiles, phase, entered>> /\ RestUnchanged

WriteManifest ==
  /\ call = "publish"
  /\ IF manifest = "none"
     THEN manifest' = "this run" /\ call' = "done"
     ELSE manifest' = manifest /\ call' = "raised"
  /\ UNCHANGED <<stage, aborting, groups, dispatch, scored, rounds, round, channel, events,
                 attempted, profiles, phase, entered, rankVars, faulted>>

(* execute_all_sync raises with the first rank that does.  From the first   *)
(* channel on the driver aborts the profile before it lets go.              *)
InProfile == {"begin_channel", "finish_channel", "finish_profile"}

CallRaises ==
  /\ call \notin {"collect", "pack", "calibrate", "publish", "raised", "done"}
  /\ ~ aborting
  /\ \E r \in Ranks : phase[r] \in {"raised", "dead"}
  /\ IF stage = "calibrate" /\ call \in InProfile \cup {"backward"}
     THEN aborting' = TRUE /\ call' = call
     ELSE aborting' = aborting /\ call' = "raised"
  /\ UNCHANGED <<stage, groups, dispatch, scored, rounds, round, channel, events,
                 attempted, profiles, manifest, phase, entered, rankVars, faulted>>

AbortEnds ==
  /\ aborting /\ call # "raised"
  /\ \/ \A r \in Ranks : phase[r] = "aborted"
     \/ \E r \in Ranks : phase[r] = "dead"
  /\ call' = "raised"
  /\ UNCHANGED <<stage, aborting, groups, dispatch, scored, rounds, round, channel, events,
                 attempted, profiles, manifest, phase, entered, rankVars, faulted>>

----------------------------------------------------------------------------
RankStep(r) ==
  \/ Meet(r) \/ Leave(r) \/ Watchdog(r) \/ Score(r) \/ Materialize(r)
  \/ ZeroGrad(r) \/ LossIsFinite(r) \/ BackwardEnds(r)
  \/ BeginProfile(r) \/ BeginChannel(r) \/ FinishChannel(r) \/ FinishProfile(r)
  \/ AbortProfile(r)

Drive ==
  \/ TakeBatch \/ ScoresArrive \/ PackRounds \/ NextRound
  \/ AfterMaterialize \/ AfterZeroGrad \/ AfterBeginProfile \/ AfterBackward
  \/ AfterFinishChannel \/ AfterFinishProfile \/ Calibrate \/ WriteManifest
  \/ CallRaises \/ AbortEnds
Skip == stage = "calibrate" /\ SkipBatch

(* The only state without a next step that is not a deadlock.               *)
Ended == call \in {"raised", "done"}
Rest == Ended /\ UNCHANGED vars

Next == Drive \/ Skip \/ (\E r \in Ranks : RankStep(r) \/ Fault(r)) \/ Rest

Spec == Init /\ [][Next]_vars

----------------------------------------------------------------------------
(* Properties                                                               *)

Entries(t, lists) ==
  Cardinality(UNION {{<<r, i>> : i \in {j \in DOMAIN lists[r] : lists[r][j] = t}} : r \in Ranks})

(* Whatever the ranks' shares, after the last round every selected          *)
(* trajectory is in the gradient exactly once over all ranks, in the update *)
(* and in each channel of a profile, and so is each gate event that the     *)
(* profile is said to rest on.                                              *)
EachTrajectoryWeighsOnce ==
  LET shares(c) == [r \in Ranks |-> profile[r].gradients[c]]
  IN /\ stage = "train" /\ call = "done" =>
          \A t \in ToSet(Trajectories) : Entries(t, grads) = 1
     /\ call \in {"begin_channel", "finish_profile"} /\ ~ aborting =>
          \A c \in ToSet(Channels) :
            (\A r \in Ranks : c \in DOMAIN profile[r].gradients) =>
              \A t \in ToSet(Trajectories) : Entries(t, shares(c)) = 1
     /\ call \in InProfile =>
          events = [decision |-> Decisions(Trajectories), query |-> Queries(Trajectories)]

(* When the scores are in, every task has them: each token that covers a    *)
(* part of the answer, and no other, was scored seeing what the sequential  *)
(* oracle sees, however the task was packed and batched.  No rank ran a     *)
(* task twice, and no forward exceeded a budget by the size it is padded    *)
(* to, a sequential one by the prefix it is at.                             *)
EveryTaskScored ==
  call = "pack" =>
    /\ scored = {t.id : t \in ToSet(Tasks)}
    /\ \A r \in Ranks :
         /\ IsInjective(Ran(r))
         /\ \A i \in DOMAIN forwards[r] :
              LET batch == forwards[r][i].batch
                  prefixes == UNION {{t.endpoints[k] + TargetLength(t, k) :
                                        k \in PrefixesOf(t)} : t \in ToSet(batch)}
                  longest == IF forwards[r][i].path = "fast"
                             THEN Max({ExtendedLength(t) : t \in ToSet(batch)})
                             ELSE Max(prefixes)
              IN /\ \A t \in ToSet(batch) :
                      LET scores == ScoresOf(forwards[r][i], t)
                      IN /\ scores = OracleScores(t)
                         /\ \A k \in PrefixesOf(t) : DOMAIN scores[k] =
                              {a \in 1 .. TargetLength(t, k) : Covers(Target(t, k), a)}
                 /\ Len(batch) <= MaxRecords
                 /\ Len(batch) * longest * longest <= MaxCost
                 /\ Len(batch) * longest <= MaxTokens

(* Without a fault from outside, the driver raises only for a task that no  *)
(* path can score within its budget, for too little to calibrate on, or for *)
(* the manifest of an earlier run: no rank waits for a peer that never      *)
(* comes, none refuses a call, and the packer is never given what it        *)
(* refuses.                                                                 *)
RaisesOnlyForCause ==
  LET unscorable == \E i \in DOMAIN Tasks : ~ SequentialFits(Tasks[i])
  IN ~ faulted /\ ~ unscorable =>
       /\ \A r \in Ranks : phase[r] \notin {"raised", "dead"}
       /\ call = "raised" =>
            \/ attempted = Limit /\ ~ Enough(profiles)
            \/ manifest = "earlier run"

(* A calibration, finished or aborted at any point, leaves no gradient, no  *)
(* open profile and no count behind on a rank that lives: what the next     *)
(* channel or batch measures is its own gradient and nothing else.          *)
CalibrationLeavesNoTrace ==
  stage = "calibrate" =>
    \A r \in Ranks :
      /\ zeroed[r] = 0 /\ backward[r] = 0
      /\ \/ phase[r] = "aborted"
         \/ call \in {"collect", "score", "pack", "materialize", "calibrate", "publish", "done"}
         => grads[r] = <<>> /\ profile[r] = NoProfile
=============================================================================
