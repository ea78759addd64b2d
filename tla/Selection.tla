------------------------------- MODULE Selection -------------------------------
(***************************************************************************)
(* RAGEN selection over one candidate pool: prompt variances, channel      *)
(* statistics, the health gate, top-p by score mass, and what a committed  *)
(* update does to a channel's scale.                                       *)
(*                                                                         *)
(* Real numbers are integers here, by choice of units: a variance counts   *)
(* 1/VarUnit, a mean over the pool 1/MeanUnit of a variance, and every     *)
(* median is kept doubled, so that nothing is rounded.  Scores only decide *)
(* an order and a share of their own total, so a factor that all of a pool *)
(* have in common is left out.  The epsilons of the code are zero.  0      *)
(* stands for None in a scale or a reference, which are positive.          *)
(***************************************************************************)
EXTENDS Integers, Sequences, SequencesExt, FiniteSetsExt, Ordering

CONSTANTS VarUnit,           \* units of a variance
          MeanUnit,          \* units of a mean over the pool
          GroupSize,         \* rollout.group_size
          Alpha,             \* selection.alpha_ig, alpha_outcome
          NoiseFloor,        \* selection.noise_floor_ig, noise_floor_outcome
          MinPositive,       \* selection.minimum_positive_prompts
          HealthNum, HealthDen,  \* selection.health_threshold_ratio
          ReferenceUpdates,  \* selection.health_reference_valid_updates
          RhoNum, RhoDen,    \* selection.top_p_mass
          MinSelected, MaxSelected

Channels == {"ig", "outcome"}
Modes == {"dual", "answer", "paper"}

ASSUME SelectionConstants ==
  /\ {VarUnit, MeanUnit, GroupSize, MinPositive, ReferenceUpdates, RhoNum,
      RhoDen, HealthDen, MinSelected} \subseteq Nat \ {0}
  /\ Alpha \in [Channels -> Nat \ {0}]
  /\ NoiseFloor \in [Channels -> Nat]
  /\ HealthNum \in Nat
  /\ RhoNum <= RhoDen
  /\ MaxSelected \in Nat /\ MinSelected <= MaxSelected

SumOver(S, f) == MapThenSumSet(LAMBDA x : f[x], S)
-----------------------------------------------------------------------------
(* Variances.  A trajectory has an outcome, whether it may be rewarded for  *)
(* it, and the gains of its eligible search turns by search index.          *)

(* ddof = 1; fewer than two values have none.                               *)
SampleVariance(S, f) ==
  LET n == Cardinality(S)
      squares == [x \in S |-> f[x] * f[x]]
  IN  IF n < 2 THEN 0
      ELSE (n * SumOver(S, squares) - SumOver(S, f) * SumOver(S, f))
             * (VarUnit \div (n * (n - 1)))

OutcomeVariance(group) ==
  SampleVariance({i \in DOMAIN group : group[i].eligible},
                 [i \in DOMAIN group |-> group[i].outcome])

(* Indices with at least two peers share the weight by their peer counts.   *)
IgVariance(group) ==
  LET indices == UNION {DOMAIN group[i].gains : i \in DOMAIN group}
      peers == [k \in indices |-> {i \in DOMAIN group : k \in DOMAIN group[i].gains}]
      supported == {k \in indices : Cardinality(peers[k]) >= 2}
      count == [k \in indices |-> Cardinality(peers[k])]
      weighted == [k \in indices |->
        count[k] * SampleVariance(peers[k],
                     [i \in peers[k] |-> group[i].gains[k]])]
  IN  IF supported = {} THEN 0
      ELSE SumOver(supported, weighted) \div SumOver(supported, count)

(* prompt_group_from_trajectories, prompt_group_from_outcomes: before the   *)
(* gains are known the IG variance is zero.                                 *)
PromptGroup(group, deferred) ==
  [ig |-> IF deferred THEN 0 ELSE IgVariance(group),
   outcome |-> OutcomeVariance(group)]
-----------------------------------------------------------------------------
(* Channel statistics                                                       *)

(* Twice the median of f over S.                                            *)
Median2(S, f) ==
  LET sorted == SetInOrder(S, LAMBDA a, b : f[a] < f[b] \/ (f[a] = f[b] /\ a < b))
      n == Len(sorted)
  IN  IF n = 0 THEN 0
      ELSE f[sorted[(n + 1) \div 2]] + f[sorted[(n \div 2) + 1]]

NewScale == [scale |-> 0, observations |-> <<>>, reference |-> 0]

(* decide_channel_gate                                                      *)
SignalPresent(mean, positives) == mean > 0 /\ positives >= MinPositive
Healthy(mean, reference) ==
  reference = 0 \/ 2 * mean * HealthDen >= HealthNum * reference

(* inspect_pool.  A channel without a committed scale borrows the pool's    *)
(* median, but only before the first successful update.                     *)
PoolStats(c, state, variance, provisional) ==
  LET excess == [p \in DOMAIN variance |->
                   IF variance[p] > NoiseFloor[c]
                     THEN variance[p] - NoiseFloor[c] ELSE 0]
      positive == {p \in DOMAIN excess : excess[p] > 0}
      median == Median2(positive, excess)
      mean == IF DOMAIN excess = {} THEN 0
              ELSE (SumOver(DOMAIN excess, excess) * MeanUnit)
                     \div Cardinality(DOMAIN excess)
      scale == IF state.scale # 0 THEN state.scale
               ELSE IF provisional THEN median ELSE 0
      active == /\ SignalPresent(mean, Cardinality(positive))
                /\ Healthy(mean, state.reference)
                /\ scale > 0
  IN  [excess |-> excess, median |-> median, mean |-> mean, scale |-> scale,
       active |-> active,
       valid |-> positive # {},
       mayMove |-> positive # {} /\ (state.reference = 0 \/ active)]

(* _paper_bypass_stats: no scale is observed and no gate is asked.          *)
PaperStats(variance) ==
  [excess |-> variance, median |-> 0, mean |-> 0, scale |-> 0,
   active |-> FALSE, valid |-> FALSE, mayMove |-> FALSE]

Between(a, b) == IF a <= b THEN a..b ELSE b..a

(* Defect: the first update is recognized on the state after it.            *)
CommittedNeverFirst(state, stats, first) ==
  IF ~stats.valid THEN {state}
  ELSE LET observations == Append(state.observations, stats.mean)
       IN  {[scale |-> s, observations |-> observations,
             reference |-> state.reference] :
             s \in IF state.scale = 0 \/ ~stats.mayMove THEN {state.scale}
                   ELSE Between(state.scale, stats.median)}

(* committed_after_success: the states one successful update may lead to.   *)
(* The moving average is some value between the old scale and the median;   *)
(* the reference is the median of the first observations and then fixed.    *)
CommittedAfterSuccess(state, stats, first) ==
  IF ~stats.valid THEN {state}
  ELSE LET observations == Append(state.observations, stats.mean)
           initial == 1..ReferenceUpdates
           scales == IF ~stats.mayMove THEN {state.scale}
                     ELSE IF state.scale = 0
                       THEN {IF first THEN stats.median ELSE 0}
                     ELSE Between(state.scale, stats.median)
       IN  {[scale |-> s,
             observations |-> observations,
             reference |->
               IF state.reference = 0 /\ Len(observations) >= ReferenceUpdates
                 THEN Median2(initial, observations)
                 ELSE state.reference] : s \in scales}
-----------------------------------------------------------------------------
(* Scores and top-p                                                         *)

(* A scaled score divides an excess by its channel's scale: multiplying by  *)
(* the other active channel's scale brings both to one denominator.         *)
Scores(mode, stats, variances) ==
  LET ids == DOMAIN variances["outcome"]
      weight == [c \in Channels |->
        LET others == {d \in Channels \ {c} : stats[d].active}
        IN  IF ~stats[c].active THEN 0
            ELSE Alpha[c] * (IF others = {} \/ mode = "answer" THEN 1
                             ELSE stats[CHOOSE d \in others : TRUE].scale)]
  IN  [p \in ids |->
         CASE mode = "paper"  -> variances["outcome"][p]
           [] mode = "answer" -> weight["outcome"] * stats["outcome"].excess[p]
           [] mode = "dual"   -> weight["ig"] * stats["ig"].excess[p]
                                   + weight["outcome"] * stats["outcome"].excess[p]]

Positive(scores) == {p \in DOMAIN scores : scores[p] > 0}
Before(scores, p, q) ==
  scores[p] > scores[q] \/ (scores[p] = scores[q] /\ p < q)
Ahead(scores, q) == {p \in Positive(scores) : Before(scores, p, q)}

(* Defect: the prompt that reaches the target is left out.                   *)
TopPExclusive(scores) ==
  LET total == SumOver(Positive(scores), scores)
  IN  {q \in Positive(scores) :
         (SumOver(Ahead(scores, q), scores) + scores[q]) * RhoDen < RhoNum * total}

(* stable_mass_top_p: a prompt is taken while those ahead of it have not    *)
(* reached the target.  Prompts without a score never are.                  *)
TopP(scores) ==
  LET total == SumOver(Positive(scores), scores)
  IN  {q \in Positive(scores) :
         SumOver(Ahead(scores, q), scores) * RhoDen < RhoNum * total}

Capped(scores, chosen) ==
  {q \in chosen : Cardinality(Ahead(scores, q)) < MaxSelected}

(* CandidatePool.select                                                     *)
SelectionDecision(mode, channels, pool, provisional, maximum) ==
  LET variances == [c \in Channels |-> [p \in DOMAIN pool |-> pool[p][c]]]
      stats == [c \in Channels |->
        IF mode = "paper" THEN PaperStats(variances[c])
        ELSE PoolStats(c, channels[c], variances[c], provisional)]
      scores == Scores(mode, stats, variances)
      selected == Capped(scores, TopP(scores))
      underflow == Cardinality(selected) < MinSelected
  IN  [scores |-> scores, stats |-> stats, selected |-> selected,
       refill |-> underflow /\ Cardinality(DOMAIN pool) < maximum,
       skip |-> underflow /\ Cardinality(DOMAIN pool) >= maximum]
=============================================================================
