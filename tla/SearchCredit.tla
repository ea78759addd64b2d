------------------------------ MODULE SearchCredit ------------------------------
(***************************************************************************)
(* From a finished trajectory to the credit its tokens are trained with:   *)
(* exact information gains, the answers the policy probes before and after *)
(* each search, the credit of the search task mode, its second calculation *)
(* at the learner boundary and the checks of the learner batch and of the  *)
(* worker.  Every check raises, and one raise ends the attempt.            *)
(*                                                                         *)
(* The prompt group is this trajectory and one peer, of whom only the      *)
(* gains matter: two values normalize to equal and opposite ones, so only  *)
(* the sign of their difference is kept, and a position without the peer   *)
(* normalizes to 0.  A search is known by its number, which is its         *)
(* search_index plus one.  load_config admits the modes gate, routed and   *)
(* mica; the dispatch of the code has novelty and consensus as well.       *)
(***************************************************************************)
EXTENDS SearchLoop

CONSTANTS Modes,      \* search_task_mode when gates are not localized
          Gains,      \* information gains of a search of this trajectory
          PeerGains,  \* and of the peer
          Outcomes,   \* signs of the normalized outcome of an answer
          Probes,     \* outcomes of an answer probe: [sufficient, reward]
          ProbeLength,\* tokens of the answer scaffold and its completion
          ModelLength \* max_model_len

ASSUME CreditConstants ==
  /\ Modes \subseteq {"novelty", "routed", "mica", "consensus"}
  /\ Gains \cup PeerGains \subseteq Int
  /\ Outcomes \subseteq {-1, 0, 1}
  /\ Probes \subseteq [sufficient : BOOLEAN, reward : Int]
  /\ {ProbeLength, ModelLength} \subseteq Nat
  (* resource plan: a probe fits behind the longest response                *)
  /\ PromptLength + ResponseLength + ProbeLength <= ModelLength

VARIABLES
  mode,     \* search_task_mode
  stage,    \* "rollout", "selected", "scored", "probed", "assign",
            \* "trained" or "refused"
  gain,     \* immediate_ig, by search
  peer,     \* immediate_ig of the peer
  outcome,  \* normalized_outcome
  before,   \* routed_answer_probes[...]["pre"], by search
  after,    \* routed_answer_probes[...]["post"]
  credit    \* what the learner gets, by search

creditVars == <<gain, peer, outcome, before, after, credit>>
allVars == <<vars, mode, stage, creditVars>>

Sign(x) == IF x > 0 THEN 1 ELSE IF x < 0 THEN -1 ELSE 0
(* A turn that is no search ends the loop: search i is turn i.              *)
All == {i \in DOMAIN turns : turns[i].kind = "search"}
LastSearch == Cardinality(All)
NoResults == <<>>

(* A main credit is sum / sqrt(count) + route.                              *)
Credit(sum, count, route) == [sum |-> sum, count |-> count, route |-> route]
Nothing == Credit(0, 1, 0)
Penalty == Credit(-1, 1, 0)
SignOf(c) ==
  IF Sign(c.sum) * c.route >= 0 THEN Sign(c.sum + c.route)
  ELSE Sign(c.sum * c.sum - c.count) * Sign(c.sum)

CreditInit ==
  /\ Init
  /\ mode \in IF localized THEN {"gate"} ELSE Modes
  /\ stage = "rollout"
  /\ gain = NoResults /\ peer = NoResults /\ outcome = 0
  /\ before = NoResults /\ after = NoResults /\ credit = NoResults

Rollout == stage = "rollout" /\ Next /\ UNCHANGED <<mode, stage, creditVars>>
-----------------------------------------------------------------------------
(* Selection and exact information gain                                     *)

OptimizationReady == systemValid /\ PolicyCredit # {}

(* A group with any other trajectory is replaced before selection.          *)
Select ==
  /\ pc = "done" /\ stage = "rollout" /\ OptimizationReady
  /\ stage' = "selected"
  /\ UNCHANGED <<vars, mode, creditVars>>

IgSearches == {i \in All : turns[i].ig}

(* TrajectoryCreditInput.validate                                           *)
CreditInputValidates == \A i \in IgSearches : 1..i \subseteq IgSearches

(* The trajectory is scored where it is eligible; only a valid answer has   *)
(* an outcome to be compared with the peer's.                               *)
ScoreGains ==
  /\ stage = "selected"
  /\ gain' \in [IgSearches -> Gains]
  /\ peer' \in UNION {[1..k -> PeerGains] : k \in 0..MaxSearchTurns}
  /\ outcome' \in IF TerminalAnswer(actions) THEN Outcomes ELSE {0}
  /\ stage' = IF ~CreditInputValidates THEN "refused"
              ELSE IF mode = "mica" THEN "assign" ELSE "scored"
  /\ UNCHANGED <<vars, mode, before, after, credit>>

(* compute_prompt_advantages                                                *)
Normalized ==
  [i \in DOMAIN gain |-> IF i \in DOMAIN peer THEN Sign(gain[i] - peer[i]) ELSE 0]
SumNormalized(values) == MapThenSumSet(LAMBDA i : Normalized[i], values)
-----------------------------------------------------------------------------
(* Answer probes                                                            *)

(* The budget-exhausted terminal search, whatever the mode.                 *)
OverBudget(i) ==
  reason = "maximum_search_turns_reached" /\ i = LastSearch /\ BudgetTerminal(Len(turns))

ProbeFits(prefix) == prefix + ProbeLength <= ModelLength

BranchAfter(r, sufficient) ==
  Branch(r.budget, r.invalid, sufficient, r.executed, r.noNew = "none")

(* Defect: the main eligibility of a search already answered is kept.       *)
ReclassifiedBranchOnly(r, sufficient) ==
  IF ~r.localized THEN r
  ELSE [r EXCEPT !.branch = BranchAfter(r, sufficient)]

(* attach_routed_answer_probe_results: what a pre probe changes of a turn   *)
Reclassified(r, sufficient) ==
  LET branch == BranchAfter(r, sufficient)
  IN  IF ~r.localized THEN r
      ELSE [r EXCEPT !.branch = branch,
                     !.main = branch \in {"n_soft", "normal"}]

(* build_sufficiency_probe_plan and its two siblings: the prompt of a probe  *)
(* is the trajectory up to the search, which must not be cut.               *)
PlanRefuses == ~RecordValidates \/ \E i \in All : ~ProbeFits(preEnds[i])

(* attach_sufficiency_probe_results: every search has its own answer.       *)
Answered == [All -> Probes]

(* One probe before each search, of the novelty mode.                       *)
SufficiencyProbe ==
  /\ stage = "scored" /\ mode = "novelty"
  /\ before' \in Answered
  /\ stage' = IF PlanRefuses THEN "refused" ELSE "assign"
  /\ UNCHANGED <<vars, mode, gain, peer, outcome, after, credit>>

(* The same before the post probes, where each answer reclassifies its      *)
(* search and has the record validated again.                               *)
PreProbe ==
  /\ stage = "scored" /\ mode \in {"routed", "gate"}
  /\ UNCHANGED <<localized, pc, turn, tokens, actions, prefixEnds, preEnds, action,
                 seen, reason, systemValid, mode, gain, peer, outcome, after, credit>>
  /\ before' \in Answered
  /\ turns' = [i \in DOMAIN turns |->
                 IF i \in All THEN Reclassified(turns[i], before'[i].sufficient)
                 ELSE turns[i]]
  /\ stage' = IF PlanRefuses \/ ~RecordValidates' THEN "refused" ELSE "probed"

(* attach_stop_branch_rewards: two answers the policy would give instead of *)
(* each search, and the reward of the trajectory that went on.              *)
StopRewards ==
  UNION {[All -> [first : {0, 1}, second : {0, 1}, continued : {reward}]] : reward \in {0, 1}}
StopProbe ==
  /\ stage = "scored" /\ mode = "consensus"
  /\ before' \in StopRewards
  /\ stage' = IF PlanRefuses THEN "refused" ELSE "assign"
  /\ UNCHANGED <<vars, mode, gain, peer, outcome, after, credit>>

(* build_routed_answer_probe_plan: the searches with a post probe           *)
PostSearches ==
  {i \in All : /\ ~OverBudget(i)
               /\ ~(turns[i].localized /\ turns[i].invalid)
               /\ ~before[i].sufficient}

PostProbe ==
  /\ stage = "probed"
  /\ after' \in [PostSearches -> Probes]
  /\ stage' = IF \E i \in PostSearches :
                   i + 1 \notin DOMAIN prefixEnds \/ ~ProbeFits(prefixEnds[i + 1])
                THEN "refused" ELSE "assign"
  /\ UNCHANGED <<vars, mode, gain, peer, outcome, before, credit>>
-----------------------------------------------------------------------------
(* The credit of a mode.  Each sums normalized gains over the searches      *)
(* Reaches admits: none after a state whose probe is sufficient.            *)

SufficientBefore == {k \in DOMAIN before : before[k].sufficient}
SufficientAfter(i) == i \in DOMAIN after /\ after[i].sufficient
Reaches(i, j, stops) ==
  /\ stops \cap i..j = {}
  /\ \A k \in i..j - 1 : ~SufficientAfter(k)

(* The outcome counts for a search across which the probe's reward moved in *)
(* its direction.                                                           *)
Route(i) ==
  LET delta == after[i].reward - before[i].reward
  IN  IF delta > 0 THEN Max({outcome, 0})
      ELSE IF delta < 0 THEN Min({outcome, 0}) ELSE 0

Accumulated(values, i) ==
  Credit(SumNormalized(values), Cardinality(values), Route(i))

MainOnly(c) == [main |-> c, decision |-> 0, query |-> 0]

(* _rebuild_sufficiency_novelty_local_ig                                    *)
NoveltyCredit(i) ==
  MainOnly(IF before[i].sufficient \/ turns[i].noNew = "none" THEN Penalty
           ELSE Credit(IF i \in DOMAIN gain THEN Normalized[i] ELSE 0, 1, 0))

(* _rebuild_sufficiency_novelty_cumulative_ig_probe_routed_outcome          *)
RoutedValues(i) ==
  {j \in i..LastSearch :
     /\ Reaches(i, j, SufficientBefore)
     /\ turns[j].credit /\ turns[j].ig /\ turns[j].noNew # "none"}
RoutedNormal(i) == ~before[i].sufficient /\ turns[i].noNew # "none"
RoutedCredit(i) ==
  MainOnly(IF RoutedNormal(i) THEN Accumulated(RoutedValues(i), i) ELSE Penalty)
RoutedRefuses ==
  \E i \in All :
    \/ turns[i].noNew = "unknown"
    \/ OverBudget(i) /\ (i \in DOMAIN after \/ turns[i].noNew # "none" \/ i \in DOMAIN gain)
    \/ ~OverBudget(i) /\ before[i].sufficient = (i \in DOMAIN after)
    \/ RoutedNormal(i) /\ (i \notin DOMAIN gain \/ ~turns[i].credit \/ RoutedValues(i) = {})

(* compute_stop_continue_advantages: both answers agree that searching was  *)
(* better, or worse; of that term only the sign is kept.                    *)
StopContinue(i) ==
  LET stopped == {before[i].first, before[i].second}
  IN  IF before[i].continued > Max(stopped) THEN 1
      ELSE IF before[i].continued < Min(stopped) THEN -1 ELSE 0
FutureIG(values) ==
  [sum |-> 3 * SumNormalized(values), count |-> 100 * Max({Cardinality(values), 1})]
ConsensusCredit(i) ==
  LET ig == FutureIG({j \in IgSearches : j >= i})
  IN  MainOnly(Credit(ig.sum, ig.count, StopContinue(i)))

(* compute_mica_search_advantage; halves of the two advantages are their    *)
(* sum over the root of four.                                               *)
Return(g, i) == MapThenSumSet(LAMBDA j : g[j], {j \in DOMAIN g : j >= i})
Peers(i) == {t \in {"this", "peer"} : i \in DOMAIN (IF t = "this" THEN gain ELSE peer)}
MicaLocal(i) == Sign(gain[i] - peer[i])
MicaCredit(i) ==
  MainOnly(
    IF i \notin DOMAIN gain THEN Nothing
    ELSE IF Peers(i) = {"this"} THEN Credit(0, 1, outcome)
    ELSE Credit(MicaLocal(i) + Sign(Return(gain, i) - Return(peer, i)), 4, 0))

(* _rebuild_answer_only_ragen2_mica_ig_v1: why a search has no gain, and    *)
(* what the learner is told about the depth of each.                        *)
MissingReason(i) ==
  CASE turns[i].ig -> "none"
    [] ~turns[i].ig /\ OverBudget(i) -> "budget_exhausted"
    [] ~turns[i].ig /\ ~OverBudget(i) /\ turns[i].invalid -> "protocol_invalid"
    [] OTHER -> "retriever_not_executed"
MicaFacts(i) ==
  [peers |-> IF turns[i].ig THEN Cardinality(Peers(i)) ELSE 0,
   singleton |-> turns[i].ig /\ Peers(i) = {"this"},
   missing |-> MissingReason(i)]
MicaRefuses ==
  \/ DOMAIN gain # IgSearches
  \/ \E i \in DOMAIN gain : Cardinality(Peers(i)) > 1 /\ MicaLocal(i) # Normalized[i]

(* build_role_localized_trajectory_credits; gates count quarters            *)
MainBranches == {"n_soft", "normal"}
DecisionGate(i) ==
  CASE turns[i].branch = "n_budget" -> -4
    [] turns[i].branch \in {"n_invalid", "s_before"} -> -2
    [] OTHER -> 0
(* Defect: the gain of a repeated query is not looked at.                   *)
SoftDuplicateWhateverGain(i) ==
  /\ turns[i].branch = "n_soft" /\ turns[i].repeated
  /\ turns[i].new = {}
SoftDuplicate(i) ==
  /\ turns[i].branch = "n_soft" /\ turns[i].repeated
  /\ turns[i].new = {} /\ gain[i] <= 0
QueryGate(i) ==
  CASE turns[i].branch = "n_invalid" /\ turns[i].spans.query # {} -> -2
    [] SoftDuplicate(i) -> -1
    [] OTHER -> 0
(* Defect: gains are accumulated past a search that was not needed.         *)
GateValuesPastAnswer(i) ==
  {j \in i..LastSearch : turns[j].branch \in MainBranches}
GateValues(i) ==
  {j \in i..LastSearch :
     /\ Reaches(i, j, {k \in DOMAIN turns : turns[k].branch = "s_before"})
     /\ turns[j].branch \in MainBranches}
GateCredit(i) ==
  [main |-> IF turns[i].branch \in MainBranches THEN Accumulated(GateValues(i), i)
            ELSE Nothing,
   decision |-> DecisionGate(i), query |-> QueryGate(i)]

Overlaps(c) == SignOf(c.main) # 0 /\ (c.decision # 0 \/ c.query # 0)
GateRefuses ==
  \E i \in All :
    LET r == turns[i]
        c == GateCredit(i)
    IN  \/ ~r.localized \/ r.branch # BranchAfter(r, before[i].sufficient)
        \/ r.main # (r.branch \in MainBranches)
        \/ (r.branch \in MainBranches) # (i \in DOMAIN after)
        \/ /\ r.branch \in MainBranches
           /\ \/ GateValues(i) = {}
              \/ \E j \in GateValues(i) :
                   ~(turns[j].credit /\ turns[j].main /\ j \in DOMAIN gain)
        \/ Overlaps(c) /\ ~(r.branch = "n_soft" /\ c.decision = 0 /\ c.query = -1)
        \/ c.query # 0 /\ r.spans.query = {}

CreditOf(i) ==
  CASE mode = "novelty" -> NoveltyCredit(i)
    [] mode = "routed" -> RoutedCredit(i)
    [] mode = "mica" -> MicaCredit(i)
    [] mode = "consensus" -> ConsensusCredit(i)
    [] mode = "gate" -> GateCredit(i)
CreditRefuses ==
  \/ mode = "novelty" /\ \E i \in All : turns[i].noNew = "unknown"
  \/ mode = "routed" /\ RoutedRefuses
  \/ mode = "mica" /\ MicaRefuses
  \/ mode = "gate" /\ GateRefuses
-----------------------------------------------------------------------------
(* The learner batch                                                        *)

ModelPositions == {p \in DOMAIN tokens : tokens[p].source = "model"}  \* policy_mask
OptimizedTurns ==
  {turns[i].index : i \in All}
  \cup IF Terminal = {} THEN {} ELSE {turns[Max(Terminal)].index}

DecisionMask(c) ==
  UNION {turns[i].spans.decision : i \in {j \in DOMAIN c : c[j].decision # 0}}
QueryMask(c) ==
  UNION {turns[i].spans.query : i \in {j \in DOMAIN c : c[j].query # 0}}

(* prepare_selected_trajectories                                            *)
BatchRefuses(c) ==
  \/ \E i \in DOMAIN c :
       \/ c[i].decision # 0 /\ turns[i].spans.decision = {}
       \/ c[i].query # 0 /\ turns[i].spans.query = {}
  \/ ~(DecisionMask(c) \cup QueryMask(c) \subseteq ModelPositions)
  \/ DecisionMask(c) \cap QueryMask(c) # {}
-----------------------------------------------------------------------------
(* The adapter calculates the credit again, walking forward from a search   *)
(* to the last one whose gain it may count, and compares.                   *)

LastCounted(i, stops) ==
  Min({LastSearch}
      \cup {k - 1 : k \in stops \cap i..LastSearch}
      \cup {k \in i..LastSearch : SufficientAfter(k)})

(* _validate_sufficiency_novelty_search_advantages                          *)
NoveltyReview(i) ==
  LET hat == IF i \in DOMAIN gain THEN Normalized[i] ELSE 0
      denied == before[i].sufficient \/ turns[i].noNew = "none"
  IN  MainOnly(IF denied THEN Penalty ELSE Credit(hat, 1, 0))

(* _validate_probe_routed_search_advantages                                 *)
RoutedReview(i) ==
  LET counted == {j \in i..LastCounted(i, SufficientBefore) :
                    turns[j].ig /\ turns[j].noNew # "none"}
      denied == before[i].sufficient \/ turns[i].noNew = "none"
  IN  MainOnly(IF denied THEN Penalty ELSE Accumulated(counted, i))

(* _validate_role_localized_gate_search_advantages, which classifies again  *)
(* too; the last thing it refuses is a gain of a search out of budget, in   *)
(* its safety counters.                                                     *)
ReviewedBranch(k) == BranchAfter(turns[k], before[k].sufficient)
GateCounted(i) ==
  {j \in i..LastCounted(i, {k \in i..LastSearch : ReviewedBranch(k) = "s_before"}) :
     ReviewedBranch(j) \in MainBranches}
GateReviewRefuses ==
  \E i \in All :
    LET branch == ReviewedBranch(i)
    IN  \/ branch # turns[i].branch
        \/ (branch \in MainBranches) # (i \in DOMAIN after)
        \/ /\ branch \in MainBranches
           /\ \/ GateCounted(i) = {}
              \/ \E j \in GateCounted(i) :
                   ~(turns[j].credit /\ turns[j].ig /\ turns[j].main /\ j \in DOMAIN gain)
        \/ branch = "n_budget" /\ i \in DOMAIN gain
GateReview(i) ==
  LET r == turns[i]
      branch == ReviewedBranch(i)
      duplicate == /\ branch = "n_soft" /\ r.repeated
                   /\ r.new = {} /\ gain[i] <= 0
  IN  [main |-> IF branch \in MainBranches THEN Accumulated(GateCounted(i), i) ELSE Nothing,
       decision |-> CASE branch = "n_budget" -> -4
                      [] branch \in {"n_invalid", "s_before"} -> -2
                      [] OTHER -> 0,
       query |-> IF branch = "n_invalid" /\ r.spans.query # {} THEN -2
                 ELSE IF duplicate THEN -1 ELSE 0]

(* _validate_mica_search_advantages: no probe ran, no gate is open, no       *)
(* token but the model's is trained; and the facts of each depth.           *)
MicaReviewRefuses(c) ==
  \/ before # NoResults \/ after # NoResults
  \/ DecisionMask(c) \cup QueryMask(c) # {}
  \/ ~(PolicyCredit \subseteq ModelPositions)
  \/ DOMAIN c # {i \in All : turns[i].credit}
  \/ \E i \in DOMAIN c :
       LET facts == MicaFacts(i)
       IN  IF turns[i].ig
           THEN \/ Peers(i) = {} \/ facts.peers # Cardinality(Peers(i))
                \/ facts.singleton # (Cardinality(Peers(i)) = 1)
           ELSE i \in DOMAIN gain \/ facts.peers # 0 \/ facts.missing = "none"
MicaReview(i) ==
  LET returns == Sign(Return(gain, i) - Return(peer, i))
  IN  MainOnly(IF ~turns[i].ig THEN Nothing
               ELSE IF i \in DOMAIN peer THEN Credit(Normalized[i] + returns, 4, 0)
               ELSE Credit(0, 1, outcome))

(* _validate_and_record_search_advantage_components only adds the same two  *)
(* components up again.                                                     *)
ConsensusReview(i) == ConsensusCredit(i)

ReviewRefuses(c) ==
  \/ mode = "mica" /\ MicaReviewRefuses(c)
  \/ mode = "gate" /\ GateReviewRefuses
  \/ \E i \in All :
       c[i] # CASE mode = "novelty" -> NoveltyReview(i)
                [] mode = "routed" -> RoutedReview(i)
                [] mode = "gate" -> GateReview(i)
                [] mode = "mica" -> MicaReview(i)
                [] mode = "consensus" -> ConsensusReview(i)

(* strict_backward_microbatch and compute_turn_ratios                       *)
WorkerRefuses(c) ==
  \/ ModelPositions = {}
  \/ {tokens[p].turn : p \in ModelPositions} # OptimizedTurns
  \/ \E i \in DOMAIN c :
       /\ SignOf(c[i].main) # 0
       /\ c[i].decision # 0 \/ c[i].query \notin {0, -1}

(* selected_microbatches, up to the worker's backward pass                  *)
AssignCredit ==
  /\ stage = "assign"
  /\ LET c == [i \in All |-> CreditOf(i)]
     IN  /\ credit' = c
         /\ stage' = IF CreditRefuses \/ BatchRefuses(c) \/ ReviewRefuses(c) \/ WorkerRefuses(c)
                       THEN "refused" ELSE "trained"
  /\ UNCHANGED <<vars, mode, gain, peer, outcome, before, after>>
-----------------------------------------------------------------------------
CreditNext ==
  \/ Rollout \/ Select \/ ScoreGains
  \/ SufficiencyProbe \/ PreProbe \/ PostProbe \/ StopProbe
  \/ AssignCredit

CreditSpec == CreditInit /\ [][CreditNext]_allVars
-----------------------------------------------------------------------------
(* Properties                                                               *)

(* Two independent calculations, two plans of probes and the checks of four *)
(* layers agree about every trajectory that rollout and selection let       *)
(* through: none of their raises, each of which would end the attempt after *)
(* all its generation and scoring, ever fires.                              *)
CreditIsNeverRefused == stage # "refused"

Credited == stage \in {"trained", "refused"} /\ DOMAIN credit = All

(* A positive main credit has been earned: the search was executed and      *)
(* observed when its answer was not known yet, and then a gain above the    *)
(* peer's was reached from it without passing a sufficient state, or the    *)
(* outcome was good and the probe's reward rose across it, or the whole     *)
(* trajectory beat both answers it could have stopped with.  A negative one *)
(* was deserved in the same sense, or by a search that was not needed or    *)
(* found nothing new.  The mode that compares depth by depth credits only    *)
(* what beat, or lost to, the peer from there on, and the outcome only where *)
(* there is no peer.  It holds of the calculation, whatever its checks say.  *)
KnownBefore(k) == mode # "consensus" /\ before[k].sufficient
EarnedAt(i, sign) ==
  \/ mode = "consensus" /\ StopContinue(i) = sign
  \/ \E j \in i..LastSearch :
       /\ turns[j].prefixValid
       /\ j \in DOMAIN peer /\ Sign(gain[j] - peer[j]) = sign
       /\ \A k \in i..j : ~KnownBefore(k)
       /\ \A k \in i..j - 1 : ~SufficientAfter(k)
  \/ /\ i \in DOMAIN after /\ Sign(outcome) = sign
     /\ Sign(after[i].reward - before[i].reward) = sign
GainAt(g, j) == IF j \in DOMAIN g THEN g[j] ELSE 0
EarnedAgainstPeer(i, sign) ==
  IF i \in DOMAIN peer
    THEN \E j \in i..MaxSearchTurns : Sign(GainAt(gain, j) - GainAt(peer, j)) = sign
    ELSE Sign(outcome) = sign
CreditIsEarned ==
  Credited =>
    \A i \in All :
      LET sign == SignOf(credit[i].main)
          wasted == KnownBefore(i) \/ turns[i].noNew = "none"
      IN  IF mode = "mica"
          THEN sign # 0 => turns[i].prefixValid /\ EarnedAgainstPeer(i, sign)
          ELSE /\ sign = 1 => EarnedAt(i, 1) /\ (mode # "consensus" => turns[i].prefixValid)
               /\ sign = -1 => EarnedAt(i, -1) \/ (mode # "gate" /\ wasted)

(* The gates pull down what they are about and nothing else: no token of a  *)
(* thought or an observation, the decision of a search only when it could   *)
(* not help, and the query of an executed one only when an earlier search   *)
(* asked it, it found nothing new and its gain was not positive.            *)
GatesKeepToTheirRole ==
  Credited /\ mode = "gate" =>
    /\ \A i \in All :
         (turns[i].observation \cup (turns[i].spans.think \ NoThink))
           \cap (DecisionMask(credit) \cup QueryMask(credit)) = {}
    /\ \A i \in All :
         LET r == turns[i]
         IN  /\ r.spans.decision \cap DecisionMask(credit) # {} =>
                  r.budget \/ r.invalid \/ before[i].sufficient
             /\ r.executed /\ r.spans.query \cap QueryMask(credit) # {} =>
                  /\ \E j \in 1..i - 1 : turns[j].text = r.text
                  /\ r.current \subseteq UNION {turns[j].current : j \in 1..i - 1}
                  /\ gain[i] <= 0
=============================================================================
