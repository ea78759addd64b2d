----------------------------- MODULE RankWorkProofs ----------------------------
(***************************************************************************)
(* Theorems about the ranks' work, for every workload and every size.      *)
(*                                                                         *)
(* A packed task scores what the sequential oracle scores.  Place maps the *)
(* rows of the oracle's forward for one prefix to rows of the packed       *)
(* sequence.  It keeps tokens and position ids, and it maps what a row of  *)
(* the oracle sees onto what its image sees; so the contexts are equal. It *)
(* needs that the segments do not overlap, and that no answer begins with  *)
(* the first token of its segment: the row before it is another copy's.    *)
(*                                                                         *)
(* Four invariants of the run follow.  CalibrationInv: counters stay zero  *)
(* in a calibration, and a rank is clean but inside a profile.  ScoreInv:  *)
(* a rank that answered has run its share of the dispatch; the shares have *)
(* all tasks, the batches of a share have each of its tasks once, within   *)
(* the budgets.  CauseInv: without a fault every rank is where the driver  *)
(* takes it to be, so that it refuses nothing and no rank is left waiting. *)
(* WeighInv: a rank's gradient is what of its share the finished rounds    *)
(* have sent; the shares of all ranks have every trajectory once.          *)
(***************************************************************************)
EXTENDS RankWork, DataInduction, TLAPS

Place(t, k, row) ==
  IF row <= t.endpoints[k] THEN row ELSE SegmentStart(t, k) + (row - t.endpoints[k])

LEMMA LengthTypes ==
  ASSUME NEW t, IsTask(t), NEW k \in PrefixesOf(t)
  PROVE  /\ k \in Nat \ {0}
         /\ TargetLength(t, k) \in Nat \ {0}
         /\ SegmentStart(t, k) \in Nat
         /\ t.original <= SegmentStart(t, k)
         /\ t.endpoints[k] \in Nat \ {0}
         /\ t.endpoints[k] <= t.original
<1> DEFINE P == Len(t.prior.offsets)
           R == Len(t.retrieved.offsets)
<1>1. k \in Nat \ {0} /\ t.endpoints[k] \in Nat \ {0} /\ t.endpoints[k] <= t.original
  BY DEF IsTask, PrefixesOf
<1>2. P \in Nat \ {0} /\ R \in Nat \ {0} /\ t.original \in Nat
  BY DEF IsTask
<1>3. TargetLength(t, 1) = P /\ TargetLength(t, 2) = R
  BY DEF TargetLength, Target
<1>4. TargetLength(t, k) \in Nat \ {0}
  BY <1>1, <1>2 DEF TargetLength, Target
<1> HIDE DEF P, R
<1>5. CASE k = 1
  BY <1>1, <1>2, <1>4, <1>5 DEF SegmentStart
<1>6. CASE k # 1
  <2>1. k - 2 \in Nat
    BY <1>1, <1>6
  <2>2. (k - 2) * R \in Nat
    BY <1>2, <2>1
  <2> QED
    BY <1>1, <1>2, <1>3, <1>4, <1>6, <2>2 DEF SegmentStart
<1> QED
  BY <1>5, <1>6

(* The cursor only moves on: a copy ends before the next ones start.        *)
LEMMA SegmentsOrdered ==
  ASSUME NEW t, IsTask(t), NEW j \in PrefixesOf(t), NEW k \in PrefixesOf(t), j < k
  PROVE  SegmentStart(t, j) + TargetLength(t, j) <= SegmentStart(t, k)
<1> DEFINE P == Len(t.prior.offsets)
           R == Len(t.retrieved.offsets)
<1>1. j \in Nat \ {0} /\ k \in Nat \ {0}
  BY LengthTypes
<1>2. P \in Nat \ {0} /\ R \in Nat \ {0} /\ t.original \in Nat
  BY DEF IsTask
<1>3. TargetLength(t, 1) = P /\ TargetLength(t, 2) = R
  BY DEF TargetLength, Target
<1>4. TargetLength(t, j) = IF j = 1 THEN P ELSE R
  BY DEF TargetLength, Target
<1> HIDE DEF P, R
<1>5. SegmentStart(t, k) = t.original + P + (k - 2) * R
  <2>1. k # 1
    BY <1>1
  <2> QED
    BY <1>1, <1>2, <1>3, <2>1 DEF SegmentStart
<1>6. CASE j = 1
  <2>1. k - 2 \in Nat
    BY <1>1, <1>6
  <2>2. (k - 2) * R \in Nat
    BY <1>2, <2>1
  <2> QED
    BY <1>1, <1>2, <1>4, <1>5, <1>6, <2>2 DEF SegmentStart
<1>7. CASE j # 1
  <2>1. SegmentStart(t, j) = t.original + P + (j - 2) * R
    BY <1>1, <1>2, <1>3, <1>7 DEF SegmentStart
  <2>2. PICK d \in Nat : k = j + 1 + d
    <3>1. k - j - 1 \in Nat /\ k = j + 1 + (k - j - 1)
      BY <1>1
    <3> QED
      BY <3>1
  <2>3. (k - 2) * R = (j - 2) * R + R + d * R
    <3>1. k - 2 = (j - 2) + 1 + d
      BY <1>1, <2>2
    <3>2. \A a, b, c \in Int : (a + 1 + b) * c = a * c + c + b * c
      OBVIOUS
    <3>3. j - 2 \in Int /\ d \in Int /\ R \in Int
      BY <1>1, <1>2, <2>2
    <3> QED
      BY <3>1, <3>2, <3>3
  <2>4. d * R \in Nat /\ (j - 2) * R \in Int
    BY <1>1, <1>2, <2>2
  <2> QED
    BY <1>2, <1>4, <1>5, <1>7, <2>1, <2>3, <2>4
<1> QED
  BY <1>6, <1>7

LEMMA OwnSegment ==
  ASSUME NEW t, IsTask(t), NEW k \in PrefixesOf(t), NEW a \in 1 .. TargetLength(t, k)
  PROVE  /\ SegmentOf(t, SegmentStart(t, k) + a) = k
         /\ SegmentStart(t, k) + a > t.original
<1> DEFINE p == SegmentStart(t, k) + a
<1>1. InSegment(t, k, p)
  BY LengthTypes DEF InSegment
<1>2. ASSUME NEW j \in PrefixesOf(t), InSegment(t, j, p)
      PROVE  j = k
  <2>1. ~ (j < k)
    <3>1. SUFFICES ASSUME j < k PROVE FALSE
      OBVIOUS
    <3>2. SegmentStart(t, j) + TargetLength(t, j) <= SegmentStart(t, k)
      BY <3>1, SegmentsOrdered
    <3> QED
      BY <1>1, <1>2, <3>2, LengthTypes DEF InSegment
  <2>2. ~ (k < j)
    <3>1. SUFFICES ASSUME k < j PROVE FALSE
      OBVIOUS
    <3>2. SegmentStart(t, k) + TargetLength(t, k) <= SegmentStart(t, j)
      BY <3>1, SegmentsOrdered
    <3> QED
      BY <1>1, <1>2, <3>2, LengthTypes DEF InSegment
  <2>3. j \in Nat /\ k \in Nat
    BY LengthTypes
  <2> QED
    BY <2>1, <2>2, <2>3
<1> HIDE DEF p
<1>3. SegmentOf(t, p) = k
  BY <1>1, <1>2 DEF SegmentOf
<1>4. p > t.original
  BY LengthTypes DEF p, IsTask
<1> QED
  BY <1>3, <1>4 DEF p

(* The image of a row: its token, its position id and what it sees.         *)
LEMMA PlaceKeepsRow ==
  ASSUME NEW t, IsTask(t), NEW k \in PrefixesOf(t),
         NEW row \in 1 .. t.endpoints[k] + TargetLength(t, k)
  PROVE  /\ PackedAt(t, Place(t, k, row)) = OracleAt(t, k, row)
         /\ StructuralMask(t, Place(t, k, row)) = {Place(t, k, q) : q \in 1 .. row}
<1> DEFINE e == t.endpoints[k]
           s == SegmentStart(t, k)
<1>1. /\ e \in Nat \ {0} /\ s \in Nat /\ t.original \in Nat
      /\ e <= t.original /\ t.original <= s
      /\ TargetLength(t, k) \in Nat
  BY LengthTypes DEF IsTask
<1>2. CASE row <= e
  <2>1. Place(t, k, row) = row /\ row <= t.original
    BY <1>1, <1>2 DEF Place
  <2>2. PackedAt(t, row) = OracleAt(t, k, row)
    BY <1>2, <2>1 DEF PackedAt, OracleAt, PackedToken, LogicalPosition
  <2>3. \A q \in 1 .. row : Place(t, k, q) = q
    BY <1>1, <1>2 DEF Place
  <2>4. StructuralMask(t, row) = 1 .. row
    BY <2>1 DEF StructuralMask
  <2> QED
    BY <2>1, <2>2, <2>3, <2>4
<1>3. CASE row > e
  <2> DEFINE a == row - e
  <2>1. a \in 1 .. TargetLength(t, k) /\ row = e + a /\ a \in Nat \ {0}
    BY <1>1, <1>3
  <2>2. Place(t, k, row) = s + a
    BY <1>1, <1>3 DEF Place
  <2>3. SegmentOf(t, s + a) = k /\ s + a > t.original
    BY <2>1, OwnSegment
  <2>4. PackedAt(t, s + a) = OracleAt(t, k, row)
    <3>1. s + a - s = a
      BY <1>1, <2>1
    <3>2. PackedToken(t, s + a) = TargetToken(k, a)
      BY <1>1, <2>1, <2>3, <3>1 DEF PackedToken
    <3>3. LogicalPosition(t, s + a) = row - 1
      BY <1>1, <2>1, <2>3, <3>1 DEF LogicalPosition
    <3>4. OracleAt(t, k, row) = <<TargetToken(k, a), row - 1>>
      BY <1>1, <1>3 DEF OracleAt
    <3> QED
      BY <3>2, <3>3, <3>4 DEF PackedAt
  <2>5. StructuralMask(t, s + a) = 1 .. e \cup s + 1 .. s + a
    BY <1>1, <2>1, <2>3 DEF StructuralMask
  <2>6. \A x : x \in 1 .. e \cup s + 1 .. s + a <=> \E q \in 1 .. row : x = Place(t, k, q)
    <3>1. ASSUME NEW x \in 1 .. e PROVE x \in 1 .. row /\ x = Place(t, k, x)
      BY <1>1, <1>3, <3>1 DEF Place
    <3>2. ASSUME NEW x \in s + 1 .. s + a
          PROVE  e + (x - s) \in 1 .. row /\ x = Place(t, k, e + (x - s))
      BY <1>1, <2>1, <3>2 DEF Place
    <3>3. ASSUME NEW q \in 1 .. row PROVE Place(t, k, q) \in 1 .. e \cup s + 1 .. s + a
      BY <1>1, <2>1, <3>3 DEF Place
    <3> QED
      BY <3>1, <3>2, <3>3
  <2> QED
    BY <2>2, <2>4, <2>5, <2>6
<1> QED
  BY <1>1, <1>2, <1>3

(* What a row of a copy sees is what the oracle's row sees.                 *)
LEMMA ContextsAgree ==
  ASSUME NEW t, IsTask(t), NEW k \in PrefixesOf(t),
         NEW row \in 1 .. t.endpoints[k] + TargetLength(t, k)
  PROVE  PackedContext(t, Place(t, k, row)) = OracleContext(t, k, row)
<1>1. ASSUME NEW p \in 1 .. row
      PROVE  /\ p \in 1 .. t.endpoints[k] + TargetLength(t, k)
             /\ PackedAt(t, Place(t, k, p)) = OracleAt(t, k, p)
             /\ StructuralMask(t, Place(t, k, p)) = {Place(t, k, q) : q \in 1 .. p}
             /\ \A q \in 1 .. p : PackedAt(t, Place(t, k, q)) = OracleAt(t, k, q)
  <2>1. p \in 1 .. t.endpoints[k] + TargetLength(t, k)
    BY LengthTypes
  <2>2. \A q \in 1 .. p : q \in 1 .. t.endpoints[k] + TargetLength(t, k)
    BY <2>1, LengthTypes
  <2> QED
    BY <2>1, <2>2, PlaceKeepsRow
<1>2. ASSUME NEW p \in 1 .. row
      PROVE  {PackedAt(t, q) : q \in StructuralMask(t, Place(t, k, p))}
               = {OracleAt(t, k, q) : q \in 1 .. p}
  BY <1>1
<1>3. StructuralMask(t, Place(t, k, row)) = {Place(t, k, p) : p \in 1 .. row}
  BY PlaceKeepsRow
<1> QED
  BY <1>1, <1>2, <1>3 DEF PackedContext, OracleContext

(* A fast task that the builder accepts has the scores of the sequential    *)
(* oracle, whatever its lengths: packing all prefixes into one forward      *)
(* changes no number that the reward is made of.                            *)
THEOREM FastIsOracle ==
  ASSUME NEW t, IsTask(t), ~ BuildRefuses(t), ~ Sequential(t)
  PROVE  FastScores(t) = OracleScores(t)
<1>1. ASSUME NEW k \in PrefixesOf(t), NEW a \in AnswerTokens(Target(t, k))
      PROVE  PackedContext(t, SegmentStart(t, k) + a - 1)
               = OracleContext(t, k, t.endpoints[k] + a - 1)
  <2>1. a \in 1 .. TargetLength(t, k)
    BY DEF AnswerTokens, TargetLength, Target, IsTask
  <2>2. a # 1
    BY DEF BuildRefuses
  <2> DEFINE row == t.endpoints[k] + a - 1
  <2>3. /\ row \in 1 .. t.endpoints[k] + TargetLength(t, k)
        /\ Place(t, k, row) = SegmentStart(t, k) + a - 1
    BY <2>1, <2>2, LengthTypes DEF Place
  <2> QED
    BY <2>3, ContextsAgree
<1>2. ASSUME NEW k \in PrefixesOf(t)
      PROVE  FastScore(t, k) = OracleScore(t, k)
  BY <1>1 DEF FastScore, OracleScore
<1> QED
  BY <1>2 DEF FastScores, OracleScores

(* IGPO's loop over the offsets finds the tokens that share a character     *)
(* with the answer, also where a token crosses one of its borders.          *)
THEOREM AnswerTokensCover ==
  ASSUME NEW target, IsTarget(target)
  PROVE  AnswerTokens(target) = {a \in DOMAIN target.offsets : Covers(target, a)}
<1>1. ASSUME NEW a \in AnswerTokens(target)
      PROVE  a \in DOMAIN target.offsets /\ Covers(target, a)
  <2>1. a \in DOMAIN target.offsets
    BY DEF AnswerTokens
  <2>2. PICK b \in 1 .. a : target.offsets[b].end > target.from
    BY DEF AnswerTokens
  <2>3. target.offsets[a].end > target.from
    BY <2>1, <2>2 DEF IsTarget
  <2>4. PICK c \in a .. Len(target.offsets) : target.offsets[c].begin < target.to
    <3>1. PICK d \in DOMAIN target.offsets : Covers(target, d)
      BY DEF IsTarget
    <3>2. target.offsets[d].begin < target.to /\ target.offsets[d].end > 0
      BY <3>1 DEF Covers, IsTarget
    <3> QED
      BY <3>2 DEF AnswerTokens
  <2>5. target.offsets[a].begin < target.to
    BY <2>1, <2>4 DEF IsTarget
  <2> QED
    BY <2>1, <2>3, <2>5 DEF Covers
<1>2. ASSUME NEW a \in DOMAIN target.offsets, Covers(target, a)
      PROVE  a \in AnswerTokens(target)
  <2>1. a \in 1 .. a /\ a \in a .. Len(target.offsets)
    BY DEF IsTarget
  <2>2. target.offsets[a].end > 0
    BY <1>2 DEF Covers, IsTarget
  <2> QED
    BY <1>2, <2>1, <2>2 DEF AnswerTokens, Covers
<1> QED
  BY <1>1, <1>2
----------------------------------------------------------------------------
(* The calibration leaves nothing behind.                                   *)
Clean(r) == grads[r] = <<>> /\ profile[r] = NoProfile

(* Calls during which no profile is open.                                   *)
Quiet == {"collect", "score", "pack", "materialize", "calibrate", "publish", "done"}

(* What holds of a rank in a calibration.  The counters stay at zero        *)
(* because a backward only passes its refusal while a channel is open; the  *)
(* rank is clean when it has answered finish_profile or an abort, and the   *)
(* driver leaves the profile by one of the two.                             *)
LeavesNothing(r) ==
  /\ zeroed[r] = 0 /\ backward[r] = 0
  /\ call \in Quiet => Clean(r)
  /\ call = "finish_profile" /\ phase[r] = "answered" => Clean(r)
  /\ phase[r] = "aborted" => Clean(r)
  /\ call = "backward" /\ phase[r] \in {"waiting", "local"} => profile[r].channel # "none"

Phases == {"called", "waiting", "local", "answered", "raised", "dead", "aborted"}

CalibrationInv ==
  /\ stage \in Stages
  /\ phase \in [Ranks -> Phases]
  /\ \A x \in {grads, zeroed, backward, profile} : x = [r \in Ranks |-> x[r]]
  /\ stage = "calibrate" =>
       /\ call # "zero_grad"
       /\ \A r \in Ranks : LeavesNothing(r)

LEMMA CalibrationInit == Init => CalibrationInv
BY DEF Init, CalibrationInv, LeavesNothing, Phases, Clean, Quiet

(* Every call starts a new phase on every rank.                             *)
LEMMA SendPhases ==
  ASSUME NEW name, Send(name)
  PROVE  /\ call' = name
         /\ phase' = [r \in Ranks |-> "called"]
BY DEF Send

(* The driver leaves the gradients, profiles and counts to the ranks.       *)
LEMMA DriverLeavesRanks ==
  ASSUME Drive \/ Skip
  PROVE  UNCHANGED <<stage, grads, zeroed, backward, profile>>
<1>1. CASE TakeBatch
  BY <1>1 DEF TakeBatch
<1>2. CASE ScoresArrive
  BY <1>2 DEF ScoresArrive, rankVars
<1>3. CASE PackRounds
  BY <1>3 DEF PackRounds, rankVars
<1>4. CASE NextRound \/ AfterMaterialize \/ AfterZeroGrad \/ AfterBeginProfile \/ AfterBackward
           \/ AfterFinishChannel \/ AfterFinishProfile \/ Calibrate
  BY <1>4 DEF NextRound, AfterMaterialize, AfterZeroGrad, AfterBeginProfile, AfterBackward,
              AfterFinishChannel, AfterFinishProfile, Calibrate, RestUnchanged, rankVars
<1>5. CASE WriteManifest \/ CallRaises \/ AbortEnds
  BY <1>5 DEF WriteManifest, CallRaises, AbortEnds, rankVars
<1>6. CASE Skip
  BY <1>6 DEF Skip, SkipBatch, rankVars
<1>. QED
  BY <1>1, <1>2, <1>3, <1>4, <1>5, <1>6 DEF Drive

(* The driver calls a rank, and from then on it waits for its answer.       *)
LEMMA DriverPhases ==
  ASSUME Drive \/ Skip
  PROVE  phase' = phase \/ phase' = [r \in Ranks |-> "called"]
<1>1. CASE TakeBatch
  BY <1>1 DEF TakeBatch, Send
<1>2. CASE ScoresArrive \/ WriteManifest \/ CallRaises \/ AbortEnds
  BY <1>2 DEF ScoresArrive, WriteManifest, CallRaises, AbortEnds
<1>3. CASE PackRounds \/ NextRound \/ AfterMaterialize \/ AfterZeroGrad \/ AfterBeginProfile
  BY <1>3 DEF PackRounds, NextRound, AfterMaterialize, AfterZeroGrad, AfterBeginProfile, Send
<1>4. CASE AfterBackward \/ AfterFinishChannel \/ AfterFinishProfile \/ Calibrate
  BY <1>4 DEF AfterBackward, AfterFinishChannel, AfterFinishProfile, Calibrate, Send
<1>5. CASE Skip
  BY <1>5 DEF Skip, SkipBatch
<1>. QED
  BY <1>1, <1>2, <1>3, <1>4, <1>5 DEF Drive

(* Where the driver goes: to a quiet call only from one, or from            *)
(* finish_profile once every rank has answered it.                          *)
LEMMA DriverCalls ==
  ASSUME Drive \/ Skip, stage = "calibrate", stage \in Stages, call # "zero_grad"
  PROVE  /\ call' # "zero_grad"
         /\ call' \in Quiet => call \in Quiet \/ AllAnswered("finish_profile")
         /\ call' = call \/ call' = "raised" \/ call' \in Quiet
              \/ phase' = [r \in Ranks |-> "called"]
<1>1. CASE TakeBatch
  BY <1>1 DEF TakeBatch, Send, Quiet
<1>2. CASE ScoresArrive \/ WriteManifest \/ CallRaises \/ AbortEnds
  BY <1>2 DEF ScoresArrive, WriteManifest, CallRaises, AbortEnds, AllAnswered, Quiet
<1>3. CASE PackRounds
  BY <1>3 DEF PackRounds, Send, Quiet
<1>4. CASE NextRound
  BY <1>4 DEF NextRound, Send, AllAnswered, Quiet
<1>5. CASE AfterMaterialize
  BY <1>5 DEF AfterMaterialize, Send, AllAnswered, Quiet
<1>6. CASE AfterZeroGrad \/ AfterBeginProfile
  BY <1>6 DEF AfterZeroGrad, AfterBeginProfile, Send, AllAnswered, Quiet
<1>7. CASE AfterBackward
  BY <1>7 DEF AfterBackward, Send, Quiet
<1>8. CASE AfterFinishChannel
  BY <1>8 DEF AfterFinishChannel, Send, Quiet
<1>9. CASE AfterFinishProfile \/ Calibrate
  BY <1>9 DEF AfterFinishProfile, Calibrate, Quiet
<1>10. CASE Skip
  BY <1>10 DEF Skip, SkipBatch
<1>. QED
  BY <1>1, <1>2, <1>3, <1>4, <1>5, <1>6, <1>7, <1>8, <1>9, <1>10 DEF Drive

LEMMA CalibrationDriver ==
  ASSUME CalibrationInv, Drive \/ Skip
  PROVE  CalibrationInv'
<1>1. UNCHANGED <<stage, grads, zeroed, backward, profile>>
  BY DriverLeavesRanks
<1>2. phase' = phase \/ phase' = [r \in Ranks |-> "called"]
  BY DriverPhases
<1>3. stage = "calibrate" =>
        /\ call' # "zero_grad"
        /\ call' \in Quiet => call \in Quiet \/ AllAnswered("finish_profile")
        /\ call' = call \/ call' = "raised" \/ call' \in Quiet
             \/ phase' = [r \in Ranks |-> "called"]
  BY DriverCalls DEF CalibrationInv
<1>4. (phase \in [Ranks -> Phases])'
  BY <1>2 DEF CalibrationInv, Ranks, Phases
<1>5. (\A x \in {grads, zeroed, backward, profile} : x = [r \in Ranks |-> x[r]])'
  BY <1>1 DEF CalibrationInv, Ranks
<1>6. ASSUME stage = "calibrate", NEW r \in Ranks
      PROVE  LeavesNothing(r)'
  BY <1>1, <1>2, <1>3, <1>6 DEF CalibrationInv, LeavesNothing, Clean, Quiet, AllAnswered
<1>. QED
  BY <1>1, <1>3, <1>4, <1>5, <1>6 DEF CalibrationInv, Ranks

(* A step of a rank changes what is its own.                                *)
OwnStep(r) ==
  /\ \E p \in Phases : phase' = [phase EXCEPT ![r] = p]
  /\ \E x : grads' = [grads EXCEPT ![r] = x]
  /\ \E x : profile' = [profile EXCEPT ![r] = x]
  /\ \E x : zeroed' = [zeroed EXCEPT ![r] = x]
  /\ \E x : backward' = [backward EXCEPT ![r] = x]
  /\ stage = "calibrate" => LeavesNothing(r)'

LEMMA CalibrationOwnStep ==
  ASSUME CalibrationInv, NEW r \in Ranks, RankStep(r) \/ Fault(r)
  PROVE  OwnStep(r) /\ stage' = stage /\ call' = call
<1>1. /\ stage' = stage /\ call' = call
      /\ phase \in [Ranks -> Phases]
      /\ grads = [q \in Ranks |-> grads[q]] /\ profile = [q \in Ranks |-> profile[q]]
      /\ zeroed = [q \in Ranks |-> zeroed[q]] /\ backward = [q \in Ranks |-> backward[q]]
  BY DEF CalibrationInv, RankStep, Meet, Leave, Watchdog, Fault, Score, Materialize, ZeroGrad,
         LossIsFinite, BackwardEnds, BeginProfile, BeginChannel, FinishChannel, FinishProfile,
         AbortProfile, Profiling, driverVars
<1>. SUFFICES OwnStep(r)
  BY <1>1
<1>2. stage = "calibrate" => call # "zero_grad" /\ LeavesNothing(r)
  BY DEF CalibrationInv
<1>3. /\ grads = [grads EXCEPT ![r] = grads[r]] /\ profile = [profile EXCEPT ![r] = profile[r]]
      /\ zeroed = [zeroed EXCEPT ![r] = zeroed[r]]
      /\ backward = [backward EXCEPT ![r] = backward[r]]
  BY <1>1
<1>4. CASE Meet(r)
  <2>1. call = "backward" /\ stage = "calibrate" /\ ~ Refuses(r) => profile[r].channel # "none"
    BY <1>2 DEF Refuses, LeavesNothing
  <2>2. UNCHANGED <<grads, profile, zeroed, backward>>
    BY <1>4 DEF Meet, rankVars
  <2>3. call \in {"score", "materialize", "backward", "finish_profile"}
    BY <1>4 DEF Meet
  <2>4. \/ Refuses(r) /\ phase' = [phase EXCEPT ![r] = "raised"]
        \/ ~ Refuses(r) /\ phase' = [phase EXCEPT ![r] = "waiting"]
    BY <1>4 DEF Meet, RaiseOn, Enter
  <2>. QED
    BY <1>1, <1>2, <1>3, <2>1, <2>2, <2>3, <2>4 DEF OwnStep, LeavesNothing, Phases, Clean, Quiet
<1>5. CASE Leave(r) \/ Watchdog(r) \/ Fault(r)
  <2>1. UNCHANGED <<grads, profile, zeroed, backward>>
    BY <1>5 DEF Leave, Watchdog, Fault, rankVars
  <2>2. \/ phase[r] = "waiting" /\ phase' = [phase EXCEPT ![r] = "local"]
        \/ phase' = [phase EXCEPT ![r] = "dead"]
        \/ phase' = [phase EXCEPT ![r] = "raised"]
    BY <1>5 DEF Leave, Watchdog, Fault, RaiseOn
  <2>. QED
    BY <1>1, <1>2, <1>3, <2>1, <2>2 DEF OwnStep, LeavesNothing, Phases, Clean, Quiet
<1>6. CASE Score(r) \/ Materialize(r)
  <2>1. UNCHANGED <<grads, profile, zeroed, backward>>
    BY <1>6 DEF Score, Materialize, rankVars
  <2>2. /\ call \in {"score", "materialize"}
        /\ \/ phase' = [phase EXCEPT ![r] = "answered"]
           \/ phase' = [phase EXCEPT ![r] = "raised"]
    BY <1>6 DEF Score, Materialize, Answer, RaiseOn
  <2>. QED
    BY <1>1, <1>2, <1>3, <2>1, <2>2 DEF OwnStep, LeavesNothing, Phases, Clean, Quiet
<1>7. CASE ZeroGrad(r)
  <2>1. UNCHANGED <<profile, backward>> /\ call = "zero_grad"
    BY <1>7 DEF ZeroGrad
  <2>2. /\ \E x : grads' = [grads EXCEPT ![r] = x]
        /\ \E x : zeroed' = [zeroed EXCEPT ![r] = x]
        /\ \E p \in Phases : phase' = [phase EXCEPT ![r] = p]
    BY <1>3, <1>7 DEF ZeroGrad, Answer, RaiseOn, Phases
  <2>. QED
    BY <1>1, <1>2, <1>3, <2>1, <2>2 DEF OwnStep
<1>8. CASE LossIsFinite(r)
  <2>1. UNCHANGED <<grads, profile, zeroed, backward>>
    BY <1>8 DEF LossIsFinite, rankVars
  <2>2. call = "backward" /\ phase[r] = "local" /\ phase' = [phase EXCEPT ![r] = "waiting"]
    BY <1>8 DEF LossIsFinite, Enter
  <2>. QED
    BY <1>1, <1>2, <1>3, <2>1, <2>2 DEF OwnStep, LeavesNothing, Phases, Clean, Quiet
<1>9. CASE BackwardEnds(r)
  <2>1. /\ UNCHANGED <<profile, zeroed>> /\ call = "backward" /\ phase[r] = "local"
        /\ phase' = [phase EXCEPT ![r] = "answered"]
        /\ grads' = [grads EXCEPT ![r] = @ \o Real(rounds[round][r])]
        /\ backward' = [backward EXCEPT ![r] = @ + (IF CountsBackward(r) THEN 1 ELSE 0)]
    BY <1>9 DEF BackwardEnds, Answer
  <2>2. stage = "calibrate" => backward' = [backward EXCEPT ![r] = 0]
    <3>1. stage = "calibrate" => ~ CountsBackward(r) /\ backward[r] = 0
      BY <1>2, <2>1 DEF CountsBackward, LeavesNothing
    <3>2. ~ CountsBackward(r) => backward' = [backward EXCEPT ![r] = backward[r] + 0]
      BY <2>1
    <3>. QED
      BY <3>1, <3>2
  <2>. QED
    BY <1>1, <1>2, <1>3, <2>1, <2>2 DEF OwnStep, LeavesNothing, Phases, Clean, Quiet
<1>10. CASE BeginProfile(r) \/ BeginChannel(r) \/ FinishChannel(r)
  <2>1. /\ UNCHANGED <<zeroed, backward>>
        /\ call \in {"begin_profile", "begin_channel", "finish_channel"}
        /\ \E x : grads' = [grads EXCEPT ![r] = x]
        /\ \E x : profile' = [profile EXCEPT ![r] = x]
        /\ \/ phase' = [phase EXCEPT ![r] = "answered"]
           \/ phase' = [phase EXCEPT ![r] = "raised"]
    BY <1>3, <1>10 DEF BeginProfile, BeginChannel, FinishChannel, Profiling, Answer, RaiseOn
  <2>. QED
    BY <1>1, <1>2, <1>3, <2>1 DEF OwnStep, LeavesNothing, Phases, Quiet
<1>11. CASE FinishProfile(r) \/ AbortProfile(r)
  <2>1. /\ UNCHANGED <<zeroed, backward>>
        /\ grads' = [grads EXCEPT ![r] = <<>>]
        /\ profile' = [profile EXCEPT ![r] = NoProfile]
        /\ phase' = [phase EXCEPT ![r] = "answered"] \/ phase' = [phase EXCEPT ![r] = "aborted"]
    BY <1>11 DEF FinishProfile, AbortProfile, Answer
  <2>. QED
    BY <1>1, <1>2, <1>3, <2>1 DEF OwnStep, LeavesNothing, Phases, Clean
<1>. QED
  BY <1>4, <1>5, <1>6, <1>7, <1>8, <1>9, <1>10, <1>11 DEF RankStep

LEMMA CalibrationRank ==
  ASSUME CalibrationInv, NEW r \in Ranks, RankStep(r) \/ Fault(r)
  PROVE  CalibrationInv'
<1>1. OwnStep(r) /\ stage' = stage /\ call' = call
  BY CalibrationOwnStep
<1>2. /\ phase \in [Ranks -> Phases]
      /\ grads = [q \in Ranks |-> grads[q]] /\ profile = [q \in Ranks |-> profile[q]]
      /\ zeroed = [q \in Ranks |-> zeroed[q]] /\ backward = [q \in Ranks |-> backward[q]]
  BY DEF CalibrationInv
<1>3. ASSUME NEW q \in Ranks, q # r
      PROVE  UNCHANGED <<phase[q], grads[q], profile[q], zeroed[q], backward[q]>>
  BY <1>1, <1>2, <1>3 DEF OwnStep
<1>4. stage = "calibrate" => \A q \in Ranks : LeavesNothing(q)'
  <2>1. SUFFICES ASSUME stage = "calibrate", NEW q \in Ranks, q # r
                 PROVE  LeavesNothing(q)'
    BY <1>1 DEF OwnStep
  <2>2. LeavesNothing(q)
    BY <2>1 DEF CalibrationInv
  <2>. QED
    BY <1>1, <1>3, <2>1, <2>2 DEF Clean, LeavesNothing
<1>5. phase' \in [Ranks -> Phases]
  BY <1>1, <1>2 DEF OwnStep
<1>6. (\A x \in {grads, zeroed, backward, profile} : x = [q \in Ranks |-> x[q]])'
  <2>1. /\ grads' = [q \in Ranks |-> grads'[q]] /\ profile' = [q \in Ranks |-> profile'[q]]
        /\ zeroed' = [q \in Ranks |-> zeroed'[q]] /\ backward' = [q \in Ranks |-> backward'[q]]
    BY <1>1, <1>2 DEF OwnStep
  <2>. QED
    BY <2>1 DEF Ranks
<1>. QED
  BY <1>1, <1>4, <1>5, <1>6 DEF CalibrationInv, Ranks, Phases

LEMMA CalibrationKept ==
  ASSUME CalibrationInv, [Next]_vars
  PROVE  CalibrationInv'
<1>1. CASE Drive \/ Skip
  BY <1>1, CalibrationDriver
<1>2. ASSUME NEW r \in Ranks, RankStep(r) \/ Fault(r)
      PROVE  CalibrationInv'
  BY <1>2, CalibrationRank
<1>3. CASE Rest \/ UNCHANGED vars
  <2>1. UNCHANGED <<stage, call, phase, grads, zeroed, backward, profile>>
    BY <1>3 DEF Rest, vars, driverVars, rankVars
  <2>. QED
    BY <2>1 DEF CalibrationInv, LeavesNothing, Clean, Ranks, Phases
<1>. QED
  BY <1>1, <1>2, <1>3 DEF Next

(* Whatever the ranks do and whenever the driver gives up, a calibration    *)
(* leaves no gradient, no open profile and no count on a rank that lives.   *)
THEOREM CalibrationCleansUp == Spec => []CalibrationLeavesNoTrace
<1>1. Init => CalibrationInv
  BY CalibrationInit
<1>2. CalibrationInv /\ [Next]_vars => CalibrationInv'
  BY CalibrationKept
<1>3. CalibrationInv => CalibrationLeavesNoTrace
  BY DEF CalibrationInv, LeavesNothing, CalibrationLeavesNoTrace, Clean, Quiet
<1>. QED
  BY <1>1, <1>2, <1>3, PTL DEF Spec

----------------------------------------------------------------------------
(* The dispatch of the tasks.                                               *)
LEMMA Sums == \A f : SumOf(f) = SumOn(DOMAIN f, f)
  BY DEF SumOf, SumOn

TaskSet(T) == \A t \in T : IsTask(t) /\ t.id \in Nat

LEMMA TaskSizes ==
  ASSUME NEW t, IsTask(t)
  PROVE  ExtendedLength(t) \in Nat /\ Cost(t) \in Nat
<1>1. Len(t.endpoints) \in PrefixesOf(t)
  BY DEF IsTask, PrefixesOf
<1>2. SegmentStart(t, Len(t.endpoints)) \in Nat /\ TargetLength(t, Len(t.endpoints)) \in Nat
  BY <1>1, LengthTypes
<1>3. ExtendedLength(t) \in Nat
  BY <1>2 DEF ExtendedLength
<1>. QED
  BY <1>3 DEF Cost

LEMMA CostType ==
  ASSUME NEW T, TaskSet(T), NEW ts \in Seq(T)
  PROVE  CostOf(ts) \in Int
<1>1. DOMAIN ts = 1 .. Len(ts) /\ Len(ts) \in Nat /\ \A i \in DOMAIN ts : ts[i] \in T
  OBVIOUS
<1>2. PICK f : f = [i \in DOMAIN ts |-> Cost(ts[i])]
  OBVIOUS
<1>3. IsFiniteSet(DOMAIN f)
  BY <1>1, <1>2, FS_Interval
<1>4. Ints(DOMAIN f, f)
  <2>1. \A i \in DOMAIN f : f[i] \in Int
    BY <1>1, <1>2, TaskSizes DEF TaskSet
  <2>. QED
    BY <2>1 DEF Ints
<1>5. SumOn(DOMAIN f, f) \in Int
  BY <1>3, <1>4, SumType
<1>. QED
  BY <1>2, <1>5, Sums DEF CostOf

LEMMA RanksFinite == IsFiniteSet(Ranks) /\ Ranks # {} /\ Ranks \subseteq Nat
<1>1. WorldSize \in Nat \ {0}
  BY RankConstants
<1>2. IsFiniteSet(0 .. WorldSize - 1)
  BY <1>1, FS_Interval
<1>3. 0 \in 0 .. WorldSize - 1
  BY <1>1
<1>. QED
  BY <1>1, <1>2, <1>3 DEF Ranks

LEMMA CheapestRankIsARank ==
  ASSUME NEW T, TaskSet(T), NEW given \in [Ranks -> Seq(T)]
  PROVE  CheapestRank(given) \in Ranks
<1>1. PICK load : load = [r \in Ranks |-> CostOf(given[r])]
  OBVIOUS
<1>2. load \in [Ranks -> Int]
  BY <1>1, CostType
<1>. DEFINE R == {e \in Ranks \X Ranks :
                    load[e[1]] < load[e[2]] \/ (load[e[1]] = load[e[2]] /\ e[1] < e[2])}
<1>3. \A a, b \in Ranks : <<a, b>> \in R <=> load[a] < load[b] \/ (load[a] = load[b] /\ a < b)
  OBVIOUS
<1>. HIDE DEF R
<1>0. Ranks \subseteq Int
  BY RanksFinite
<1>4. StrictOrder(R, Ranks)
  <2>2. ByKeys(R, Ranks, load, load)
    BY <1>0, <1>2, <1>3 DEF ByKeys
  <2>. QED
    BY <1>0, <1>2, <2>2, KeysOrder
<1>5. PICK a \in Ranks : \A b \in Ranks \ {a} : <<a, b>> \in R
  BY <1>4, RanksFinite, EndsOfOrder
<1>6. \A q \in Ranks : load[a] < load[q] \/ (load[a] = load[q] /\ a <= q)
  <2>. SUFFICES ASSUME NEW q \in Ranks
                PROVE  load[a] < load[q] \/ (load[a] = load[q] /\ a <= q)
    OBVIOUS
  <2>1. a \in Int /\ q \in Int /\ load[a] \in Int /\ load[q] \in Int
    BY <1>0, <1>2
  <2>2. CASE q = a
    BY <2>1, <2>2
  <2>3. CASE q # a
    <3>1. load[a] < load[q] \/ (load[a] = load[q] /\ a < q)
      BY <1>3, <1>5, <2>3
    <3>. QED
      BY <2>1, <3>1
  <2>. QED
    BY <2>2, <2>3
<1>7. CheapestRank(given) =
        CHOOSE r \in Ranks : \A q \in Ranks : load[r] < load[q] \/ (load[r] = load[q] /\ r <= q)
  BY <1>1 DEF CheapestRank
<1>. QED
  BY <1>6, <1>7

LEMMA ByCostOrder ==
  ASSUME NEW T, TaskSet(T), NEW tasks \in Seq(T)
  PROVE  Permutes(SeqInOrder(tasks, CostlierTask), tasks)
<1>. DEFINE D == DOMAIN tasks
            R == {e \in D \X D :
                    \/ CostlierTask(tasks[e[1]], tasks[e[2]])
                    \/ ~ CostlierTask(tasks[e[2]], tasks[e[1]]) /\ e[1] < e[2]}
            rank == [i \in D |-> Cardinality({j \in D :
                      CostlierTask(tasks[j], tasks[i])
                        \/ (~ CostlierTask(tasks[i], tasks[j]) /\ j < i)})]
            at == [n \in D |-> CHOOSE i \in D : rank[i] = n - 1]
            k == [i \in D |-> - ExtendedLength(tasks[i])]
            m == [i \in D |-> tasks[i].id]
<1>1. D \subseteq Int /\ \A i \in D : tasks[i] \in T
  OBVIOUS
<1>2. \A i \in D : ExtendedLength(tasks[i]) \in Int /\ tasks[i].id \in Int
  BY <1>1, TaskSizes DEF TaskSet
<1>3. \A a, b \in D : <<a, b>> \in R <=>
        \/ CostlierTask(tasks[a], tasks[b])
        \/ ~ CostlierTask(tasks[b], tasks[a]) /\ a < b
  OBVIOUS
<1>4. StrictOrder(R, D)
  <2>. HIDE DEF R
  <2>1. k \in [D -> Int] /\ m \in [D -> Int]
    BY <1>2
  <2>2. \A i \in D : k[i] = - ExtendedLength(tasks[i]) /\ m[i] = tasks[i].id
    OBVIOUS
  <2>. HIDE DEF k, m
  <2>3. ByKeys(R, D, k, m)
    <3>. SUFFICES ASSUME NEW a \in D, NEW b \in D
                  PROVE  <<a, b>> \in R <=>
                    k[a] < k[b] \/ (k[a] = k[b] /\ (m[a] < m[b] \/ (m[a] = m[b] /\ a < b)))
      BY DEF ByKeys
    <3>0. \A x, y : CostlierTask(x, y) <=>
            ExtendedLength(x) > ExtendedLength(y)
              \/ (ExtendedLength(x) = ExtendedLength(y) /\ x.id < y.id)
      BY DEF CostlierTask
    <3>1. CostlierTask(tasks[a], tasks[b]) <=> k[a] < k[b] \/ (k[a] = k[b] /\ m[a] < m[b])
      BY <1>2, <2>2, <3>0
    <3>2. CostlierTask(tasks[b], tasks[a]) <=> k[b] < k[a] \/ (k[a] = k[b] /\ m[b] < m[a])
      BY <1>2, <2>2, <3>0
    <3>. QED
      BY <1>1, <1>3, <2>1, <3>1, <3>2
  <2>. QED
    BY <1>1, <2>1, <2>3, KeysOrder
<1>5. RankedBy(rank, D, R)
  <2>. HIDE DEF R
  <2>1. \A i \in D : {j \in D : <<j, i>> \in R} =
          {j \in D : CostlierTask(tasks[j], tasks[i])
                       \/ (~ CostlierTask(tasks[i], tasks[j]) /\ j < i)}
    BY <1>3
  <2>. QED
    BY <2>1 DEF RankedBy
<1>6. SeqInOrder(tasks, CostlierTask) = [n \in D |-> tasks[at[n]]]
  BY DEF SeqInOrder
<1>7. ByRank(at, rank, D)
  <2>. HIDE DEF rank
  <2>. QED
    BY DEF ByRank
<1>8. DOMAIN at = D
  OBVIOUS
<1>9. PICK t : t = [n \in D |-> tasks[at[n]]]
  OBVIOUS
<1>. HIDE DEF R, rank, at
<1>10. Permutes(t, tasks)
  BY <1>4, <1>5, <1>7, <1>8, <1>9, RankedPermutes
<1>. QED
  BY <1>6, <1>9, <1>10

(* The tasks are given out one by one in their order.                       *)
GivenOut(f, s, n, T) ==
  /\ f \in [0 .. n -> [Ranks -> Seq(T)]]
  /\ f[0] = [r \in Ranks |-> <<>>]
  /\ \A i \in 1 .. n :
       f[i] = [f[i - 1] EXCEPT ![CheapestRank(f[i - 1])] = Append(@, s[i])]

LEMMA ByCostSteps ==
  ASSUME NEW T, TaskSet(T), NEW tasks \in Seq(T)
  PROVE  \E s, f, n : /\ Permutes(s, tasks) /\ s \in Seq(T) /\ n = Len(s)
                      /\ GivenOut(f, s, n, T) /\ f[n] = ByCost(tasks)
<1>1. PICK s : s = SeqInOrder(tasks, CostlierTask)
  OBVIOUS
<1>2. Permutes(s, tasks)
  BY <1>1, ByCostOrder
<1>3. s \in Seq(T) /\ Len(s) = Len(tasks)
  BY <1>2, PermutedElements
<1>4. PICK n : n = Len(s)
  OBVIOUS
<1>5. n \in Nat /\ DOMAIN s = 1 .. n /\ \A i \in 1 .. n : s[i] \in T
  BY <1>3, <1>4
<1>6. PICK V : V = [Ranks -> Seq(T)]
  OBVIOUS
<1>7. PICK b : b = [r \in Ranks |-> <<>>]
  OBVIOUS
<1>8. b \in V
  BY <1>6, <1>7
<1>. DEFINE Give(v, t) == [v EXCEPT ![CheapestRank(v)] = Append(@, t)]
            Eq(it) == it = [S \in SUBSET (1 .. n) |->
                        IF S = {} THEN b ELSE Give(it[S \ {Max(S)}], s[Max(S)])]
            jt == CHOOSE it : Eq(it)
            g == [p \in (1 .. n) \X V |-> Give(p[2], s[p[1]])]
<1>9. ByCost(tasks) = jt[1 .. n]
  BY <1>1, <1>5, <1>7 DEF ByCost, FoldLeft, MapThenFoldSet
<1>10. ASSUME NEW v \in V, NEW t \in T PROVE Give(v, t) \in V
  <2>1. CheapestRank(v) \in Ranks
    BY <1>6, CheapestRankIsARank
  <2>2. Append(v[CheapestRank(v)], t) \in Seq(T)
    BY <1>6, <2>1
  <2>. QED
    BY <1>6, <2>1, <2>2
<1>. HIDE DEF Give
<1>11. g \in [(1 .. n) \X V -> V]
  BY <1>5, <1>10
<1>12. \A i \in 1 .. n, v \in V : g[<<i, v>>] = Give(v, s[i])
  OBVIOUS
<1>. HIDE DEF g
<1>13. PICK it \in [SUBSET (1 .. n) -> V] : Descends(it, n, b, g)
  BY <1>5, <1>8, <1>11, FoldExists
<1>14. ASSUME NEW S \in SUBSET (1 .. n), S # {} PROVE Max(S) \in 1 .. n /\ S \ {Max(S)} \in SUBSET (1 .. n)
  <2>1. IsFiniteSet(S) /\ S \in SUBSET Int
    <3>1. IsFiniteSet(1 .. n)
      BY <1>5, FS_Interval
    <3>2. \A x \in S : x \in Int
      OBVIOUS
    <3>. QED
      BY <3>1, <3>2, FS_Subset
  <2>2. Max(S) \in S
    BY <1>14, <2>1, MaxOfFinite
  <2>. QED
    BY <2>2
<1>15. Eq(it)
  <2>1. ASSUME NEW S \in SUBSET (1 .. n)
        PROVE  it[S] = IF S = {} THEN b ELSE Give(it[S \ {Max(S)}], s[Max(S)])
    <3>1. CASE S = {}
      BY <1>13, <3>1 DEF Descends
    <3>2. CASE S # {}
      <4>1. it[S] = g[<<Max(S), it[S \ {Max(S)}]>>]
        BY <1>13, <3>2 DEF Descends
      <4>2. it[S \ {Max(S)}] \in V /\ Max(S) \in 1 .. n
        BY <1>14, <1>13, <3>2
      <4>. QED
        BY <1>12, <3>2, <4>1, <4>2
    <3>. QED
      BY <3>1, <3>2
  <2>2. it = [S \in SUBSET (1 .. n) |-> it[S]]
    BY <1>13
  <2>. QED
    BY <2>1, <2>2
<1>16. Eq(jt)
  BY <1>15
<1>. HIDE DEF jt
<1>17. \A S \in SUBSET (1 .. n) :
         jt[S] = IF S = {} THEN b ELSE Give(jt[S \ {Max(S)}], s[Max(S)])
  BY <1>16
<1>18. DescendsIn(jt, n, V, b, g)
  <2>. SUFFICES ASSUME NEW S \in SUBSET (1 .. n)
                PROVE  \/ S = {} /\ jt[S] = b
                       \/ /\ S # {}
                          /\ jt[S \ {Max(S)}] \in V => jt[S] = g[<<Max(S), jt[S \ {Max(S)}]>>]
    BY DEF DescendsIn
  <2>1. CASE S = {}
    BY <1>17, <2>1
  <2>2. CASE S # {}
    <3>1. jt[S] = Give(jt[S \ {Max(S)}], s[Max(S)]) /\ Max(S) \in 1 .. n
      BY <1>14, <1>17, <2>2
    <3>. QED
      BY <1>12, <2>2, <3>1
  <2>. QED
    BY <2>1, <2>2
<1>19. PICK f \in [0 .. n -> V] : f[n] = jt[1 .. n] /\ GoesBy(f, n, b, g)
  BY <1>5, <1>8, <1>11, <1>18, FoldPrefixes
<1>20. \A i \in 1 .. n : f[i] = Give(f[i - 1], s[i])
  <2>. SUFFICES ASSUME NEW i \in 1 .. n PROVE f[i] = Give(f[i - 1], s[i])
    OBVIOUS
  <2>1. i - 1 \in 0 .. n
    BY <1>5
  <2>2. f[i - 1] \in V
    BY <1>19, <2>1
  <2>. QED
    BY <1>12, <1>19, <2>2 DEF GoesBy
<1>21. f[0] = b
  BY <1>19 DEF GoesBy
<1>22. \A i \in 1 .. n : f[i] = [f[i - 1] EXCEPT ![CheapestRank(f[i - 1])] = Append(@, s[i])]
  BY <1>20 DEF Give
<1>23. GivenOut(f, s, n, T)
  BY <1>6, <1>7, <1>19, <1>21, <1>22 DEF GivenOut
<1>. QED
  BY <1>2, <1>3, <1>4, <1>9, <1>19, <1>23

(* What is given out is what there is.                                      *)
LEMMA ByCostElements ==
  ASSUME NEW T, TaskSet(T), NEW tasks \in Seq(T)
  PROVE  /\ ByCost(tasks) \in [Ranks -> Seq(T)]
         /\ UNION {ToSet(ByCost(tasks)[r]) : r \in Ranks} = ToSet(tasks)
<1>1. PICK s, f, n : /\ Permutes(s, tasks) /\ s \in Seq(T) /\ n = Len(s)
                     /\ GivenOut(f, s, n, T) /\ f[n] = ByCost(tasks)
  BY ByCostSteps
<1>2. n \in Nat /\ DOMAIN s = 1 .. n /\ \A i \in 1 .. n : s[i] \in T
  BY <1>1
<1>3. \A i \in 0 .. n : f[i] \in [Ranks -> Seq(T)]
  BY <1>1 DEF GivenOut
<1>4. ToSet(s) = ToSet(tasks)
  BY <1>1, PermutedElements
<1>. DEFINE Given(i) == UNION {ToSet(f[i][r]) : r \in Ranks}
            F == {i \in 0 .. n : Given(i) = {s[j] : j \in 1 .. i}}
<1>5. 0 \in F
  <2>1. \A r \in Ranks : f[0][r] = <<>>
    BY <1>1 DEF GivenOut
  <2>2. ToSet(<<>>) = {}
    BY DEF ToSet
  <2>3. 0 \in 0 .. n /\ {s[j] : j \in 1 .. 0} = {}
    BY <1>2
  <2>. QED
    BY <2>1, <2>2, <2>3
<1>6. ASSUME NEW k \in 0 .. n - 1, k \in F PROVE k + 1 \in F
  <2>1. k \in 0 .. n /\ k + 1 \in 1 .. n /\ k + 1 \in 0 .. n /\ (k + 1) - 1 = k
    BY <1>2
  <2>2. PICK c : c = CheapestRank(f[k])
    OBVIOUS
  <2>3. c \in Ranks
    BY <1>3, <2>1, <2>2, CheapestRankIsARank
  <2>4. f[k + 1] = [f[k] EXCEPT ![c] = Append(f[k][c], s[k + 1])]
    BY <1>1, <2>1, <2>2 DEF GivenOut
  <2>5. \A r \in Ranks : f[k + 1][r] = IF r = c THEN Append(f[k][c], s[k + 1]) ELSE f[k][r]
    BY <1>3, <2>1, <2>3, <2>4
  <2>6. f[k][c] \in Seq(T) /\ s[k + 1] \in T
    BY <1>2, <1>3, <2>1, <2>3
  <2>7. ToSet(f[k + 1][c]) = ToSet(f[k][c]) \cup {s[k + 1]}
    BY <2>3, <2>5, <2>6, AppendElements
  <2>8. Given(k + 1) = Given(k) \cup {s[k + 1]}
    <3>. SUFFICES ASSUME NEW x PROVE x \in Given(k + 1) <=> x \in Given(k) \cup {s[k + 1]}
      OBVIOUS
    <3>1. x \in Given(k + 1) <=> \E r \in Ranks : x \in ToSet(f[k + 1][r])
      OBVIOUS
    <3>2. x \in Given(k) <=> \E r \in Ranks : x \in ToSet(f[k][r])
      OBVIOUS
    <3>3. \A r \in Ranks \ {c} : f[k + 1][r] = f[k][r]
      BY <2>5
    <3>. HIDE DEF Given
    <3>. QED
      BY <2>3, <2>7, <3>1, <3>2, <3>3
  <2>9. Given(k) = {s[j] : j \in 1 .. k}
    BY <1>6
  <2>10. {s[j] : j \in 1 .. k + 1} = {s[j] : j \in 1 .. k} \cup {s[k + 1]}
    <3>1. 1 .. k + 1 = 1 .. k \cup {k + 1}
      BY <2>1
    <3>. QED
      BY <3>1
  <2>. QED
    BY <2>1, <2>8, <2>9, <2>10
<1>7. 0 .. n \subseteq F
  <2>. HIDE DEF F
  <2>. QED
    BY <1>2, <1>5, <1>6, SetUpTo
<1>8. n \in 0 .. n
  BY <1>2
<1>9. Given(n) = {s[j] : j \in 1 .. n}
  BY <1>7, <1>8
<1>10. {s[j] : j \in 1 .. n} = ToSet(s)
  BY <1>2 DEF ToSet
<1>. QED
  BY <1>1, <1>3, <1>4, <1>8, <1>9, <1>10

LEMMA DispatchElements ==
  ASSUME NEW T, TaskSet(T), NEW tasks \in Seq(T), tasks # <<>>
  PROVE  /\ Dispatch(tasks) \in [Ranks -> Seq(T)]
         /\ \A q, r \in Ranks : Len(Dispatch(tasks)[q]) = Len(Dispatch(tasks)[r])
         /\ UNION {ToSet(Dispatch(tasks)[r]) : r \in Ranks} = ToSet(tasks)
<1>1. PICK given : given = ByCost(tasks)
  OBVIOUS
<1>2. given \in [Ranks -> Seq(T)] /\ UNION {ToSet(given[r]) : r \in Ranks} = ToSet(tasks)
  BY <1>1, ByCostElements
<1>3. PICK target : target = Max({Len(given[r]) : r \in Ranks})
  OBVIOUS
<1>4. target \in Nat /\ \A r \in Ranks : Len(given[r]) \in Nat /\ Len(given[r]) <= target
  <2>1. \A r \in Ranks : Len(given[r]) \in Nat
    BY <1>2
  <2>2. PICK L : L = {Len(given[r]) : r \in Ranks}
    OBVIOUS
  <2>3. L \in SUBSET Int /\ L # {}
    <3>1. PICK r : r \in Ranks
      BY RanksFinite
    <3>2. Len(given[r]) \in L
      BY <2>2, <3>1
    <3>3. \A x \in L : x \in Int
      BY <2>1, <2>2
    <3>. QED
      BY <3>2, <3>3
  <2>4. IsFiniteSet(L)
    <3>1. PICK h : h = [r \in Ranks |-> Len(given[r])]
      OBVIOUS
    <3>2. h \in Surjection(Ranks, L)
      BY <2>2, <3>1 DEF Surjection
    <3>. QED
      BY <3>2, RanksFinite, FS_Surjection DEF ExistsSurjection
  <2>5. Max(L) \in L /\ \A y \in L : Max(L) >= y
    BY <2>3, <2>4, MaxOfFinite
  <2>6. target \in L
    BY <1>3, <2>2, <2>5
  <2>7. \A r \in Ranks : Len(given[r]) <= target
    BY <1>3, <2>1, <2>2, <2>3, <2>5
  <2>. QED
    BY <2>1, <2>2, <2>6, <2>7
<1>. DEFINE D == DOMAIN tasks
            First(i) == \A j \in D :
                  \/ ExtendedLength(tasks[i]) < ExtendedLength(tasks[j])
                  \/ ExtendedLength(tasks[i]) = ExtendedLength(tasks[j]) /\ i <= j
            k == [i \in D |-> ExtendedLength(tasks[i])]
            R == {e \in D \X D : k[e[1]] < k[e[2]] \/ (k[e[1]] = k[e[2]] /\ e[1] < e[2])}
<1>5. D # {} /\ IsFiniteSet(D) /\ D \subseteq Int /\ \A i \in D : tasks[i] \in T
  <2>1. D = 1 .. Len(tasks) /\ Len(tasks) \in Nat /\ Len(tasks) # 0
    OBVIOUS
  <2>2. IsFiniteSet(1 .. Len(tasks)) /\ 1 \in 1 .. Len(tasks)
    BY <2>1, FS_Interval
  <2>3. \A i \in 1 .. Len(tasks) : tasks[i] \in T
    OBVIOUS
  <2>4. 1 .. Len(tasks) \subseteq Int
    OBVIOUS
  <2>. QED
    BY <2>1, <2>2, <2>3, <2>4
<1>6. k \in [D -> Int] /\ \A i \in D : k[i] = ExtendedLength(tasks[i])
  BY <1>5, TaskSizes DEF TaskSet
<1>7. \A a, b \in D : <<a, b>> \in R <=> k[a] < k[b] \/ (k[a] = k[b] /\ a < b)
  OBVIOUS
<1>8. \E i \in D : First(i)
  <2>. HIDE DEF R, k
  <2>1. ByKeys(R, D, k, k)
    BY <1>5, <1>6, <1>7 DEF ByKeys
  <2>2. StrictOrder(R, D)
    BY <1>5, <1>6, <2>1, KeysOrder
  <2>3. PICK a \in D : \A b \in D \ {a} : <<a, b>> \in R
    BY <1>5, <2>2, EndsOfOrder
  <2>4. \A j \in D : k[a] < k[j] \/ (k[a] = k[j] /\ a <= j)
    <3>. SUFFICES ASSUME NEW j \in D PROVE k[a] < k[j] \/ (k[a] = k[j] /\ a <= j)
      OBVIOUS
    <3>1. CASE j = a
      BY <1>5, <3>1
    <3>2. CASE j # a
      <4>1. k[a] < k[j] \/ (k[a] = k[j] /\ a < j)
        BY <1>7, <2>3, <3>2
      <4>. QED
        BY <1>5, <4>1
    <3>. QED
      BY <3>1, <3>2
  <2>. QED
    BY <1>6, <2>4
<1>9. PICK filler : filler = tasks[CHOOSE i \in D : First(i)]
  OBVIOUS
<1>10. filler \in ToSet(tasks) /\ filler \in T
  <2>1. (CHOOSE i \in D : First(i)) \in D
    BY <1>8
  <2>. QED
    BY <1>5, <1>9, <2>1 DEF ToSet
<1>11. Dispatch(tasks) =
         [r \in Ranks |-> given[r] \o [i \in 1 .. target - Len(given[r]) |-> filler]]
  BY <1>1, <1>3, <1>9 DEF Dispatch
<1>12. ASSUME NEW r \in Ranks
       PROVE  /\ Dispatch(tasks)[r] \in Seq(T) /\ Len(Dispatch(tasks)[r]) = target
              /\ ToSet(given[r]) \subseteq ToSet(Dispatch(tasks)[r])
              /\ ToSet(Dispatch(tasks)[r]) \subseteq ToSet(tasks)
  <2>1. PICK m : m = target - Len(given[r])
    OBVIOUS
  <2>2. m \in Nat
    BY <1>4, <2>1
  <2>3. PICK pad : pad = [i \in 1 .. m |-> filler]
    OBVIOUS
  <2>4. pad \in Seq(T) /\ Len(pad) = m /\ ToSet(pad) \subseteq ToSet(tasks)
    BY <1>10, <2>2, <2>3 DEF ToSet
  <2>5. Dispatch(tasks)[r] = given[r] \o pad
    BY <1>11, <2>1, <2>3
  <2>6. given[r] \in Seq(T) /\ ToSet(given[r]) \subseteq ToSet(tasks)
    BY <1>2
  <2>7. Len(given[r] \o pad) = Len(given[r]) + m
    BY <2>4, <2>6
  <2>8. Len(given[r] \o pad) = target
    BY <1>4, <2>1, <2>7
  <2>9. /\ given[r] \o pad \in Seq(T)
        /\ ToSet(given[r] \o pad) = ToSet(given[r]) \cup ToSet(pad)
    BY <2>4, <2>6, ConcatElements
  <2>. QED
    BY <2>4, <2>5, <2>6, <2>8, <2>9
<1>13. UNION {ToSet(Dispatch(tasks)[r]) : r \in Ranks} = ToSet(tasks)
  BY <1>2, <1>12
<1>14. Dispatch(tasks) = [r \in Ranks |-> Dispatch(tasks)[r]]
  BY <1>11
<1>. QED
  BY <1>12, <1>13, <1>14

LEMMA UniqueElements ==
  ASSUME NEW T, NEW tasks \in Seq(T)
  PROVE  /\ Unique(tasks) \in Seq(T) /\ OnceEach(Unique(tasks))
         /\ ToSet(Unique(tasks)) = ToSet(tasks)
<1>. DEFINE P == {i \in DOMAIN tasks : \A j \in 1 .. i - 1 : tasks[j] # tasks[i]}
<1>1. DOMAIN tasks = 1 .. Len(tasks) /\ Len(tasks) \in Nat
  OBVIOUS
<1>2. ASSUME NEW i \in P, NEW j \in P, tasks[i] = tasks[j] PROVE i = j
  <2>1. i \in 1 .. Len(tasks) /\ j \in 1 .. Len(tasks)
    BY <1>1
  <2>2. ~ (i < j) /\ ~ (j < i)
    BY <1>2, <2>1
  <2>. QED
    BY <1>1, <2>1, <2>2
<1>3. ASSUME NEW i \in DOMAIN tasks PROVE \E j \in P : tasks[j] = tasks[i]
  <2>. DEFINE S == {j \in DOMAIN tasks : tasks[j] = tasks[i]}
  <2>1. S \in SUBSET Nat /\ i \in S
    BY <1>1
  <2>2. PICK j \in S : \A m \in S : j <= m
    <3>. HIDE DEF S
    <3>. QED
      BY <2>1, LeastNatural
  <2>3. \A m \in 1 .. j - 1 : m \in DOMAIN tasks /\ m < j
    BY <1>1
  <2>4. \A m \in 1 .. j - 1 : tasks[m] # tasks[j]
    <3>. SUFFICES ASSUME NEW m \in 1 .. j - 1, tasks[m] = tasks[j] PROVE FALSE
      OBVIOUS
    <3>1. m \in S
      BY <2>2, <2>3
    <3>. QED
      BY <1>1, <2>2, <2>3, <3>1
  <2>. QED
    BY <2>2, <2>4
<1>4. Unique(tasks) = Subsequence(tasks, P)
  BY DEF Unique
<1>5. P \in SUBSET (DOMAIN tasks)
  OBVIOUS
<1>6. {tasks[i] : i \in P} = ToSet(tasks)
  <2>. HIDE DEF P
  <2>. QED
    BY <1>3, <1>5 DEF ToSet
<1>. HIDE DEF P
<1>7. \A i, j \in P : tasks[i] = tasks[j] => i = j
  BY <1>2
<1>8. /\ Subsequence(tasks, P) \in Seq(T)
      /\ ToSet(Subsequence(tasks, P)) = {tasks[i] : i \in P}
      /\ OnceEach(Subsequence(tasks, P))
  BY <1>5, <1>7, SubsequenceHas
<1>. QED
  BY <1>4, <1>6, <1>8

LEMMA ShareElements ==
  ASSUME NEW T, NEW tasks \in Seq(T)
  PROVE  /\ FastShare(tasks) \in Seq(T) /\ OnceEach(FastShare(tasks))
         /\ ToSet(FastShare(tasks)) = {t \in ToSet(tasks) : Fast(t)}
         /\ SlowShare(tasks) \in Seq(T) /\ OnceEach(SlowShare(tasks))
         /\ ToSet(SlowShare(tasks)) = {t \in ToSet(tasks) : ~ Fast(t)}
<1>1. PICK u : u = Unique(tasks)
  OBVIOUS
<1>2. u \in Seq(T) /\ OnceEach(u) /\ ToSet(u) = ToSet(tasks)
  BY <1>1, UniqueElements
<1>. DEFINE P == {i \in DOMAIN u : Fast(u[i])}
            Q == {i \in DOMAIN u : ~ Fast(u[i])}
<1>3. FastShare(tasks) = Subsequence(u, P) /\ SlowShare(tasks) = Subsequence(u, Q)
  BY <1>1 DEF FastShare, SlowShare
<1>4. P \in SUBSET (DOMAIN u) /\ Q \in SUBSET (DOMAIN u)
  OBVIOUS
<1>5. /\ {u[i] : i \in P} = {t \in ToSet(u) : Fast(t)}
      /\ {u[i] : i \in Q} = {t \in ToSet(u) : ~ Fast(t)}
  BY DEF ToSet
<1>6. /\ \A i, j \in P : u[i] = u[j] => i = j
      /\ \A i, j \in Q : u[i] = u[j] => i = j
  BY <1>2 DEF OnceEach
<1>. HIDE DEF P, Q
<1>. QED
  BY <1>2, <1>3, <1>4, <1>5, <1>6, SubsequenceHas

(* Packing: the batches are filled one task after the other.                *)
Placed(batches, t) ==
  IF batches # <<>> /\ FastFits(Append(batches[Len(batches)], t))
  THEN [batches EXCEPT ![Len(batches)] = Append(@, t)]
  ELSE Append(batches, <<t>>)
PackedBy(f, s, n, T) ==
  /\ f \in [0 .. n -> Seq(Seq(T))]
  /\ f[0] = <<>>
  /\ \A i \in 1 .. n : f[i] = Placed(f[i - 1], s[i])

LEMMA ShortestFirst ==
  ASSUME NEW T, TaskSet(T), NEW tasks \in Seq(T)
  PROVE  Permutes(SeqInOrder(tasks, ShorterTask), tasks)
<1>. DEFINE D == DOMAIN tasks
            R == {e \in D \X D :
                    \/ ShorterTask(tasks[e[1]], tasks[e[2]])
                    \/ ~ ShorterTask(tasks[e[2]], tasks[e[1]]) /\ e[1] < e[2]}
            rank == [i \in D |-> Cardinality({j \in D :
                      ShorterTask(tasks[j], tasks[i])
                        \/ (~ ShorterTask(tasks[i], tasks[j]) /\ j < i)})]
            at == [n \in D |-> CHOOSE i \in D : rank[i] = n - 1]
            k == [i \in D |-> ExtendedLength(tasks[i])]
            m == [i \in D |-> tasks[i].id]
<1>1. D \subseteq Int /\ \A i \in D : tasks[i] \in T
  OBVIOUS
<1>2. \A i \in D : ExtendedLength(tasks[i]) \in Int /\ tasks[i].id \in Int
  BY <1>1, TaskSizes DEF TaskSet
<1>3. \A a, b \in D : <<a, b>> \in R <=>
        \/ ShorterTask(tasks[a], tasks[b])
        \/ ~ ShorterTask(tasks[b], tasks[a]) /\ a < b
  OBVIOUS
<1>4. StrictOrder(R, D)
  <2>. HIDE DEF R
  <2>1. k \in [D -> Int] /\ m \in [D -> Int]
    BY <1>2
  <2>2. \A i \in D : k[i] = ExtendedLength(tasks[i]) /\ m[i] = tasks[i].id
    OBVIOUS
  <2>. HIDE DEF k, m
  <2>3. ByKeys(R, D, k, m)
    <3>. SUFFICES ASSUME NEW a \in D, NEW b \in D
                  PROVE  <<a, b>> \in R <=>
                    k[a] < k[b] \/ (k[a] = k[b] /\ (m[a] < m[b] \/ (m[a] = m[b] /\ a < b)))
      BY DEF ByKeys
    <3>0. \A x, y : ShorterTask(x, y) <=>
            ExtendedLength(x) < ExtendedLength(y)
              \/ (ExtendedLength(x) = ExtendedLength(y) /\ x.id < y.id)
      BY DEF ShorterTask
    <3>1. ShorterTask(tasks[a], tasks[b]) <=> k[a] < k[b] \/ (k[a] = k[b] /\ m[a] < m[b])
      BY <1>2, <2>2, <3>0
    <3>2. ShorterTask(tasks[b], tasks[a]) <=> k[b] < k[a] \/ (k[b] = k[a] /\ m[b] < m[a])
      BY <1>2, <2>2, <3>0
    <3>. QED
      BY <1>1, <1>3, <2>1, <3>1, <3>2
  <2>. QED
    BY <1>1, <2>1, <2>3, KeysOrder
<1>5. RankedBy(rank, D, R)
  <2>. HIDE DEF R
  <2>1. \A i \in D : {j \in D : <<j, i>> \in R} =
          {j \in D : ShorterTask(tasks[j], tasks[i])
                       \/ (~ ShorterTask(tasks[i], tasks[j]) /\ j < i)}
    BY <1>3
  <2>. QED
    BY <2>1 DEF RankedBy
<1>6. SeqInOrder(tasks, ShorterTask) = [n \in D |-> tasks[at[n]]]
  BY DEF SeqInOrder
<1>7. ByRank(at, rank, D)
  <2>. HIDE DEF rank
  <2>. QED
    BY DEF ByRank
<1>8. DOMAIN at = D
  OBVIOUS
<1>9. PICK t : t = [n \in D |-> tasks[at[n]]]
  OBVIOUS
<1>. HIDE DEF R, rank, at
<1>10. Permutes(t, tasks)
  BY <1>4, <1>5, <1>7, <1>8, <1>9, RankedPermutes
<1>. QED
  BY <1>6, <1>9, <1>10

LEMMA PackSteps ==
  ASSUME NEW T, TaskSet(T), NEW tasks \in Seq(T)
  PROVE  \E s, f, n : /\ Permutes(s, tasks) /\ s \in Seq(T) /\ n = Len(s)
                      /\ PackedBy(f, s, n, T) /\ f[n] = Pack(tasks)
<1>1. PICK s : s = SeqInOrder(tasks, ShorterTask)
  OBVIOUS
<1>2. Permutes(s, tasks)
  BY <1>1, ShortestFirst
<1>3. s \in Seq(T) /\ Len(s) = Len(tasks)
  BY <1>2, PermutedElements
<1>4. PICK n : n = Len(s)
  OBVIOUS
<1>5. n \in Nat /\ DOMAIN s = 1 .. n /\ \A i \in 1 .. n : s[i] \in T
  BY <1>3, <1>4
<1>6. PICK V : V = Seq(Seq(T))
  OBVIOUS
<1>7. PICK b : b = <<>>
  OBVIOUS
<1>8. b \in V
  BY <1>6, <1>7
<1>. DEFINE Eq(it) == it = [S \in SUBSET (1 .. n) |->
                        IF S = {} THEN b ELSE Placed(it[S \ {Max(S)}], s[Max(S)])]
            jt == CHOOSE it : Eq(it)
            g == [p \in (1 .. n) \X V |-> Placed(p[2], s[p[1]])]
<1>9. Pack(tasks) = jt[1 .. n]
  BY <1>1, <1>5, <1>7 DEF Pack, FoldLeft, MapThenFoldSet, Placed
<1>10. ASSUME NEW v \in V, NEW t \in T PROVE Placed(v, t) \in V
  <2>1. v \in Seq(Seq(T))
    BY <1>6
  <2>2. CASE v # <<>> /\ FastFits(Append(v[Len(v)], t))
    <3>1. Len(v) \in DOMAIN v
      BY <2>1, <2>2
    <3>2. Append(v[Len(v)], t) \in Seq(T)
      BY <2>1, <3>1
    <3>3. [v EXCEPT ![Len(v)] = Append(@, t)] \in Seq(Seq(T))
      BY <2>1, <3>1, <3>2
    <3>. QED
      BY <1>6, <2>2, <3>3 DEF Placed
  <2>3. CASE ~ (v # <<>> /\ FastFits(Append(v[Len(v)], t)))
    <3>1. <<t>> \in Seq(T)
      OBVIOUS
    <3>2. Append(v, <<t>>) \in Seq(Seq(T))
      BY <2>1, <3>1
    <3>. QED
      BY <1>6, <2>3, <3>2 DEF Placed
  <2>. QED
    BY <2>2, <2>3
<1>11. g \in [(1 .. n) \X V -> V]
  BY <1>5, <1>10
<1>12. \A i \in 1 .. n, v \in V : g[<<i, v>>] = Placed(v, s[i])
  OBVIOUS
<1>. HIDE DEF g
<1>13. PICK it \in [SUBSET (1 .. n) -> V] : Descends(it, n, b, g)
  BY <1>5, <1>8, <1>11, FoldExists
<1>14. ASSUME NEW S \in SUBSET (1 .. n), S # {} PROVE Max(S) \in 1 .. n /\ S \ {Max(S)} \in SUBSET (1 .. n)
  <2>1. IsFiniteSet(S) /\ S \in SUBSET Int
    <3>1. IsFiniteSet(1 .. n)
      BY <1>5, FS_Interval
    <3>2. \A x \in S : x \in Int
      OBVIOUS
    <3>. QED
      BY <3>1, <3>2, FS_Subset
  <2>2. Max(S) \in S
    BY <1>14, <2>1, MaxOfFinite
  <2>. QED
    BY <2>2
<1>15. Eq(it)
  <2>1. ASSUME NEW S \in SUBSET (1 .. n)
        PROVE  it[S] = IF S = {} THEN b ELSE Placed(it[S \ {Max(S)}], s[Max(S)])
    <3>1. CASE S = {}
      BY <1>13, <3>1 DEF Descends
    <3>2. CASE S # {}
      <4>1. it[S] = g[<<Max(S), it[S \ {Max(S)}]>>]
        BY <1>13, <3>2 DEF Descends
      <4>2. it[S \ {Max(S)}] \in V /\ Max(S) \in 1 .. n
        BY <1>14, <1>13, <3>2
      <4>. QED
        BY <1>12, <3>2, <4>1, <4>2
    <3>. QED
      BY <3>1, <3>2
  <2>2. it = [S \in SUBSET (1 .. n) |-> it[S]]
    BY <1>13
  <2>. QED
    BY <2>1, <2>2
<1>16. Eq(jt)
  BY <1>15
<1>. HIDE DEF jt
<1>17. \A S \in SUBSET (1 .. n) :
         jt[S] = IF S = {} THEN b ELSE Placed(jt[S \ {Max(S)}], s[Max(S)])
  BY <1>16
<1>18. DescendsIn(jt, n, V, b, g)
  <2>. SUFFICES ASSUME NEW S \in SUBSET (1 .. n)
                PROVE  \/ S = {} /\ jt[S] = b
                       \/ /\ S # {}
                          /\ jt[S \ {Max(S)}] \in V => jt[S] = g[<<Max(S), jt[S \ {Max(S)}]>>]
    BY DEF DescendsIn
  <2>1. CASE S = {}
    BY <1>17, <2>1
  <2>2. CASE S # {}
    <3>1. jt[S] = Placed(jt[S \ {Max(S)}], s[Max(S)]) /\ Max(S) \in 1 .. n
      BY <1>14, <1>17, <2>2
    <3>. QED
      BY <1>12, <2>2, <3>1
  <2>. QED
    BY <2>1, <2>2
<1>19. PICK f \in [0 .. n -> V] : f[n] = jt[1 .. n] /\ GoesBy(f, n, b, g)
  BY <1>5, <1>8, <1>11, <1>18, FoldPrefixes
<1>20. \A i \in 1 .. n : f[i] = Placed(f[i - 1], s[i])
  <2>. SUFFICES ASSUME NEW i \in 1 .. n PROVE f[i] = Placed(f[i - 1], s[i])
    OBVIOUS
  <2>1. i - 1 \in 0 .. n
    BY <1>5
  <2>2. f[i - 1] \in V
    BY <1>19, <2>1
  <2>. QED
    BY <1>12, <1>19, <2>2 DEF GoesBy
<1>21. f[0] = b
  BY <1>19 DEF GoesBy
<1>22. PackedBy(f, s, n, T)
  BY <1>6, <1>7, <1>19, <1>20, <1>21 DEF PackedBy
<1>. QED
  BY <1>2, <1>3, <1>4, <1>9, <1>19, <1>22

(* What the batches are at any time: none is empty or too large, and no     *)
(* task is in two of them or twice in one.                                  *)
Batches(bs) ==
  /\ \A b \in DOMAIN bs : bs[b] # <<>> /\ FastFits(bs[b]) /\ OnceEach(bs[b])
  /\ Apart(bs)
Packed(bs) == UNION {ToSet(bs[b]) : b \in DOMAIN bs}

LEMMA PlacedKeeps ==
  ASSUME NEW T, NEW bs \in Seq(Seq(T)), NEW t \in T,
         Batches(bs), FastFits(<<t>>), t \notin Packed(bs)
  PROVE  Batches(Placed(bs, t)) /\ Packed(Placed(bs, t)) = Packed(bs) \cup {t}
<1>1. PICK l : l = Len(bs)
  OBVIOUS
<1>2. l \in Nat /\ DOMAIN bs = 1 .. l /\ \A b \in 1 .. l : bs[b] \in Seq(T)
  BY <1>1
<1>3. PICK u : u = Placed(bs, t)
  OBVIOUS
<1>4. \A b \in 1 .. l : t \notin ToSet(bs[b])
  BY <1>2 DEF Packed
<1>5. CASE bs # <<>> /\ FastFits(Append(bs[Len(bs)], t))
  <2>1. PICK q : q = Append(bs[l], t)
    OBVIOUS
  <2>2. l \in 1 .. l
    BY <1>1, <1>2, <1>5
  <2>3. u = [bs EXCEPT ![l] = q]
    BY <1>1, <1>3, <1>5, <2>1 DEF Placed
  <2>4. DOMAIN u = 1 .. l /\ u[l] = q /\ \A b \in 1 .. l : b # l => u[b] = bs[b]
    BY <1>2, <2>2, <2>3
  <2>5. q # <<>> /\ FastFits(q) /\ ToSet(q) = ToSet(bs[l]) \cup {t} /\ OnceEach(q)
    <3>0. bs[l] \in Seq(T) /\ OnceEach(bs[l]) /\ t \notin ToSet(bs[l])
      BY <1>2, <1>4, <2>2 DEF Batches
    <3>1. q # <<>>
      <4>1. Len(q) = Len(bs[l]) + 1 /\ Len(bs[l]) \in Nat
        BY <2>1, <3>0, AppendElements
      <4>. QED
        BY <4>1
    <3>2. ToSet(q) = ToSet(bs[l]) \cup {t}
      BY <2>1, <3>0, AppendElements
    <3>3. OnceEach(q)
      BY <2>1, <3>0, AppendOnce
    <3>. QED
      BY <1>1, <1>5, <2>1, <3>1, <3>2, <3>3
  <2>6. \A b \in 1 .. l : u[b] # <<>> /\ FastFits(u[b]) /\ OnceEach(u[b])
    BY <1>2, <2>4, <2>5 DEF Batches
  <2>7. Apart(u)
    <3>. SUFFICES ASSUME NEW i \in 1 .. l, NEW j \in 1 .. l, i # j
                  PROVE  ToSet(u[i]) \cap ToSet(u[j]) = {}
      BY <2>4 DEF Apart
    <3>1. ToSet(bs[i]) \cap ToSet(bs[j]) = {} /\ t \notin ToSet(bs[i]) /\ t \notin ToSet(bs[j])
      BY <1>2, <1>4 DEF Batches, Apart
    <3>2. \A b \in 1 .. l : ToSet(u[b]) = IF b = l THEN ToSet(bs[l]) \cup {t} ELSE ToSet(bs[b])
      BY <2>4, <2>5
    <3>. QED
      BY <3>1, <3>2
  <2>8. Packed(u) = Packed(bs) \cup {t}
    <3>. SUFFICES ASSUME NEW x PROVE x \in Packed(u) <=> x \in Packed(bs) \cup {t}
      OBVIOUS
    <3>1. x \in Packed(u) <=> \E b \in 1 .. l : x \in ToSet(u[b])
      BY <2>4 DEF Packed
    <3>2. x \in Packed(bs) <=> \E b \in 1 .. l : x \in ToSet(bs[b])
      BY <1>2 DEF Packed
    <3>. QED
      BY <2>2, <2>4, <2>5, <3>1, <3>2
  <2>. QED
    BY <1>3, <2>4, <2>6, <2>7, <2>8 DEF Batches
<1>6. CASE ~ (bs # <<>> /\ FastFits(Append(bs[Len(bs)], t)))
  <2>1. u = Append(bs, <<t>>)
    BY <1>3, <1>6 DEF Placed
  <2>2. DOMAIN u = 1 .. l + 1 /\ u[l + 1] = <<t>> /\ \A b \in 1 .. l : u[b] = bs[b]
    BY <1>1, <2>1
  <2>3. \A b \in 1 .. l + 1 : b = l + 1 \/ b \in 1 .. l
    BY <1>2
  <2>4. <<t>> # <<>> /\ ToSet(<<t>>) = {t} /\ OnceEach(<<t>>)
    BY DEF ToSet, OnceEach
  <2>5. \A b \in 1 .. l + 1 : u[b] # <<>> /\ FastFits(u[b]) /\ OnceEach(u[b])
    BY <1>2, <2>2, <2>3, <2>4 DEF Batches
  <2>6. Apart(u)
    <3>. SUFFICES ASSUME NEW i \in 1 .. l + 1, NEW j \in 1 .. l + 1, i # j
                  PROVE  ToSet(u[i]) \cap ToSet(u[j]) = {}
      BY <2>2 DEF Apart
    <3>1. \A a, b \in 1 .. l : a # b => ToSet(bs[a]) \cap ToSet(bs[b]) = {}
      BY <1>2 DEF Batches, Apart
    <3>2. ToSet(u[l + 1]) = {t} /\ \A b \in 1 .. l : ToSet(u[b]) = ToSet(bs[b])
      BY <2>2, <2>4
    <3>3. CASE i \in 1 .. l /\ j \in 1 .. l
      BY <3>1, <3>2, <3>3
    <3>4. CASE i = l + 1 /\ j \in 1 .. l
      BY <1>4, <3>2, <3>4
    <3>5. CASE i \in 1 .. l /\ j = l + 1
      BY <1>4, <3>2, <3>5
    <3>. QED
      BY <2>3, <3>3, <3>4, <3>5
  <2>7. Packed(u) = Packed(bs) \cup {t}
    <3>. SUFFICES ASSUME NEW x PROVE x \in Packed(u) <=> x \in Packed(bs) \cup {t}
      OBVIOUS
    <3>1. x \in Packed(u) <=> \E b \in 1 .. l + 1 : x \in ToSet(u[b])
      BY <2>2 DEF Packed
    <3>2. x \in Packed(bs) <=> \E b \in 1 .. l : x \in ToSet(bs[b])
      BY <1>2 DEF Packed
    <3>3. l + 1 \in 1 .. l + 1 /\ \A b \in 1 .. l : b \in 1 .. l + 1
      BY <1>2
    <3>. QED
      BY <2>2, <2>3, <2>4, <3>1, <3>2, <3>3
  <2>. QED
    BY <1>3, <2>2, <2>5, <2>6, <2>7 DEF Batches
<1>. QED
  BY <1>5, <1>6

LEMMA PackElements ==
  ASSUME NEW T, TaskSet(T), NEW tasks \in Seq(T), OnceEach(tasks),
         \A t \in ToSet(tasks) : FastFits(<<t>>)
  PROVE  /\ Pack(tasks) \in Seq(Seq(T))
         /\ Batches(Pack(tasks)) /\ Packed(Pack(tasks)) = ToSet(tasks)
<1>1. PICK s, f, n : /\ Permutes(s, tasks) /\ s \in Seq(T) /\ n = Len(s)
                     /\ PackedBy(f, s, n, T) /\ f[n] = Pack(tasks)
  BY PackSteps
<1>2. n \in Nat /\ DOMAIN s = 1 .. n /\ \A i \in 1 .. n : s[i] \in T
  BY <1>1
<1>3. \A i \in 0 .. n : f[i] \in Seq(Seq(T))
  BY <1>1 DEF PackedBy
<1>4. ToSet(s) = ToSet(tasks) /\ \A i, j \in 1 .. n : s[i] = s[j] => i = j
  <2>1. \A i, j \in DOMAIN tasks : tasks[i] = tasks[j] => i = j
    BY DEF OnceEach
  <2>2. DOMAIN s = DOMAIN tasks /\ ToSet(s) = ToSet(tasks)
    BY <1>1, PermutedElements
  <2>3. \A i, j \in DOMAIN s : s[i] = s[j] => i = j
    BY <1>1, <2>1, PermutedElements
  <2>. QED
    BY <1>2, <2>2, <2>3
<1>. DEFINE F == {i \in 0 .. n : Batches(f[i]) /\ Packed(f[i]) = {s[j] : j \in 1 .. i}}
<1>5. 0 \in F
  <2>1. f[0] = <<>> /\ DOMAIN f[0] = {}
    BY <1>1 DEF PackedBy
  <2>2. Batches(f[0]) /\ Packed(f[0]) = {}
    BY <2>1 DEF Batches, Packed, Apart
  <2>3. 0 \in 0 .. n /\ {s[j] : j \in 1 .. 0} = {}
    BY <1>2
  <2>. QED
    BY <2>2, <2>3
<1>6. ASSUME NEW k \in 0 .. n - 1, k \in F PROVE k + 1 \in F
  <2>1. k \in 0 .. n /\ k + 1 \in 1 .. n /\ k + 1 \in 0 .. n /\ (k + 1) - 1 = k
    BY <1>2
  <2>2. f[k + 1] = Placed(f[k], s[k + 1])
    BY <1>1, <2>1 DEF PackedBy
  <2>3. Batches(f[k]) /\ Packed(f[k]) = {s[j] : j \in 1 .. k}
    BY <1>6
  <2>4. s[k + 1] \in T /\ FastFits(<<s[k + 1]>>)
    BY <1>2, <1>4, <2>1 DEF ToSet
  <2>5. s[k + 1] \notin Packed(f[k])
    <3>1. \A j \in 1 .. k : j \in 1 .. n /\ j # k + 1
      BY <1>2, <2>1
    <3>. QED
      BY <1>4, <2>1, <2>3, <3>1
  <2>6. f[k] \in Seq(Seq(T))
    BY <1>3, <2>1
  <2>7. Batches(f[k + 1]) /\ Packed(f[k + 1]) = Packed(f[k]) \cup {s[k + 1]}
    BY <2>2, <2>3, <2>4, <2>5, <2>6, PlacedKeeps
  <2>8. {s[j] : j \in 1 .. k + 1} = {s[j] : j \in 1 .. k} \cup {s[k + 1]}
    <3>1. 1 .. k + 1 = 1 .. k \cup {k + 1}
      BY <2>1
    <3>. QED
      BY <3>1
  <2>. QED
    BY <2>1, <2>3, <2>7, <2>8
<1>7. 0 .. n \subseteq F
  <2>. HIDE DEF F
  <2>. QED
    BY <1>2, <1>5, <1>6, SetUpTo
<1>8. n \in 0 .. n
  BY <1>2
<1>9. Batches(f[n]) /\ Packed(f[n]) = {s[j] : j \in 1 .. n}
  BY <1>7, <1>8
<1>10. {s[j] : j \in 1 .. n} = ToSet(s)
  BY <1>2 DEF ToSet
<1>. QED
  BY <1>1, <1>3, <1>4, <1>8, <1>9, <1>10

(* What a forward is, and that no rank runs a task twice or leaves one out. *)
Forward(forward, T) ==
  /\ forward.batch \in Seq(T) /\ forward.batch # <<>>
  /\ \/ /\ forward.path = "fast" /\ FastFits(forward.batch)
        /\ \A t \in ToSet(forward.batch) : Fast(t)
     \/ /\ forward.path = "sequential"
        /\ \E t \in T : forward.batch = <<t>> /\ SequentialFits(t)

LEMMA ScoreManyElements ==
  ASSUME NEW T, TaskSet(T), NEW tasks \in Seq(T), ~ ScoreManyRefuses(tasks)
  PROVE  LET fs == ScoreMany(tasks)
             ran == FlattenSeq([i \in DOMAIN fs |-> fs[i].batch])
         IN  /\ \A i \in DOMAIN fs : Forward(fs[i], T)
             /\ ran \in Seq(T) /\ OnceEach(ran) /\ ToSet(ran) = ToSet(tasks)
<1>1. PICK a : a = FastShare(tasks)
  OBVIOUS
<1>2. PICK slow : slow = SlowShare(tasks)
  OBVIOUS
<1>3. /\ a \in Seq(T) /\ OnceEach(a) /\ ToSet(a) = {t \in ToSet(tasks) : Fast(t)}
      /\ slow \in Seq(T) /\ OnceEach(slow) /\ ToSet(slow) = {t \in ToSet(tasks) : ~ Fast(t)}
  BY <1>1, <1>2, ShareElements
<1>4. \A t \in ToSet(a) : FastFits(<<t>>)
  BY <1>3 DEF Fast
<1>5. PICK bs : bs = Pack(a)
  OBVIOUS
<1>6. bs \in Seq(Seq(T)) /\ Batches(bs) /\ Packed(bs) = ToSet(a)
  BY <1>3, <1>4, <1>5, PackElements
<1>7. PICK m, n : m = Len(bs) /\ n = Len(slow)
  OBVIOUS
<1>8. /\ m \in Nat /\ n \in Nat /\ DOMAIN bs = 1 .. m /\ DOMAIN slow = 1 .. n
      /\ (\A b \in 1 .. m : bs[b] \in Seq(T)) /\ \A i \in 1 .. n : slow[i] \in T
  BY <1>3, <1>6, <1>7
<1>9. PICK fs : fs = ScoreMany(tasks)
  OBVIOUS
<1>10. fs = [i \in DOMAIN bs |-> [path |-> "fast", batch |-> bs[i]]]
              \o [i \in DOMAIN slow |-> [path |-> "sequential", batch |-> <<slow[i]>>]]
  BY <1>1, <1>2, <1>5, <1>9 DEF ScoreMany
<1>11. /\ DOMAIN fs = 1 .. m + n
       /\ \A i \in 1 .. m : fs[i] = [path |-> "fast", batch |-> bs[i]]
       /\ \A i \in 1 .. n : fs[m + i] = [path |-> "sequential", batch |-> <<slow[i]>>]
  <2>1. PICK X : X = [i \in 1 .. m |-> [path |-> "fast", batch |-> bs[i]]]
    OBVIOUS
  <2>2. PICK Y : Y = [i \in 1 .. n |-> [path |-> "sequential", batch |-> <<slow[i]>>]]
    OBVIOUS
  <2>3. PICK W : W = {X[i] : i \in 1 .. m} \cup {Y[i] : i \in 1 .. n}
    OBVIOUS
  <2>4. X \in Seq(W) /\ Len(X) = m
    BY <1>8, <2>1, <2>3
  <2>5. Y \in Seq(W) /\ Len(Y) = n
    BY <1>8, <2>2, <2>3
  <2>6. fs = X \o Y
    BY <1>8, <1>10, <2>1, <2>2
  <2>7. DOMAIN fs = 1 .. m + n /\ \A i \in 1 .. m + n : fs[i] = IF i <= m THEN X[i] ELSE Y[i - m]
    BY <1>8, <2>4, <2>5, <2>6
  <2>8. \A i \in 1 .. m : i \in 1 .. m + n /\ i <= m
    BY <1>8
  <2>9. \A i \in 1 .. n : m + i \in 1 .. m + n /\ ~ (m + i <= m) /\ (m + i) - m = i
    BY <1>8
  <2>10. \A i \in 1 .. n : fs[m + i] = Y[i]
    BY <2>7, <2>9
  <2>. QED
    BY <2>1, <2>2, <2>7, <2>8, <2>10
<1>12. \A i \in 1 .. m + n : i \in 1 .. m \/ \E j \in 1 .. n : i = m + j
  <2>. SUFFICES ASSUME NEW i \in 1 .. m + n, i \notin 1 .. m PROVE \E j \in 1 .. n : i = m + j
    OBVIOUS
  <2>1. i - m \in 1 .. n /\ i = m + (i - m)
    BY <1>8
  <2>. QED
    BY <2>1
<1>13. ASSUME NEW i \in 1 .. m PROVE Forward(fs[i], T) /\ fs[i].batch = bs[i]
  <2>0. fs[i] = [path |-> "fast", batch |-> bs[i]]
    BY <1>11
  <2>1. fs[i].path = "fast" /\ fs[i].batch = bs[i]
    BY <2>0
  <2>2. bs[i] \in Seq(T) /\ bs[i] # <<>> /\ FastFits(bs[i])
    BY <1>6, <1>8 DEF Batches
  <2>3. \A t \in ToSet(bs[i]) : Fast(t)
    BY <1>3, <1>6, <1>8 DEF Packed
  <2>. QED
    BY <2>1, <2>2, <2>3 DEF Forward
<1>14. ASSUME NEW i \in 1 .. n PROVE Forward(fs[m + i], T) /\ fs[m + i].batch = <<slow[i]>>
  <2>0. fs[m + i] = [path |-> "sequential", batch |-> <<slow[i]>>]
    BY <1>11
  <2>1. fs[m + i].path = "sequential" /\ fs[m + i].batch = <<slow[i]>>
    BY <2>0
  <2>2. slow[i] \in ToSet(tasks) /\ ~ Fast(slow[i])
    BY <1>3, <1>8 DEF ToSet
  <2>3. SequentialFits(slow[i])
    BY <2>2 DEF ScoreManyRefuses, ToSet
  <2>4. <<slow[i]>> \in Seq(T) /\ <<slow[i]>> # <<>> /\ slow[i] \in T
    BY <1>8
  <2>. QED
    BY <2>1, <2>3, <2>4 DEF Forward
<1>15. PICK seqs : seqs = [i \in DOMAIN fs |-> fs[i].batch]
  OBVIOUS
<1>16. /\ DOMAIN seqs = 1 .. m + n
       /\ (\A i \in 1 .. m : seqs[i] = bs[i]) /\ \A i \in 1 .. n : seqs[m + i] = <<slow[i]>>
  <2>1. DOMAIN seqs = 1 .. m + n /\ \A i \in 1 .. m + n : seqs[i] = fs[i].batch
    BY <1>11, <1>15
  <2>2. \A i \in 1 .. m : i \in 1 .. m + n
    BY <1>8
  <2>3. \A i \in 1 .. n : m + i \in 1 .. m + n
    BY <1>8
  <2>. QED
    BY <1>13, <1>14, <2>1, <2>2, <2>3
<1>17. seqs \in Seq(Seq(T))
  <2>1. \A i \in 1 .. m + n : seqs[i] \in Seq(T)
    <3>. SUFFICES ASSUME NEW i \in 1 .. m + n PROVE seqs[i] \in Seq(T)
      OBVIOUS
    <3>1. CASE i \in 1 .. m
      BY <1>8, <1>16, <3>1
    <3>2. CASE i \notin 1 .. m
      <4>1. PICK j \in 1 .. n : i = m + j
        BY <1>12, <3>2
      <4>2. seqs[i] = <<slow[j]>> /\ slow[j] \in T
        BY <1>8, <1>16, <4>1
      <4>. QED
        BY <4>2
    <3>. QED
      BY <3>1, <3>2
  <2>2. seqs = [i \in 1 .. m + n |-> seqs[i]]
    BY <1>11, <1>15
  <2>3. m + n \in Nat
    BY <1>8
  <2>4. seqs \in [1 .. m + n -> Seq(T)]
    BY <2>1, <2>2
  <2>5. PICK Z : Z = Seq(T)
    OBVIOUS
  <2>6. seqs \in Seq(Z)
    BY <2>3, <2>4, <2>5
  <2>. QED
    BY <2>5, <2>6
<1>18. \A i \in 1 .. n : ToSet(<<slow[i]>>) = {slow[i]} /\ OnceEach(<<slow[i]>>)
  BY DEF ToSet, OnceEach
<1>19. UNION {ToSet(seqs[i]) : i \in DOMAIN seqs} = ToSet(tasks)
  <2>1. ASSUME NEW x, x \in ToSet(tasks) PROVE \E i \in 1 .. m + n : x \in ToSet(seqs[i])
    <3>1. CASE Fast(x)
      <4>1. x \in Packed(bs)
        BY <1>3, <1>6, <2>1, <3>1
      <4>2. PICK i \in 1 .. m : x \in ToSet(bs[i])
        BY <1>8, <4>1 DEF Packed
      <4>3. i \in 1 .. m + n
        BY <1>8
      <4>. QED
        BY <1>16, <4>2, <4>3
    <3>2. CASE ~ Fast(x)
      <4>1. x \in ToSet(slow)
        BY <1>3, <2>1, <3>2
      <4>2. PICK i \in 1 .. n : slow[i] = x
        BY <1>8, <4>1 DEF ToSet
      <4>3. m + i \in 1 .. m + n
        BY <1>8
      <4>. QED
        BY <1>16, <1>18, <4>2, <4>3
    <3>. QED
      BY <3>1, <3>2
  <2>2. ASSUME NEW i \in 1 .. m + n, NEW x \in ToSet(seqs[i]) PROVE x \in ToSet(tasks)
    <3>1. CASE i \in 1 .. m
      <4>1. x \in Packed(bs)
        BY <1>8, <1>16, <3>1 DEF Packed
      <4>. QED
        BY <1>3, <1>6, <4>1
    <3>2. CASE i \notin 1 .. m
      <4>1. PICK j \in 1 .. n : i = m + j
        BY <1>12, <3>2
      <4>2. x = slow[j]
        BY <1>16, <1>18, <4>1
      <4>3. x \in ToSet(slow)
        BY <1>8, <4>2 DEF ToSet
      <4>. QED
        BY <1>3, <4>3
    <3>. QED
      BY <3>1, <3>2
  <2>. QED
    BY <1>16, <2>1, <2>2
<1>20. \A i \in DOMAIN seqs : OnceEach(seqs[i])
  <2>. SUFFICES ASSUME NEW i \in 1 .. m + n PROVE OnceEach(seqs[i])
    BY <1>16
  <2>1. CASE i \in 1 .. m
    BY <1>6, <1>8, <1>16, <2>1 DEF Batches
  <2>2. CASE i \notin 1 .. m
    <3>1. PICK j \in 1 .. n : i = m + j
      BY <1>12, <2>2
    <3>. QED
      BY <1>16, <1>18, <3>1
  <2>. QED
    BY <2>1, <2>2
<1>21. Apart(seqs)
  <2>. SUFFICES ASSUME NEW i \in 1 .. m + n, NEW j \in 1 .. m + n, i # j
                PROVE  ToSet(seqs[i]) \cap ToSet(seqs[j]) = {}
    BY <1>16 DEF Apart
  <2>1. \A b \in 1 .. m, c \in 1 .. n : slow[c] \notin ToSet(bs[b])
    <3>1. \A c \in 1 .. n : slow[c] \in ToSet(slow)
      BY <1>8 DEF ToSet
    <3>2. \A b \in 1 .. m : \A x \in ToSet(bs[b]) : x \in ToSet(a)
      BY <1>6, <1>8 DEF Packed
    <3>. QED
      BY <1>3, <3>1, <3>2
  <2>2. CASE i \in 1 .. m /\ j \in 1 .. m
    BY <1>6, <1>8, <1>16, <2>2 DEF Batches, Apart
  <2>3. CASE i \in 1 .. m /\ j \notin 1 .. m
    <3>1. PICK c \in 1 .. n : j = m + c
      BY <1>12, <2>3
    <3>. QED
      BY <1>16, <1>18, <2>1, <2>3, <3>1
  <2>4. CASE i \notin 1 .. m /\ j \in 1 .. m
    <3>1. PICK c \in 1 .. n : i = m + c
      BY <1>12, <2>4
    <3>. QED
      BY <1>16, <1>18, <2>1, <2>4, <3>1
  <2>5. CASE i \notin 1 .. m /\ j \notin 1 .. m
    <3>1. PICK c \in 1 .. n : i = m + c
      BY <1>12, <2>5
    <3>2. PICK d \in 1 .. n : j = m + d
      BY <1>12, <2>5
    <3>3. c # d
      BY <3>1, <3>2
    <3>4. slow[c] # slow[d]
      BY <1>3, <1>8, <3>3 DEF OnceEach
    <3>. QED
      BY <1>16, <1>18, <3>1, <3>2, <3>4
  <2>. QED
    BY <2>2, <2>3, <2>4, <2>5
<1>22. PICK ran : ran = FlattenSeq(seqs)
  OBVIOUS
<1>23. ran \in Seq(T) /\ OnceEach(ran) /\ ToSet(ran) = ToSet(tasks)
  BY <1>17, <1>19, <1>20, <1>21, <1>22, FlattenElements
<1>24. \A i \in DOMAIN fs : Forward(fs[i], T)
  <2>. SUFFICES ASSUME NEW i \in 1 .. m + n PROVE Forward(fs[i], T)
    BY <1>11
  <2>1. CASE i \in 1 .. m
    BY <1>13, <2>1
  <2>2. CASE i \notin 1 .. m
    BY <1>12, <1>14, <2>2
  <2>. QED
    BY <2>1, <2>2
<1>. QED
  BY <1>9, <1>15, <1>22, <1>23, <1>24

----------------------------------------------------------------------------
(* What is handed over and what comes of it.                                *)

(* The answers of a task can be encoded and stand behind its first token.   *)
Encodable(t) ==
  \A target \in {t.prior, t.retrieved} :
    IsTarget(target) /\ target.offsets[1].end <= target.from

LEMMA WorkloadTasks ==
  ASSUME NEW w \in Workloads
  PROVE  \E T : /\ TaskSet(T) /\ \A t \in T : Encodable(t)
                /\ TasksOf(w) \in Seq(T) /\ TasksOf(w) # <<>> /\ ToSet(TasksOf(w)) = T
<1>1. IsWorkload(w)
  BY WorkloadConstants
<1>2. PICK seqs : seqs = [i \in DOMAIN w |-> w[i].trajectories]
  OBVIOUS
<1>3. TasksOf(w) = FlattenSeq(seqs)
  BY <1>2 DEF TasksOf
<1>4. PICK T : T = UNION {ToSet(seqs[i]) : i \in DOMAIN seqs}
  OBVIOUS
<1>5. \A i \in DOMAIN w : IsGroup(w[i]) /\ seqs[i] = w[i].trajectories
  BY <1>1, <1>2 DEF IsWorkload
<1>6. DOMAIN seqs = DOMAIN w
  BY <1>2
<1>7. \A i \in DOMAIN seqs : seqs[i] \in Seq(T)
  <2>. SUFFICES ASSUME NEW i \in DOMAIN seqs PROVE seqs[i] \in Seq(T)
    OBVIOUS
  <2>1. PICK q : q = seqs[i]
    OBVIOUS
  <2>2. q \in Seq(ToSet(q))
    BY <1>5, <1>6, <2>1 DEF IsGroup
  <2>3. ToSet(q) \subseteq T
    BY <1>4, <2>1
  <2>4. Len(q) \in Nat /\ q = [m \in 1 .. Len(q) |-> q[m]] /\ \A m \in 1 .. Len(q) : q[m] \in T
    BY <2>2, <2>3
  <2>. QED
    BY <2>1, <2>4
<1>8. seqs \in Seq(Seq(T))
  <2>1. w \in Seq(ToSet(w))
    BY <1>1 DEF IsWorkload
  <2>2. Len(w) \in Nat /\ DOMAIN w = 1 .. Len(w)
    BY <2>1
  <2>3. PICK Z : Z = Seq(T)
    OBVIOUS
  <2>4. seqs \in [1 .. Len(w) -> Z]
    BY <1>2, <1>6, <1>7, <2>2, <2>3
  <2>5. seqs \in Seq(Z)
    BY <2>2, <2>4
  <2>. QED
    BY <2>3, <2>5
<1>9. TasksOf(w) \in Seq(T) /\ ToSet(TasksOf(w)) = T
  BY <1>3, <1>4, <1>8, FlattenElements
<1>10. ASSUME NEW t \in T PROVE IsTask(t) /\ t.id \in Nat /\ Encodable(t)
  <2>1. PICK i \in DOMAIN w : t \in ToSet(w[i].trajectories)
    BY <1>4, <1>5, <1>6
  <2>2. IsGroup(w[i])
    BY <1>5
  <2>3. /\ IsTask(t) /\ {t.id, t.tokens, t.decision, t.query} \subseteq Nat
        /\ \A target \in {t.prior, t.retrieved} :
             IsTarget(target) /\ target.offsets[1].end <= target.from
    BY <2>1, <2>2 DEF IsGroup
  <2>. QED
    BY <2>3 DEF Encodable
<1>11. T # {}
  <2>1. PICK i \in DOMAIN w : w[i].selected
    BY <1>1 DEF IsWorkload
  <2>2. seqs[i] \in Seq(T) /\ seqs[i] # <<>>
    BY <1>5, <1>6, <1>7 DEF IsGroup
  <2>. QED
    BY <2>2
<1>12. TasksOf(w) # <<>>
  BY <1>9, <1>11 DEF ToSet
<1>. QED
  BY <1>9, <1>10, <1>12 DEF TaskSet

(* The builder refuses nothing that can be scored prefix by prefix.         *)
LEMMA BuilderTakes ==
  ASSUME NEW t, IsTask(t), Encodable(t), SequentialFits(t)
  PROVE  ~ BuildRefuses(t)
<1>1. \A target \in {t.prior, t.retrieved} :
        AnswerTokens(target) = {a \in DOMAIN target.offsets : Covers(target, a)}
  BY AnswerTokensCover DEF Encodable
<1>2. \A target \in {t.prior, t.retrieved} : ~ EncodeRefuses(target)
  <2>. SUFFICES ASSUME NEW target \in {t.prior, t.retrieved} PROVE ~ EncodeRefuses(target)
    OBVIOUS
  <2>1. \E a \in DOMAIN target.offsets : Covers(target, a)
    BY DEF Encodable, IsTarget
  <2>. QED
    BY <1>1, <2>1 DEF EncodeRefuses
<1>3. \A k \in PrefixesOf(t) : ~ PrefixRefuses(t, k)
  BY DEF SequentialFits
<1>4. \A k \in PrefixesOf(t) : 1 \notin AnswerTokens(Target(t, k))
  <2>. SUFFICES ASSUME NEW k \in PrefixesOf(t), 1 \in AnswerTokens(Target(t, k)) PROVE FALSE
    OBVIOUS
  <2>1. PICK target \in {t.prior, t.retrieved} : target = Target(t, k)
    BY DEF Target
  <2>2. 1 \in DOMAIN target.offsets /\ Covers(target, 1)
    BY <1>1, <2>1
  <2>3. /\ target.offsets[1].end \in Nat /\ target.from \in Nat
        /\ target.offsets[1].end <= target.from
    BY <2>2 DEF Encodable, IsTarget
  <2>4. target.offsets[1].end > target.from
    BY <2>2 DEF Covers
  <2>. QED
    BY <2>3, <2>4
<1>. QED
  BY <1>2, <1>3, <1>4 DEF BuildRefuses

(* Nor does a rank refuse its share of such tasks.                          *)
LEMMA RanksScore ==
  ASSUME NEW w \in Workloads
  PROVE  LET d == Dispatch(TasksOf(w))
         IN  /\ \A q, r \in Ranks : Len(d[q]) = Len(d[r])
             /\ (\A i \in DOMAIN TasksOf(w) : SequentialFits(TasksOf(w)[i])) =>
                  \A r \in Ranks : ~ ScoreManyRefuses(d[r])
<1>1. PICK T : /\ TaskSet(T) /\ \A t \in T : Encodable(t)
               /\ TasksOf(w) \in Seq(T) /\ TasksOf(w) # <<>> /\ ToSet(TasksOf(w)) = T
  BY WorkloadTasks
<1>2. PICK tasks : tasks = TasksOf(w)
  OBVIOUS
<1>3. PICK d : d = Dispatch(tasks)
  OBVIOUS
<1>4. /\ d \in [Ranks -> Seq(T)] /\ \A q, r \in Ranks : Len(d[q]) = Len(d[r])
      /\ UNION {ToSet(d[r]) : r \in Ranks} = ToSet(tasks)
  BY <1>1, <1>2, <1>3, DispatchElements
<1>5. ASSUME \A i \in DOMAIN tasks : SequentialFits(tasks[i]), NEW r \in Ranks
      PROVE  ~ ScoreManyRefuses(d[r])
  <2>1. \A t \in T : SequentialFits(t)
    BY <1>1, <1>2, <1>5 DEF ToSet
  <2>2. d[r] \in Seq(T) /\ \A i \in DOMAIN d[r] : d[r][i] \in T
    BY <1>4
  <2>3. ~ PackRefuses(FastShare(d[r]))
    <3>1. PICK a : a = FastShare(d[r])
      OBVIOUS
    <3>2. ToSet(a) = {t \in ToSet(d[r]) : Fast(t)}
      BY <2>2, <3>1, ShareElements
    <3>3. \A i \in DOMAIN a : FastFits(<<a[i]>>)
      BY <3>2 DEF Fast, ToSet
    <3>. QED
      BY <3>1, <3>3 DEF PackRefuses
  <2>. QED
    BY <2>1, <2>2, <2>3 DEF ScoreManyRefuses
<1>. QED
  BY <1>2, <1>3, <1>4, <1>5

----------------------------------------------------------------------------
(* The scores arrive.                                                       *)

ScoreInv ==
  /\ forwards = [r \in Ranks |-> forwards[r]]
  /\ call \in {"score", "pack"} =>
       /\ groups \in Workloads
       /\ \A i \in DOMAIN Tasks : ~ BuildRefuses(Tasks[i])
       /\ dispatch = Dispatch(Tasks)
       /\ \A r \in Ranks : call = "pack" \/ phase[r] = "answered" =>
            forwards[r] = ScoreMany(dispatch[r]) /\ ~ ScoreManyRefuses(dispatch[r])
  /\ call = "pack" => scored = {t.id : t \in UNION {ToSet(Ran(r)) : r \in Ranks}}

(* Without a fault the driver and the ranks keep in step.                   *)
TrainCalls ==
  {"collect", "score", "pack", "materialize", "zero_grad", "backward", "done", "raised"}
CalibrateCalls ==
  {"collect", "score", "pack", "materialize", "begin_profile", "begin_channel", "backward",
   "finish_channel", "finish_profile", "calibrate", "publish", "done", "raised"}

Unscorable == \E i \in DOMAIN Tasks : ~ SequentialFits(Tasks[i])
Cause == (attempted = Limit /\ ~ Enough(profiles)) \/ manifest = "earlier run"
NoneLost == \A r \in Ranks : phase[r] \in {"called", "waiting", "local", "answered"}

OpenAt(r, name, n) ==
  /\ profile[r].open /\ profile[r].channel = name
  /\ DOMAIN profile[r].gradients = {Channels[i] : i \in 1 .. n}

(* What the driver knows of the counters and the profile of a rank.         *)
TrainStep(r) ==
  /\ profile[r] = NoProfile
  /\ call \in {"collect", "score", "pack", "materialize"} => zeroed[r] = 0
  /\ call = "zero_grad" => zeroed[r] = IF phase[r] = "answered" THEN 1 ELSE 0
  /\ call = "backward" => zeroed[r] = 1
CalibrateStep(r) ==
  LET answered == phase[r] = "answered"
      name == Channels[channel]
  IN /\ call = "begin_profile" => IF answered THEN OpenAt(r, "none", 0) ELSE profile[r] = NoProfile
     /\ call = "begin_channel" => OpenAt(r, IF answered THEN name ELSE "none", channel - 1)
     /\ call = "backward" => OpenAt(r, name, channel - 1)
     /\ call = "finish_channel" =>
          IF answered THEN OpenAt(r, "none", channel) ELSE OpenAt(r, name, channel - 1)
     /\ call = "finish_profile" /\ ~ answered => OpenAt(r, "none", 3)
InStep(r) == IF stage = "train" THEN TrainStep(r) ELSE CalibrateStep(r)

CauseInv ==
  ~ faulted =>
    /\ ~ aborting
    /\ call \in IF stage = "train" THEN TrainCalls ELSE CalibrateCalls
    /\ channel \in 1 .. 3 /\ (call = "begin_profile" => channel = 1)
    /\ call \notin {"score", "raised"} \/ ~ Unscorable => NoneLost
    /\ call = "raised" /\ ~ Unscorable => Cause
    /\ call \in {"calibrate", "publish"} => Enough(profiles)
    /\ manifest \in {"none", "earlier run"} \/ (manifest = "this run" /\ call = "done")
    /\ \A r \in Ranks : InStep(r)

LEMMA ScoreInit == Init => ScoreInv
BY DEF Init, ScoreInv

LEMMA ScoreDriver ==
  ASSUME ScoreInv, Drive \/ Skip
  PROVE  ScoreInv'
<1>1. CASE TakeBatch
  <2>1. forwards' = [r \in Ranks |-> <<>>]
    BY <1>1 DEF TakeBatch
  <2>2. PICK w \in Workloads :
          /\ groups' = w
          /\ IF \E i \in DOMAIN TasksOf(w) : BuildRefuses(TasksOf(w)[i])
             THEN call' = "raised"
             ELSE Send("score") /\ dispatch' = Dispatch(TasksOf(w))
    BY <1>1 DEF TakeBatch
  <2>3. (forwards = [r \in Ranks |-> forwards[r]])'
    BY <2>1 DEF Ranks
  <2>4. CASE \E i \in DOMAIN TasksOf(w) : BuildRefuses(TasksOf(w)[i])
    BY <2>2, <2>3, <2>4 DEF ScoreInv
  <2>5. CASE ~ \E i \in DOMAIN TasksOf(w) : BuildRefuses(TasksOf(w)[i])
    <3>1. /\ call' = "score" /\ phase' = [r \in Ranks |-> "called"]
          /\ dispatch' = Dispatch(TasksOf(w))
      BY <2>2, <2>5 DEF Send
    <3>2. Tasks' = TasksOf(w)
      BY <2>2 DEF Tasks, TasksOf
    <3>3. Dispatch(Tasks)' = Dispatch(Tasks')
      OBVIOUS
    <3>4. (\A i \in DOMAIN Tasks : ~ BuildRefuses(Tasks[i]))'
      BY <2>5, <3>2
    <3>. QED
      BY <2>2, <2>3, <3>1, <3>2, <3>3, <3>4 DEF ScoreInv, Ranks
  <2>. QED
    BY <2>4, <2>5
<1>2. CASE ScoresArrive
  <2>1. /\ call = "score" /\ \A r \in Ranks : phase[r] = "answered"
        /\ call' \in {"pack", "raised"}
        /\ UNCHANGED <<groups, dispatch, forwards>>
        /\ scored' = {t.id : t \in UNION {ToSet(Ran(r)) : r \in Ranks}}
    BY <1>2 DEF ScoresArrive, AllAnswered, rankVars
  <2>2. /\ forwards = [r \in Ranks |-> forwards[r]]
        /\ groups \in Workloads
        /\ \A i \in DOMAIN Tasks : ~ BuildRefuses(Tasks[i])
        /\ dispatch = Dispatch(Tasks)
        /\ \A r \in Ranks : forwards[r] = ScoreMany(dispatch[r]) /\ ~ ScoreManyRefuses(dispatch[r])
    BY <2>1 DEF ScoreInv
  <2>. QED
    BY <2>1, <2>2 DEF ScoreInv, Tasks, Ran, Ranks
<1>3. CASE PackRounds \/ NextRound \/ AfterMaterialize \/ AfterZeroGrad \/ AfterBeginProfile
             \/ AfterBackward \/ AfterFinishChannel \/ AfterFinishProfile \/ Calibrate
  <2>1. call' \notin {"score", "pack"} /\ forwards' = forwards
    BY <1>3 DEF PackRounds, NextRound, AfterMaterialize, AfterZeroGrad, AfterBeginProfile,
                AfterBackward, AfterFinishChannel, AfterFinishProfile, Calibrate, Send,
                AllAnswered, RestUnchanged, rankVars
  <2>. QED
    BY <2>1 DEF ScoreInv, Ranks
<1>4. CASE WriteManifest \/ CallRaises \/ AbortEnds \/ Skip
  <2>1. call' \notin {"score", "pack"} /\ forwards' = forwards
    BY <1>4 DEF WriteManifest, CallRaises, AbortEnds, Skip, SkipBatch, InProfile, rankVars
  <2>. QED
    BY <2>1 DEF ScoreInv, Ranks
<1>. QED
  BY <1>1, <1>2, <1>3, <1>4 DEF Drive

(* Only Score answers the call, and with what the rank ran.                 *)
LEMMA ScoreRank ==
  ASSUME ScoreInv, CalibrationInv, NEW r \in Ranks, RankStep(r) \/ Fault(r)
  PROVE  ScoreInv'
<1>1. /\ UNCHANGED <<call, groups, dispatch, scored>>
      /\ phase \in [Ranks -> Phases] /\ forwards = [q \in Ranks |-> forwards[q]]
  BY DEF ScoreInv, CalibrationInv, RankStep, Meet, Leave, Watchdog, Fault, Score, Materialize,
         ZeroGrad, LossIsFinite, BackwardEnds, BeginProfile, BeginChannel, FinishChannel,
         FinishProfile, AbortProfile, Profiling, driverVars
<1>2. CASE Score(r)
  <2>1. call = "score"
    BY <1>2 DEF Score
  <2>2. CASE phase' = [phase EXCEPT ![r] = "raised"] /\ forwards' = forwards
    BY <1>1, <2>1, <2>2 DEF ScoreInv, Tasks, Ran, Ranks
  <2>3. CASE /\ phase' = [phase EXCEPT ![r] = "answered"]
             /\ forwards' = [forwards EXCEPT ![r] = ScoreMany(dispatch[r])]
             /\ ~ ScoreManyRefuses(dispatch[r])
    <3>1. (forwards = [q \in Ranks |-> forwards[q]])'
      BY <1>1, <2>3 DEF Ranks
    <3>2. /\ groups \in Workloads
          /\ \A i \in DOMAIN Tasks : ~ BuildRefuses(Tasks[i])
          /\ dispatch = Dispatch(Tasks)
      BY <2>1 DEF ScoreInv
    <3>3. ASSUME NEW q \in Ranks, phase'[q] = "answered"
          PROVE  forwards'[q] = ScoreMany(dispatch[q]) /\ ~ ScoreManyRefuses(dispatch[q])
      <4>1. CASE q = r
        BY <1>1, <2>3, <4>1
      <4>2. CASE q # r
        <5>1. phase[q] = "answered" /\ forwards'[q] = forwards[q]
          BY <1>1, <2>3, <3>3, <4>2
        <5>. QED
          BY <2>1, <5>1 DEF ScoreInv
      <4>. QED
        BY <4>1, <4>2
    <3>. QED
      BY <1>1, <2>1, <3>1, <3>2, <3>3 DEF ScoreInv, Tasks, Ranks
  <2>. QED
    BY <1>2, <2>2, <2>3 DEF Score, Answer, RaiseOn
<1>3. CASE \/ Meet(r) \/ Leave(r) \/ Watchdog(r) \/ Fault(r) \/ AbortProfile(r) \/ LossIsFinite(r)
  <2>1. forwards' = forwards
    BY <1>3 DEF Meet, Leave, Watchdog, Fault, AbortProfile, LossIsFinite, rankVars
  <2>2. \E p \in Phases \ {"answered"} : phase' = [phase EXCEPT ![r] = p]
    BY <1>3 DEF Meet, Leave, Watchdog, Fault, AbortProfile, LossIsFinite, Enter, RaiseOn, Phases
  <2>3. \A q \in Ranks : phase'[q] = "answered" => phase[q] = "answered"
    BY <1>1, <2>2
  <2>. QED
    BY <1>1, <2>1, <2>3 DEF ScoreInv, Tasks, Ran, Ranks
<1>4. CASE \/ Materialize(r) \/ ZeroGrad(r) \/ BackwardEnds(r) \/ BeginProfile(r)
           \/ BeginChannel(r) \/ FinishChannel(r) \/ FinishProfile(r)
  <2>1. call \notin {"score", "pack"} /\ forwards' = forwards
    BY <1>4 DEF Materialize, ZeroGrad, BackwardEnds, BeginProfile, BeginChannel, FinishChannel,
                FinishProfile, Profiling, rankVars
  <2>. QED
    BY <1>1, <2>1 DEF ScoreInv, Ranks
<1>. QED
  BY <1>2, <1>3, <1>4 DEF RankStep

(* The order of the ranks' answers does not matter, nor what a rank is      *)
(* given beside its own share.                                              *)
LEMMA ScoresAreIn ==
  ASSUME ScoreInv
  PROVE  EveryTaskScored
<1>1. SUFFICES ASSUME call = "pack"
               PROVE  EveryTaskScored
  BY DEF EveryTaskScored
<1>2. /\ groups \in Workloads
      /\ \A i \in DOMAIN Tasks : ~ BuildRefuses(Tasks[i])
      /\ dispatch = Dispatch(Tasks)
      /\ \A r \in Ranks : forwards[r] = ScoreMany(dispatch[r]) /\ ~ ScoreManyRefuses(dispatch[r])
      /\ scored = {t.id : t \in UNION {ToSet(Ran(r)) : r \in Ranks}}
  BY <1>1 DEF ScoreInv
<1>3. PICK T : /\ TaskSet(T) /\ \A t \in T : Encodable(t)
               /\ Tasks \in Seq(T) /\ Tasks # <<>> /\ ToSet(Tasks) = T
  BY <1>2, WorkloadTasks DEF Tasks
<1>4. /\ dispatch \in [Ranks -> Seq(T)]
      /\ UNION {ToSet(dispatch[r]) : r \in Ranks} = ToSet(Tasks)
  BY <1>2, <1>3, DispatchElements
<1>5. ASSUME NEW r \in Ranks
      PROVE  /\ \A i \in DOMAIN forwards[r] : Forward(forwards[r][i], T)
             /\ Ran(r) \in Seq(T) /\ OnceEach(Ran(r)) /\ ToSet(Ran(r)) = ToSet(dispatch[r])
  <2>1. dispatch[r] \in Seq(T) /\ ~ ScoreManyRefuses(dispatch[r])
    BY <1>2, <1>4
  <2>2. PICK fs : fs = ScoreMany(dispatch[r])
    OBVIOUS
  <2>3. forwards[r] = fs /\ Ran(r) = FlattenSeq([i \in DOMAIN fs |-> fs[i].batch])
    BY <1>2, <2>2 DEF Ran
  <2>. QED
    BY <1>3, <2>1, <2>2, <2>3, ScoreManyElements
<1>6. scored = {t.id : t \in ToSet(Tasks)}
  BY <1>2, <1>4, <1>5
<1>7. \A r \in Ranks : IsInjective(Ran(r))
  BY <1>5 DEF OnceEach, IsInjective
<1>8. \A t \in T : IsTask(t) /\ ~ BuildRefuses(t) /\ Encodable(t)
  BY <1>2, <1>3 DEF TaskSet, ToSet
<1>9. ASSUME NEW t \in T
      PROVE  \A k \in PrefixesOf(t) : DOMAIN OracleScores(t)[k] =
               {a \in 1 .. TargetLength(t, k) : Covers(Target(t, k), a)}
  <2>. SUFFICES ASSUME NEW k \in PrefixesOf(t)
                PROVE  DOMAIN OracleScores(t)[k] =
                         {a \in 1 .. TargetLength(t, k) : Covers(Target(t, k), a)}
    OBVIOUS
  <2>1. DOMAIN OracleScores(t)[k] = AnswerTokens(Target(t, k))
    BY DEF OracleScores, OracleScore
  <2>2. IsTarget(Target(t, k))
    BY <1>8 DEF Encodable, Target
  <2>3. DOMAIN Target(t, k).offsets = 1 .. TargetLength(t, k)
    BY <2>2 DEF IsTarget, TargetLength
  <2>. QED
    BY <2>1, <2>2, <2>3, AnswerTokensCover
<1>10. ASSUME NEW r \in Ranks, NEW i \in DOMAIN forwards[r], NEW batch,
              batch = forwards[r][i].batch, NEW t \in ToSet(batch)
       PROVE  /\ t \in T /\ ScoresOf(forwards[r][i], t) = OracleScores(t)
  <2>1. Forward(forwards[r][i], T)
    BY <1>5
  <2>2. t \in T
    BY <1>10, <2>1 DEF Forward, ToSet
  <2>3. forwards[r][i].path = "fast" => ~ Sequential(t)
    BY <1>10, <2>1 DEF Forward, Fast
  <2>. QED
    BY <1>8, <2>2, <2>3, FastIsOracle DEF ScoresOf
<1>11. ASSUME NEW r \in Ranks, NEW i \in DOMAIN forwards[r]
       PROVE  LET batch == forwards[r][i].batch
                  prefixes == UNION {{t.endpoints[k] + TargetLength(t, k) :
                                        k \in PrefixesOf(t)} : t \in ToSet(batch)}
                  longest == IF forwards[r][i].path = "fast"
                             THEN Max({ExtendedLength(t) : t \in ToSet(batch)})
                             ELSE Max(prefixes)
              IN  /\ Len(batch) <= MaxRecords
                  /\ Len(batch) * longest * longest <= MaxCost
                  /\ Len(batch) * longest <= MaxTokens
  <2>1. PICK batch : batch = forwards[r][i].batch
    OBVIOUS
  <2>2. PICK prefixes : prefixes = UNION {{t.endpoints[k] + TargetLength(t, k) :
                                             k \in PrefixesOf(t)} : t \in ToSet(batch)}
    OBVIOUS
  <2>3. Forward(forwards[r][i], T)
    BY <1>5
  <2>4. CASE forwards[r][i].path = "fast"
    <3>1. FastFits(batch)
      BY <2>1, <2>3, <2>4 DEF Forward
    <3>2. {ExtendedLength(batch[j]) : j \in DOMAIN batch} = {ExtendedLength(t) : t \in ToSet(batch)}
      BY DEF ToSet
    <3>3. Longest(batch) = Max({ExtendedLength(t) : t \in ToSet(batch)})
      BY <3>2 DEF Longest
    <3>. QED
      BY <2>1, <2>4, <3>1, <3>3 DEF FastFits
  <2>5. CASE forwards[r][i].path # "fast"
    <3>1. PICK t \in T : batch = <<t>> /\ SequentialFits(t)
      BY <2>1, <2>3, <2>5 DEF Forward
    <3>2. Len(batch) = 1 /\ ToSet(batch) = {t}
      BY <3>1 DEF ToSet
    <3>3. prefixes = {t.endpoints[k] + TargetLength(t, k) : k \in PrefixesOf(t)}
      BY <2>2, <3>2
    <3>4. IsTask(t)
      BY <1>8
    <3>5. Max(prefixes) \in prefixes
      <4>1. Len(t.endpoints) \in Nat \ {0} /\ PrefixesOf(t) = 1 .. Len(t.endpoints)
        BY <3>4 DEF IsTask, PrefixesOf
      <4>2. \A k \in PrefixesOf(t) : t.endpoints[k] + TargetLength(t, k) \in Int
        <5>. SUFFICES ASSUME NEW k \in PrefixesOf(t)
                      PROVE  t.endpoints[k] + TargetLength(t, k) \in Int
          OBVIOUS
        <5>1. TargetLength(t, k) \in Nat
          BY <3>4, LengthTypes
        <5>2. t.endpoints \in Seq(Nat) /\ k \in DOMAIN t.endpoints
          BY <3>4, <4>1 DEF IsTask
        <5>3. t.endpoints[k] \in Nat
          BY <5>2
        <5>. QED
          BY <5>1, <5>3
      <4>3. PICK h : h = [k \in PrefixesOf(t) |-> t.endpoints[k] + TargetLength(t, k)]
        OBVIOUS
      <4>4. h \in Surjection(PrefixesOf(t), prefixes)
        BY <3>3, <4>3 DEF Surjection
      <4>5. IsFiniteSet(PrefixesOf(t))
        BY <4>1, FS_Interval
      <4>6. IsFiniteSet(prefixes)
        BY <4>4, <4>5, FS_Surjection DEF ExistsSurjection
      <4>7. prefixes \in SUBSET Int
        BY <3>3, <4>2
      <4>8. prefixes # {}
        <5>1. 1 \in PrefixesOf(t)
          BY <4>1
        <5>. QED
          BY <3>3, <5>1
      <4>. QED
        BY <4>6, <4>7, <4>8, MaxOfFinite
    <3>6. PICK k \in PrefixesOf(t) : Max(prefixes) = t.endpoints[k] + TargetLength(t, k)
      BY <3>3, <3>5
    <3>7. PICK longest : longest = Max(prefixes)
      OBVIOUS
    <3>8. longest * longest <= MaxCost /\ longest <= MaxTokens
      BY <3>1, <3>6, <3>7 DEF SequentialFits
    <3>9. longest \in Int
      <4>1. TargetLength(t, k) \in Nat
        BY <3>4, LengthTypes
      <4>2. t.endpoints \in Seq(Nat) /\ k \in DOMAIN t.endpoints
        BY <3>4 DEF IsTask, PrefixesOf
      <4>3. t.endpoints[k] \in Nat
        BY <4>2
      <4>. QED
        BY <3>6, <3>7, <4>1, <4>3
    <3>10. 1 * longest * longest = longest * longest /\ 1 * longest = longest
      BY <3>9
    <3>11. 1 <= MaxRecords
      BY RankConstants
    <3>12. /\ Len(batch) <= MaxRecords /\ Len(batch) * longest * longest <= MaxCost
           /\ Len(batch) * longest <= MaxTokens
      BY <3>2, <3>8, <3>10, <3>11
    <3>. QED
      BY <2>1, <2>2, <2>5, <3>7, <3>12
  <2>. QED
    BY <2>4, <2>5
<1>12. ASSUME NEW r \in Ranks, NEW i \in DOMAIN forwards[r]
       PROVE  \A t \in ToSet(forwards[r][i].batch) :
                LET scores == ScoresOf(forwards[r][i], t)
                IN  /\ scores = OracleScores(t)
                    /\ \A k \in PrefixesOf(t) : DOMAIN scores[k] =
                         {a \in 1 .. TargetLength(t, k) : Covers(Target(t, k), a)}
  BY <1>9, <1>10
<1>. QED
  BY <1>6, <1>7, <1>11, <1>12 DEF EveryTaskScored

LEMMA ScoreKept ==
  ASSUME ScoreInv, CalibrationInv, [Next]_vars
  PROVE  ScoreInv'
<1>1. CASE Drive \/ Skip
  BY <1>1, ScoreDriver
<1>2. ASSUME NEW r \in Ranks, RankStep(r) \/ Fault(r)
      PROVE  ScoreInv'
  BY <1>2, ScoreRank
<1>3. CASE Rest \/ UNCHANGED vars
  <2>1. UNCHANGED <<call, phase, groups, dispatch, scored, forwards>>
    BY <1>3 DEF Rest, vars, driverVars, rankVars
  <2>. QED
    BY <2>1 DEF ScoreInv, Tasks, Ran, Ranks
<1>. QED
  BY <1>1, <1>2, <1>3 DEF Next

(* When the scores are in every task has them, each as the sequential       *)
(* oracle gives it, and none was run twice on a rank or in a forward beyond *)
(* its budget, for any workload, ranks and budgets.                         *)
THEOREM ScoresAreTheOracles == Spec => []EveryTaskScored
<1>1. Init => ScoreInv /\ CalibrationInv
  BY ScoreInit, CalibrationInit
<1>2. ScoreInv /\ CalibrationInv /\ [Next]_vars => (ScoreInv /\ CalibrationInv)'
  BY ScoreKept, CalibrationKept
<1>3. ScoreInv => EveryTaskScored
  BY ScoresAreIn
<1>. QED
  BY <1>1, <1>2, <1>3, PTL DEF Spec

LEMMA ChannelNames ==
  /\ Len(Channels) = 3 /\ ToSet(Channels) = {Channels[i] : i \in 1 .. 3}
  /\ \A c \in 1 .. 3 :
       /\ Channels[c] # "none"
       /\ Channels[c] \notin {Channels[i] : i \in 1 .. c - 1}
       /\ {Channels[i] : i \in 1 .. c} = {Channels[i] : i \in 1 .. c - 1} \cup {Channels[c]}
<1>1. Channels = <<"main", "decision", "query">>
  BY DEF Channels
<1>2. Len(Channels) = 3 /\ DOMAIN Channels = 1 .. 3
  BY <1>1
<1>3. Channels[1] = "main" /\ Channels[2] = "decision" /\ Channels[3] = "query"
  BY <1>1
<1>4. ASSUME NEW c \in 1 .. 3
      PROVE  /\ Channels[c] # "none"
             /\ Channels[c] \notin {Channels[i] : i \in 1 .. c - 1}
             /\ {Channels[i] : i \in 1 .. c} = {Channels[i] : i \in 1 .. c - 1} \cup {Channels[c]}
  <2>1. c = 1 \/ c = 2 \/ c = 3
    OBVIOUS
  <2>2. Channels[c] # "none"
    BY <1>3, <2>1
  <2>3. \A i \in 1 .. c - 1 : Channels[i] # Channels[c]
    <3>. SUFFICES ASSUME NEW i \in 1 .. c - 1 PROVE Channels[i] # Channels[c]
      OBVIOUS
    <3>1. (c = 2 /\ i = 1) \/ (c = 3 /\ (i = 1 \/ i = 2))
      BY <2>1
    <3>. QED
      BY <1>3, <3>1
  <2>4. 1 .. c = 1 .. c - 1 \cup {c}
    OBVIOUS
  <2>5. {Channels[i] : i \in 1 .. c} = {Channels[i] : i \in 1 .. c - 1} \cup {Channels[c]}
    BY <2>4
  <2>. QED
    BY <2>2, <2>3, <2>5
<1>. QED
  BY <1>2, <1>4 DEF ToSet

LEMMA CauseInit == Init => CauseInv
<1>. SUFFICES ASSUME Init PROVE CauseInv
  OBVIOUS
<1>1. stage = "train" \/ stage = "calibrate"
  BY RankConstants DEF Init
<1>2. /\ call = "collect" /\ ~ aborting /\ channel = 1 /\ manifest \in {"none", "earlier run"}
      /\ \A r \in Ranks : phase[r] = "answered" /\ profile[r] = NoProfile /\ zeroed[r] = 0
  BY <1>1 DEF Init
<1>3. \A r \in Ranks : InStep(r)
  BY <1>2 DEF InStep, TrainStep, CalibrateStep
<1>4. call \in TrainCalls /\ call \in CalibrateCalls /\ NoneLost
  BY <1>2 DEF TrainCalls, CalibrateCalls, NoneLost
<1>5. channel \in 1 .. 3
  <2>1. channel = 1
    BY <1>2
  <2>. QED
    BY <2>1
<1>. QED
  BY <1>2, <1>3, <1>4, <1>5 DEF CauseInv

(* In step, no rank refuses what the driver calls.                          *)
LEMMA NoneRefuses ==
  ASSUME CauseInv, CalibrationInv, ~ faulted, NEW r \in Ranks, phase[r] = "called"
  PROVE  ~ Refuses(r)
<1>1. InStep(r) /\ channel \in 1 .. 3 /\ (call = "begin_profile" => channel = 1)
  BY DEF CauseInv
<1>2. stage = "train" \/ stage = "calibrate"
  BY RankConstants DEF CalibrationInv
<1>3. CASE stage = "train"
  <2>1. TrainStep(r) /\ call \in TrainCalls
    BY <1>1, <1>3 DEF InStep, CauseInv
  <2>2. profile[r].channel = "none"
    BY <2>1 DEF TrainStep, NoProfile
  <2>. QED
    BY <2>1, <2>2 DEF TrainStep, TrainCalls, Refuses
<1>4. CASE stage = "calibrate"
  <2>1. /\ CalibrateStep(r) /\ call \in CalibrateCalls
        /\ ~ Counted(r)
    <3>1. CalibrateStep(r) /\ call \in CalibrateCalls
      BY <1>1, <1>4 DEF InStep, CauseInv
    <3>2. LeavesNothing(r)
      BY <1>4 DEF CalibrationInv
    <3>. QED
      BY <3>1, <3>2 DEF LeavesNothing, Counted
  <2>2. Channels[channel] # "none" /\ Channels[channel] \notin {Channels[i] : i \in 1 .. channel - 1}
    BY <1>1, ChannelNames
  <2>3. CASE call = "begin_profile"
    BY <2>1, <2>3 DEF CalibrateStep, Refuses, NoProfile
  <2>4. CASE call = "begin_channel"
    BY <2>1, <2>2, <2>4 DEF CalibrateStep, Refuses, OpenAt
  <2>5. CASE call = "backward"
    <3>1. profile[r].open /\ profile[r].channel # "none"
      BY <2>1, <2>2, <2>5 DEF CalibrateStep, OpenAt
    <3>. QED
      BY <2>1, <2>5, <3>1 DEF Refuses
  <2>6. CASE call = "finish_channel"
    BY <2>1, <2>6 DEF CalibrateStep, Refuses, OpenAt
  <2>7. CASE call = "finish_profile"
    <3>1. /\ profile[r].open /\ profile[r].channel = "none"
          /\ DOMAIN profile[r].gradients = ToSet(Channels)
      BY <2>1, <2>7, ChannelNames DEF CalibrateStep, OpenAt
    <3>. QED
      BY <2>7, <3>1 DEF Refuses
  <2>. QED
    BY <2>1, <2>3, <2>4, <2>5, <2>6, <2>7 DEF CalibrateCalls, Refuses
<1>. QED
  BY <1>2, <1>3, <1>4

(* The driver goes on only when every rank is where it expects it.          *)
LEMMA CauseDriver ==
  ASSUME CauseInv, CalibrationInv, ScoreInv, Drive \/ Skip
  PROVE  CauseInv'
<1>. SUFFICES ASSUME ~ faulted' PROVE CauseInv'
  BY DEF CauseInv
<1>1. UNCHANGED <<stage, grads, zeroed, backward, profile, faulted>>
  <2>1. faulted' = faulted
    BY DEF Drive, Skip, TakeBatch, ScoresArrive, PackRounds, NextRound, AfterMaterialize,
           AfterZeroGrad, AfterBeginProfile, AfterBackward, AfterFinishChannel,
           AfterFinishProfile, Calibrate, WriteManifest, CallRaises, AbortEnds, SkipBatch,
           RestUnchanged
  <2>. QED
    BY <2>1, DriverLeavesRanks
<1>2. /\ ~ faulted /\ ~ aborting
      /\ call \in IF stage = "train" THEN TrainCalls ELSE CalibrateCalls
      /\ channel \in 1 .. 3 /\ (call = "begin_profile" => channel = 1)
      /\ call \notin {"score", "raised"} \/ ~ Unscorable => NoneLost
      /\ call = "raised" /\ ~ Unscorable => Cause
      /\ call \in {"calibrate", "publish"} => Enough(profiles)
      /\ manifest \in {"none", "earlier run"} \/ (manifest = "this run" /\ call = "done")
      /\ \A r \in Ranks : InStep(r)
  BY <1>1 DEF CauseInv
<1>20. channel \in Int /\ channel - 1 \in Int /\ (channel = 1 \/ channel = 2 \/ channel = 3)
  <2>1. channel \in 1 .. 3
    BY <1>2
  <2>. QED
    BY <2>1
<1>3. stage = "train" \/ stage = "calibrate"
  BY RankConstants DEF CalibrationInv
<1>21. /\ stage = "train" => call \in TrainCalls
       /\ stage = "calibrate" => call \in CalibrateCalls
  BY <1>2
<1>4. stage = "calibrate" => \A r \in Ranks : LeavesNothing(r)
  BY DEF CalibrationInv
<1>5. CASE TakeBatch
  <2>1. /\ call = "collect" /\ UNCHANGED <<aborting, channel, manifest, profiles>>
    BY <1>5 DEF TakeBatch
  <2>2. PICK w \in Workloads :
          /\ groups' = w
          /\ IF \E i \in DOMAIN TasksOf(w) : BuildRefuses(TasksOf(w)[i])
             THEN call' = "raised" /\ UNCHANGED phase
             ELSE Send("score")
    BY <1>5 DEF TakeBatch
  <2>3. Tasks' = TasksOf(w)
    BY <2>2 DEF Tasks
  <2>4. CASE \E i \in DOMAIN TasksOf(w) : BuildRefuses(TasksOf(w)[i])
    <3>1. PICK i \in DOMAIN TasksOf(w) : BuildRefuses(TasksOf(w)[i])
      BY <2>4
    <3>2. PICK T : /\ TaskSet(T) /\ \A t \in T : Encodable(t)
                   /\ TasksOf(w) \in Seq(T) /\ TasksOf(w) # <<>> /\ ToSet(TasksOf(w)) = T
      BY WorkloadTasks
    <3>3. ~ SequentialFits(TasksOf(w)[i])
      BY <3>1, <3>2, BuilderTakes DEF TaskSet
    <3>4. Unscorable'
      BY <2>3, <3>1, <3>3 DEF Unscorable
    <3>5. call' = "raised" /\ phase' = phase
      BY <2>2, <2>4
    <3>6. \A r \in Ranks : InStep(r)'
      BY <1>1, <1>2, <1>3, <2>1, <3>5 DEF InStep, TrainStep, CalibrateStep
    <3>. QED
      BY <1>1, <1>2, <1>3, <2>1, <3>4, <3>5, <3>6 DEF CauseInv, TrainCalls, CalibrateCalls
  <2>5. CASE ~ \E i \in DOMAIN TasksOf(w) : BuildRefuses(TasksOf(w)[i])
    <3>1. call' = "score" /\ phase' = [r \in Ranks |-> "called"]
      BY <2>2, <2>5 DEF Send
    <3>2. \A r \in Ranks : InStep(r)'
      BY <1>1, <1>2, <1>3, <2>1, <3>1 DEF InStep, TrainStep, CalibrateStep
    <3>3. NoneLost'
      BY <3>1 DEF NoneLost, Ranks
    <3>. QED
      BY <1>1, <1>2, <1>3, <2>1, <3>1, <3>2, <3>3 DEF CauseInv, TrainCalls, CalibrateCalls
  <2>. QED
    BY <2>4, <2>5
<1>6. CASE ScoresArrive
  <2>1. /\ call = "score" /\ \A r \in Ranks : phase[r] = "answered"
        /\ UNCHANGED <<aborting, channel, manifest, profiles, phase, groups, attempted>>
        /\ scored' = {t.id : t \in UNION {ToSet(Ran(r)) : r \in Ranks}}
        /\ call' = IF \E i \in DOMAIN Tasks : Tasks[i].id \notin scored' THEN "raised" ELSE "pack"
    BY <1>6 DEF ScoresArrive, AllAnswered
  <2>2. call' = "pack"
    <3>1. /\ groups \in Workloads /\ dispatch = Dispatch(Tasks)
          /\ \A r \in Ranks : forwards[r] = ScoreMany(dispatch[r]) /\ ~ ScoreManyRefuses(dispatch[r])
      BY <2>1 DEF ScoreInv
    <3>2. PICK T : /\ TaskSet(T) /\ \A t \in T : Encodable(t)
                   /\ Tasks \in Seq(T) /\ Tasks # <<>> /\ ToSet(Tasks) = T
      BY <3>1, WorkloadTasks DEF Tasks
    <3>3. /\ dispatch \in [Ranks -> Seq(T)]
          /\ UNION {ToSet(dispatch[r]) : r \in Ranks} = ToSet(Tasks)
      BY <3>1, <3>2, DispatchElements
    <3>4. ASSUME NEW r \in Ranks PROVE ToSet(Ran(r)) = ToSet(dispatch[r])
      <4>1. dispatch[r] \in Seq(T) /\ ~ ScoreManyRefuses(dispatch[r])
        BY <3>1, <3>3
      <4>2. PICK fs : fs = ScoreMany(dispatch[r])
        OBVIOUS
      <4>3. Ran(r) = FlattenSeq([i \in DOMAIN fs |-> fs[i].batch])
        BY <3>1, <4>2 DEF Ran
      <4>. QED
        BY <3>2, <4>1, <4>2, <4>3, ScoreManyElements
    <3>5. scored' = {t.id : t \in ToSet(Tasks)}
      BY <2>1, <3>3, <3>4
    <3>6. \A i \in DOMAIN Tasks : Tasks[i].id \in scored'
      BY <3>5 DEF ToSet
    <3>. QED
      BY <2>1, <3>6
  <2>3. \A r \in Ranks : InStep(r)'
    BY <1>1, <1>2, <1>3, <2>1, <2>2 DEF InStep, TrainStep, CalibrateStep
  <2>4. NoneLost'
    BY <2>1 DEF NoneLost
  <2>. QED
    BY <1>1, <1>2, <1>3, <2>1, <2>2, <2>3, <2>4 DEF CauseInv, TrainCalls, CalibrateCalls
<1>7. CASE PackRounds
  <2>1. /\ call = "pack" /\ call' = "materialize" /\ phase' = [r \in Ranks |-> "called"]
        /\ UNCHANGED <<aborting, channel, manifest, profiles>>
    BY <1>7 DEF PackRounds, Send
  <2>2. \A r \in Ranks : InStep(r)'
    BY <1>1, <1>2, <1>3, <2>1 DEF InStep, TrainStep, CalibrateStep
  <2>3. NoneLost'
    BY <2>1 DEF NoneLost, Ranks
  <2>. QED
    BY <1>1, <1>2, <1>3, <2>1, <2>2, <2>3 DEF CauseInv, TrainCalls, CalibrateCalls
<1>8. CASE NextRound
  <2>1. /\ call \in {"materialize", "backward"} /\ call' = call
        /\ phase' = [r \in Ranks |-> "called"]
        /\ UNCHANGED <<aborting, channel, manifest, profiles>>
    BY <1>8 DEF NextRound, AllAnswered, Send, RestUnchanged
  <2>2. \A r \in Ranks : InStep(r)'
    BY <1>1, <1>2, <1>3, <2>1 DEF InStep, TrainStep, CalibrateStep, OpenAt
  <2>3. NoneLost'
    BY <2>1 DEF NoneLost, Ranks
  <2>. QED
    BY <1>1, <1>2, <1>3, <2>1, <2>2, <2>3 DEF CauseInv, TrainCalls, CalibrateCalls
<1>9. CASE AfterMaterialize
  <2>1. /\ call = "materialize" /\ phase' = [r \in Ranks |-> "called"]
        /\ channel' = 1 /\ UNCHANGED <<aborting, manifest, profiles>>
        /\ call' = IF stage = "train" THEN "zero_grad" ELSE "begin_profile"
    BY <1>9 DEF AfterMaterialize, AllAnswered, Send, RestUnchanged
  <2>2. stage = "calibrate" => \A r \in Ranks : profile[r] = NoProfile
    BY <1>4, <2>1 DEF LeavesNothing, Clean, Quiet
  <2>3. \A r \in Ranks : InStep(r)'
    BY <1>1, <1>2, <1>3, <2>1, <2>2 DEF InStep, TrainStep, CalibrateStep
  <2>4. NoneLost'
    BY <2>1 DEF NoneLost, Ranks
  <2>5. (call \in IF stage = "train" THEN TrainCalls ELSE CalibrateCalls)'
    BY <1>1, <2>1 DEF TrainCalls, CalibrateCalls
  <2>6. manifest' \in {"none", "earlier run"} /\ ~ aborting'
    BY <1>2, <2>1
  <2>8. channel' \in 1 .. 3
    <3>1. channel' = 1
      BY <2>1
    <3>. QED
      BY <3>1
  <2>7. call' \notin {"raised", "calibrate", "publish"} /\ (call' = "begin_profile" => channel' = 1)
    BY <2>1
  <2>. QED
    BY <2>3, <2>4, <2>5, <2>6, <2>7, <2>8 DEF CauseInv
<1>10. CASE AfterZeroGrad
  <2>1. /\ call \in {"zero_grad", "begin_channel"} /\ \A r \in Ranks : phase[r] = "answered"
        /\ call' = "backward" /\ phase' = [r \in Ranks |-> "called"]
        /\ UNCHANGED <<aborting, channel, manifest, profiles>>
    BY <1>10 DEF AfterZeroGrad, AllAnswered, Send, RestUnchanged
  <2>2. \A r \in Ranks : InStep(r)'
    BY <1>1, <1>2, <1>3, <2>1
       DEF InStep, TrainStep, CalibrateStep, OpenAt, TrainCalls, CalibrateCalls
  <2>3. NoneLost'
    BY <2>1 DEF NoneLost, Ranks
  <2>. QED
    BY <1>1, <1>2, <1>3, <2>1, <2>2, <2>3 DEF CauseInv, TrainCalls, CalibrateCalls
<1>11. CASE AfterBeginProfile
  <2>1. /\ call = "begin_profile" /\ \A r \in Ranks : phase[r] = "answered"
        /\ call' = "begin_channel" /\ phase' = [r \in Ranks |-> "called"]
        /\ UNCHANGED <<aborting, channel, manifest, profiles>>
    BY <1>11 DEF AfterBeginProfile, AllAnswered, Send, RestUnchanged
  <2>2. stage = "calibrate" /\ channel = 1 /\ channel - 1 = 0
    <3>1. stage = "calibrate"
      BY <1>3, <1>21, <2>1 DEF TrainCalls
    <3>2. channel = 1
      BY <1>2, <2>1
    <3>. QED
      BY <3>1, <3>2
  <2>3. \A r \in Ranks : OpenAt(r, "none", 0)
    BY <1>2, <2>1, <2>2 DEF InStep, CalibrateStep
  <2>4. \A r \in Ranks : InStep(r)'
    BY <1>1, <2>1, <2>2, <2>3 DEF InStep, CalibrateStep, OpenAt
  <2>5. NoneLost'
    BY <2>1 DEF NoneLost, Ranks
  <2>. QED
    BY <1>1, <1>2, <2>1, <2>2, <2>4, <2>5 DEF CauseInv, CalibrateCalls
<1>12. CASE AfterBackward
  <2>1. /\ call = "backward" /\ \A r \in Ranks : phase[r] = "answered"
        /\ IF stage = "train" THEN call' = "done" /\ phase' = phase
           ELSE call' = "finish_channel" /\ phase' = [r \in Ranks |-> "called"]
        /\ UNCHANGED <<aborting, channel, manifest, profiles>>
    BY <1>12 DEF AfterBackward, AllAnswered, Send, RestUnchanged
  <2>2. \A r \in Ranks : InStep(r)'
    BY <1>1, <1>2, <1>3, <2>1 DEF InStep, TrainStep, CalibrateStep, OpenAt
  <2>3. NoneLost'
    BY <2>1 DEF NoneLost, Ranks
  <2>. QED
    BY <1>1, <1>2, <1>3, <2>1, <2>2, <2>3 DEF CauseInv, TrainCalls, CalibrateCalls
<1>13. CASE AfterFinishChannel
  <2>1. /\ call = "finish_channel" /\ \A r \in Ranks : phase[r] = "answered"
        /\ phase' = [r \in Ranks |-> "called"]
        /\ IF channel < 3 THEN channel' = channel + 1 /\ call' = "begin_channel"
           ELSE channel' = channel /\ call' = "finish_profile"
        /\ UNCHANGED <<aborting, manifest, profiles>>
    BY <1>13, ChannelNames DEF AfterFinishChannel, AllAnswered, Send, RestUnchanged
  <2>2. stage = "calibrate" /\ \A r \in Ranks : OpenAt(r, "none", channel)
    BY <1>2, <1>3, <2>1 DEF InStep, CalibrateStep, TrainCalls
  <2>3. \A r \in Ranks : InStep(r)'
    <3>1. CASE channel < 3
      <4>1. channel' - 1 = channel
        BY <1>20, <2>1, <3>1
      <4>. QED
        BY <1>1, <2>1, <2>2, <3>1, <4>1 DEF InStep, CalibrateStep, OpenAt
    <3>2. CASE ~ (channel < 3)
      <4>1. channel = 3
        BY <1>20, <3>2
      <4>. QED
        BY <1>1, <2>1, <2>2, <3>2, <4>1 DEF InStep, CalibrateStep, OpenAt
    <3>. QED
      BY <3>1, <3>2
  <2>4. NoneLost'
    BY <2>1 DEF NoneLost, Ranks
  <2>5. channel' \in 1 .. 3
    BY <1>20, <2>1
  <2>. QED
    BY <1>1, <1>2, <2>1, <2>2, <2>3, <2>4, <2>5 DEF CauseInv, CalibrateCalls
<1>14. CASE AfterFinishProfile
  <2>1. /\ call = "finish_profile" /\ \A r \in Ranks : phase[r] = "answered"
        /\ call' = IF \E r \in Ranks : Counted(r) THEN "raised"
                   ELSE IF Enough(profiles') THEN "calibrate" ELSE "collect"
        /\ UNCHANGED <<aborting, channel, manifest, phase>>
    BY <1>14 DEF AfterFinishProfile, AllAnswered, RestUnchanged
  <2>2. stage = "calibrate" /\ \A r \in Ranks : ~ Counted(r)
    <3>1. stage = "calibrate"
      BY <1>3, <1>21, <2>1 DEF TrainCalls
    <3>. QED
      BY <1>4, <3>1 DEF LeavesNothing, Counted
  <2>3. call' \in {"calibrate", "collect"} /\ (call' = "calibrate" => Enough(profiles'))
    BY <2>1, <2>2
  <2>4. \A r \in Ranks : InStep(r)'
    BY <1>1, <2>1, <2>2, <2>3 DEF InStep, CalibrateStep
  <2>5. NoneLost'
    BY <2>1 DEF NoneLost
  <2>6. (call \in {"calibrate", "publish"} => Enough(profiles))'
    BY <2>3 DEF Enough
  <2>. QED
    BY <1>1, <1>2, <2>1, <2>2, <2>3, <2>4, <2>5, <2>6 DEF CauseInv, CalibrateCalls
<1>15. CASE Calibrate
  <2>1. /\ \/ call = "calibrate"
           \/ stage = "calibrate" /\ call = "collect" /\ attempted = Limit
        /\ call' = IF Enough(profiles) THEN "publish" ELSE "raised"
        /\ UNCHANGED <<aborting, channel, manifest, phase, profiles, attempted, groups>>
    BY <1>15 DEF Calibrate, RestUnchanged
  <2>2. stage = "calibrate" /\ NoneLost
    BY <1>2, <1>3, <2>1 DEF TrainCalls
  <2>3. \A r \in Ranks : InStep(r)'
    BY <1>1, <2>1, <2>2 DEF InStep, CalibrateStep
  <2>4. NoneLost'
    BY <2>1, <2>2 DEF NoneLost
  <2>5. call' = "raised" => attempted = Limit /\ ~ Enough(profiles)
    BY <1>2, <2>1
  <2>6. Enough(profiles)' <=> Enough(profiles)
    BY <2>1 DEF Enough, Decisions, Queries
  <2>7. Limit' = Limit
    BY <1>1 DEF Limit
  <2>8. call' = "raised" => Cause'
    BY <2>1, <2>5, <2>6, <2>7 DEF Cause
  <2>9. call' = "publish" => Enough(profiles)'
    BY <2>1, <2>6
  <2>. QED
    BY <1>1, <1>2, <2>1, <2>2, <2>3, <2>4, <2>8, <2>9 DEF CauseInv, CalibrateCalls
<1>16. CASE WriteManifest
  <2>1. /\ call = "publish"
        /\ IF manifest = "none" THEN manifest' = "this run" /\ call' = "done"
           ELSE manifest' = manifest /\ call' = "raised"
        /\ UNCHANGED <<aborting, channel, phase, groups>>
    BY <1>16 DEF WriteManifest
  <2>2. NoneLost /\ stage = "calibrate"
    BY <1>2, <1>3, <2>1 DEF TrainCalls
  <2>3. NoneLost'
    BY <2>1, <2>2 DEF NoneLost
  <2>4. \A r \in Ranks : InStep(r)'
    BY <1>1, <2>1, <2>2 DEF InStep, CalibrateStep
  <2>5. call' = "raised" => Cause'
    BY <1>2, <2>1 DEF Cause
  <2>6. call' \notin {"calibrate", "publish"}
    BY <2>1
  <2>7. manifest' \in {"none", "earlier run"} \/ (manifest' = "this run" /\ call' = "done")
    BY <1>2, <2>1
  <2>. QED
    BY <1>1, <1>2, <2>1, <2>2, <2>3, <2>4, <2>5, <2>6, <2>7 DEF CauseInv, CalibrateCalls
<1>17. CASE CallRaises
  <2>1. /\ call \notin {"collect", "pack", "calibrate", "publish", "raised", "done"}
        /\ \E r \in Ranks : phase[r] \in {"raised", "dead"}
        /\ UNCHANGED <<groups, channel, manifest, phase>>
        /\ IF stage = "calibrate" /\ call \in InProfile \cup {"backward"}
           THEN aborting' = TRUE /\ call' = call
           ELSE aborting' = aborting /\ call' = "raised"
    BY <1>17 DEF CallRaises
  <2>2. ~ NoneLost
    BY <2>1 DEF NoneLost
  <2>3. call = "score" /\ Unscorable
    BY <1>2, <2>1, <2>2
  <2>4. call' = "raised" /\ aborting' = aborting
    BY <2>1, <2>3 DEF InProfile
  <2>5. Unscorable'
    BY <2>1, <2>3 DEF Unscorable, Tasks
  <2>6. \A r \in Ranks : InStep(r)'
    BY <1>1, <1>2, <1>3, <2>1, <2>3, <2>4 DEF InStep, TrainStep, CalibrateStep
  <2>. QED
    BY <1>1, <1>2, <1>3, <2>1, <2>3, <2>4, <2>5, <2>6 DEF CauseInv, TrainCalls, CalibrateCalls
<1>18. CASE AbortEnds
  BY <1>2, <1>18 DEF AbortEnds
<1>19. CASE Skip
  <2>1. /\ call = "collect"
        /\ UNCHANGED <<call, aborting, groups, channel, manifest, profiles, phase>>
    BY <1>19 DEF Skip, SkipBatch
  <2>2. NoneLost'
    BY <1>2, <2>1 DEF NoneLost
  <2>3. \A r \in Ranks : InStep(r)'
    BY <1>1, <1>2, <2>1 DEF InStep, TrainStep, CalibrateStep
  <2>. QED
    BY <1>1, <1>2, <2>1, <2>2, <2>3 DEF CauseInv
<1>. QED
  BY <1>5, <1>6, <1>7, <1>8, <1>9, <1>10, <1>11, <1>12, <1>13, <1>14, <1>15, <1>16, <1>17,
     <1>18, <1>19 DEF Drive

(* A rank raises only in a call for tasks that cannot be scored.            *)
LEMMA CauseOwnStep ==
  ASSUME CauseInv, CalibrationInv, ScoreInv, NEW r \in Ranks, RankStep(r), ~ faulted
  PROVE  /\ call \notin {"score", "raised"} \/ ~ Unscorable =>
              phase'[r] \in {"called", "waiting", "local", "answered"}
         /\ InStep(r)'
<1>1. /\ call' = call /\ stage' = stage /\ channel' = channel
      /\ phase \in [Ranks -> Phases]
      /\ grads = [q \in Ranks |-> grads[q]] /\ profile = [q \in Ranks |-> profile[q]]
      /\ zeroed = [q \in Ranks |-> zeroed[q]]
  BY DEF CalibrationInv, RankStep, Meet, Leave, Watchdog, Fault, Score, Materialize, ZeroGrad,
         LossIsFinite, BackwardEnds, BeginProfile, BeginChannel, FinishChannel, FinishProfile,
         AbortProfile, Profiling, driverVars
<1>2. InStep(r) /\ ~ aborting /\ channel \in 1 .. 3
  BY DEF CauseInv
<1>3. call \notin {"score", "raised"} \/ ~ Unscorable => NoneLost
  BY DEF CauseInv
<1>4. stage = "train" \/ stage = "calibrate"
  BY RankConstants DEF CalibrationInv
<1>5. /\ stage = "train" => call \in TrainCalls /\ TrainStep(r)
      /\ stage = "calibrate" => call \in CalibrateCalls /\ CalibrateStep(r)
  BY <1>2 DEF CauseInv, InStep
<1>6. phase[r] = "called" => ~ Refuses(r)
  BY NoneRefuses
(* Steps that leave counters and profile alone and answer no call but these *)
<1>7. ASSUME UNCHANGED <<profile[r], zeroed[r]>>,
             \/ phase'[r] # "answered" /\ phase[r] # "answered"
             \/ call \in {"score", "materialize", "backward"}
      PROVE  InStep(r)'
  <2>1. stage = "train" => TrainStep(r)'
    BY <1>1, <1>5, <1>7 DEF TrainStep
  <2>2. stage = "calibrate" => CalibrateStep(r)'
    BY <1>1, <1>5, <1>7 DEF CalibrateStep, OpenAt
  <2>. QED
    BY <1>1, <1>4, <2>1, <2>2 DEF InStep
<1>8. CASE Meet(r)
  <2>1. /\ phase[r] = "called" /\ phase' = [phase EXCEPT ![r] = "waiting"]
        /\ UNCHANGED <<profile, zeroed>>
    BY <1>6, <1>8 DEF Meet, Enter, rankVars
  <2>2. phase'[r] = "waiting"
    BY <1>1, <2>1
  <2>. QED
    BY <1>7, <2>1, <2>2
<1>9. CASE Leave(r)
  <2>1. /\ phase[r] = "waiting" /\ phase' = [phase EXCEPT ![r] = "local"]
        /\ UNCHANGED <<profile, zeroed>>
    BY <1>9 DEF Leave, rankVars
  <2>2. phase'[r] = "local"
    BY <1>1, <2>1
  <2>. QED
    BY <1>7, <2>1, <2>2
<1>10. CASE Watchdog(r)
  <2>1. /\ phase[r] = "waiting" /\ phase' = [phase EXCEPT ![r] = "dead"]
        /\ UNCHANGED <<profile, zeroed>>
        /\ \E q \in Ranks : phase[q] \in {"raised", "dead", "aborted"}
    BY <1>10 DEF Watchdog, rankVars
  <2>2. phase'[r] = "dead" /\ ~ NoneLost
    BY <1>1, <2>1 DEF NoneLost
  <2>. QED
    BY <1>3, <1>7, <2>1, <2>2
<1>11. CASE Score(r)
  <2>1. call = "score" /\ UNCHANGED <<profile, zeroed>>
    BY <1>11 DEF Score
  <2>2. groups \in Workloads /\ dispatch = Dispatch(Tasks)
    BY <2>1 DEF ScoreInv
  <2>3. ~ Unscorable => phase' = [phase EXCEPT ![r] = "answered"]
    <3>1. SUFFICES ASSUME ~ Unscorable PROVE phase' = [phase EXCEPT ![r] = "answered"]
      OBVIOUS
    <3>2. PICK d : d = dispatch
      OBVIOUS
    <3>3. (\A q \in Ranks : Len(d[q]) = Len(d[r])) /\ ~ ScoreManyRefuses(d[r])
      BY <2>2, <3>1, <3>2, RanksScore DEF Unscorable, Tasks
    <3>. QED
      BY <1>11, <3>2, <3>3 DEF Score, Answer
  <2>4. ~ Unscorable => phase'[r] = "answered"
    BY <1>1, <2>3
  <2>. QED
    BY <1>7, <2>1, <2>4
<1>12. CASE Materialize(r)
  <2>1. /\ call = "materialize" /\ phase' = [phase EXCEPT ![r] = "answered"]
        /\ UNCHANGED <<profile, zeroed>>
    BY <1>12 DEF Materialize, Answer, rankVars
  <2>2. phase'[r] = "answered"
    BY <1>1, <2>1
  <2>. QED
    BY <1>7, <2>1, <2>2
<1>13. CASE ZeroGrad(r)
  <2>1. /\ call = "zero_grad" /\ phase' = [phase EXCEPT ![r] = "answered"]
        /\ zeroed' = [zeroed EXCEPT ![r] = 1] /\ profile' = profile
    BY <1>6, <1>13 DEF ZeroGrad, Answer
  <2>2. phase'[r] = "answered" /\ zeroed'[r] = 1
    BY <1>1, <2>1
  <2>3. stage = "train" /\ TrainStep(r)
    BY <1>4, <1>5, <2>1 DEF CalibrateCalls
  <2>. QED
    BY <1>1, <2>1, <2>2, <2>3 DEF InStep, TrainStep
<1>14. CASE LossIsFinite(r)
  <2>1. /\ phase[r] = "local" /\ phase' = [phase EXCEPT ![r] = "waiting"]
        /\ UNCHANGED <<profile, zeroed>>
    BY <1>14 DEF LossIsFinite, Enter, rankVars
  <2>2. phase'[r] = "waiting"
    BY <1>1, <2>1
  <2>. QED
    BY <1>7, <2>1, <2>2
<1>15. CASE BackwardEnds(r)
  <2>1. /\ call = "backward" /\ phase' = [phase EXCEPT ![r] = "answered"]
        /\ UNCHANGED <<profile, zeroed>>
    BY <1>15 DEF BackwardEnds, Answer
  <2>2. phase'[r] = "answered"
    BY <1>1, <2>1
  <2>. QED
    BY <1>7, <2>1, <2>2
<1>16. CASE BeginProfile(r)
  <2>1. /\ call = "begin_profile" /\ phase' = [phase EXCEPT ![r] = "answered"]
        /\ profile' = [profile EXCEPT ![r] = [NoProfile EXCEPT !.open = TRUE]]
        /\ phase[r] = "called"
    BY <1>6, <1>16 DEF BeginProfile, Profiling, Answer
  <2>2. phase'[r] = "answered" /\ profile'[r] = [NoProfile EXCEPT !.open = TRUE]
    BY <1>1, <2>1
  <2>3. /\ profile'[r].open /\ profile'[r].channel = "none"
        /\ DOMAIN profile'[r].gradients = {Channels[i] : i \in 1 .. 0}
    BY <2>2 DEF NoProfile
  <2>4. stage = "calibrate"
    BY <1>4, <1>5, <2>1 DEF TrainCalls
  <2>. QED
    BY <1>1, <2>1, <2>2, <2>3, <2>4 DEF InStep, CalibrateStep, OpenAt
<1>17. CASE BeginChannel(r)
  <2>1. /\ call = "begin_channel" /\ phase' = [phase EXCEPT ![r] = "answered"]
        /\ profile' = [profile EXCEPT ![r] = [profile[r] EXCEPT !.channel = Channels[channel]]]
        /\ phase[r] = "called"
    BY <1>6, <1>17 DEF BeginChannel, Profiling, Answer
  <2>2. stage = "calibrate"
    BY <1>4, <1>5, <2>1 DEF TrainCalls
  <2>3. OpenAt(r, "none", channel - 1)
    BY <1>5, <2>1, <2>2 DEF CalibrateStep
  <2>4. /\ phase'[r] = "answered"
        /\ profile'[r] = [profile[r] EXCEPT !.channel = Channels[channel]]
    BY <1>1, <2>1
  <2>5. OpenAt(r, Channels[channel], channel - 1)'
    BY <1>1, <2>3, <2>4 DEF OpenAt
  <2>. QED
    BY <1>1, <2>1, <2>2, <2>4, <2>5 DEF InStep, CalibrateStep
<1>18. CASE FinishChannel(r)
  <2>1. PICK p : p = [profile[r] EXCEPT
                       !.gradients = [c \in DOMAIN @ \cup {Channels[channel]} |->
                                        IF c = Channels[channel] THEN grads[r] ELSE @[c]],
                       !.channel = "none"]
    OBVIOUS
  <2>2. /\ call = "finish_channel" /\ phase' = [phase EXCEPT ![r] = "answered"]
        /\ profile' = [profile EXCEPT ![r] = p] /\ phase[r] = "called"
    BY <1>6, <1>18, <2>1 DEF FinishChannel, Profiling, Answer
  <2>3. stage = "calibrate"
    BY <1>4, <1>5, <2>2 DEF TrainCalls
  <2>4. OpenAt(r, Channels[channel], channel - 1)
    BY <1>5, <2>2, <2>3 DEF CalibrateStep
  <2>5. phase'[r] = "answered" /\ profile'[r] = p
    BY <1>1, <2>2
  <2>6. /\ p.open /\ p.channel = "none"
        /\ DOMAIN p.gradients = {Channels[i] : i \in 1 .. channel - 1} \cup {Channels[channel]}
    BY <2>1, <2>4 DEF OpenAt
  <2>7. OpenAt(r, "none", channel)'
    BY <1>1, <1>2, <2>5, <2>6, ChannelNames DEF OpenAt
  <2>. QED
    BY <1>1, <2>2, <2>3, <2>5, <2>7 DEF InStep, CalibrateStep
<1>19. CASE FinishProfile(r)
  <2>1. /\ call = "finish_profile" /\ phase' = [phase EXCEPT ![r] = "answered"]
    BY <1>19 DEF FinishProfile, Answer
  <2>2. phase'[r] = "answered"
    BY <1>1, <2>1
  <2>3. stage = "calibrate"
    BY <1>4, <1>5, <2>1 DEF TrainCalls
  <2>. QED
    BY <1>1, <2>1, <2>2, <2>3 DEF InStep, CalibrateStep
<1>20. CASE AbortProfile(r)
  BY <1>2, <1>20 DEF AbortProfile, CanAbort
<1>. QED
  BY <1>8, <1>9, <1>10, <1>11, <1>12, <1>13, <1>14, <1>15, <1>16, <1>17, <1>18, <1>19, <1>20
     DEF RankStep

LEMMA CauseRank ==
  ASSUME CauseInv, CalibrationInv, ScoreInv, NEW r \in Ranks, RankStep(r) \/ Fault(r)
  PROVE  CauseInv'
<1>. SUFFICES ASSUME ~ faulted' PROVE CauseInv'
  BY DEF CauseInv
<1>1. RankStep(r) /\ ~ faulted
  <2>1. ~ Fault(r)
    BY DEF Fault
  <2>2. RankStep(r) => faulted' = faulted
    <3>1. Meet(r) \/ Leave(r) \/ Watchdog(r) \/ LossIsFinite(r) => faulted' = faulted
      BY DEF Meet, Leave, Watchdog, LossIsFinite
    <3>2. Score(r) \/ Materialize(r) \/ ZeroGrad(r) \/ BackwardEnds(r) => faulted' = faulted
      BY DEF Score, Materialize, ZeroGrad, BackwardEnds
    <3>3. BeginProfile(r) \/ BeginChannel(r) \/ FinishChannel(r) => faulted' = faulted
      BY DEF BeginProfile, BeginChannel, FinishChannel, Profiling
    <3>4. FinishProfile(r) \/ AbortProfile(r) => faulted' = faulted
      BY DEF FinishProfile, AbortProfile
    <3>. QED
      BY <3>1, <3>2, <3>3, <3>4 DEF RankStep
  <2>. QED
    BY <2>1, <2>2
<1>2. /\ call \notin {"score", "raised"} \/ ~ Unscorable =>
           phase'[r] \in {"called", "waiting", "local", "answered"}
      /\ InStep(r)'
  BY <1>1, CauseOwnStep
<1>3. OwnStep(r)
  BY CalibrationOwnStep
<1>4. UNCHANGED <<stage, call, aborting, groups, channel, attempted, profiles, manifest>>
  BY <1>1 DEF RankStep, Meet, Leave, Watchdog, Score, Materialize, ZeroGrad, LossIsFinite,
         BackwardEnds, BeginProfile, BeginChannel, FinishChannel, FinishProfile, AbortProfile,
         Profiling, driverVars
<1>5. /\ phase \in [Ranks -> Phases] /\ profile = [q \in Ranks |-> profile[q]]
      /\ zeroed = [q \in Ranks |-> zeroed[q]]
  BY DEF CalibrationInv
<1>6. ASSUME NEW q \in Ranks, q # r
      PROVE  phase'[q] = phase[q] /\ profile'[q] = profile[q] /\ zeroed'[q] = zeroed[q]
  BY <1>3, <1>5, <1>6 DEF OwnStep
<1>7. ASSUME NEW q \in Ranks PROVE InStep(q)'
  <2>1. CASE q = r
    BY <1>2, <2>1
  <2>2. CASE q # r
    <3>1. InStep(q)
      BY <1>1 DEF CauseInv
    <3>. QED
      BY <1>4, <1>6, <2>2, <3>1 DEF InStep, TrainStep, CalibrateStep, OpenAt
  <2>. QED
    BY <2>1, <2>2
<1>8. /\ Unscorable' = Unscorable /\ (Cause' <=> Cause)
      /\ Enough(profiles)' <=> Enough(profiles)
  BY <1>4 DEF Unscorable, Tasks, Cause, Limit, Enough, Decisions, Queries
<1>9. call \notin {"score", "raised"} \/ ~ Unscorable => NoneLost'
  <2>. SUFFICES ASSUME call \notin {"score", "raised"} \/ ~ Unscorable PROVE NoneLost'
    OBVIOUS
  <2>1. NoneLost
    BY <1>1 DEF CauseInv
  <2>. QED
    BY <1>2, <1>6, <2>1 DEF NoneLost, Ranks
<1>10. /\ ~ aborting' /\ channel' \in 1 .. 3 /\ (call' = "begin_profile" => channel' = 1)
       /\ (call \in IF stage = "train" THEN TrainCalls ELSE CalibrateCalls)'
       /\ manifest' \in {"none", "earlier run"} \/ (manifest' = "this run" /\ call' = "done")
  BY <1>1, <1>4 DEF CauseInv, TrainCalls, CalibrateCalls
<1>11. /\ call' = "raised" /\ ~ Unscorable' => Cause'
       /\ call' \in {"calibrate", "publish"} => Enough(profiles)'
  BY <1>1, <1>4, <1>8 DEF CauseInv
<1>. QED
  BY <1>4, <1>7, <1>8, <1>9, <1>10, <1>11 DEF CauseInv

(* Without a fault from outside no rank raises, waits for one that has, or  *)
(* refuses a call, and the driver gives up only for a task that cannot be   *)
(* scored, for too little to calibrate on, or for an earlier manifest.      *)
THEOREM NoRaiseWithoutCause == Spec => []RaisesOnlyForCause
<1>1. Init => CauseInv /\ ScoreInv /\ CalibrationInv
  BY CauseInit, ScoreInit, CalibrationInit
<1>2. CauseInv /\ ScoreInv /\ CalibrationInv /\ [Next]_vars
        => (CauseInv /\ ScoreInv /\ CalibrationInv)'
  <2>1. SUFFICES ASSUME CauseInv, ScoreInv, CalibrationInv, [Next]_vars
                 PROVE  CauseInv'
    BY CalibrationKept, ScoreKept
  <2>2. CASE Drive \/ Skip
    BY <2>1, <2>2, CauseDriver
  <2>3. ASSUME NEW r \in Ranks, RankStep(r) \/ Fault(r)
        PROVE  CauseInv'
    BY <2>1, <2>3, CauseRank
  <2>4. CASE Rest \/ UNCHANGED vars
    <3>1. UNCHANGED <<stage, call, aborting, phase, profile, zeroed, backward, channel, groups,
                      attempted, profiles, manifest, faulted>>
      BY <2>4 DEF Rest, vars, driverVars, rankVars
    <3>. QED
      BY <2>1, <3>1 DEF CauseInv, NoneLost, Unscorable, Tasks, Cause, Limit, Enough, Decisions,
                        Queries, InStep, TrainStep, CalibrateStep, OpenAt, Ranks
  <2>. QED
    BY <2>1, <2>2, <2>3, <2>4 DEF Next
<1>3. CauseInv => RaisesOnlyForCause
  BY DEF CauseInv, RaisesOnlyForCause, NoneLost, Cause, Unscorable
<1>. QED
  BY <1>1, <1>2, <1>3, PTL DEF Spec

----------------------------------------------------------------------------
(* The packing of the learner batch.                                        *)
GroupSet(G) ==
  \A g \in G : ActionTokens(g) \in Nat /\ g.trajectories[1].id \in Nat

LEMMA LoadType ==
  ASSUME NEW G, GroupSet(G), NEW gs \in Seq(G)
  PROVE  Load(gs) \in Int
<1>1. DOMAIN gs = 1 .. Len(gs) /\ Len(gs) \in Nat /\ \A i \in DOMAIN gs : gs[i] \in G
  OBVIOUS
<1>2. PICK f : f = [i \in DOMAIN gs |-> ActionTokens(gs[i])]
  OBVIOUS
<1>3. IsFiniteSet(DOMAIN f)
  BY <1>1, <1>2, FS_Interval
<1>4. Ints(DOMAIN f, f)
  BY <1>1, <1>2 DEF GroupSet, Ints
<1>5. SumOn(DOMAIN f, f) \in Int
  BY <1>3, <1>4, SumType
<1>. QED
  BY <1>2, <1>5, Sums DEF Load

LEMMA LightestIsARank ==
  ASSUME NEW G, GroupSet(G), NEW given \in [Ranks -> Seq(G)]
  PROVE  LightestRank(given) \in Ranks
<1>1. PICK load : load = [r \in Ranks |-> Load(given[r])]
  OBVIOUS
<1>2. PICK count : count = [r \in Ranks |-> Len(given[r])]
  OBVIOUS
<1>3. load \in [Ranks -> Int] /\ count \in [Ranks -> Int]
  <2>1. \A r \in Ranks : given[r] \in Seq(G)
    OBVIOUS
  <2>2. \A r \in Ranks : Load(given[r]) \in Int
    BY <2>1, LoadType
  <2>3. \A r \in Ranks : Len(given[r]) \in Int
    BY <2>1
  <2>. QED
    BY <1>1, <1>2, <2>2, <2>3
<1>. DEFINE R == {e \in Ranks \X Ranks :
                    \/ load[e[1]] < load[e[2]]
                    \/ /\ load[e[1]] = load[e[2]]
                       /\ \/ count[e[1]] < count[e[2]]
                          \/ count[e[1]] = count[e[2]] /\ e[1] < e[2]}
<1>4. \A a, b \in Ranks : <<a, b>> \in R <=>
        load[a] < load[b] \/ (load[a] = load[b] /\ (count[a] < count[b] \/ (count[a] = count[b] /\ a < b)))
  OBVIOUS
<1>. HIDE DEF R
<1>5. Ranks \subseteq Int
  BY RanksFinite
<1>6. StrictOrder(R, Ranks)
  <2>1. ByKeys(R, Ranks, load, count)
    BY <1>4 DEF ByKeys
  <2>. QED
    BY <1>3, <1>5, <2>1, KeysOrder
<1>7. PICK a \in Ranks : \A b \in Ranks \ {a} : <<a, b>> \in R
  BY <1>6, RanksFinite, EndsOfOrder
<1>8. LightestRank(given) =
        CHOOSE r \in Ranks : \A q \in Ranks \ {r} :
          \/ load[r] < load[q]
          \/ load[r] = load[q] /\ count[r] < count[q]
          \/ load[r] = load[q] /\ count[r] = count[q] /\ r < q
  BY <1>1, <1>2 DEF LightestRank
<1>9. \A q \in Ranks \ {a} :
          \/ load[a] < load[q]
          \/ load[a] = load[q] /\ count[a] < count[q]
          \/ load[a] = load[q] /\ count[a] = count[q] /\ a < q
  BY <1>4, <1>7
<1>. QED
  BY <1>8, <1>9

LEMMA GroupOrder ==
  ASSUME NEW G, GroupSet(G), NEW gs \in Seq(G)
  PROVE  Permutes(SeqInOrder(gs, HeavierGroup), gs)
<1>. DEFINE D == DOMAIN gs
            R == {e \in D \X D :
                    \/ HeavierGroup(gs[e[1]], gs[e[2]])
                    \/ ~ HeavierGroup(gs[e[2]], gs[e[1]]) /\ e[1] < e[2]}
            rank == [i \in D |-> Cardinality({j \in D :
                      HeavierGroup(gs[j], gs[i])
                        \/ (~ HeavierGroup(gs[i], gs[j]) /\ j < i)})]
            at == [n \in D |-> CHOOSE i \in D : rank[i] = n - 1]
            k == [i \in D |-> - ActionTokens(gs[i])]
            m == [i \in D |-> gs[i].trajectories[1].id]
<1>1. D \subseteq Int /\ \A i \in D : gs[i] \in G
  OBVIOUS
<1>2. \A i \in D : ActionTokens(gs[i]) \in Int /\ gs[i].trajectories[1].id \in Int
  BY <1>1 DEF GroupSet
<1>3. \A a, b \in D : <<a, b>> \in R <=>
        \/ HeavierGroup(gs[a], gs[b])
        \/ ~ HeavierGroup(gs[b], gs[a]) /\ a < b
  OBVIOUS
<1>4. StrictOrder(R, D)
  <2>. HIDE DEF R
  <2>1. k \in [D -> Int] /\ m \in [D -> Int]
    BY <1>2
  <2>2. \A i \in D : k[i] = - ActionTokens(gs[i]) /\ m[i] = gs[i].trajectories[1].id
    OBVIOUS
  <2>. HIDE DEF k, m
  <2>3. ByKeys(R, D, k, m)
    <3>. SUFFICES ASSUME NEW a \in D, NEW b \in D
                  PROVE  <<a, b>> \in R <=>
                    k[a] < k[b] \/ (k[a] = k[b] /\ (m[a] < m[b] \/ (m[a] = m[b] /\ a < b)))
      BY DEF ByKeys
    <3>0. \A x, y : HeavierGroup(x, y) <=>
            ActionTokens(x) > ActionTokens(y)
              \/ (ActionTokens(x) = ActionTokens(y) /\ x.trajectories[1].id < y.trajectories[1].id)
      BY DEF HeavierGroup
    <3>1. HeavierGroup(gs[a], gs[b]) <=> k[a] < k[b] \/ (k[a] = k[b] /\ m[a] < m[b])
      BY <1>2, <2>2, <3>0
    <3>2. HeavierGroup(gs[b], gs[a]) <=> k[b] < k[a] \/ (k[a] = k[b] /\ m[b] < m[a])
      BY <1>2, <2>2, <3>0
    <3>. QED
      BY <1>1, <1>3, <2>1, <3>1, <3>2
  <2>. QED
    BY <1>1, <2>1, <2>3, KeysOrder
<1>5. RankedBy(rank, D, R)
  <2>. HIDE DEF R
  <2>1. \A i \in D : {j \in D : <<j, i>> \in R} =
          {j \in D : HeavierGroup(gs[j], gs[i])
                       \/ (~ HeavierGroup(gs[i], gs[j]) /\ j < i)}
    BY <1>3
  <2>. QED
    BY <2>1 DEF RankedBy
<1>6. SeqInOrder(gs, HeavierGroup) = [n \in D |-> gs[at[n]]]
  BY DEF SeqInOrder
<1>7. ByRank(at, rank, D)
  <2>. HIDE DEF rank
  <2>. QED
    BY DEF ByRank
<1>8. DOMAIN at = D
  OBVIOUS
<1>9. PICK t : t = [n \in D |-> gs[at[n]]]
  OBVIOUS
<1>. HIDE DEF R, rank, at
<1>10. Permutes(t, gs)
  BY <1>4, <1>5, <1>7, <1>8, <1>9, RankedPermutes
<1>. QED
  BY <1>6, <1>9, <1>10

(* The groups are given out one by one in their order.                      *)
GroupsGiven(f, s, n, G) ==
  /\ f \in [0 .. n -> [Ranks -> Seq(G)]]
  /\ f[0] = [r \in Ranks |-> <<>>]
  /\ \A i \in 1 .. n :
       f[i] = [f[i - 1] EXCEPT ![LightestRank(f[i - 1])] = Append(@, s[i])]

LEMMA GroupSteps ==
  ASSUME NEW G, GroupSet(G), NEW gs \in Seq(G)
  PROVE  \E s, f, n : /\ Permutes(s, gs) /\ s \in Seq(G) /\ n = Len(s)
                      /\ GroupsGiven(f, s, n, G) /\ f[n] = GroupsByLoad(gs)
<1>1. PICK s : s = SeqInOrder(gs, HeavierGroup)
  OBVIOUS
<1>2. Permutes(s, gs)
  BY <1>1, GroupOrder
<1>3. s \in Seq(G) /\ Len(s) = Len(gs)
  BY <1>2, PermutedElements
<1>4. PICK n : n = Len(s)
  OBVIOUS
<1>5. n \in Nat /\ DOMAIN s = 1 .. n /\ \A i \in 1 .. n : s[i] \in G
  BY <1>3, <1>4
<1>6. PICK V : V = [Ranks -> Seq(G)]
  OBVIOUS
<1>7. PICK b : b = [r \in Ranks |-> <<>>]
  OBVIOUS
<1>8. b \in V
  BY <1>6, <1>7
<1>. DEFINE Give(v, t) == [v EXCEPT ![LightestRank(v)] = Append(@, t)]
            Eq(it) == it = [S \in SUBSET (1 .. n) |->
                        IF S = {} THEN b ELSE Give(it[S \ {Max(S)}], s[Max(S)])]
            jt == CHOOSE it : Eq(it)
            g == [p \in (1 .. n) \X V |-> Give(p[2], s[p[1]])]
<1>9. GroupsByLoad(gs) = jt[1 .. n]
  BY <1>1, <1>5, <1>7 DEF GroupsByLoad, FoldLeft, MapThenFoldSet
<1>10. ASSUME NEW v \in V, NEW t \in G PROVE Give(v, t) \in V
  <2>1. LightestRank(v) \in Ranks
    BY <1>6, LightestIsARank
  <2>2. Append(v[LightestRank(v)], t) \in Seq(G)
    BY <1>6, <2>1
  <2>. QED
    BY <1>6, <2>1, <2>2
<1>. HIDE DEF Give
<1>11. g \in [(1 .. n) \X V -> V]
  BY <1>5, <1>10
<1>12. \A i \in 1 .. n, v \in V : g[<<i, v>>] = Give(v, s[i])
  OBVIOUS
<1>. HIDE DEF g
<1>13. PICK it \in [SUBSET (1 .. n) -> V] : Descends(it, n, b, g)
  BY <1>5, <1>8, <1>11, FoldExists
<1>14. ASSUME NEW S \in SUBSET (1 .. n), S # {} PROVE Max(S) \in 1 .. n /\ S \ {Max(S)} \in SUBSET (1 .. n)
  <2>1. IsFiniteSet(S) /\ S \in SUBSET Int
    <3>1. IsFiniteSet(1 .. n)
      BY <1>5, FS_Interval
    <3>2. \A x \in S : x \in Int
      OBVIOUS
    <3>. QED
      BY <3>1, <3>2, FS_Subset
  <2>2. Max(S) \in S
    BY <1>14, <2>1, MaxOfFinite
  <2>. QED
    BY <2>2
<1>15. Eq(it)
  <2>1. ASSUME NEW S \in SUBSET (1 .. n)
        PROVE  it[S] = IF S = {} THEN b ELSE Give(it[S \ {Max(S)}], s[Max(S)])
    <3>1. CASE S = {}
      BY <1>13, <3>1 DEF Descends
    <3>2. CASE S # {}
      <4>1. it[S] = g[<<Max(S), it[S \ {Max(S)}]>>]
        BY <1>13, <3>2 DEF Descends
      <4>2. it[S \ {Max(S)}] \in V /\ Max(S) \in 1 .. n
        BY <1>14, <1>13, <3>2
      <4>. QED
        BY <1>12, <3>2, <4>1, <4>2
    <3>. QED
      BY <3>1, <3>2
  <2>2. it = [S \in SUBSET (1 .. n) |-> it[S]]
    BY <1>13
  <2>. QED
    BY <2>1, <2>2
<1>16. Eq(jt)
  BY <1>15
<1>. HIDE DEF jt
<1>17. \A S \in SUBSET (1 .. n) :
         jt[S] = IF S = {} THEN b ELSE Give(jt[S \ {Max(S)}], s[Max(S)])
  BY <1>16
<1>18. DescendsIn(jt, n, V, b, g)
  <2>. SUFFICES ASSUME NEW S \in SUBSET (1 .. n)
                PROVE  \/ S = {} /\ jt[S] = b
                       \/ /\ S # {}
                          /\ jt[S \ {Max(S)}] \in V => jt[S] = g[<<Max(S), jt[S \ {Max(S)}]>>]
    BY DEF DescendsIn
  <2>1. CASE S = {}
    BY <1>17, <2>1
  <2>2. CASE S # {}
    <3>1. jt[S] = Give(jt[S \ {Max(S)}], s[Max(S)]) /\ Max(S) \in 1 .. n
      BY <1>14, <1>17, <2>2
    <3>. QED
      BY <1>12, <2>2, <3>1
  <2>. QED
    BY <2>1, <2>2
<1>19. PICK f \in [0 .. n -> V] : f[n] = jt[1 .. n] /\ GoesBy(f, n, b, g)
  BY <1>5, <1>8, <1>11, <1>18, FoldPrefixes
<1>20. \A i \in 1 .. n : f[i] = Give(f[i - 1], s[i])
  <2>. SUFFICES ASSUME NEW i \in 1 .. n PROVE f[i] = Give(f[i - 1], s[i])
    OBVIOUS
  <2>1. i - 1 \in 0 .. n
    BY <1>5
  <2>2. f[i - 1] \in V
    BY <1>19, <2>1
  <2>. QED
    BY <1>12, <1>19, <2>2 DEF GoesBy
<1>21. f[0] = b
  BY <1>19 DEF GoesBy
<1>22. \A i \in 1 .. n : f[i] = [f[i - 1] EXCEPT ![LightestRank(f[i - 1])] = Append(@, s[i])]
  BY <1>20 DEF Give
<1>23. GroupsGiven(f, s, n, G)
  BY <1>6, <1>7, <1>19, <1>21, <1>22 DEF GroupsGiven
<1>. QED
  BY <1>2, <1>3, <1>4, <1>9, <1>19, <1>23

(* Every group goes to one rank, once.                                      *)
OneGets(given) ==
  /\ \A r \in Ranks : OnceEach(given[r])
  /\ \A q, r \in Ranks : q # r => ToSet(given[q]) \cap ToSet(given[r]) = {}

AllGiven(given) == UNION {ToSet(given[r]) : r \in Ranks}
AssignedTo(given, E) == given \in [Ranks -> Seq(E)]
GivesTo(given, after, c, e) == after = [given EXCEPT ![c] = Append(given[c], e)]

(* Another element for one of the ranks.                                    *)
LEMMA OneMore ==
  ASSUME NEW E, NEW c \in Ranks, NEW e \in E, NEW given, AssignedTo(given, E),
         NEW after, GivesTo(given, after, c, e)
  PROVE  /\ AllGiven(after) = AllGiven(given) \cup {e}
         /\ OneGets(given) /\ e \notin AllGiven(given) => OneGets(after)
<1>0. PICK had : had = AllGiven(given)
  OBVIOUS
<1>1. \A r \in Ranks : after[r] = IF r = c THEN Append(given[c], e) ELSE given[r]
  BY DEF GivesTo, AssignedTo
<1>2. \A r \in Ranks : given[r] \in Seq(E)
  BY DEF AssignedTo
<1>3. ToSet(after[c]) = ToSet(given[c]) \cup {e}
  BY <1>1, <1>2, AppendElements
<1>4. \A r \in Ranks \ {c} : after[r] = given[r]
  BY <1>1
<1>5. AllGiven(after) = had \cup {e}
  <2>. SUFFICES ASSUME NEW x
                PROVE  (\E r \in Ranks : x \in ToSet(after[r])) <=> x \in had \/ x = e
    BY DEF AllGiven
  <2>1. x \in had <=> \E r \in Ranks : x \in ToSet(given[r])
    BY <1>0 DEF AllGiven
  <2>. QED
    BY <1>3, <1>4, <2>1
<1>6. ASSUME OneGets(given), e \notin had PROVE OneGets(after)
  <2>1. \A r \in Ranks : e \notin ToSet(given[r])
    BY <1>0, <1>6 DEF AllGiven
  <2>2. OnceEach(given[c]) /\ given[c] \in Seq(E) /\ e \notin ToSet(given[c])
    BY <1>2, <1>6, <2>1 DEF OneGets
  <2>3. OnceEach(Append(given[c], e))
    BY <2>2, AppendOnce
  <2>4. ASSUME NEW r \in Ranks PROVE OnceEach(after[r])
    <3>1. CASE r = c
      BY <1>1, <2>3, <3>1
    <3>2. CASE r # c
      BY <1>4, <1>6, <3>2 DEF OneGets
    <3>. QED
      BY <3>1, <3>2
  <2>5. ASSUME NEW q \in Ranks, NEW r \in Ranks, q # r
        PROVE  ToSet(after[q]) \cap ToSet(after[r]) = {}
    <3>0. \A x, y \in Ranks : x # y => ToSet(given[x]) \cap ToSet(given[y]) = {}
      BY <1>6 DEF OneGets
    <3>1. CASE q = c
      BY <1>3, <1>4, <2>1, <2>5, <3>0, <3>1
    <3>2. CASE r = c
      BY <1>3, <1>4, <2>1, <2>5, <3>0, <3>2
    <3>3. CASE q # c /\ r # c
      BY <1>4, <2>5, <3>0, <3>3
    <3>. QED
      BY <3>1, <3>2, <3>3
  <2>. QED
    BY <2>4, <2>5 DEF OneGets
<1>. QED
  BY <1>0, <1>5, <1>6

LEMMA GroupElements ==
  ASSUME NEW G, GroupSet(G), NEW gs \in Seq(G), OnceEach(gs)
  PROVE  /\ GroupsByLoad(gs) \in [Ranks -> Seq(G)]
         /\ AllGiven(GroupsByLoad(gs)) = ToSet(gs)
         /\ OneGets(GroupsByLoad(gs))
<1>1. PICK s, f, n : /\ Permutes(s, gs) /\ s \in Seq(G) /\ n = Len(s)
                     /\ GroupsGiven(f, s, n, G) /\ f[n] = GroupsByLoad(gs)
  BY GroupSteps
<1>2. n \in Nat /\ DOMAIN s = 1 .. n /\ \A i \in 1 .. n : s[i] \in G
  BY <1>1
<1>3. \A i \in 0 .. n : f[i] \in [Ranks -> Seq(G)]
  BY <1>1 DEF GroupsGiven
<1>4. ToSet(s) = ToSet(gs) /\ OnceEach(s)
  BY <1>1, PermutedElements DEF OnceEach
<1>. DEFINE F == {i \in 0 .. n : AllGiven(f[i]) = {s[j] : j \in 1 .. i} /\ OneGets(f[i])}
<1>5. 0 \in F
  <2>1. \A r \in Ranks : f[0][r] = <<>>
    BY <1>1 DEF GroupsGiven
  <2>2. ToSet(<<>>) = {} /\ OnceEach(<<>>)
    BY DEF ToSet, OnceEach
  <2>3. 0 \in 0 .. n /\ {s[j] : j \in 1 .. 0} = {}
    BY <1>2
  <2>4. OneGets(f[0])
    BY <2>1, <2>2 DEF OneGets
  <2>5. AllGiven(f[0]) = {}
    BY <2>1, <2>2 DEF AllGiven
  <2>. QED
    BY <2>3, <2>4, <2>5
<1>6. ASSUME NEW k \in 0 .. n - 1, k \in F PROVE k + 1 \in F
  <2>1. k \in 0 .. n /\ k + 1 \in 1 .. n /\ k + 1 \in 0 .. n /\ (k + 1) - 1 = k
    BY <1>2
  <2>2. PICK c : c = LightestRank(f[k])
    OBVIOUS
  <2>3. c \in Ranks /\ f[k] \in [Ranks -> Seq(G)] /\ s[k + 1] \in G
    BY <1>2, <1>3, <2>1, <2>2, LightestIsARank
  <2>4. f[k + 1] = [f[k] EXCEPT ![c] = Append(f[k][c], s[k + 1])]
    BY <1>1, <2>1, <2>2 DEF GroupsGiven
  <2>5. PICK had : had = AllGiven(f[k])
    OBVIOUS
  <2>6. had = {s[j] : j \in 1 .. k} /\ OneGets(f[k])
    BY <1>6, <2>5
  <2>7. s[k + 1] \notin had
    <3>1. \A j \in 1 .. k : j \in DOMAIN s /\ k + 1 \in DOMAIN s /\ j # k + 1
      BY <1>2, <2>1
    <3>. QED
      BY <1>4, <2>6, <3>1 DEF OnceEach
  <2>8. AllGiven(f[k + 1]) = had \cup {s[k + 1]} /\ OneGets(f[k + 1])
    <3>1. GivesTo(f[k], f[k + 1], c, s[k + 1])
      BY <2>4 DEF GivesTo
    <3>2. AssignedTo(f[k], G)
      BY <2>3 DEF AssignedTo
    <3>3. \A given, after : AssignedTo(given, G) /\ GivesTo(given, after, c, s[k + 1]) =>
            /\ AllGiven(after) = AllGiven(given) \cup {s[k + 1]}
            /\ OneGets(given) /\ s[k + 1] \notin AllGiven(given) => OneGets(after)
      BY <2>3, OneMore
    <3>. QED
      BY <2>5, <2>6, <2>7, <3>1, <3>2, <3>3
  <2>9. {s[j] : j \in 1 .. k + 1} = {s[j] : j \in 1 .. k} \cup {s[k + 1]}
    <3>1. 1 .. k + 1 = 1 .. k \cup {k + 1}
      BY <2>1
    <3>. QED
      BY <3>1
  <2>. QED
    BY <2>1, <2>6, <2>8, <2>9
<1>7. 0 .. n \subseteq F
  <2>. HIDE DEF F
  <2>. QED
    BY <1>2, <1>5, <1>6, SetUpTo
<1>8. n \in 0 .. n
  BY <1>2
<1>9. AllGiven(f[n]) = {s[j] : j \in 1 .. n} /\ OneGets(f[n])
  BY <1>7, <1>8
<1>10. {s[j] : j \in 1 .. n} = ToSet(s)
  BY <1>2 DEF ToSet
<1>. QED
  BY <1>1, <1>3, <1>4, <1>8, <1>9, <1>10

(* The trajectories of some groups of a workload.                           *)
Disjoint(G) ==
  /\ \A g \in G : /\ g.trajectories \in Seq(ToSet(g.trajectories))
                  /\ OnceEach(g.trajectories)
  /\ \A g, h \in G : g # h => ToSet(g.trajectories) \cap ToSet(h.trajectories) = {}

LEMMA TasksElements ==
  ASSUME NEW G, Disjoint(G), NEW gs \in Seq(G), OnceEach(gs),
         NEW T, \A g \in G : ToSet(g.trajectories) \subseteq T
  PROVE  /\ TasksOf(gs) \in Seq(T)
         /\ ToSet(TasksOf(gs)) = UNION {ToSet(g.trajectories) : g \in ToSet(gs)}
         /\ OnceEach(TasksOf(gs))
<1>1. PICK seqs : seqs = [i \in DOMAIN gs |-> gs[i].trajectories]
  OBVIOUS
<1>2. TasksOf(gs) = FlattenSeq(seqs)
  BY <1>1 DEF TasksOf
<1>3. Len(gs) \in Nat /\ DOMAIN gs = 1 .. Len(gs) /\ \A i \in DOMAIN gs : gs[i] \in G
  OBVIOUS
<1>4. DOMAIN seqs = DOMAIN gs /\ \A i \in DOMAIN gs : seqs[i] = gs[i].trajectories
  BY <1>1
<1>5. ASSUME NEW i \in DOMAIN seqs PROVE seqs[i] \in Seq(T) /\ OnceEach(seqs[i])
  <2>1. PICK q : q = seqs[i]
    OBVIOUS
  <2>2. q \in Seq(ToSet(q)) /\ ToSet(q) \subseteq T /\ OnceEach(q)
    BY <1>3, <1>4, <2>1 DEF Disjoint
  <2>3. Len(q) \in Nat /\ q = [m \in 1 .. Len(q) |-> q[m]] /\ \A m \in 1 .. Len(q) : q[m] \in T
    BY <2>2
  <2>. QED
    BY <2>1, <2>2, <2>3
<1>6. seqs \in Seq(Seq(T))
  <2>1. PICK Z : Z = Seq(T)
    OBVIOUS
  <2>2. seqs \in [1 .. Len(gs) -> Z]
    BY <1>1, <1>3, <1>4, <1>5, <2>1
  <2>3. seqs \in Seq(Z)
    BY <1>3, <2>2
  <2>. QED
    BY <2>1, <2>3
<1>7. Apart(seqs)
  <2>. SUFFICES ASSUME NEW i \in DOMAIN gs, NEW j \in DOMAIN gs, i # j
                PROVE  ToSet(seqs[i]) \cap ToSet(seqs[j]) = {}
    BY <1>4 DEF Apart
  <2>1. gs[i] \in G /\ gs[j] \in G /\ gs[i] # gs[j]
    BY <1>3 DEF OnceEach
  <2>. QED
    BY <1>4, <2>1 DEF Disjoint
<1>8. UNION {ToSet(seqs[i]) : i \in DOMAIN seqs} = UNION {ToSet(g.trajectories) : g \in ToSet(gs)}
  BY <1>4 DEF ToSet
<1>. QED
  BY <1>2, <1>5, <1>6, <1>7, <1>8, FlattenElements

LEMMA GroupTokens ==
  ASSUME NEW g, IsGroup(g)
  PROVE  ActionTokens(g) \in Nat /\ g.trajectories[1].id \in Nat
<1>1. PICK q : q = g.trajectories
  OBVIOUS
<1>2. /\ q \in Seq(ToSet(q)) /\ q # <<>>
      /\ \A t \in ToSet(q) : t.id \in Nat /\ t.tokens \in Nat
  BY <1>1 DEF IsGroup
<1>3. Len(q) \in Nat /\ DOMAIN q = 1 .. Len(q) /\ 1 \in DOMAIN q
  BY <1>2
<1>4. \A i \in DOMAIN q : q[i] \in ToSet(q)
  BY DEF ToSet
<1>5. PICK f : f = [i \in DOMAIN q |-> q[i].tokens]
  OBVIOUS
<1>6. IsFiniteSet(DOMAIN f) /\ \A i \in DOMAIN f : f[i] \in Nat
  BY <1>2, <1>3, <1>4, <1>5, FS_Interval
<1>7. SumOn(DOMAIN f, f) \in Nat
  BY <1>6, SumNat
<1>8. ActionTokens(g) \in Nat
  BY <1>1, <1>5, <1>7, Sums DEF ActionTokens
<1>. QED
  BY <1>1, <1>2, <1>3, <1>4, <1>8

(* The groups that are learnt from, and their trajectories.                 *)
SelectedHas(gs, G, T) ==
  /\ GroupSet(G) /\ Disjoint(G) /\ gs \in Seq(G) /\ OnceEach(gs) /\ ToSet(gs) = G
  /\ TasksOf(gs) \in Seq(T) /\ ToSet(TasksOf(gs)) = T /\ OnceEach(TasksOf(gs)) /\ T # {}
  /\ \A t \in T : t.decision \in Nat /\ t.query \in Nat
  /\ T = UNION {ToSet(g.trajectories) : g \in G}

LEMMA SelectedGroups ==
  ASSUME NEW w \in Workloads
  PROVE  \E G, T : SelectedHas(Selected(w), G, T)
<1>1. IsWorkload(w)
  BY WorkloadConstants
<1>2. PICK P : P = {i \in DOMAIN w : w[i].selected}
  OBVIOUS
<1>3. PICK gs : gs = Selected(w)
  OBVIOUS
<1>4. gs = Subsequence(w, P)
  BY <1>2, <1>3 DEF Selected
<1>5. PICK W : W = ToSet(w)
  OBVIOUS
<1>6. w \in Seq(W) /\ P \in SUBSET (DOMAIN w)
  BY <1>1, <1>2, <1>5 DEF IsWorkload
<1>7. ASSUME NEW i \in DOMAIN w
      PROVE  IsGroup(w[i]) /\ w[i].trajectories # <<>> /\ 1 \in DOMAIN w[i].trajectories
  <2>1. IsGroup(w[i])
    BY <1>1 DEF IsWorkload
  <2>2. PICK q : q = w[i].trajectories
    OBVIOUS
  <2>3. q \in Seq(ToSet(q)) /\ q # <<>>
    BY <2>1, <2>2 DEF IsGroup
  <2>4. 1 \in DOMAIN q
    BY <2>3
  <2>. QED
    BY <2>1, <2>2, <2>3, <2>4
<1>8. ASSUME NEW i \in DOMAIN w, NEW j \in DOMAIN w,
             NEW a \in DOMAIN w[i].trajectories, NEW b \in DOMAIN w[j].trajectories,
             w[i].trajectories[a] = w[j].trajectories[b]
      PROVE  i = j /\ a = b
  BY <1>1, <1>8 DEF IsWorkload
<1>9. PICK G : G = {w[i] : i \in P}
  OBVIOUS
<1>10. ToSet(gs) = G /\ OnceEach(gs)
  <2>1. \A i, j \in P : w[i] = w[j] => i = j
    BY <1>6, <1>7, <1>8
  <2>. QED
    BY <1>4, <1>6, <1>9, <2>1, SubsequenceHas
<1>11. gs \in Seq(G)
  <2>1. gs \in Seq(W)
    BY <1>4, <1>6, SubsequenceHas
  <2>2. Len(gs) \in Nat /\ gs = [m \in 1 .. Len(gs) |-> gs[m]] /\ \A m \in 1 .. Len(gs) : gs[m] \in G
    BY <1>10, <2>1 DEF ToSet
  <2>. QED
    BY <2>2
<1>12. GroupSet(G)
  <2>1. \A g \in G : IsGroup(g)
    BY <1>6, <1>7, <1>9
  <2>. QED
    BY <2>1, GroupTokens DEF GroupSet
<1>13. Disjoint(G)
  <2>1. ASSUME NEW g \in G
        PROVE  g.trajectories \in Seq(ToSet(g.trajectories)) /\ OnceEach(g.trajectories)
    <3>1. PICK i \in DOMAIN w : g = w[i]
      BY <1>6, <1>9
    <3>2. g.trajectories \in Seq(ToSet(g.trajectories))
      BY <1>7, <3>1 DEF IsGroup
    <3>3. OnceEach(g.trajectories)
      BY <1>8, <3>1 DEF OnceEach
    <3>. QED
      BY <3>2, <3>3
  <2>2. ASSUME NEW g \in G, NEW h \in G, g # h
        PROVE  ToSet(g.trajectories) \cap ToSet(h.trajectories) = {}
    <3>1. PICK i \in DOMAIN w, j \in DOMAIN w : g = w[i] /\ h = w[j]
      BY <1>6, <1>9
    <3>2. i # j
      BY <2>2, <3>1
    <3>3. \A a \in DOMAIN g.trajectories, b \in DOMAIN h.trajectories :
            g.trajectories[a] # h.trajectories[b]
      BY <1>8, <3>1, <3>2
    <3>. QED
      BY <3>3 DEF ToSet
  <2>. QED
    BY <2>1, <2>2 DEF Disjoint
<1>14. PICK T : T = UNION {ToSet(g.trajectories) : g \in G}
  OBVIOUS
<1>15. /\ TasksOf(gs) \in Seq(T) /\ OnceEach(TasksOf(gs))
       /\ ToSet(TasksOf(gs)) = UNION {ToSet(g.trajectories) : g \in ToSet(gs)}
  <2>1. \A g \in G : ToSet(g.trajectories) \subseteq T
    BY <1>14
  <2>. QED
    BY <1>10, <1>11, <1>13, <2>1, TasksElements
<1>16. ToSet(TasksOf(gs)) = T
  BY <1>10, <1>14, <1>15
<1>17. T # {}
  <2>1. PICK i \in P : w[i] \in G
    BY <1>1, <1>2, <1>9 DEF IsWorkload
  <2>2. w[i].trajectories[1] \in ToSet(w[i].trajectories)
    BY <1>6, <1>7, <2>1 DEF ToSet
  <2>. QED
    BY <1>14, <2>1, <2>2
<1>18. ASSUME NEW t \in T PROVE t.decision \in Nat /\ t.query \in Nat
  <2>1. PICK i \in DOMAIN w : t \in ToSet(w[i].trajectories)
    BY <1>6, <1>9, <1>14
  <2>2. {t.id, t.tokens, t.decision, t.query} \subseteq Nat
    BY <1>7, <2>1 DEF IsGroup
  <2>. QED
    BY <2>2
<1>19. SelectedHas(gs, G, T)
  BY <1>10, <1>11, <1>12, <1>13, <1>14, <1>15, <1>16, <1>17, <1>18 DEF SelectedHas
<1>. QED
  BY <1>3, <1>19

(* Every trajectory goes to one rank, once.                                 *)
LEMMA PackedGroups ==
  ASSUME NEW gs, NEW G, NEW T, SelectedHas(gs, G, T)
  PROVE  /\ PackGroups(gs) \in [Ranks -> Seq(T)]
         /\ AllGiven(PackGroups(gs)) = T
         /\ OneGets(PackGroups(gs))
<1>1. PICK by : by = GroupsByLoad(gs)
  OBVIOUS
<1>2. by \in [Ranks -> Seq(G)] /\ AllGiven(by) = ToSet(gs) /\ OneGets(by)
  BY <1>1, GroupElements DEF SelectedHas
<1>3. PICK given : given = [r \in Ranks |-> TasksOf(by[r])]
  OBVIOUS
<1>4. given = PackGroups(gs)
  BY <1>1, <1>3 DEF PackGroups
<1>5. ASSUME NEW r \in Ranks
      PROVE  /\ given[r] \in Seq(T) /\ OnceEach(given[r])
             /\ ToSet(given[r]) = UNION {ToSet(g.trajectories) : g \in ToSet(by[r])}
  <2>1. by[r] \in Seq(G) /\ OnceEach(by[r])
    BY <1>2 DEF OneGets
  <2>2. \A g \in G : ToSet(g.trajectories) \subseteq T
    BY DEF SelectedHas
  <2>3. Disjoint(G)
    BY DEF SelectedHas
  <2>. QED
    BY <1>3, <2>1, <2>2, <2>3, TasksElements
<1>6. \A r \in Ranks : ToSet(by[r]) \subseteq G
  <2>1. \A r \in Ranks : by[r] \in Seq(G)
    BY <1>2
  <2>. QED
    BY <2>1 DEF ToSet
<1>7. OneGets(given)
  <2>1. ASSUME NEW q \in Ranks, NEW r \in Ranks, q # r
        PROVE  ToSet(given[q]) \cap ToSet(given[r]) = {}
    <3>1. ToSet(by[q]) \cap ToSet(by[r]) = {}
      BY <1>2, <2>1 DEF OneGets
    <3>2. \A g \in ToSet(by[q]), h \in ToSet(by[r]) :
            g # h /\ ToSet(g.trajectories) \cap ToSet(h.trajectories) = {}
      BY <1>6, <3>1 DEF SelectedHas, Disjoint
    <3>3. \A x : x \in ToSet(given[q]) => \E g \in ToSet(by[q]) : x \in ToSet(g.trajectories)
      <4>1. ToSet(given[q]) = UNION {ToSet(g.trajectories) : g \in ToSet(by[q])}
        BY <1>5
      <4>. QED
        BY <4>1
    <3>4. \A x : x \in ToSet(given[r]) => \E g \in ToSet(by[r]) : x \in ToSet(g.trajectories)
      <4>1. ToSet(given[r]) = UNION {ToSet(g.trajectories) : g \in ToSet(by[r])}
        BY <1>5
      <4>. QED
        BY <4>1
    <3>. QED
      BY <3>2, <3>3, <3>4
  <2>. QED
    BY <1>5, <2>1 DEF OneGets
<1>8. AllGiven(given) = T
  <2>. SUFFICES ASSUME NEW t PROVE t \in AllGiven(given) <=> t \in T
    OBVIOUS
  <2>1. t \in AllGiven(given) <=> \E r \in Ranks : \E g \in ToSet(by[r]) : t \in ToSet(g.trajectories)
    <3>1. ASSUME NEW r \in Ranks
          PROVE  t \in ToSet(given[r]) <=> \E g \in ToSet(by[r]) : t \in ToSet(g.trajectories)
      <4>1. ToSet(given[r]) = UNION {ToSet(g.trajectories) : g \in ToSet(by[r])}
        BY <1>5
      <4>. QED
        BY <4>1
    <3>. QED
      BY <3>1 DEF AllGiven
  <2>2. G = UNION {ToSet(by[r]) : r \in Ranks}
    BY <1>2 DEF AllGiven, SelectedHas
  <2>3. t \in T <=> \E g \in G : t \in ToSet(g.trajectories)
    BY DEF SelectedHas
  <2>. QED
    BY <2>1, <2>2, <2>3
<1>. QED
  BY <1>3, <1>4, <1>5, <1>7, <1>8

----------------------------------------------------------------------------
(* The rounds.                                                              *)

LEMMA IncreasingIsIdentity ==
  ASSUME NEW n \in Nat, NEW at \in [1 .. n -> 1 .. n],
         \A i, j \in 1 .. n : i < j => at[i] < at[j]
  PROVE  \A i \in 1 .. n : at[i] = i
<1>. DEFINE F == {k \in 0 .. n : k # 0 => at[k] >= k}
            H == {k \in 0 .. n : k # n => at[n - k] <= n - k}
<1>1. 0 .. n \subseteq F
  <2>1. 0 \in F
    OBVIOUS
  <2>2. ASSUME NEW k \in 0 .. n - 1, k \in F PROVE k + 1 \in F
    <3>1. k + 1 \in 1 .. n /\ at[k + 1] \in 1 .. n
      OBVIOUS
    <3>2. CASE k = 0
      BY <3>1, <3>2
    <3>3. CASE k # 0
      <4>1. k \in 1 .. n /\ at[k] \in 1 .. n /\ at[k] >= k /\ at[k] < at[k + 1]
        BY <2>2, <3>1, <3>3
      <4>. QED
        BY <3>1, <4>1
    <3>. QED
      BY <3>2, <3>3
  <2>. HIDE DEF F
  <2>. QED
    BY <2>1, <2>2, SetUpTo
<1>2. 0 .. n \subseteq H
  <2>1. 0 \in H
    <3>1. n # 0 => at[n] \in 1 .. n
      OBVIOUS
    <3>. QED
      BY <3>1
  <2>2. ASSUME NEW k \in 0 .. n - 1, k \in H PROVE k + 1 \in H
    <3>. SUFFICES ASSUME k + 1 # n PROVE at[n - (k + 1)] <= n - (k + 1)
      OBVIOUS
    <3>1. PICK m : m = n - k
      OBVIOUS
    <3>2. m \in 1 .. n /\ m - 1 \in 1 .. n /\ m - 1 = n - (k + 1)
      BY <3>1
    <3>3. at[m] <= m
      BY <2>2, <3>1
    <3>4. at[m] \in 1 .. n /\ at[m - 1] \in 1 .. n /\ at[m - 1] < at[m]
      BY <3>2
    <3>5. at[m - 1] <= m - 1
      BY <3>2, <3>3, <3>4
    <3>. QED
      BY <3>2, <3>5
  <2>. HIDE DEF H
  <2>. QED
    BY <2>1, <2>2, SetUpTo
<1>3. ASSUME NEW i \in 1 .. n PROVE at[i] = i
  <2>1. i \in F
    BY <1>1
  <2>2. PICK k : k = n - i
    OBVIOUS
  <2>3. k \in 0 .. n /\ n - k = i /\ k # n
    BY <2>2
  <2>4. k \in H
    BY <1>2, <2>3
  <2>5. at[i] <= i
    BY <2>3, <2>4
  <2>6. at[i] >= i /\ at[i] \in 1 .. n
    BY <2>1
  <2>. QED
    BY <2>5, <2>6
<1>. QED
  BY <1>3

(* A subsequence of the first positions is the prefix.                      *)
LEMMA SubsequencePrefix ==
  ASSUME NEW E, NEW s \in Seq(E), NEW n \in Nat, n <= Len(s)
  PROVE  Subsequence(s, 1 .. n) = [i \in 1 .. n |-> s[i]]
<1>0. PICK P : P = 1 .. n
  OBVIOUS
<1>1. P \in SUBSET (DOMAIN s)
  BY <1>0
<1>2. PICK at : /\ Lists(at, P) /\ Len(at) = Cardinality(P)
                /\ \A i, j \in DOMAIN at : i < j => at[i] < at[j]
                /\ Subsequence(s, P) = [m \in DOMAIN at |-> s[at[m]]]
  BY <1>1, SubsequenceElements
<1>3. Cardinality(P) = n
  BY <1>0, FS_Interval
<1>4. DOMAIN at = 1 .. n /\ at \in [1 .. n -> 1 .. n]
  <2>1. at \in Seq(1 .. n) /\ Len(at) = n
    BY <1>0, <1>2, <1>3 DEF Lists
  <2>. QED
    BY <2>1
<1>5. \A i, j \in 1 .. n : i < j => at[i] < at[j]
  BY <1>2, <1>4
<1>6. \A i \in 1 .. n : at[i] = i
  BY <1>4, <1>5, IncreasingIsIdentity
<1>. QED
  BY <1>0, <1>2, <1>4, <1>6

(* The first n of q.                                                        *)
Upto(q, n) == [i \in 1 .. n |-> q[i]]

(* How much of q has been sent when k rounds are over.                      *)
Sent(q, k) == IF k * MicroBatch <= Len(q) THEN k * MicroBatch ELSE Len(q)

LEMMA SentSteps ==
  ASSUME NEW T, NEW q \in Seq(T), NEW k \in Nat \ {0}
  PROVE  /\ Sent(q, k - 1) \in 0 .. Len(q) /\ Sent(q, k) \in 0 .. Len(q)
         /\ Sent(q, k) - Sent(q, k - 1) \in 0 .. MicroBatch
         /\ (k - 1) * MicroBatch \in Nat
         /\ Sent(q, k) # Sent(q, k - 1) => Sent(q, k - 1) = (k - 1) * MicroBatch
         /\ \A i \in 1 .. MicroBatch :
              (k - 1) * MicroBatch + i <= Len(q) <=> i <= Sent(q, k) - Sent(q, k - 1)
<1>1. PICK M : M = MicroBatch
  OBVIOUS
<1>2. M \in Nat \ {0}
  BY <1>1, RankConstants
<1>3. PICK L : L = Len(q)
  OBVIOUS
<1>4. L \in Nat
  BY <1>3
<1>5. PICK p : p = (k - 1) * M
  OBVIOUS
<1>6. p \in Nat /\ k * M = p + M
  BY <1>2, <1>5
<1>7. /\ Sent(q, k - 1) = (IF p <= L THEN p ELSE L)
      /\ Sent(q, k) = (IF p + M <= L THEN p + M ELSE L)
  BY <1>1, <1>3, <1>5, <1>6 DEF Sent
<1>8. /\ Sent(q, k - 1) \in 0 .. L /\ Sent(q, k) \in 0 .. L
      /\ Sent(q, k) - Sent(q, k - 1) \in 0 .. M
  BY <1>2, <1>4, <1>6, <1>7
<1>9. Sent(q, k) # Sent(q, k - 1) => Sent(q, k - 1) = p
  BY <1>2, <1>4, <1>6, <1>7
<1>10. \A i \in 1 .. M : p + i <= L <=> i <= Sent(q, k) - Sent(q, k - 1)
  BY <1>2, <1>4, <1>6, <1>7
<1>. QED
  BY <1>1, <1>3, <1>5, <1>6, <1>8, <1>9, <1>10

(* The rows of weight one of a payload are the next trajectories of its     *)
(* rank.                                                                    *)
LEMMA RealRows ==
  ASSUME NEW T, NEW given \in [Ranks -> Seq(T)], NEW k \in Nat \ {0}, NEW r \in Ranks,
         NEW q, q = given[r], NEW a, a = Sent(q, k - 1), NEW b, b = Sent(q, k)
  PROVE  Real(Payload(given, k, r)) = [i \in 1 .. b - a |-> q[a + i]]
<1>1. PICK M, p : M = MicroBatch /\ p = (k - 1) * MicroBatch
  OBVIOUS
<1>2. M \in Nat \ {0}
  BY <1>1, RankConstants
<1>3. q \in Seq(T)
  OBVIOUS
<1>4. /\ a \in 0 .. Len(q) /\ b \in 0 .. Len(q) /\ b - a \in 0 .. M /\ p \in Nat
      /\ b # a => a = p
      /\ \A i \in 1 .. M : p + i <= Len(q) <=> i <= b - a
  BY <1>1, <1>3, SentSteps
<1>5. PICK c : c = b - a
  OBVIOUS
<1>6. c \in Nat /\ c <= M
  BY <1>2, <1>4, <1>5
<1>7. PICK payload : payload = Payload(given, k, r)
  OBVIOUS
<1>8. payload = [i \in 1 .. M |-> IF p + i <= Len(q) THEN Weighted(q[p + i], 1) ELSE FillerRow(given, r)]
  BY <1>1, <1>7 DEF Payload
<1>9. FillerRow(given, r).weight = 0
  BY DEF FillerRow, Weighted
<1>10. \A x : Weighted(x, 1).weight = 1 /\ Weighted(x, 1).trajectory = x
  BY DEF Weighted
<1>11. ASSUME NEW i \in 1 .. M
       PROVE  /\ payload[i].weight = 1 <=> i <= c
              /\ i <= c => payload[i].trajectory = q[p + i]
  <2>1. CASE i <= c
    <3>1. payload[i] = Weighted(q[p + i], 1)
      BY <1>4, <1>5, <1>8, <2>1
    <3>. QED
      BY <1>10, <2>1, <3>1
  <2>2. CASE ~ (i <= c)
    <3>1. payload[i] = FillerRow(given, r)
      BY <1>4, <1>5, <1>8, <2>2
    <3>2. payload[i].weight # 1
      BY <1>9, <3>1
    <3>. QED
      BY <2>2, <3>2
  <2>. QED
    BY <2>1, <2>2
<1>12. PICK E : E = {payload[i] : i \in 1 .. M}
  OBVIOUS
<1>13. payload \in Seq(E) /\ Len(payload) = M /\ DOMAIN payload = 1 .. M
  <2>1. payload \in [1 .. M -> E]
    BY <1>8, <1>12
  <2>. QED
    BY <1>2, <2>1
<1>14. {i \in DOMAIN payload : payload[i].weight = 1} = 1 .. c
  BY <1>2, <1>6, <1>11, <1>13
<1>15. PICK rows : rows = Subsequence(payload, 1 .. c)
  OBVIOUS
<1>16. rows = [i \in 1 .. c |-> payload[i]]
  BY <1>6, <1>13, <1>15, SubsequencePrefix
<1>17. Real(payload) = [i \in DOMAIN rows |-> rows[i].trajectory]
  BY <1>14, <1>15 DEF Real
<1>18. \A i \in 1 .. c : rows[i].trajectory = q[a + i]
  <2>. SUFFICES ASSUME NEW i \in 1 .. c PROVE rows[i].trajectory = q[a + i]
    OBVIOUS
  <2>2. i \in 1 .. M /\ i <= c /\ c # 0
    BY <1>2, <1>6
  <2>3. b # a
    <3>1. a \in Int
      BY <1>4
    <3>. QED
      BY <1>5, <2>2, <3>1
  <2>4. b # a => a = p
    BY <1>4
  <2>1. i \in 1 .. M /\ i <= c /\ a = p
    BY <2>2, <2>3, <2>4
  <2>. QED
    BY <1>11, <1>16, <2>1
<1>. QED
  BY <1>5, <1>7, <1>16, <1>17, <1>18

LEMMA RealAppends ==
  ASSUME NEW T, NEW given \in [Ranks -> Seq(T)], NEW k \in Nat \ {0}, NEW r \in Ranks
  PROVE  Upto(given[r], Sent(given[r], k - 1)) \o Real(Payload(given, k, r))
           = Upto(given[r], Sent(given[r], k))
<1>1. PICK q, a, b, rows : /\ q = given[r] /\ a = Sent(q, k - 1) /\ b = Sent(q, k)
                           /\ rows = Real(Payload(given, k, r))
  OBVIOUS
<1>2. rows = [i \in 1 .. b - a |-> q[a + i]]
  BY <1>1, RealRows
<1>3. q \in Seq(T)
  BY <1>1
<1>4. a \in 0 .. Len(q) /\ b \in 0 .. Len(q) /\ b - a \in Nat
  <2>1. b - a \in 0 .. MicroBatch
    BY <1>1, <1>3, SentSteps
  <2>2. a \in 0 .. Len(q) /\ b \in 0 .. Len(q)
    BY <1>1, <1>3, SentSteps
  <2>. QED
    BY <2>1, <2>2, RankConstants
<1>5. Len(q) \in Nat /\ \A i \in 1 .. Len(q) : q[i] \in T
  BY <1>3
<1>6. Upto(q, a) \in Seq(T) /\ Len(Upto(q, a)) = a /\ \A i \in 1 .. a : Upto(q, a)[i] = q[i]
  <2>1. Upto(q, a) \in [1 .. a -> T] /\ a \in Nat
    BY <1>4, <1>5 DEF Upto
  <2>. QED
    BY <2>1 DEF Upto
<1>7. rows \in Seq(T) /\ Len(rows) = b - a /\ \A i \in 1 .. b - a : rows[i] = q[a + i]
  <2>1. PICK n : n = b - a
    OBVIOUS
  <2>2. n \in Nat /\ rows \in [1 .. n -> T]
    BY <1>2, <1>4, <1>5, <2>1
  <2>3. rows \in Seq(T) /\ Len(rows) = n
    BY <2>2
  <2>. QED
    BY <1>2, <2>1, <2>3
<1>8. PICK s : s = Upto(q, a) \o rows
  OBVIOUS
<1>9. s \in Seq(T) /\ Len(s) = b /\ \A i \in 1 .. b : s[i] = q[i]
  <2>1. Len(s) = b /\ s \in Seq(T)
    <3>1. PICK x : x = Upto(q, a)
      OBVIOUS
    <3>2. x \in Seq(T) /\ Len(x) = a /\ rows \in Seq(T) /\ Len(rows) = b - a /\ s = x \o rows
      BY <1>6, <1>7, <1>8, <3>1
    <3>3. s \in Seq(T) /\ Len(s) = Len(x) + Len(rows)
      BY <3>2, ConcatProperties
    <3>. QED
      BY <1>4, <3>2, <3>3
  <2>2. ASSUME NEW i \in 1 .. b PROVE s[i] = q[i]
    <3>1. CASE i <= a
      BY <1>4, <1>6, <1>7, <1>8, <3>1
    <3>2. CASE i > a
      <4>1. i - a \in 1 .. b - a /\ a + (i - a) = i
        BY <1>4, <3>2
      <4>2. s[i] = rows[i - a]
        BY <1>4, <1>6, <1>7, <1>8, <3>2
      <4>. QED
        BY <1>7, <4>1, <4>2
    <3>. QED
      BY <1>4, <3>1, <3>2
  <2>. QED
    BY <2>1, <2>2
<1>10. s = [i \in 1 .. b |-> q[i]]
  BY <1>9
<1>. QED
  BY <1>1, <1>8, <1>10 DEF Upto

LEMMA CeilingOf ==
  ASSUME NEW n \in Nat, NEW M \in Nat \ {0}, NEW d, d = (n + M - 1) \div M
  PROVE  d \in Nat /\ d * M >= n /\ (n > 0 => d > 0)
<1>1. d \in Int /\ n + M - 1 = d * M + ((n + M - 1) % M) /\ (n + M - 1) % M \in 0 .. M - 1
  OBVIOUS
<1>2. d * M >= n /\ d * M > -1
  BY <1>1
<1>3. d >= 0
  BY <1>1, <1>2
<1>. QED
  BY <1>1, <1>2, <1>3

(* After the last round every rank has sent all it was given.               *)
LEMMA AllSent ==
  ASSUME NEW T, NEW given \in [Ranks -> Seq(T)], AllGiven(given) # {}
  PROVE  /\ RoundCount(given) \in Nat \ {0}
         /\ \A r \in Ranks : Sent(given[r], RoundCount(given)) = Len(given[r])
<1>1. PICK M, K : M = MicroBatch /\ K = RoundCount(given)
  OBVIOUS
<1>2. M \in Nat \ {0}
  BY <1>1, RankConstants
<1>3. PICK d : d = [r \in Ranks |-> (Len(given[r]) + M - 1) \div M]
  OBVIOUS
<1>4. \A r \in Ranks : given[r] \in Seq(T) /\ Len(given[r]) \in Nat
  OBVIOUS
<1>5. \A r \in Ranks : d[r] \in Nat /\ d[r] * M >= Len(given[r]) /\ (Len(given[r]) > 0 => d[r] > 0)
  BY <1>2, <1>3, <1>4, CeilingOf
<1>6. PICK S : S = {d[r] : r \in Ranks}
  OBVIOUS
<1>7. K = Max(S)
  BY <1>1, <1>3, <1>6 DEF RoundCount
<1>8. S \in SUBSET Int /\ S # {}
  <2>1. \A x \in S : x \in Int
    BY <1>5, <1>6
  <2>2. PICK r : r \in Ranks
    BY RanksFinite
  <2>3. d[r] \in S
    BY <1>6, <2>2
  <2>. QED
    BY <2>1, <2>3
<1>9. IsFiniteSet(S)
  <2>1. d \in Surjection(Ranks, S)
    BY <1>3, <1>6 DEF Surjection
  <2>. QED
    BY <2>1, RanksFinite, FS_Surjection DEF ExistsSurjection
<1>10. K \in S /\ \A x \in S : K >= x
  BY <1>7, <1>8, <1>9, MaxOfFinite
<1>11. K \in Nat
  BY <1>5, <1>6, <1>10
<1>12. K # 0
  <2>1. PICK r \in Ranks : ToSet(given[r]) # {}
    BY DEF AllGiven
  <2>2. given[r] # <<>> /\ Len(given[r]) > 0
    BY <1>4, <2>1 DEF ToSet
  <2>3. d[r] > 0 /\ d[r] \in S /\ d[r] \in Nat
    BY <1>5, <1>6, <2>2
  <2>. QED
    BY <1>10, <1>11, <2>3
<1>13. ASSUME NEW r \in Ranks PROVE Sent(given[r], K) = Len(given[r])
  <2>1. PICK L, e : L = Len(given[r]) /\ e = d[r]
    OBVIOUS
  <2>2. L \in Nat /\ e \in Nat /\ e * M >= L /\ K >= e
    BY <1>4, <1>5, <1>6, <1>10, <2>1
  <2>3. K * M >= e * M
    BY <1>2, <1>11, <2>2
  <2>4. K * M >= L /\ K * M \in Nat
    BY <1>2, <1>11, <2>2, <2>3
  <2>5. Sent(given[r], K) = IF K * M <= L THEN K * M ELSE L
    BY <1>1, <2>1 DEF Sent
  <2>. QED
    BY <2>1, <2>2, <2>4, <2>5
<1>. QED
  BY <1>1, <1>11, <1>12, <1>13

(* f has the values h of the elements of s.                                 *)
Values(f, s, h) == f = [i \in DOMAIN s |-> h[s[i]]]

LEMMA SumOfElements ==
  ASSUME NEW T, NEW q \in Seq(T), OnceEach(q), NEW h, \A x \in T : h[x] \in Int,
         NEW v, Values(v, q, h)
  PROVE  SumOf(v) = SumOn(ToSet(q), h)
<1>1. PICK D : D = DOMAIN q
  OBVIOUS
<1>2. IsFiniteSet(D) /\ q \in [D -> T]
  <2>1. D = 1 .. Len(q) /\ Len(q) \in Nat
    BY <1>1
  <2>2. IsFiniteSet(1 .. Len(q))
    BY <2>1, FS_Interval
  <2>. QED
    BY <2>1, <2>2
<1>3. Renames(q, D, v, h)
  <2>1. \A x, y \in D : x # y => q[x] # q[y]
    BY <1>1 DEF OnceEach
  <2>2. \A x \in D : h[q[x]] \in Int /\ v[x] = h[q[x]]
    BY <1>1, <1>2 DEF Values
  <2>. QED
    BY <2>1, <2>2 DEF Renames
<1>4. SumOn(ImageOf(q, D), h) = SumOn(D, v)
  BY <1>2, <1>3, SumRenamed
<1>5. ToSet(q) = ImageOf(q, D) /\ DOMAIN v = D
  BY <1>1 DEF ToSet, ImageOf, Values
<1>. QED
  BY <1>4, <1>5, Sums

LEMMA SameEvents ==
  ASSUME NEW T, NEW s \in Seq(T), NEW u \in Seq(T), OnceEach(s), OnceEach(u),
         ToSet(s) = ToSet(u), \A t \in T : t.decision \in Nat /\ t.query \in Nat
  PROVE  Decisions(s) = Decisions(u) /\ Queries(s) = Queries(u)
<1>1. \A i \in DOMAIN s : s[i] \in T
  OBVIOUS
<1>2. \A i \in DOMAIN u : u[i] \in T
  OBVIOUS
<1>3. Decisions(s) = Decisions(u)
  <2>1. PICK h : h = [t \in T |-> t.decision]
    OBVIOUS
  <2>2. PICK f, g : f = [i \in DOMAIN s |-> s[i].decision] /\ g = [i \in DOMAIN u |-> u[i].decision]
    OBVIOUS
  <2>3. Values(f, s, h) /\ Values(g, u, h)
    BY <1>1, <1>2, <2>1, <2>2 DEF Values
  <2>4. \A x \in T : h[x] \in Int
    BY <2>1
  <2>5. SumOf(f) = SumOn(ToSet(s), h)
    BY <2>3, <2>4, SumOfElements
  <2>6. SumOf(g) = SumOn(ToSet(u), h)
    BY <2>3, <2>4, SumOfElements
  <2>. QED
    BY <2>2, <2>5, <2>6 DEF Decisions
<1>4. Queries(s) = Queries(u)
  <2>1. PICK h : h = [t \in T |-> t.query]
    OBVIOUS
  <2>2. PICK f, g : f = [i \in DOMAIN s |-> s[i].query] /\ g = [i \in DOMAIN u |-> u[i].query]
    OBVIOUS
  <2>3. Values(f, s, h) /\ Values(g, u, h)
    BY <1>1, <1>2, <2>1, <2>2 DEF Values
  <2>4. \A x \in T : h[x] \in Int
    BY <2>1
  <2>5. SumOf(f) = SumOn(ToSet(s), h)
    BY <2>3, <2>4, SumOfElements
  <2>6. SumOf(g) = SumOn(ToSet(u), h)
    BY <2>3, <2>4, SumOfElements
  <2>. QED
    BY <2>2, <2>5, <2>6 DEF Queries
<1>. QED
  BY <1>3, <1>4

(* What a rank sends in one round.                                          *)
SentIn(given, k, r) ==
  {given[r][n] : n \in Sent(given[r], k - 1) + 1 .. Sent(given[r], k)}

LEMMA RoundRows ==
  ASSUME NEW T, NEW given, AssignedTo(given, T), OneGets(given), NEW k \in Nat \ {0},
         NEW r \in Ranks, NEW rows, rows = Real(Payload(given, k, r))
  PROVE  /\ rows \in Seq(T) /\ OnceEach(rows)
         /\ ToSet(rows) = SentIn(given, k, r)
<1>. given \in [Ranks -> Seq(T)]
  BY DEF AssignedTo
<1>1. PICK q, a, b : q = given[r] /\ a = Sent(q, k - 1) /\ b = Sent(q, k)
  OBVIOUS
<1>2. rows = [i \in 1 .. b - a |-> q[a + i]]
  BY <1>1, RealRows
<1>3. q \in Seq(T) /\ OnceEach(q)
  BY <1>1 DEF OneGets
<1>4. a \in 0 .. Len(q) /\ b \in 0 .. Len(q) /\ b - a \in Nat
  <2>1. b - a \in 0 .. MicroBatch
    BY <1>1, <1>3, SentSteps
  <2>2. a \in 0 .. Len(q) /\ b \in 0 .. Len(q)
    BY <1>1, <1>3, SentSteps
  <2>. QED
    BY <2>1, <2>2, RankConstants
<1>5. Len(q) \in Nat /\ DOMAIN q = 1 .. Len(q) /\ \A i \in 1 .. Len(q) : q[i] \in T
  BY <1>3
<1>6. PICK n : n = b - a
  OBVIOUS
<1>7. n \in Nat /\ rows = [i \in 1 .. n |-> q[a + i]] /\ \A i \in 1 .. n : a + i \in DOMAIN q
  BY <1>2, <1>4, <1>5, <1>6
<1>8. rows \in Seq(T)
  <2>1. rows \in [1 .. n -> T]
    BY <1>5, <1>7
  <2>. QED
    BY <1>7, <2>1
<1>9. OnceEach(rows)
  <2>. SUFFICES ASSUME NEW i \in 1 .. n, NEW j \in 1 .. n, rows[i] = rows[j] PROVE i = j
    BY <1>7 DEF OnceEach
  <2>1. q[a + i] = q[a + j] /\ a + i \in DOMAIN q /\ a + j \in DOMAIN q
    BY <1>7
  <2>2. a + i = a + j
    BY <1>3, <2>1 DEF OnceEach
  <2>. QED
    BY <1>4, <2>2
<1>10. ToSet(rows) = {q[m] : m \in a + 1 .. b}
  <2>1. ToSet(rows) = {q[a + i] : i \in 1 .. n}
    BY <1>7 DEF ToSet
  <2>2. \A m \in a + 1 .. b : m - a \in 1 .. n /\ a + (m - a) = m
    BY <1>4, <1>6
  <2>3. \A i \in 1 .. n : a + i \in a + 1 .. b
    BY <1>4, <1>6
  <2>. QED
    BY <2>1, <2>2, <2>3
<1>. QED
  BY <1>1, <1>8, <1>9, <1>10 DEF SentIn

LEMMA SentGrows ==
  ASSUME NEW T, NEW q \in Seq(T)
  PROVE  /\ Sent(q, 0) = 0
         /\ \A a, b \in Nat : a <= b => Sent(q, a) <= Sent(q, b)
         /\ \A a \in Nat : Sent(q, a) \in 0 .. Len(q)
<1>1. MicroBatch \in Nat \ {0} /\ Len(q) \in Nat
  BY RankConstants
<1>2. 0 * MicroBatch = 0
  BY <1>1
<1>3. ASSUME NEW a \in Nat, NEW b \in Nat, a <= b PROVE Sent(q, a) <= Sent(q, b)
  <2>1. PICK x, y : x = a * MicroBatch /\ y = b * MicroBatch
    OBVIOUS
  <2>2. x \in Nat /\ y \in Nat /\ x <= y
    BY <1>1, <1>3, <2>1
  <2>. QED
    BY <1>1, <2>1, <2>2 DEF Sent
<1>4. ASSUME NEW a \in Nat PROVE Sent(q, a) \in 0 .. Len(q)
  <2>1. PICK x : x = a * MicroBatch
    OBVIOUS
  <2>2. x \in Nat
    BY <1>1, <2>1
  <2>. QED
    BY <1>1, <2>1, <2>2 DEF Sent
<1>. QED
  BY <1>1, <1>2, <1>3, <1>4 DEF Sent

(* Every position of a share is sent in one of the rounds, and in no other. *)
LEMMA RoundOf ==
  ASSUME NEW T, NEW q \in Seq(T), NEW K \in Nat, Sent(q, K) = Len(q), NEW n \in 1 .. Len(q)
  PROVE  \E k \in 1 .. K : n \in Sent(q, k - 1) + 1 .. Sent(q, k)
<1>. DEFINE S == {k \in Nat : n <= Sent(q, k)}
<1>1. K \in S
  OBVIOUS
<1>2. PICK k \in S : \A m \in S : k <= m
  BY <1>1, LeastNatural
<1>3. k \in Nat /\ n <= Sent(q, k) /\ k <= K
  BY <1>1, <1>2
<1>4. k # 0
  BY <1>3, SentGrows
<1>5. k - 1 \in Nat /\ k - 1 \notin S
  BY <1>2, <1>3, <1>4
<1>6. Sent(q, k - 1) < n /\ Sent(q, k - 1) \in Nat /\ Sent(q, k) \in Nat
  <2>1. Sent(q, k - 1) \in 0 .. Len(q) /\ Sent(q, k) \in 0 .. Len(q)
    BY <1>3, <1>5, SentGrows
  <2>. QED
    BY <1>5, <2>1
<1>. QED
  BY <1>3, <1>4, <1>6

(* The gate events that are counted are those of the trajectories.          *)
LEMMA EventsCounted ==
  ASSUME NEW gs, NEW G, NEW T, SelectedHas(gs, G, T)
  PROVE  GateEvents(SynchronizedRounds(gs))
           = [decision |-> Decisions(TasksOf(gs)), query |-> Queries(TasksOf(gs))]
<1>1. PICK given, K, rs : /\ given = PackGroups(gs) /\ K = RoundCount(given)
                          /\ rs = SynchronizedRounds(gs)
  OBVIOUS
<1>2. given \in [Ranks -> Seq(T)] /\ AllGiven(given) = T /\ OneGets(given) /\ T # {}
  BY <1>1, PackedGroups DEF SelectedHas
<1>3. K \in Nat \ {0} /\ \A r \in Ranks : Sent(given[r], K) = Len(given[r])
  BY <1>1, <1>2, AllSent
<1>4. rs = [k \in 1 .. K |-> [r \in Ranks |-> Payload(given, k, r)]]
  BY <1>1 DEF SynchronizedRounds
<1>5. WorldSize \in Nat \ {0} /\ \A i \in 1 .. WorldSize : i - 1 \in Ranks
  BY RankConstants DEF Ranks
<1>6. \A r \in Ranks : r \in Int /\ r + 1 \in 1 .. WorldSize /\ (r + 1) - 1 = r
  BY <1>5 DEF Ranks
<1>7. ASSUME NEW k \in 1 .. K, NEW r \in Ranks
      PROVE  /\ Real(rs[k][r]) \in Seq(T) /\ OnceEach(Real(rs[k][r]))
             /\ ToSet(Real(rs[k][r])) = SentIn(given, k, r)
             /\ SentIn(given, k, r) \subseteq ToSet(given[r])
  <2>1. PICK rows : rows = Real(rs[k][r])
    OBVIOUS
  <2>2. rows = Real(Payload(given, k, r)) /\ k \in Nat \ {0}
    BY <1>3, <1>4, <2>1
  <2>3. AssignedTo(given, T) /\ OneGets(given)
    BY <1>2 DEF AssignedTo
  <2>9. rows \in Seq(T) /\ OnceEach(rows) /\ ToSet(rows) = SentIn(given, k, r)
    BY <2>2, <2>3, RoundRows
  <2>4. PICK q : q = given[r]
    OBVIOUS
  <2>5. q \in Seq(T)
    BY <1>2, <2>4
  <2>6. Sent(q, k - 1) \in 0 .. Len(q) /\ Sent(q, k) \in 0 .. Len(q)
    BY <2>2, <2>5, SentSteps
  <2>7. \A n \in Sent(q, k - 1) + 1 .. Sent(q, k) : n \in DOMAIN q
    BY <2>5, <2>6
  <2>8. SentIn(given, k, r) \subseteq ToSet(given[r])
    BY <2>4, <2>7 DEF ToSet, SentIn
  <2>. QED
    BY <2>1, <2>9, <2>8
<1>8. ASSUME NEW k \in 1 .. K, NEW l \in 1 .. K, k < l, NEW q \in Ranks, NEW r \in Ranks
      PROVE  SentIn(given, k, q) \cap SentIn(given, l, r) = {}
  <2>1. CASE q # r
    <3>1. SentIn(given, k, q) \subseteq ToSet(given[q]) /\ SentIn(given, l, r) \subseteq ToSet(given[r])
      BY <1>7
    <3>2. ToSet(given[q]) \cap ToSet(given[r]) = {}
      BY <1>2, <2>1 DEF OneGets
    <3>. QED
      BY <3>1, <3>2
  <2>2. CASE q = r
    <3>1. PICK s : s = given[r]
      OBVIOUS
    <3>2. s \in Seq(T) /\ OnceEach(s)
      BY <1>2, <3>1 DEF OneGets
    <3>3. k \in Nat /\ l - 1 \in Nat /\ k <= l - 1 /\ k - 1 \in Nat /\ l \in Nat
      BY <1>8
    <3>4. PICK a, b, d, e : /\ a = Sent(s, k - 1) /\ b = Sent(s, k)
                            /\ d = Sent(s, l - 1) /\ e = Sent(s, l)
      OBVIOUS
    <3>5. b <= d
      BY <3>2, <3>3, <3>4, SentGrows
    <3>6. {a, b, d, e} \subseteq 0 .. Len(s)
      <4>1. \A i \in Nat : Sent(s, i) \in 0 .. Len(s)
        BY <3>2, SentGrows
      <4>. QED
        BY <3>3, <3>4, <4>1
    <3>7. ASSUME NEW m \in a + 1 .. b, NEW n \in d + 1 .. e PROVE s[m] # s[n]
      <4>1. m \in DOMAIN s /\ n \in DOMAIN s /\ m # n
        BY <3>2, <3>5, <3>6
      <4>. QED
        BY <3>2, <4>1 DEF OnceEach
    <3>8. SentIn(given, k, q) = {s[m] : m \in a + 1 .. b} /\ SentIn(given, l, r) = {s[n] : n \in d + 1 .. e}
      BY <2>2, <3>1, <3>4 DEF SentIn
    <3>. QED
      BY <3>7, <3>8
  <2>. QED
    BY <2>1, <2>2
<1>9. ASSUME NEW t \in T PROVE \E k \in 1 .. K : \E r \in Ranks : t \in SentIn(given, k, r)
  <2>1. PICK r \in Ranks : t \in ToSet(given[r])
    BY <1>2 DEF AllGiven
  <2>2. PICK q : q = given[r]
    OBVIOUS
  <2>3. q \in Seq(T) /\ Sent(q, K) = Len(q)
    BY <1>2, <1>3, <2>2
  <2>4. PICK n \in 1 .. Len(q) : t = q[n]
    BY <2>1, <2>2, <2>3 DEF ToSet
  <2>5. PICK k \in 1 .. K : n \in Sent(q, k - 1) + 1 .. Sent(q, k)
    BY <1>3, <2>3, RoundOf
  <2>6. t \in SentIn(given, k, r)
    BY <2>2, <2>4, <2>5 DEF SentIn
  <2>. QED
    BY <2>6
<1>10. PICK inner : inner = [k \in 1 .. K |-> FlattenSeq([i \in 1 .. WorldSize |-> Real(rs[k][i - 1])])]
  OBVIOUS
<1>11. ASSUME NEW k \in 1 .. K
       PROVE  /\ inner[k] \in Seq(T) /\ OnceEach(inner[k])
              /\ ToSet(inner[k]) = UNION {SentIn(given, k, r) : r \in Ranks}
  <2>1. PICK parts : parts = [i \in 1 .. WorldSize |-> Real(rs[k][i - 1])]
    OBVIOUS
  <2>2. inner[k] = FlattenSeq(parts)
    BY <1>10, <2>1
  <2>3. ASSUME NEW i \in 1 .. WorldSize
        PROVE  /\ parts[i] \in Seq(T) /\ OnceEach(parts[i])
               /\ ToSet(parts[i]) = SentIn(given, k, i - 1)
    BY <1>5, <1>7, <2>1
  <2>4. parts \in Seq(Seq(T)) /\ DOMAIN parts = 1 .. WorldSize
    <3>1. PICK Z : Z = Seq(T)
      OBVIOUS
    <3>2. parts \in [1 .. WorldSize -> Z]
      BY <2>1, <2>3, <3>1
    <3>3. parts \in Seq(Z)
      BY <1>5, <3>2
    <3>. QED
      BY <3>1, <3>2, <3>3
  <2>5. Apart(parts)
    <3>. SUFFICES ASSUME NEW i \in 1 .. WorldSize, NEW j \in 1 .. WorldSize, i # j
                  PROVE  ToSet(parts[i]) \cap ToSet(parts[j]) = {}
      BY <2>4 DEF Apart
    <3>1. i - 1 \in Ranks /\ j - 1 \in Ranks /\ i - 1 # j - 1
      BY <1>5
    <3>2. ToSet(given[i - 1]) \cap ToSet(given[j - 1]) = {}
      BY <1>2, <3>1 DEF OneGets
    <3>3. ToSet(parts[i]) \subseteq ToSet(given[i - 1]) /\ ToSet(parts[j]) \subseteq ToSet(given[j - 1])
      BY <1>7, <2>3, <3>1
    <3>. QED
      BY <3>2, <3>3
  <2>6. /\ FlattenSeq(parts) \in Seq(T) /\ OnceEach(FlattenSeq(parts))
        /\ ToSet(FlattenSeq(parts)) = UNION {ToSet(parts[i]) : i \in DOMAIN parts}
    BY <2>3, <2>4, <2>5, FlattenElements
  <2>7. UNION {ToSet(parts[i]) : i \in DOMAIN parts} = UNION {SentIn(given, k, r) : r \in Ranks}
    <3>1. \A i \in DOMAIN parts : i - 1 \in Ranks /\ ToSet(parts[i]) = SentIn(given, k, i - 1)
      BY <1>5, <2>3, <2>4
    <3>2. \A r \in Ranks : r + 1 \in DOMAIN parts /\ ToSet(parts[r + 1]) = SentIn(given, k, r)
      BY <1>6, <2>3, <2>4
    <3>. QED
      BY <3>1, <3>2
  <2>. QED
    BY <2>2, <2>6, <2>7
<1>12. inner \in Seq(Seq(T)) /\ DOMAIN inner = 1 .. K
  <2>1. PICK Z : Z = Seq(T)
    OBVIOUS
  <2>2. inner \in [1 .. K -> Z]
    BY <1>10, <1>11, <2>1
  <2>3. inner \in Seq(Z)
    BY <1>3, <2>2
  <2>. QED
    BY <2>1, <2>2, <2>3
<1>13. Apart(inner)
  <2>. SUFFICES ASSUME NEW k \in 1 .. K, NEW l \in 1 .. K, k < l
                PROVE  ToSet(inner[k]) \cap ToSet(inner[l]) = {}
    <3>1. \A k, l \in 1 .. K : k # l => k < l \/ l < k
      BY <1>3
    <3>. QED
      BY <1>12, <3>1 DEF Apart
  <2>1. \A q, r \in Ranks : SentIn(given, k, q) \cap SentIn(given, l, r) = {}
    BY <1>8
  <2>2. /\ ToSet(inner[k]) = UNION {SentIn(given, k, r) : r \in Ranks}
        /\ ToSet(inner[l]) = UNION {SentIn(given, l, r) : r \in Ranks}
    BY <1>11
  <2>. QED
    BY <2>1, <2>2
<1>14. PICK rows : rows = FlattenSeq(inner)
  OBVIOUS
<1>15. /\ rows \in Seq(T) /\ OnceEach(rows)
       /\ ToSet(rows) = UNION {ToSet(inner[k]) : k \in DOMAIN inner}
  BY <1>11, <1>12, <1>13, <1>14, FlattenElements
<1>16. ToSet(rows) = T
  <2>. SUFFICES ASSUME NEW t PROVE t \in ToSet(rows) <=> t \in T
    OBVIOUS
  <2>1. t \in ToSet(rows) <=> \E k \in 1 .. K : t \in ToSet(inner[k])
    BY <1>12, <1>15
  <2>2. \A k \in 1 .. K : t \in ToSet(inner[k]) <=> \E r \in Ranks : t \in SentIn(given, k, r)
    <3>. SUFFICES ASSUME NEW k \in 1 .. K
                  PROVE  t \in ToSet(inner[k]) <=> \E r \in Ranks : t \in SentIn(given, k, r)
      OBVIOUS
    <3>1. ToSet(inner[k]) = UNION {SentIn(given, k, r) : r \in Ranks}
      BY <1>11
    <3>. QED
      BY <3>1
  <2>3. \A k \in 1 .. K, r \in Ranks : SentIn(given, k, r) \subseteq T
    <3>1. \A r \in Ranks : ToSet(given[r]) \subseteq T
      BY <1>2 DEF AllGiven
    <3>. QED
      BY <1>7, <3>1
  <2>. QED
    BY <1>9, <2>1, <2>2, <2>3
<1>17. PICK u : u = TasksOf(gs)
  OBVIOUS
<1>18. /\ u \in Seq(T) /\ OnceEach(u) /\ ToSet(u) = T
       /\ \A t \in T : t.decision \in Nat /\ t.query \in Nat
  BY <1>17 DEF SelectedHas
<1>19. Decisions(rows) = Decisions(u) /\ Queries(rows) = Queries(u)
  BY <1>15, <1>16, <1>18, SameEvents
<1>20. GateEvents(rs) = [decision |-> Decisions(rows), query |-> Queries(rows)]
  <2>1. DOMAIN rs = 1 .. K
    BY <1>4
  <2>. QED
    BY <1>10, <1>14, <2>1 DEF GateEvents
<1>. QED
  BY <1>1, <1>17, <1>19, <1>20

----------------------------------------------------------------------------
(* What the ranks hold.                                                     *)

Given == PackGroups(Selected(groups))

(* What rank r has accumulated when k rounds are over.                      *)
Share(r, k) == Upto(Given[r], Sent(Given[r], k))

Profiled == {"begin_profile", "backward"} \cup InProfile
InRounds == {"materialize", "zero_grad"} \cup Profiled

(* A rank that has not answered the backward of a round has the rounds      *)
(* before it, one that has has this one too; the gradient that a channel's  *)
(* profile keeps, and the one an update goes on with, is the whole share.   *)
HoldsShare(r) ==
  /\ call \in {"zero_grad", "begin_channel"} /\ phase[r] = "answered" => grads[r] = <<>>
  /\ call = "backward" =>
       /\ phase[r] \in {"called", "waiting", "local"} => grads[r] = Share(r, round - 1)
       /\ phase[r] = "answered" => grads[r] = Share(r, round)
  /\ call = "finish_channel" /\ phase[r] = "called" => grads[r] = Given[r]
  /\ stage = "train" /\ call = "done" => grads[r] = Given[r]
  /\ \A c \in DOMAIN profile[r].gradients : profile[r].gradients[c] = Given[r]

WeighInv ==
  /\ stage = "train" =>
       /\ call \in TrainCalls /\ ~ aborting
       /\ \A r \in Ranks : profile[r] = NoProfile
  /\ call \in {"score", "pack"} \cup InRounds \/ (stage = "train" /\ call = "done") =>
       groups \in Workloads
  /\ call \in InRounds => rounds = SynchronizedRounds(Selected(groups)) /\ round \in 1 .. Len(rounds)
  /\ stage = "calibrate" /\ call \in Profiled => events = GateEvents(rounds)
  /\ \A r \in Ranks : HoldsShare(r)

LEMMA WeighInit == Init => WeighInv
<1>. SUFFICES ASSUME Init PROVE WeighInv
  OBVIOUS
<1>1. call = "collect" /\ aborting = FALSE /\ profile = [r \in Ranks |-> NoProfile]
  BY DEF Init
<1>2. \A r \in Ranks : profile[r] = NoProfile /\ DOMAIN profile[r].gradients = {}
  BY <1>1 DEF NoProfile
<1>3. \A r \in Ranks : HoldsShare(r)
  BY <1>1, <1>2 DEF HoldsShare
<1>. QED
  BY <1>1, <1>2, <1>3 DEF WeighInv, TrainCalls, InRounds, Profiled, InProfile

(* The shares grow round by round, from nothing to all of them.             *)
LEMMA ShareSteps ==
  ASSUME groups \in Workloads
  PROVE  LET rs == SynchronizedRounds(Selected(groups))
         IN /\ Len(rs) = RoundCount(Given) /\ Len(rs) \in Nat \ {0}
            /\ \A r \in Ranks :
                 /\ Share(r, 0) = <<>> /\ Share(r, Len(rs)) = Given[r]
                 /\ \A k \in 1 .. Len(rs) : Share(r, k - 1) \o Real(rs[k][r]) = Share(r, k)
<1>1. PICK gs, rs, given, K : /\ gs = Selected(groups) /\ rs = SynchronizedRounds(gs)
                              /\ given = PackGroups(gs) /\ K = RoundCount(given)
  OBVIOUS
<1>2. PICK G, T : SelectedHas(gs, G, T)
  BY <1>1, SelectedGroups
<1>3. given \in [Ranks -> Seq(T)] /\ AllGiven(given) = T /\ OneGets(given) /\ T # {}
  BY <1>1, <1>2, PackedGroups DEF SelectedHas
<1>4. K \in Nat \ {0} /\ \A r \in Ranks : Sent(given[r], K) = Len(given[r])
  BY <1>1, <1>3, AllSent
<1>5. rs = [k \in 1 .. K |-> [r \in Ranks |-> Payload(given, k, r)]]
  BY <1>1 DEF SynchronizedRounds
<1>6. Len(rs) = K
  BY <1>4, <1>5
<1>7. Given = given
  BY <1>1 DEF Given
<1>8. ASSUME NEW r \in Ranks
      PROVE  Share(r, 0) = <<>> /\ Share(r, K) = given[r]
  <2>1. PICK q : q = given[r]
    OBVIOUS
  <2>2. q \in Seq(T)
    BY <1>3, <2>1
  <2>3. Sent(q, 0) = 0 /\ Sent(q, K) = Len(q)
    BY <1>4, <2>1, <2>2, SentGrows
  <2>4. Upto(q, 0) = <<>>
    BY DEF Upto
  <2>5. Upto(q, Len(q)) = q
    <3>1. q = [i \in 1 .. Len(q) |-> q[i]]
      BY <2>2
    <3>. QED
      BY <3>1 DEF Upto
  <2>. QED
    BY <1>7, <2>1, <2>3, <2>4, <2>5 DEF Share
<1>9. ASSUME NEW r \in Ranks, NEW k \in 1 .. K
      PROVE  Share(r, k - 1) \o Real(rs[k][r]) = Share(r, k)
  <2>1. rs[k][r] = Payload(given, k, r) /\ k \in Nat \ {0}
    BY <1>4, <1>5
  <2>2. Upto(given[r], Sent(given[r], k - 1)) \o Real(Payload(given, k, r))
          = Upto(given[r], Sent(given[r], k))
    BY <1>3, <2>1, RealAppends
  <2>. QED
    BY <1>7, <2>1, <2>2 DEF Share
<1>10. Len(rs) = RoundCount(Given)
  BY <1>1, <1>6, <1>7
<1>. QED
  BY <1>1, <1>4, <1>6, <1>7, <1>8, <1>9, <1>10

(* Over all ranks a trajectory is in the shares once.                       *)
LEMMA EntersOnce ==
  ASSUME groups \in Workloads, NEW t \in ToSet(Trajectories), NEW lists,
         \A r \in Ranks : lists[r] = Given[r]
  PROVE  Entries(t, lists) = 1
<1>1. PICK gs, given : gs = Selected(groups) /\ given = PackGroups(gs)
  OBVIOUS
<1>2. PICK G, T : SelectedHas(gs, G, T)
  BY <1>1, SelectedGroups
<1>3. given \in [Ranks -> Seq(T)] /\ AllGiven(given) = T /\ OneGets(given)
  BY <1>1, <1>2, PackedGroups
<1>4. t \in T
  BY <1>1, <1>2 DEF SelectedHas, Trajectories
<1>5. \A r \in Ranks : lists[r] = given[r]
  BY <1>1 DEF Given
<1>6. PICK r \in Ranks : t \in ToSet(given[r])
  BY <1>3, <1>4 DEF AllGiven
<1>7. PICK i \in DOMAIN given[r] : given[r][i] = t
  <2>1. given[r] \in Seq(T)
    BY <1>3
  <2>. QED
    BY <1>6, <2>1 DEF ToSet
<1>8. ASSUME NEW q \in Ranks, NEW j \in DOMAIN lists[q], lists[q][j] = t
      PROVE  q = r /\ j = i
  <2>1. j \in DOMAIN given[q] /\ given[q][j] = t /\ given[q] \in Seq(T)
    BY <1>3, <1>5, <1>8
  <2>2. t \in ToSet(given[q])
    BY <2>1 DEF ToSet
  <2>3. q = r
    BY <1>3, <1>6, <2>2 DEF OneGets
  <2>. QED
    BY <1>3, <1>7, <2>1, <2>3 DEF OneGets, OnceEach
<1>9. PICK at : at = [q \in Ranks |-> {<<q, j>> : j \in {n \in DOMAIN lists[q] : lists[q][n] = t}}]
  OBVIOUS
<1>10. UNION {at[q] : q \in Ranks} = {<<r, i>>}
  <2>1. i \in DOMAIN lists[r] /\ lists[r][i] = t
    BY <1>5, <1>7
  <2>2. <<r, i>> \in at[r]
    BY <1>9, <2>1
  <2>3. ASSUME NEW q \in Ranks, NEW x \in at[q] PROVE x = <<r, i>>
    <3>1. PICK j \in DOMAIN lists[q] : lists[q][j] = t /\ x = <<q, j>>
      BY <1>9
    <3>. QED
      BY <1>8, <3>1
  <2>. QED
    BY <2>2, <2>3
<1>11. Entries(t, lists) = Cardinality({<<r, i>>})
  <2>1. {at[q] : q \in Ranks} =
          {{<<q, j>> : j \in {n \in DOMAIN lists[q] : lists[q][n] = t}} : q \in Ranks}
    BY <1>9
  <2>. QED
    BY <1>10, <2>1 DEF Entries
<1>. QED
  BY <1>11, FS_Singleton

(* Only a rank's own calls change what it holds.                            *)
LEMMA WeighOwnStep ==
  ASSUME WeighInv, CalibrationInv, NEW r \in Ranks, RankStep(r) \/ Fault(r)
  PROVE  HoldsShare(r)' /\ (stage = "train" => profile'[r] = NoProfile)
<1>1. /\ UNCHANGED <<stage, call, aborting, groups, rounds, round>>
      /\ phase \in [Ranks -> Phases]
      /\ grads = [q \in Ranks |-> grads[q]] /\ profile = [q \in Ranks |-> profile[q]]
  BY DEF CalibrationInv, RankStep, Meet, Leave, Watchdog, Fault, Score, Materialize, ZeroGrad,
         LossIsFinite, BackwardEnds, BeginProfile, BeginChannel, FinishChannel, FinishProfile,
         AbortProfile, Profiling, driverVars
<1>2. /\ HoldsShare(r)
      /\ stage = "train" => call \in TrainCalls /\ ~ aborting /\ profile[r] = NoProfile
  BY DEF WeighInv
<1>3. Given' = Given
  BY <1>1 DEF Given
<1>4. DOMAIN NoProfile.gradients = {}
  BY DEF NoProfile
(* A step that leaves the gradient and the profile alone.                   *)
<1>5. ASSUME UNCHANGED <<grads[r], profile[r]>>,
             \/ phase'[r] \in {"raised", "dead"}
             \/ phase'[r] \in {"waiting", "local"} /\ phase[r] \in {"called", "waiting", "local"}
             \/ call \in {"score", "materialize"}
      PROVE  HoldsShare(r)' /\ (stage = "train" => profile'[r] = NoProfile)
  BY <1>1, <1>2, <1>3, <1>5 DEF HoldsShare, Share
<1>6. CASE Meet(r) \/ Leave(r) \/ Watchdog(r) \/ Fault(r) \/ LossIsFinite(r)
  <2>1. UNCHANGED <<grads, profile>>
    BY <1>6 DEF Meet, Leave, Watchdog, Fault, LossIsFinite, rankVars
  <2>2. \/ phase' = [phase EXCEPT ![r] = "raised"] \/ phase' = [phase EXCEPT ![r] = "dead"]
        \/ /\ phase[r] \in {"called", "waiting", "local"}
           /\ phase' = [phase EXCEPT ![r] = "waiting"] \/ phase' = [phase EXCEPT ![r] = "local"]
    BY <1>6 DEF Meet, Leave, Watchdog, Fault, LossIsFinite, Enter, RaiseOn
  <2>3. \/ phase'[r] \in {"raised", "dead"}
        \/ phase'[r] \in {"waiting", "local"} /\ phase[r] \in {"called", "waiting", "local"}
    BY <1>1, <2>2
  <2>. QED
    BY <1>5, <2>1, <2>3
<1>7. CASE Score(r) \/ Materialize(r)
  <2>1. UNCHANGED <<grads, profile>> /\ call \in {"score", "materialize"}
    BY <1>7 DEF Score, Materialize, rankVars
  <2>. QED
    BY <1>5, <2>1
<1>8. CASE ZeroGrad(r)
  <2>1. call = "zero_grad" /\ profile' = profile
    BY <1>8 DEF ZeroGrad
  <2>2. CASE Refuses(r)
    <3>1. phase' = [phase EXCEPT ![r] = "raised"] /\ grads' = grads
      BY <1>8, <2>2 DEF ZeroGrad, RaiseOn
    <3>2. phase'[r] = "raised"
      BY <1>1, <3>1
    <3>. QED
      BY <1>5, <2>1, <3>1, <3>2
  <2>3. CASE ~ Refuses(r)
    <3>1. grads' = [grads EXCEPT ![r] = <<>>]
      BY <1>8, <2>3 DEF ZeroGrad
    <3>2. grads'[r] = <<>>
      BY <1>1, <3>1
    <3>. QED
      BY <1>1, <1>2, <1>3, <2>1, <3>2 DEF HoldsShare
  <2>. QED
    BY <2>2, <2>3
<1>9. CASE BackwardEnds(r)
  <2>1. /\ call = "backward" /\ phase[r] = "local" /\ profile' = profile
        /\ phase' = [phase EXCEPT ![r] = "answered"]
        /\ grads' = [grads EXCEPT ![r] = @ \o Real(rounds[round][r])]
    BY <1>9 DEF BackwardEnds, Answer
  <2>2. phase'[r] = "answered" /\ grads'[r] = grads[r] \o Real(rounds[round][r])
    BY <1>1, <2>1
  <2>3. /\ groups \in Workloads /\ rounds = SynchronizedRounds(Selected(groups))
        /\ round \in 1 .. Len(rounds)
    BY <2>1 DEF WeighInv, InRounds, Profiled
  <2>4. grads[r] = Share(r, round - 1)
    BY <1>2, <2>1 DEF HoldsShare
  <2>5. grads'[r] = Share(r, round)
    BY <2>2, <2>3, <2>4, ShareSteps
  <2>. QED
    BY <1>1, <1>2, <1>3, <2>1, <2>2, <2>5 DEF HoldsShare, Share
<1>10. CASE \/ /\ BeginProfile(r) \/ BeginChannel(r) \/ FinishChannel(r)
               /\ Refuses(r)
  <2>1. phase' = [phase EXCEPT ![r] = "raised"] /\ UNCHANGED <<grads, profile>>
    BY <1>10 DEF BeginProfile, BeginChannel, FinishChannel, Profiling, RaiseOn
  <2>2. phase'[r] = "raised"
    BY <1>1, <2>1
  <2>. QED
    BY <1>5, <2>1, <2>2
<1>11. CASE BeginProfile(r) /\ ~ Refuses(r)
  <2>1. call = "begin_profile" /\ profile' = [profile EXCEPT ![r] = [NoProfile EXCEPT !.open = TRUE]]
    BY <1>11 DEF BeginProfile, Profiling
  <2>2. profile'[r] = [NoProfile EXCEPT !.open = TRUE]
    BY <1>1, <2>1
  <2>3. DOMAIN profile'[r].gradients = {}
    BY <1>4, <2>2 DEF NoProfile
  <2>. QED
    BY <1>1, <1>2, <2>1, <2>3 DEF HoldsShare, TrainCalls
<1>12. CASE BeginChannel(r) /\ ~ Refuses(r)
  <2>1. /\ call = "begin_channel" /\ grads' = [grads EXCEPT ![r] = <<>>]
        /\ profile' = [profile EXCEPT ![r] = [profile[r] EXCEPT !.channel = Channels[channel]]]
    BY <1>12 DEF BeginChannel, Profiling
  <2>2. grads'[r] = <<>> /\ profile'[r] = [profile[r] EXCEPT !.channel = Channels[channel]]
    BY <1>1, <2>1
  <2>3. profile'[r].gradients = profile[r].gradients
    BY <2>2
  <2>. QED
    BY <1>1, <1>2, <1>3, <2>1, <2>2, <2>3 DEF HoldsShare, TrainCalls
<1>13. CASE FinishChannel(r) /\ ~ Refuses(r)
  <2>1. PICK name, before : name = Channels[channel] /\ before = profile[r].gradients
    OBVIOUS
  <2>2. PICK after : after = [c \in DOMAIN before \cup {name} |->
                                IF c = name THEN grads[r] ELSE before[c]]
    OBVIOUS
  <2>3. /\ call = "finish_channel" /\ phase[r] = "called"
        /\ profile' = [profile EXCEPT ![r] =
                         [profile[r] EXCEPT !.gradients = after, !.channel = "none"]]
    BY <1>13, <2>1, <2>2 DEF FinishChannel, Profiling
  <2>4. phase' = [phase EXCEPT ![r] = "answered"]
    BY <1>13 DEF FinishChannel, Profiling, Answer
  <2>5. /\ phase'[r] = "answered"
        /\ profile'[r] = [profile[r] EXCEPT !.gradients = after, !.channel = "none"]
    BY <1>1, <2>3, <2>4
  <2>6. profile'[r].gradients = after
    BY <2>5
  <2>7. grads[r] = Given[r] /\ \A c \in DOMAIN before : before[c] = Given[r]
    BY <1>2, <2>1, <2>3 DEF HoldsShare
  <2>8. \A c \in DOMAIN after : after[c] = Given[r]
    BY <2>2, <2>7
  <2>. QED
    BY <1>1, <1>2, <1>3, <2>3, <2>5, <2>6, <2>8 DEF HoldsShare, TrainCalls
<1>14. CASE FinishProfile(r) \/ AbortProfile(r)
  <2>1. /\ grads' = [grads EXCEPT ![r] = <<>>] /\ profile' = [profile EXCEPT ![r] = NoProfile]
        /\ \/ call = "finish_profile"
           \/ aborting /\ phase' = [phase EXCEPT ![r] = "aborted"]
    BY <1>14 DEF FinishProfile, AbortProfile, CanAbort
  <2>2. /\ grads'[r] = <<>> /\ profile'[r] = NoProfile
        /\ \/ call = "finish_profile"
           \/ aborting /\ phase'[r] = "aborted"
    BY <1>1, <2>1
  <2>. QED
    BY <1>1, <1>2, <1>4, <2>2 DEF HoldsShare, TrainCalls
<1>. QED
  BY <1>6, <1>7, <1>8, <1>9, <1>10, <1>11, <1>12, <1>13, <1>14 DEF RankStep

LEMMA WeighRank ==
  ASSUME WeighInv, CalibrationInv, NEW r \in Ranks, RankStep(r) \/ Fault(r)
  PROVE  WeighInv'
<1>1. UNCHANGED <<stage, call, aborting, groups, rounds, round, events>>
  BY DEF RankStep, Meet, Leave, Watchdog, Fault, Score, Materialize, ZeroGrad,
         LossIsFinite, BackwardEnds, BeginProfile, BeginChannel, FinishChannel, FinishProfile,
         AbortProfile, Profiling, driverVars
<1>2. HoldsShare(r)' /\ (stage = "train" => profile'[r] = NoProfile)
  BY WeighOwnStep
<1>3. OwnStep(r)
  BY CalibrationOwnStep
<1>4. /\ phase \in [Ranks -> Phases]
      /\ grads = [q \in Ranks |-> grads[q]] /\ profile = [q \in Ranks |-> profile[q]]
  BY DEF CalibrationInv
<1>5. Given' = Given
  BY <1>1 DEF Given
<1>6. ASSUME NEW q \in Ranks, q # r
      PROVE  HoldsShare(q)' /\ (stage = "train" => profile'[q] = NoProfile)
  <2>1. UNCHANGED <<phase[q], grads[q], profile[q]>>
    BY <1>3, <1>4, <1>6 DEF OwnStep
  <2>2. HoldsShare(q) /\ (stage = "train" => profile[q] = NoProfile)
    BY DEF WeighInv
  <2>. QED
    BY <1>1, <1>5, <2>1, <2>2 DEF HoldsShare, Share
<1>7. \A q \in Ranks : HoldsShare(q)' /\ (stage = "train" => profile'[q] = NoProfile)
  BY <1>2, <1>6
<1>8. /\ stage = "train" => call \in TrainCalls /\ ~ aborting
      /\ call \in {"score", "pack"} \cup InRounds \/ (stage = "train" /\ call = "done") =>
           groups \in Workloads
      /\ call \in InRounds =>
           rounds = SynchronizedRounds(Selected(groups)) /\ round \in 1 .. Len(rounds)
      /\ stage = "calibrate" /\ call \in Profiled => events = GateEvents(rounds)
  BY DEF WeighInv
<1>9. (\A q \in Ranks : HoldsShare(q))'
  BY <1>7 DEF Ranks
<1>10. stage' = "train" => (\A q \in Ranks : profile[q] = NoProfile)'
  BY <1>1, <1>7 DEF Ranks
<1>. QED
  BY <1>1, <1>8, <1>9, <1>10 DEF WeighInv

(* The driver starts and ends the rounds.                                   *)
LEMMA WeighDriver ==
  ASSUME WeighInv, CalibrationInv, Drive \/ Skip
  PROVE  WeighInv'
<1>1. UNCHANGED <<stage, grads, profile>>
  BY DriverLeavesRanks
<1>2. stage = "train" \/ stage = "calibrate"
  BY RankConstants DEF CalibrationInv
<1>3. /\ stage = "train" =>
           /\ call \in TrainCalls /\ ~ aborting
           /\ \A r \in Ranks : profile[r] = NoProfile
      /\ \A r \in Ranks : HoldsShare(r)
  BY DEF WeighInv
<1>4. \A r \in Ranks : \A c \in DOMAIN profile[r].gradients : profile[r].gradients[c] = Given[r]
  BY <1>3 DEF HoldsShare
<1>5. (stage = "train" => \A r \in Ranks : profile[r] = NoProfile)'
  BY <1>1, <1>3 DEF Ranks
<1>6. groups' = groups => Given' = Given
  BY DEF Given
(* A call before the rounds, or after them.                                 *)
<1>7. ASSUME groups' = groups, aborting' = aborting,
             call' \notin {"score", "pack", "done"} \cup InRounds,
             stage = "train" => call' \in TrainCalls
      PROVE  WeighInv'
  <2>1. ASSUME NEW r \in Ranks PROVE HoldsShare(r)'
    BY <1>1, <1>4, <1>6, <1>7 DEF HoldsShare, InRounds, Profiled, InProfile
  <2>2. (\A r \in Ranks : HoldsShare(r))'
    BY <2>1 DEF Ranks
  <2>. QED
    BY <1>1, <1>3, <1>5, <1>7, <2>2 DEF WeighInv, InRounds, Profiled, InProfile
(* Another call on these rounds.                                            *)
<1>8. ASSUME UNCHANGED <<groups, rounds, aborting>>, call \in InRounds, call' \in InRounds,
             stage = "train" => call' \in TrainCalls,
             round' \in 1 .. Len(rounds),
             stage = "calibrate" /\ call' \in Profiled => events' = GateEvents(rounds),
             \A r \in Ranks : phase'[r] = "called",
             call' = "backward" => \A r \in Ranks : grads[r] = Share(r, round' - 1),
             call' = "finish_channel" => \A r \in Ranks : grads[r] = Given[r]
      PROVE  WeighInv'
  <2>1. groups \in Workloads /\ rounds = SynchronizedRounds(Selected(groups))
    BY <1>8 DEF WeighInv
  <2>2. ASSUME NEW r \in Ranks PROVE HoldsShare(r)'
    <3>1. phase'[r] = "called" /\ Given' = Given
      BY <1>6, <1>8
    <3>2. call' \notin {"done"}
      BY <1>8 DEF InRounds, Profiled, InProfile
    <3>. QED
      BY <1>1, <1>4, <1>8, <3>1, <3>2 DEF HoldsShare, Share
  <2>3. (\A r \in Ranks : HoldsShare(r))'
    BY <2>2 DEF Ranks
  <2>. QED
    BY <1>1, <1>3, <1>5, <1>8, <2>1, <2>3 DEF WeighInv
<1>9. CASE TakeBatch
  <2>1. call = "collect" /\ aborting' = aborting
    BY <1>9 DEF TakeBatch
  <2>2. groups' \in Workloads /\ call' \in {"score", "raised"}
    BY <1>9 DEF TakeBatch, Send
  <2>3. ASSUME NEW r \in Ranks PROVE DOMAIN profile[r].gradients = {}
    <3>1. profile[r] = NoProfile
      BY <1>2, <1>3, <2>1 DEF CalibrationInv, LeavesNothing, Quiet, Clean
    <3>. QED
      BY <3>1 DEF NoProfile
  <2>4. ASSUME NEW r \in Ranks PROVE HoldsShare(r)'
    BY <1>1, <2>2, <2>3 DEF HoldsShare
  <2>5. (\A r \in Ranks : HoldsShare(r))'
    BY <2>4 DEF Ranks
  <2>. QED
    BY <1>1, <1>3, <1>5, <2>1, <2>2, <2>5 DEF WeighInv, TrainCalls, InRounds, Profiled, InProfile
<1>10. CASE ScoresArrive
  <2>1. call = "score" /\ UNCHANGED <<groups, aborting>> /\ call' \in {"pack", "raised"}
    BY <1>10 DEF ScoresArrive, AllAnswered
  <2>2. groups \in Workloads
    BY <2>1 DEF WeighInv
  <2>3. ASSUME NEW r \in Ranks PROVE HoldsShare(r)'
    BY <1>1, <1>4, <1>6, <2>1 DEF HoldsShare
  <2>4. (\A r \in Ranks : HoldsShare(r))'
    BY <2>3 DEF Ranks
  <2>. QED
    BY <1>1, <1>3, <1>5, <2>1, <2>2, <2>4 DEF WeighInv, TrainCalls, InRounds, Profiled, InProfile
<1>11. CASE PackRounds
  <2>1. /\ call = "pack" /\ UNCHANGED <<groups, aborting>> /\ call' = "materialize"
        /\ rounds' = SynchronizedRounds(Selected(groups)) /\ round' = 1
    BY <1>11 DEF PackRounds, Send
  <2>2. groups \in Workloads
    BY <2>1 DEF WeighInv
  <2>3. round' \in 1 .. Len(rounds')
    BY <2>1, <2>2, ShareSteps
  <2>4. ASSUME NEW r \in Ranks PROVE HoldsShare(r)'
    BY <1>1, <1>4, <1>6, <2>1 DEF HoldsShare
  <2>5. (\A r \in Ranks : HoldsShare(r))'
    BY <2>4 DEF Ranks
  <2>6. rounds' = SynchronizedRounds(Selected(groups'))
    BY <2>1
  <2>. QED
    BY <1>1, <1>3, <1>5, <2>1, <2>2, <2>3, <2>5, <2>6
       DEF WeighInv, TrainCalls, InRounds, Profiled, InProfile
<1>12. CASE NextRound
  <2>1. /\ call \in {"materialize", "backward"} /\ \A r \in Ranks : phase[r] = "answered"
        /\ round < Len(rounds) /\ round' = round + 1 /\ call' = call
        /\ phase' = [r \in Ranks |-> "called"]
        /\ UNCHANGED <<groups, rounds, aborting, events>>
    BY <1>12 DEF NextRound, AllAnswered, Send, RestUnchanged
  <2>2. call \in InRounds /\ (call \in Profiled => call = "backward")
    BY <2>1 DEF InRounds, Profiled, InProfile
  <2>3. /\ groups \in Workloads /\ rounds = SynchronizedRounds(Selected(groups))
        /\ round \in 1 .. Len(rounds)
        /\ stage = "calibrate" /\ call = "backward" => events = GateEvents(rounds)
    BY <2>2 DEF WeighInv, Profiled
  <2>4. Len(rounds) \in Nat
    BY <2>3, ShareSteps
  <2>5. round' \in 1 .. Len(rounds) /\ round' - 1 = round
    BY <2>1, <2>3, <2>4
  <2>6. call' = "backward" => \A r \in Ranks : grads[r] = Share(r, round' - 1)
    BY <1>3, <2>1, <2>5 DEF HoldsShare
  <2>7. stage = "calibrate" /\ call' \in Profiled => events' = GateEvents(rounds)
    BY <2>1, <2>2, <2>3
  <2>8. call' # "finish_channel" /\ (stage = "train" => call' \in TrainCalls)
    BY <1>3, <2>1
  <2>. QED
    BY <1>8, <2>1, <2>2, <2>5, <2>6, <2>7, <2>8
<1>13. CASE AfterMaterialize
  <2>1. /\ call = "materialize" /\ round' = 1
        /\ IF stage = "train" THEN call' = "zero_grad"
           ELSE call' = "begin_profile" /\ events' = GateEvents(rounds)
        /\ phase' = [r \in Ranks |-> "called"]
        /\ UNCHANGED <<groups, rounds, aborting>>
    BY <1>13 DEF AfterMaterialize, AllAnswered, Send, RestUnchanged
  <2>2. call \in InRounds /\ call' \in InRounds /\ call' \notin {"backward", "finish_channel"}
    BY <2>1 DEF InRounds, Profiled, InProfile
  <2>3. groups \in Workloads /\ rounds = SynchronizedRounds(Selected(groups))
    BY <2>2 DEF WeighInv
  <2>4. round' \in 1 .. Len(rounds)
    BY <2>1, <2>3, ShareSteps
  <2>5. /\ stage = "calibrate" /\ call' \in Profiled => events' = GateEvents(rounds)
        /\ stage = "train" => call' \in TrainCalls
    BY <1>2, <2>1 DEF TrainCalls
  <2>. QED
    BY <1>8, <2>1, <2>2, <2>4, <2>5
<1>14. CASE AfterZeroGrad
  <2>1. /\ call \in {"zero_grad", "begin_channel"} /\ \A r \in Ranks : phase[r] = "answered"
        /\ round' = 1 /\ call' = "backward" /\ phase' = [r \in Ranks |-> "called"]
        /\ UNCHANGED <<groups, rounds, aborting, events>>
    BY <1>14 DEF AfterZeroGrad, AllAnswered, Send, RestUnchanged
  <2>2. call \in InRounds /\ call' \in InRounds /\ (call = "begin_channel" => call \in Profiled)
    BY <2>1 DEF InRounds, Profiled, InProfile
  <2>3. /\ groups \in Workloads /\ rounds = SynchronizedRounds(Selected(groups))
        /\ stage = "calibrate" /\ call = "begin_channel" => events = GateEvents(rounds)
    BY <2>2 DEF WeighInv
  <2>4. stage = "calibrate" => call = "begin_channel"
    BY <2>1 DEF CalibrationInv
  <2>5. /\ round' \in 1 .. Len(rounds) /\ round' - 1 = 0
        /\ \A r \in Ranks : Share(r, 0) = <<>>
    BY <2>1, <2>3, ShareSteps
  <2>6. \A r \in Ranks : grads[r] = <<>>
    BY <1>3, <2>1 DEF HoldsShare
  <2>7. \A r \in Ranks : grads[r] = Share(r, round' - 1)
    BY <2>5, <2>6
  <2>8. call' # "finish_channel" /\ (stage = "train" => call' \in TrainCalls)
    BY <2>1 DEF TrainCalls
  <2>. QED
    BY <1>8, <2>1, <2>2, <2>3, <2>4, <2>5, <2>7, <2>8
<1>15. CASE AfterBeginProfile
  <2>1. /\ call = "begin_profile" /\ call' = "begin_channel"
        /\ phase' = [r \in Ranks |-> "called"]
        /\ UNCHANGED <<groups, rounds, round, aborting, events>>
    BY <1>15 DEF AfterBeginProfile, AllAnswered, Send, RestUnchanged
  <2>2. call \in InRounds /\ call' \in InRounds /\ call \in Profiled
    BY <2>1 DEF InRounds, Profiled, InProfile
  <2>3. /\ round \in 1 .. Len(rounds)
        /\ stage = "calibrate" => events = GateEvents(rounds)
    BY <2>2 DEF WeighInv
  <2>4. stage # "train"
    BY <1>3, <2>1 DEF TrainCalls
  <2>. QED
    BY <1>8, <2>1, <2>2, <2>3, <2>4
<1>16. CASE AfterBackward
  <2>1. /\ call = "backward" /\ \A r \in Ranks : phase[r] = "answered"
        /\ round = Len(rounds)
        /\ UNCHANGED <<groups, rounds, round, aborting, events>>
        /\ IF stage = "train" THEN call' = "done"
           ELSE call' = "finish_channel" /\ phase' = [r \in Ranks |-> "called"]
    BY <1>16 DEF AfterBackward, AllAnswered, Send, RestUnchanged
  <2>2. call \in InRounds /\ call \in Profiled
    BY <2>1 DEF InRounds, Profiled
  <2>3. /\ groups \in Workloads /\ rounds = SynchronizedRounds(Selected(groups))
        /\ round \in 1 .. Len(rounds)
        /\ stage = "calibrate" => events = GateEvents(rounds)
    BY <2>2 DEF WeighInv
  <2>4. \A r \in Ranks : grads[r] = Share(r, Len(rounds))
    BY <1>3, <2>1 DEF HoldsShare
  <2>5. \A r \in Ranks : grads[r] = Given[r]
    BY <2>3, <2>4, ShareSteps
  <2>6. CASE stage = "train"
    <3>1. call' = "done"
      BY <2>1, <2>6
    <3>2. ASSUME NEW r \in Ranks PROVE HoldsShare(r)'
      BY <1>1, <1>4, <1>6, <2>1, <2>5, <3>1 DEF HoldsShare
    <3>3. (\A r \in Ranks : HoldsShare(r))'
      BY <3>2 DEF Ranks
    <3>. QED
      BY <1>1, <1>3, <1>5, <2>1, <2>3, <2>6, <3>1, <3>3
         DEF WeighInv, TrainCalls, InRounds, Profiled, InProfile
  <2>7. CASE stage # "train"
    <3>1. call' = "finish_channel" /\ call' \in InRounds
      BY <2>1, <2>7 DEF InRounds, Profiled, InProfile
    <3>. QED
      BY <1>8, <2>1, <2>2, <2>3, <2>5, <2>7, <3>1
  <2>. QED
    BY <2>6, <2>7
<1>17. CASE AfterFinishChannel
  <2>1. /\ call = "finish_channel" /\ call' \in {"begin_channel", "finish_profile"}
        /\ phase' = [r \in Ranks |-> "called"]
        /\ UNCHANGED <<groups, rounds, round, aborting, events>>
    BY <1>17 DEF AfterFinishChannel, AllAnswered, Send, RestUnchanged
  <2>2. call \in InRounds /\ call' \in InRounds /\ call \in Profiled
    BY <2>1 DEF InRounds, Profiled, InProfile
  <2>3. /\ round \in 1 .. Len(rounds)
        /\ stage = "calibrate" => events = GateEvents(rounds)
    BY <2>2 DEF WeighInv
  <2>4. stage # "train"
    BY <1>3, <2>1 DEF TrainCalls
  <2>. QED
    BY <1>8, <2>1, <2>2, <2>3, <2>4
<1>18. CASE AfterFinishProfile \/ Calibrate
  <2>1. /\ UNCHANGED <<groups, aborting>>
        /\ call' \in {"raised", "calibrate", "collect", "publish"}
        /\ call \in {"finish_profile", "calibrate"} \/ stage = "calibrate"
    BY <1>18 DEF AfterFinishProfile, Calibrate, AllAnswered, RestUnchanged
  <2>2. stage # "train"
    BY <1>3, <2>1 DEF TrainCalls
  <2>. QED
    BY <1>7, <2>1, <2>2 DEF InRounds, Profiled, InProfile
<1>19. CASE WriteManifest
  <2>1. UNCHANGED <<groups, aborting>> /\ call' \in {"raised", "done"} /\ call = "publish"
    BY <1>19 DEF WriteManifest
  <2>2. stage # "train"
    BY <1>3, <2>1 DEF TrainCalls
  <2>3. ASSUME NEW r \in Ranks PROVE HoldsShare(r)'
    BY <1>1, <1>4, <1>6, <2>1, <2>2 DEF HoldsShare
  <2>4. (\A r \in Ranks : HoldsShare(r))'
    BY <2>3 DEF Ranks
  <2>. QED
    BY <1>1, <2>1, <2>2, <2>4 DEF WeighInv, InRounds, Profiled, InProfile
<1>20. CASE CallRaises \/ AbortEnds
  <2>1. CASE call' = "raised" /\ aborting' = aborting /\ groups' = groups
    BY <1>7, <2>1 DEF InRounds, Profiled, InProfile, TrainCalls
  <2>2. CASE call' = call /\ stage = "calibrate"
             /\ UNCHANGED <<groups, rounds, round, events, phase>>
    <3>1. ASSUME NEW r \in Ranks PROVE HoldsShare(r)'
      BY <1>1, <1>3, <1>6, <2>2 DEF HoldsShare, Share
    <3>2. (\A r \in Ranks : HoldsShare(r))'
      BY <3>1 DEF Ranks
    <3>. QED
      BY <1>1, <2>2, <3>2 DEF WeighInv
  <2>. QED
    BY <1>20, <2>1, <2>2 DEF CallRaises, AbortEnds
<1>21. CASE Skip
  <2>1. UNCHANGED <<call, aborting, groups, rounds, round, events, phase>>
    BY <1>21 DEF Skip, SkipBatch
  <2>2. ASSUME NEW r \in Ranks PROVE HoldsShare(r)'
    BY <1>1, <1>3, <1>6, <2>1 DEF HoldsShare, Share
  <2>3. (\A r \in Ranks : HoldsShare(r))'
    BY <2>2 DEF Ranks
  <2>. QED
    BY <1>1, <1>3, <1>5, <2>1, <2>3 DEF WeighInv
<1>. QED
  BY <1>9, <1>10, <1>11, <1>12, <1>13, <1>14, <1>15, <1>16, <1>17, <1>18, <1>19, <1>20, <1>21
     DEF Drive

LEMMA WeighKept ==
  ASSUME WeighInv, CalibrationInv, [Next]_vars
  PROVE  WeighInv'
<1>1. CASE Drive \/ Skip
  BY <1>1, WeighDriver
<1>2. ASSUME NEW r \in Ranks, RankStep(r) \/ Fault(r)
      PROVE  WeighInv'
  BY <1>2, WeighRank
<1>3. CASE Rest \/ UNCHANGED vars
  <2>1. /\ UNCHANGED <<stage, call, aborting, groups, rounds, round, events>>
        /\ UNCHANGED <<phase, grads, profile>>
    BY <1>3 DEF Rest, vars, driverVars, rankVars
  <2>2. Given' = Given
    BY <2>1 DEF Given
  <2>3. ASSUME NEW r \in Ranks PROVE HoldsShare(r)'
    BY <2>1, <2>2 DEF WeighInv, HoldsShare, Share
  <2>4. (\A r \in Ranks : HoldsShare(r))'
    BY <2>3 DEF Ranks
  <2>. QED
    BY <2>1, <2>4 DEF WeighInv, Ranks
<1>. QED
  BY <1>1, <1>2, <1>3 DEF Next

LEMMA SharesWeighOnce ==
  ASSUME WeighInv, CalibrationInv
  PROVE  EachTrajectoryWeighsOnce
<1>1. ASSUME stage = "train", call = "done", NEW t \in ToSet(Trajectories)
      PROVE  Entries(t, grads) = 1
  <2>1. groups \in Workloads /\ \A r \in Ranks : grads[r] = Given[r]
    BY <1>1 DEF WeighInv, HoldsShare
  <2>. QED
    BY <2>1, EntersOnce
<1>2. ASSUME call \in InProfile
      PROVE  groups \in Workloads /\ events = GateEvents(SynchronizedRounds(Selected(groups)))
  <2>1. call \in InRounds /\ call \in Profiled
    BY <1>2 DEF InRounds, Profiled
  <2>2. stage = "calibrate"
    BY <1>2, RankConstants DEF WeighInv, CalibrationInv, TrainCalls, InProfile
  <2>. QED
    BY <2>1, <2>2 DEF WeighInv
<1>3. ASSUME call \in {"begin_channel", "finish_profile"}, NEW c,
             \A r \in Ranks : c \in DOMAIN profile[r].gradients, NEW t \in ToSet(Trajectories)
      PROVE  Entries(t, [r \in Ranks |-> profile[r].gradients[c]]) = 1
  <2>1. groups \in Workloads
    BY <1>2, <1>3 DEF InProfile
  <2>2. PICK lists : lists = [r \in Ranks |-> profile[r].gradients[c]]
    OBVIOUS
  <2>3. \A r \in Ranks : lists[r] = Given[r]
    BY <1>3, <2>2 DEF WeighInv, HoldsShare
  <2>4. Entries(t, lists) = 1
    BY <2>1, <2>3, EntersOnce
  <2>. QED
    BY <2>2, <2>4
<1>4. ASSUME call \in InProfile
      PROVE  events = [decision |-> Decisions(Trajectories), query |-> Queries(Trajectories)]
  <2>1. PICK gs : gs = Selected(groups)
    OBVIOUS
  <2>2. PICK G, T : SelectedHas(gs, G, T)
    BY <1>2, <1>4, <2>1, SelectedGroups
  <2>3. GateEvents(SynchronizedRounds(gs))
          = [decision |-> Decisions(TasksOf(gs)), query |-> Queries(TasksOf(gs))]
    BY <2>2, EventsCounted
  <2>. QED
    BY <1>2, <1>4, <2>1, <2>3 DEF Trajectories
<1>. QED
  BY <1>1, <1>3, <1>4 DEF EachTrajectoryWeighsOnce

(* Every selected trajectory is in the gradient once over all ranks, in an  *)
(* update and in each channel of a profile, however the groups were packed  *)
(* and the rounds filled, and so is each gate event that is counted.        *)
THEOREM EachWeighsOnce == Spec => []EachTrajectoryWeighsOnce
<1>1. Init => WeighInv /\ CalibrationInv
  BY WeighInit, CalibrationInit
<1>2. WeighInv /\ CalibrationInv /\ [Next]_vars
        => (WeighInv /\ CalibrationInv)'
  BY WeighKept, CalibrationKept
<1>3. WeighInv /\ CalibrationInv => EachTrajectoryWeighsOnce
  BY SharesWeighOnce
<1>. QED
  BY <1>1, <1>2, <1>3, PTL DEF Spec
==============================================================================
