------------------------------ MODULE LedgerProofs ------------------------------
(***************************************************************************)
(* The two ends of an update, each by itself: the transaction object,      *)
(* which keeps its promises for every caller, whatever the order of the    *)
(* calls, the pool sizes, the selection bounds, the cursors and the        *)
(* parameter checksums; and the ledger of the attempts a model has learnt  *)
(* from, for ledgers of every length and any number of processes.          *)
(***************************************************************************)
EXTENDS StrictTransaction, TrainingLedger, TLAPS

-----------------------------------------------------------------------------
(* The transaction                                                          *)

(* What each phase says about the counters.  It is inductive; the promises  *)
(* of StrictTransaction follow from it.                                     *)
Selected ==
  /\ rec.candidates \in AllowedCounts
  /\ rec.selected \in MinSelected .. MaxSelected

Learnt ==
  /\ Selected
  /\ rec.zeroGrads >= 1
  /\ rec.microbatches >= 1
  /\ \E c \in Checksums : rec.checksums = {c}

PhaseInv ==
  /\ rec.phase \in PreStepPhases \union {"skipped", "aborted"} =>
       /\ rec.optimizerSteps = 0
       /\ rec.schedulerSteps = 0
       /\ returned.step = state.step
  /\ rec.phase \in {"rollout_complete", "scored"} =>
       rec.candidates \in AllowedCounts
  /\ rec.phase = "selected" => Selected
  /\ rec.phase \in PreStepPhases \ {"selected", "backward_complete"} =>
       rec.zeroGrads = 0 /\ rec.microbatches = 0
  /\ rec.phase \in PreStepPhases /\ rec.microbatches >= 1 =>
       rec.zeroGrads >= 1
  /\ rec.phase \in {"backward_complete", "committed"} \union PostStepPhases =>
       Learnt
  /\ rec.phase = "optimizer_step_in_progress" =>
       rec.optimizerSteps = 0 /\ rec.schedulerSteps = 0
  /\ rec.phase \in {"optimizer_stepped", "scheduler_step_in_progress"} =>
       rec.optimizerSteps = 1 /\ rec.schedulerSteps = 0
  /\ rec.phase \in {"scheduler_stepped", "commit_in_progress", "committed"} =>
       rec.optimizerSteps = 1 /\ rec.schedulerSteps = 1
  /\ rec.phase \in PostStepPhases \ {"commit_in_progress"} =>
       returned.step = state.step
  /\ rec.phase \in {"commit_in_progress", "committed"} =>
       returned.step = state.step + 1 /\ returned.attempt = rec.attempt
  /\ rec.phase = "untrusted" =>
       \/ returned.step = state.step
       \/ /\ returned.step = state.step + 1
          /\ returned.attempt = rec.attempt
          /\ rec.optimizerSteps = 1
          /\ rec.schedulerSteps = 1

TxInv == TxTypeOK /\ PhaseInv

(* The record of a new attempt is well typed.                               *)
LEMMA NewRecordType ==
  ASSUME NEW st \in TrainingState
  PROVE  NewRecord(st) \in AttemptRecord
BY DEF TrainingState, NewRecord, AttemptRecord, AttemptPhase, PreStepPhases

LEMMA TxInitInv == TxInit => TxInv
<1> SUFFICES ASSUME TxInit PROVE TxInv
  OBVIOUS
<1>1. TxTypeOK
  BY NewRecordType DEF TxInit, TxTypeOK
<1>2. PhaseInv
  BY DEF TxInit, PhaseInv, NewRecord, PreStepPhases, PostStepPhases,
         TrainingState
<1> QED
  BY <1>1, <1>2 DEF TxInv

(* Every method preserves the types and the phase invariant.                *)
LEMMA TxStepInv == TxInv /\ [TxNext]_txVars => TxInv'
<1> SUFFICES ASSUME TxInv, [TxNext]_txVars PROVE TxInv'
  OBVIOUS
<1> USE TransactionConstants
    DEF TxInv, TxTypeOK, PhaseInv, AttemptRecord, TrainingState, AttemptPhase,
        PreStepPhases, PostStepPhases, FinalPhases, Selected, Learnt
<1>1. ASSUME NEW v \in SnapshotVersions, FreezeSnapshot(v) PROVE TxInv'
  BY <1>1 DEF FreezeSnapshot
<1>2. ASSUME NEW count \in Nat, NEW refills \in Nat,
             CompleteRollout(count, refills)
      PROVE  TxInv'
  BY <1>2 DEF CompleteRollout
<1>3. CASE CompleteScoring
  BY <1>3 DEF CompleteScoring
<1>4. ASSUME NEW count \in Nat, Select(count) PROVE TxInv'
  BY <1>4 DEF Select
<1>5. ASSUME NEW cursor \in Nat, Skip(cursor) PROVE TxInv'
  BY <1>5 DEF Skip, AttemptConsumed
<1>6. CASE RecordZeroGrad
  BY <1>6 DEF RecordZeroGrad
<1>7. ASSUME NEW c \in Checksums, RecordBackward(c) PROVE TxInv'
  <2>1. rec' = [rec EXCEPT !.checksums = {c},
                           !.microbatches = rec.microbatches + 1]
    BY <1>7 DEF RecordBackward
  <2>2. rec' \in AttemptRecord
    <3>1. {c} \in SUBSET Checksums
      OBVIOUS
    <3>2. rec.microbatches + 1 \in Nat
      OBVIOUS
    <3> QED
      BY <2>1, <3>1, <3>2
  <2>3. PhaseInv'
    BY <1>7, <2>1 DEF RecordBackward
  <2> QED
    BY <1>7, <2>2, <2>3 DEF RecordBackward
<1>8. ASSUME NEW c \in Checksums, CompleteBackward(c) PROVE TxInv'
  BY <1>8 DEF CompleteBackward
<1>9. CASE BeginOptimizerStep
  BY <1>9 DEF BeginOptimizerStep
<1>10. CASE RecordOptimizerStep
  <2> HIDE DEF AttemptRecord, AttemptPhase, PhaseInv
  <2>1. /\ rec.phase \in PostStepPhases
        /\ rec.optimizerSteps \in Nat
        /\ rec.optimizerSteps = 0
    BY <1>10 DEF RecordOptimizerStep, AttemptRecord, PhaseInv
  <2>2. "optimizer_stepped" \in AttemptPhase /\ rec.optimizerSteps + 1 \in Nat
    BY <2>1 DEF AttemptPhase
  <2>3. TxTypeOK'
    BY <1>10, <2>2 DEF RecordOptimizerStep, AttemptRecord
  <2>4. /\ rec'.phase = "optimizer_stepped"
        /\ rec'.optimizerSteps = rec.optimizerSteps + 1
    BY <1>10 DEF RecordOptimizerStep, AttemptRecord
  <2>5. PhaseInv'
    BY <1>10, <2>1, <2>4 DEF RecordOptimizerStep, AttemptRecord, PhaseInv
  <2> QED
    BY <2>3, <2>5
<1>11. CASE BeginSchedulerStep
  BY <1>11 DEF BeginSchedulerStep
<1>12. CASE RecordSchedulerStep
  <2> HIDE DEF AttemptRecord, AttemptPhase, PhaseInv
  <2>1. /\ rec.phase \in PostStepPhases
        /\ rec.schedulerSteps \in Nat
        /\ rec.schedulerSteps = 0
    BY <1>12 DEF RecordSchedulerStep, AttemptRecord, PhaseInv
  <2>2. "scheduler_stepped" \in AttemptPhase /\ rec.schedulerSteps + 1 \in Nat
    BY <2>1 DEF AttemptPhase
  <2>3. TxTypeOK'
    BY <1>12, <2>2 DEF RecordSchedulerStep, AttemptRecord
  <2>4. /\ rec'.phase = "scheduler_stepped"
        /\ rec'.schedulerSteps = rec.schedulerSteps + 1
    BY <1>12 DEF RecordSchedulerStep, AttemptRecord
  <2>5. PhaseInv'
    BY <1>12, <2>1, <2>4 DEF RecordSchedulerStep, AttemptRecord, PhaseInv
  <2> QED
    BY <2>3, <2>5
<1>13. ASSUME NEW cursor \in Nat, ProposeCommit(cursor) PROVE TxInv'
  BY <1>13 DEF ProposeCommit
<1>14. CASE RecordCommitSuccess
  BY <1>14 DEF RecordCommitSuccess
<1>15. ASSUME NEW cursor \in Nat, Abort(cursor) PROVE TxInv'
  BY <1>15 DEF Abort, AttemptConsumed
<1>16. CASE UNCHANGED txVars
  BY <1>16 DEF txVars
<1> QED
  BY <1>1, <1>2, <1>3, <1>4, <1>5, <1>6, <1>7, <1>8, <1>9, <1>10, <1>11,
     <1>12, <1>13, <1>14, <1>15, <1>16 DEF TxNext

LEMMA TxInvariant == TxSpec => []TxInv
BY TxInitInv, TxStepInv, PTL DEF TxSpec

(* Type correctness of the transaction object under any caller.             *)
THEOREM TxTypeCorrect == TxSpec => []TxTypeOK
BY TxInvariant, PTL DEF TxInv

(* A committed attempt has stepped the optimizer and the scheduler exactly  *)
(* once, in whatever order the methods were called.                         *)
THEOREM TxExactlyOneStep == TxSpec => []CommittedMeansOneStep
<1>1. TxInv => CommittedMeansOneStep
  BY DEF TxInv, PhaseInv, Learnt, Selected, CommittedMeansOneStep,
         PostStepPhases
<1> QED
  BY <1>1, TxInvariant, PTL

(* Rollback eligibility, a skip and an abort all exclude an optimizer step. *)
THEOREM TxRollbackSound == TxSpec => []RollbackOnlyBeforeStep
<1>1. TxInv => RollbackOnlyBeforeStep
  BY DEF TxInv, PhaseInv, RollbackOnlyBeforeStep
<1> QED
  BY <1>1, TxInvariant, PTL

(* No caller obtains an advanced step without both steps having been taken. *)
THEOREM TxAdvanceEarned == TxSpec => []AdvancedStateIsEarned
<1>1. TxInv => AdvancedStateIsEarned
  BY DEF TxInv, TxTypeOK, PhaseInv, AdvancedStateIsEarned, PreStepPhases,
         PostStepPhases, FinalPhases, AttemptRecord, AttemptPhase, TrainingState
<1> QED
  BY <1>1, TxInvariant, PTL

(* After the step begins only commit or the untrusted verdict remain, and   *)
(* final verdicts are never taken back.                                     *)
THEOREM TxNoReturn == TxSpec => NoReturnAfterStep
<1> DEFINE Step == 
     /\ rec.phase \in PostStepPhases =>
          rec'.phase \in PostStepPhases \union {"committed", "untrusted"}
     /\ rec.phase \in {"committed", "untrusted", "skipped"} => rec' = rec
<1>1. TxInv /\ [TxNext]_txVars => [Step]_txVars
  <2> SUFFICES ASSUME TxInv, TxNext PROVE Step
    OBVIOUS
  <2> QED
    BY DEF TxInv, TxTypeOK, AttemptRecord, TxNext, FreezeSnapshot,
           CompleteRollout, CompleteScoring, Select, Skip, RecordZeroGrad,
           RecordBackward, CompleteBackward, BeginOptimizerStep,
           RecordOptimizerStep, BeginSchedulerStep, RecordSchedulerStep,
           ProposeCommit, RecordCommitSuccess, Abort, PreStepPhases,
           PostStepPhases
<1> QED
  BY <1>1, TxInvariant, PTL DEF TxSpec, NoReturnAfterStep

-----------------------------------------------------------------------------
(* The ledger                                                               *)

(* The ledger's types; a pair is durable only with an attempt of its own.   *)
LedgerTypes ==
  /\ attempt \in Nat
  /\ model \in Seq(Nat)
  /\ \A s \in durable : s.attempt \in Nat /\ s.model \in Seq(Nat)

LedgerInv == LedgerTypes /\ EachAttemptOnce
-----------------------------------------------------------------------------
LEMMA IncreasingEmpty == Increasing(<<>>, 0)
BY DEF Increasing

LEMMA IncreasingSlack ==
  ASSUME NEW s \in Seq(Nat), NEW b \in Nat, Increasing(s, b)
  PROVE  Increasing(s, b + 1)
BY DEF Increasing

(* Learning from a fresh attempt keeps a model increasing.                  *)
LEMMA IncreasingAppend ==
  ASSUME NEW s \in Seq(Nat), NEW b \in Nat, Increasing(s, b)
  PROVE  /\ Append(s, b + 1) \in Seq(Nat)
         /\ Increasing(Append(s, b + 1), b + 1)
<1> DEFINE t == Append(s, b + 1)
<1>1. /\ t \in Seq(Nat)
      /\ Len(t) = Len(s) + 1
      /\ Len(s) \in Nat
      /\ \A i \in 1 .. Len(s) : t[i] = s[i]
      /\ t[Len(s) + 1] = b + 1
  OBVIOUS
<1>2. \A i \in 1 .. Len(t) : t[i] \in 1 .. b + 1
  <2> TAKE i \in 1 .. Len(t)
  <2>1. CASE i \in 1 .. Len(s)
    <3>1. t[i] = s[i] /\ s[i] \in 1 .. b
      BY <1>1, <2>1 DEF Increasing
    <3> QED
      BY <3>1
  <2>2. CASE i = Len(s) + 1
    BY <1>1, <2>2
  <2> QED
    BY <1>1, <2>1, <2>2
<1>3. \A i, j \in 1 .. Len(t) : i < j => t[i] < t[j]
  <2> TAKE i, j \in 1 .. Len(t)
  <2> HAVE i < j
  <2>1. i \in 1 .. Len(s) /\ t[i] = s[i] /\ s[i] \in 1 .. b
    BY <1>1 DEF Increasing
  <2>2. CASE j \in 1 .. Len(s)
    <3>1. t[j] = s[j] /\ s[i] < s[j]
      BY <1>1, <2>1, <2>2 DEF Increasing
    <3> QED
      BY <2>1, <3>1
  <2>3. CASE j = Len(s) + 1
    BY <1>1, <2>1, <2>3
  <2> QED
    BY <1>1, <2>2, <2>3
<1> QED
  BY <1>1, <1>2, <1>3 DEF Increasing
-----------------------------------------------------------------------------
LEMMA LedgerInitInv == LedgerInit => LedgerInv
BY IncreasingEmpty DEF LedgerInit, LedgerInv, LedgerTypes, EachAttemptOnce

LEMMA LedgerStepInv == LedgerInv /\ [LedgerNext]_ledgerVars => LedgerInv'
<1> SUFFICES ASSUME LedgerInv, [LedgerNext]_ledgerVars
             PROVE  LedgerInv'
  OBVIOUS
<1> USE DEF LedgerInv, LedgerTypes, EachAttemptOnce
<1>1. CASE Start
  <2>1. CASE attempt' = 0 /\ model' = <<>> /\ UNCHANGED durable
    BY <2>1, IncreasingEmpty
  <2>2. CASE \E s \in durable : attempt' = s.attempt /\ model' = s.model
    BY <1>1, <2>2 DEF Start
  <2> QED
    BY <1>1, <2>1, <2>2 DEF Start
<1>2. CASE CommitOne
  BY <1>2, IncreasingAppend DEF CommitOne
<1>3. CASE SkipOne
  BY <1>3, IncreasingSlack DEF SkipOne
<1>4. CASE SavePending
  <2> DEFINE pending == [attempt |-> attempt + 1,
                         model |-> Append(model, attempt + 1)]
  <2>1. /\ pending.attempt \in Nat
        /\ pending.model \in Seq(Nat)
        /\ Increasing(pending.model, pending.attempt)
    BY IncreasingAppend
  <2>2. durable' = durable \union {pending} /\ UNCHANGED <<attempt, model>>
    BY <1>4 DEF SavePending
  <2> HIDE DEF pending
  <2> QED
    BY <2>1, <2>2
<1>5. CASE Stop
  <2>1. CASE attempt' = 0 /\ model' = <<>> /\ UNCHANGED durable
    BY <2>1, IncreasingEmpty
  <2>2. CASE UNCHANGED <<attempt, model, durable>>
    BY <2>2
  <2> QED
    BY <1>5, <2>1, <2>2 DEF Stop
<1>6. CASE UNCHANGED ledgerVars
  BY <1>6 DEF ledgerVars
<1> QED
  BY <1>1, <1>2, <1>3, <1>4, <1>5, <1>6 DEF LedgerNext

(* In any history of commits, skips, saves, deaths and resumes no attempt   *)
(* is learnt from twice, by a running model or by a saved one.              *)
THEOREM LedgerLearnsOnce == LedgerSpec => []EachAttemptOnce
<1>1. LedgerInv => EachAttemptOnce
  BY DEF LedgerInv
<1> QED
  BY <1>1, LedgerInitInv, LedgerStepInv, PTL DEF LedgerSpec
=================================================================================
