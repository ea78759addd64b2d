-------------------------- MODULE StrictTransaction --------------------------
(***************************************************************************)
(* One StrictUpdateTransaction: the object that follows an update attempt  *)
(* from its frozen snapshot to exactly one optimizer step and its commit,  *)
(* or to a skip or an abort.  Every method is one action.  A method that   *)
(* raises TransactionError changes nothing, with one exception:            *)
(* record_zero_grad counts the call it then refuses.                       *)
(*                                                                         *)
(* TxSpec lets a caller invoke the methods in any order, so its theorems   *)
(* hold of the object whatever the controller does; StrictUpdate composes  *)
(* the same actions in the order run_attempt uses.                         *)
(***************************************************************************)
EXTENDS Integers

CONSTANTS AllowedCounts,   \* legal candidate-pool sizes (64, 96, 128)
          MinSelected,     \* minimum_selected_prompts (32)
          MaxSelected,     \* maximum_selected_prompts (36)
          Checksums        \* the actor-parameter checksums that can occur

ASSUME TransactionConstants ==
  /\ AllowedCounts \subseteq Nat \ {0}
  /\ AllowedCounts # {}
  /\ \E m \in AllowedCounts : \A c \in AllowedCounts : c <= m
  /\ MinSelected \in Nat \ {0}
  /\ MaxSelected \in Nat
  /\ MinSelected <= MaxSelected

VARIABLES state,     \* the controller's TrainingState, self.starting_state
          rec,       \* self.record
          returned   \* the TrainingState last handed to the caller

txVars == <<state, rec, returned>>
-----------------------------------------------------------------------------
PreStepPhases == {"created", "snapshot_frozen", "rollout_complete", "scored",
                  "selected", "backward_complete"}
PostStepPhases == {"optimizer_step_in_progress", "optimizer_stepped",
                   "scheduler_step_in_progress", "scheduler_stepped",
                   "commit_in_progress"}
FinalPhases == {"committed", "skipped", "aborted", "untrusted"}
AttemptPhase == PreStepPhases \union PostStepPhases \union FinalPhases

TrainingState == [attempt : Nat, step : Nat, cursor : Nat]

AttemptRecord ==
  [phase : AttemptPhase, attempt : Nat, start : Nat, candidates : Nat,
   refills : Nat, selected : Nat, zeroGrads : Nat, checksums : SUBSET Checksums,
   microbatches : Nat, optimizerSteps : Nat, schedulerSteps : Nat]

NewRecord(st) ==
  [phase |-> "created", attempt |-> st.attempt + 1, start |-> st.step,
   candidates |-> 0, refills |-> 0, selected |-> 0, zeroGrads |-> 0,
   checksums |-> {}, microbatches |-> 0, optimizerSteps |-> 0,
   schedulerSteps |-> 0]

CanRollbackPreStep == rec.phase \in PreStepPhases

(* Defect: the cursor is taken back to the prompt drawn last.                *)
CursorRewound(cursor) ==
  [attempt |-> rec.attempt, step |-> state.step, cursor |-> cursor - 1]

(* state, attempt advanced and cursor moved, but no successful update       *)
AttemptConsumed(cursor) ==
  [attempt |-> rec.attempt, step |-> state.step, cursor |-> cursor]
-----------------------------------------------------------------------------
SnapshotVersions ==
  [actor : Nat, rollout : Nat, oldPolicy : Nat, rewardPolicy : Nat]

Parity(versions) ==
  /\ versions.actor = versions.rollout
  /\ versions.actor = versions.oldPolicy
  /\ versions.actor = versions.rewardPolicy

FreezeSnapshot(versions) ==
  /\ rec.phase = "created"
  /\ Parity(versions)
  /\ rec' = [rec EXCEPT !.phase = "snapshot_frozen"]
  /\ UNCHANGED <<state, returned>>

CompleteRollout(count, refills) ==
  /\ rec.phase = "snapshot_frozen"
  /\ count \in AllowedCounts
  /\ rec' = [rec EXCEPT !.phase = "rollout_complete", !.candidates = count,
                        !.refills = refills]
  /\ UNCHANGED <<state, returned>>

CompleteScoring ==
  /\ rec.phase = "rollout_complete"
  /\ rec' = [rec EXCEPT !.phase = "scored"]
  /\ UNCHANGED <<state, returned>>

Select(count) ==
  /\ rec.phase = "scored"
  /\ count \in MinSelected .. MaxSelected
  /\ rec' = [rec EXCEPT !.phase = "selected", !.selected = count]
  /\ UNCHANGED <<state, returned>>

Skip(cursor) ==
  /\ rec.phase = "scored"
  /\ \A c \in AllowedCounts : c <= rec.candidates
  /\ rec' = [rec EXCEPT !.phase = "skipped"]
  /\ returned' = AttemptConsumed(cursor)
  /\ UNCHANGED state

(* The second call raises, after it has been counted.                       *)
RecordZeroGrad ==
  /\ rec.phase = "selected"
  /\ rec' = [rec EXCEPT !.zeroGrads = @ + 1]
  /\ UNCHANGED <<state, returned>>

RecordBackward(checksum) ==
  /\ rec.phase = "selected"
  /\ rec.zeroGrads = 1
  /\ rec.checksums \subseteq {checksum}
  /\ rec' = [rec EXCEPT !.checksums = {checksum},
                        !.microbatches = @ + 1]
  /\ UNCHANGED <<state, returned>>

(* Defect: only a recorded checksum is compared, and nothing is counted.     *)
CompleteWithoutBackward(checksum) ==
  /\ rec.phase = "selected"
  /\ rec.checksums \subseteq {checksum}
  /\ rec' = [rec EXCEPT !.phase = "backward_complete"]
  /\ UNCHANGED <<state, returned>>

CompleteBackward(checksum) ==
  /\ rec.phase = "selected"
  /\ rec.microbatches >= 1
  /\ rec.checksums = {checksum}
  /\ rec' = [rec EXCEPT !.phase = "backward_complete"]
  /\ UNCHANGED <<state, returned>>

BeginOptimizerStep ==
  /\ rec.phase = "backward_complete"
  /\ rec.optimizerSteps = 0
  /\ rec' = [rec EXCEPT !.phase = "optimizer_step_in_progress"]
  /\ UNCHANGED <<state, returned>>

RecordOptimizerStep ==
  /\ rec.phase = "optimizer_step_in_progress"
  /\ rec' = [rec EXCEPT !.phase = "optimizer_stepped", !.optimizerSteps = @ + 1]
  /\ UNCHANGED <<state, returned>>

BeginSchedulerStep ==
  /\ rec.phase = "optimizer_stepped"
  /\ rec.schedulerSteps = 0
  /\ rec' = [rec EXCEPT !.phase = "scheduler_step_in_progress"]
  /\ UNCHANGED <<state, returned>>

RecordSchedulerStep ==
  /\ rec.phase = "scheduler_step_in_progress"
  /\ rec' = [rec EXCEPT !.phase = "scheduler_stepped", !.schedulerSteps = @ + 1]
  /\ UNCHANGED <<state, returned>>

(* Defect: the proposal does not wait for the scheduler.                     *)
ProposeAfterOptimizer(cursor) ==
  /\ rec.phase \in {"optimizer_stepped", "scheduler_stepped"}
  /\ rec' = [rec EXCEPT !.phase = "commit_in_progress"]
  /\ returned' = [attempt |-> rec.attempt, step |-> state.step + 1,
                  cursor |-> cursor]
  /\ UNCHANGED state

(* The next state is handed out here, before the commit is durable; the     *)
(* caller may adopt it only when run_attempt returns.                       *)
ProposeCommit(cursor) ==
  /\ rec.phase = "scheduler_stepped"
  /\ rec.optimizerSteps = 1
  /\ rec.schedulerSteps = 1
  /\ rec' = [rec EXCEPT !.phase = "commit_in_progress"]
  /\ returned' = [attempt |-> rec.attempt, step |-> state.step + 1,
                  cursor |-> cursor]
  /\ UNCHANGED state

RecordCommitSuccess ==
  /\ rec.phase = "commit_in_progress"
  /\ rec' = [rec EXCEPT !.phase = "committed"]
  /\ UNCHANGED <<state, returned>>

(* Defect: everything before the commit counts as reversible.                *)
AbortUntilCommit(cursor) ==
  /\ rec.phase \notin FinalPhases
  /\ rec' = [rec EXCEPT !.phase = IF @ = "commit_in_progress" THEN "untrusted"
                                                              ELSE "aborted"]
  /\ returned' = IF rec.phase = "commit_in_progress" THEN returned
                                                     ELSE AttemptConsumed(cursor)
  /\ UNCHANGED state

(* Past the step abort condemns the process state and raises; before it, a  *)
(* state whose attempt is consumed is returned.  In the other final phases  *)
(* abort raises and changes nothing.                                        *)
Abort(cursor) ==
  /\ \/ /\ rec.phase \in PostStepPhases
        /\ rec' = [rec EXCEPT !.phase = "untrusted"]
        /\ UNCHANGED returned
     \/ /\ rec.phase \in PreStepPhases \union {"aborted"}
        /\ rec' = [rec EXCEPT !.phase = "aborted"]
        /\ returned' = AttemptConsumed(cursor)
  /\ UNCHANGED state
-----------------------------------------------------------------------------
(* A caller that may invoke any method at any time.                         *)
TxInit ==
  /\ state \in TrainingState
  /\ rec = NewRecord(state)
  /\ returned = state

TxNext ==
  \/ \E v \in SnapshotVersions : FreezeSnapshot(v)
  \/ \E count, refills \in Nat : CompleteRollout(count, refills)
  \/ CompleteScoring
  \/ \E count \in Nat : Select(count)
  \/ \E cursor \in Nat : Skip(cursor)
  \/ RecordZeroGrad
  \/ \E checksum \in Checksums : RecordBackward(checksum)
  \/ \E checksum \in Checksums : CompleteBackward(checksum)
  \/ BeginOptimizerStep
  \/ RecordOptimizerStep
  \/ BeginSchedulerStep
  \/ RecordSchedulerStep
  \/ \E cursor \in Nat : ProposeCommit(cursor)
  \/ RecordCommitSuccess
  \/ \E cursor \in Nat : Abort(cursor)

TxSpec == TxInit /\ [][TxNext]_txVars
-----------------------------------------------------------------------------
(* Every field of the record and both training states keep their types.     *)
TxTypeOK ==
  /\ state \in TrainingState
  /\ rec \in AttemptRecord
  /\ returned \in TrainingState

(* "Exactly one optimizer.step is permitted": in whatever order the methods *)
(* are called, a committed attempt has taken one optimizer step and one     *)
(* scheduler step on gradients of at least one microbatch, all of them of   *)
(* the same parameters, for a legal pool and a legal selection.             *)
CommittedMeansOneStep ==
  rec.phase = "committed" =>
    /\ rec.optimizerSteps = 1
    /\ rec.schedulerSteps = 1
    /\ rec.zeroGrads >= 1
    /\ rec.microbatches >= 1
    /\ \E c \in Checksums : rec.checksums = {c}
    /\ rec.candidates \in AllowedCounts
    /\ rec.selected \in MinSelected .. MaxSelected

(* can_rollback_pre_step may be trusted: while it is TRUE, and after a skip *)
(* or an abort, no optimizer step has begun, so zeroing gradients undoes    *)
(* the attempt completely.                                                  *)
RollbackOnlyBeforeStep ==
  rec.phase \in PreStepPhases \union {"skipped", "aborted"} =>
    /\ rec.optimizerSteps = 0
    /\ rec.schedulerSteps = 0
    /\ returned.step = state.step

(* A TrainingState with an advanced successful_update_step is only ever     *)
(* handed out by an attempt that stepped the optimizer and the scheduler.   *)
AdvancedStateIsEarned ==
  /\ returned.step \in {state.step, state.step + 1}
  /\ returned.step # state.step =>
       /\ rec.phase \in {"commit_in_progress", "committed", "untrusted"}
       /\ rec.optimizerSteps = 1
       /\ rec.schedulerSteps = 1
       /\ returned.attempt = rec.attempt

(* Once optimizer.step may have touched parameters there is no way back to  *)
(* an attempt that can be retried in the same process: only the commit or   *)
(* the untrusted verdict remain, and the verdict is never taken back.       *)
NoReturnAfterStep ==
  [][/\ rec.phase \in PostStepPhases =>
          rec'.phase \in PostStepPhases \union {"committed", "untrusted"}
     /\ rec.phase \in {"committed", "untrusted", "skipped"} =>
          rec' = rec]_txVars
=============================================================================
