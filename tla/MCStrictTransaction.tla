------------------------ MODULE MCStrictTransaction ------------------------
(* The transaction object under an arbitrary caller: three pool sizes,      *)
(* selections of 1..2 prompts, two parameter checksums, at most two         *)
(* microbatches and two zero_grad calls, cursors below six.                 *)
EXTENDS StrictTransaction

CONSTANTS MaxCursor, MaxMicrobatches

MCInit ==
  /\ state \in [attempt : 0..1, step : 0..1, cursor : {0}]
  /\ TxInit

MCNext ==
  \/ \E a, r, o, w \in 0..1 :
       FreezeSnapshot([actor |-> a, rollout |-> r, oldPolicy |-> o,
                       rewardPolicy |-> w])
  \/ \E count \in 0..5, refills \in 0..1 : CompleteRollout(count, refills)
  \/ CompleteScoring
  \/ \E count \in 0..3 : Select(count)
  \/ \E cursor \in 0..MaxCursor : Skip(cursor)
  \/ RecordZeroGrad /\ rec.zeroGrads < 2
  \/ \E c \in Checksums : RecordBackward(c) /\ rec.microbatches < MaxMicrobatches
  \/ \E c \in Checksums : CompleteBackward(c)
  \/ BeginOptimizerStep
  \/ RecordOptimizerStep
  \/ BeginSchedulerStep
  \/ RecordSchedulerStep
  \/ \E cursor \in 0..MaxCursor : ProposeCommit(cursor)
  \/ RecordCommitSuccess
  \/ \E cursor \in 0..MaxCursor : Abort(cursor)

MCSpec == MCInit /\ [][MCNext]_txVars
=============================================================================
