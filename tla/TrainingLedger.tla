---------------------------- MODULE TrainingLedger ----------------------------
(***************************************************************************)
(* What the trainer promises, with one atomic step per attempt.  A model   *)
(* is the sequence of the attempts it has learnt from.  A running process  *)
(* appends one attempt at a time or consumes an attempt without learning;  *)
(* it may save the model a pending attempt is about to produce; it may     *)
(* stop at any time, and what it had not saved is then lost.  The next     *)
(* process continues from a saved model or from scratch.                   *)
(***************************************************************************)
EXTENDS Integers, Sequences

VARIABLES running,   \* is there a trainer process?
          attempt,   \* attempts consumed by the current run
          model,     \* the attempts its model has learnt from
          durable    \* saved [attempt, model] pairs

ledgerVars == <<running, attempt, model, durable>>

LedgerInit ==
  /\ running = FALSE
  /\ attempt = 0
  /\ model = <<>>
  /\ durable = {}

Start ==
  /\ ~ running
  /\ running' = TRUE
  /\ \/ attempt' = 0 /\ model' = <<>>
     \/ \E s \in durable : attempt' = s.attempt /\ model' = s.model
  /\ UNCHANGED durable

CommitOne ==
  /\ running
  /\ attempt' = attempt + 1
  /\ model' = Append(model, attempt')
  /\ UNCHANGED <<running, durable>>

SkipOne ==
  /\ running
  /\ attempt' = attempt + 1
  /\ UNCHANGED <<running, model, durable>>

SavePending ==
  /\ running
  /\ durable' = durable \union
       {[attempt |-> attempt + 1, model |-> Append(model, attempt + 1)]}
  /\ UNCHANGED <<running, attempt, model>>

Stop ==
  /\ running
  /\ running' = FALSE
  /\ \/ attempt' = 0 /\ model' = <<>>
     \/ UNCHANGED <<attempt, model>>
  /\ UNCHANGED durable

LedgerNext == Start \/ CommitOne \/ SkipOne \/ SavePending \/ Stop

LedgerSpec == LedgerInit /\ [][LedgerNext]_ledgerVars
-----------------------------------------------------------------------------
(* No attempt is learnt from twice, in any model that runs or is saved, and *)
(* a model never contains an attempt that was not consumed.                 *)
Increasing(s, bound) ==
  /\ \A i \in 1 .. Len(s) : s[i] \in 1 .. bound
  /\ \A i, j \in 1 .. Len(s) : i < j => s[i] < s[j]

EachAttemptOnce ==
  /\ Increasing(model, attempt)
  /\ \A s \in durable : Increasing(s.model, s.attempt)
=============================================================================
