-------------------------------- MODULE ExactIG --------------------------------
(***************************************************************************)
(* An Exact-IG task: one packed sequence that holds a trajectory once and  *)
(* a copy of the golden answer for every prefix of it, and what the reward *)
(* model sees where it scores an answer token.  The reference is the       *)
(* sequential oracle: one forward per prefix, with the target right behind *)
(* the prefix.                                                             *)
(*                                                                         *)
(* Abstract: a token is what it is and where it comes from.  A log         *)
(* probability is what it depends on: the token, and the tokens with their *)
(* positions that the predicting row sees, each with those that it sees.   *)
(* Positions in a sequence count from 1, position ids from 0 as in the     *)
(* code.  The mask of the original tokens is all ones, as                  *)
(* ExactIGTaskBuilderActor passes it, and their ids are given by none.     *)
(***************************************************************************)
EXTENDS Integers, Sequences, FiniteSets

CONSTANTS
  MaxExtended,   \* maximum_extended_sequence_length
  MaxPosition    \* maximum_position_id_exclusive

ASSUME ExactIGConstants == {MaxExtended, MaxPosition} \subseteq Nat \ {0}

(* A trajectory has its length in tokens (original), the strictly           *)
(* increasing ends of its prefixes (endpoints: the prompt, then every       *)
(* observation) and the two encoded targets of its prompt.  A target has    *)
(* the character range of each of its tokens and that of the answer.        *)
PrefixesOf(t) == 1 .. Len(t.endpoints)

(* Prefix one is before any search: its target claims no evidence.          *)
Target(t, k) == IF k = 1 THEN t.prior ELSE t.retrieved
TargetLength(t, k) == Len(Target(t, k).offsets)

(* What the builder is given: at least the prompt's prefix, ends inside the *)
(* trajectory, targets with a token.                                        *)
IsTask(t) ==
  /\ t.original \in Nat
  /\ t.endpoints \in Seq(Nat)
  /\ Len(t.endpoints) > 0
  /\ \A k \in PrefixesOf(t) : 1 <= t.endpoints[k] /\ t.endpoints[k] <= t.original
  /\ Len(t.prior.offsets) \in Nat \ {0}
  /\ Len(t.retrieved.offsets) \in Nat \ {0}
  /\ DOMAIN t.prior.offsets = 1 .. Len(t.prior.offsets)
  /\ DOMAIN t.retrieved.offsets = 1 .. Len(t.retrieved.offsets)

----------------------------------------------------------------------------
(* The answer in a target                                                   *)

(* IGPO's loop: from the first token that ends behind the answer's first    *)
(* character to the last one that begins before its end.                    *)
AnswerTokens(target) ==
  LET Within(b) == target.offsets[b].begin < target.to /\ target.offsets[b].end > 0
  IN {a \in DOMAIN target.offsets :
       /\ \E b \in 1 .. a : target.offsets[b].end > target.from
       /\ \/ \E b \in a .. Len(target.offsets) : Within(b)
          \/ \A b \in DOMAIN target.offsets : ~ Within(b)}

(* A token that shares a character with the answer.                         *)
Covers(target, a) ==
  target.offsets[a].begin < target.to /\ target.offsets[a].end > target.from

(* A tokenizer's offsets run from left to right; some token holds a part of *)
(* the answer, which is not empty.                                          *)
IsTarget(target) ==
  /\ Len(target.offsets) \in Nat
  /\ DOMAIN target.offsets = 1 .. Len(target.offsets)
  /\ \A a \in DOMAIN target.offsets :
       target.offsets[a].begin \in Nat /\ target.offsets[a].end \in Nat
  /\ \A a, b \in DOMAIN target.offsets : a <= b =>
       /\ target.offsets[a].begin <= target.offsets[b].begin
       /\ target.offsets[a].end <= target.offsets[b].end
  /\ target.from \in Nat /\ target.to \in Nat
  /\ \E a \in DOMAIN target.offsets : Covers(target, a)

EncodeRefuses(target) == AnswerTokens(target) = {}

----------------------------------------------------------------------------
(* The packed sequence                                                      *)

(* Where the copy for prefix k starts: behind the trajectory and the copies *)
(* for the shorter prefixes.                                                *)
SegmentStart(t, k) ==
  t.original + (IF k = 1 THEN 0
                ELSE TargetLength(t, 1) + (k - 2) * TargetLength(t, 2))

ExtendedLength(t) == SegmentStart(t, Len(t.endpoints)) + TargetLength(t, Len(t.endpoints))

InSegment(t, k, p) ==
  SegmentStart(t, k) < p /\ p <= SegmentStart(t, k) + TargetLength(t, k)
SegmentOf(t, p) == CHOOSE k \in PrefixesOf(t) : InSegment(t, k, p)

TargetToken(k, a) == <<IF k = 1 THEN "prior" ELSE "retrieved", a>>

PackedToken(t, p) ==
  IF p <= t.original THEN <<"trajectory", p>>
  ELSE LET k == SegmentOf(t, p) IN TargetToken(k, p - SegmentStart(t, k))

(* Defect: the copies are numbered on through the packed sequence.          *)
PhysicalPosition(t, p) == p - 1

(* A copy continues the position ids of its prefix.                         *)
LogicalPosition(t, p) ==
  IF p <= t.original THEN p - 1
  ELSE LET k == SegmentOf(t, p)
       IN (t.endpoints[k] - 1) + (p - SegmentStart(t, k))

(* Defect: a copy sees all before it from its prefix on, the other copies   *)
(* too.                                                                     *)
CausalMask(t, p) ==
  IF p <= t.original THEN 1 .. p
  ELSE 1 .. t.endpoints[SegmentOf(t, p)] \cup t.original + 1 .. p

StructuralMask(t, p) ==
  IF p <= t.original THEN 1 .. p
  ELSE LET k == SegmentOf(t, p)
       IN 1 .. t.endpoints[k] \cup SegmentStart(t, k) + 1 .. p

(* What build raises for, and when it leaves the packing out.               *)
PrefixRefuses(t, k) ==
  \/ t.endpoints[k] + TargetLength(t, k) > MaxExtended
  \/ t.endpoints[k] - 1 + TargetLength(t, k) >= MaxPosition

Sequential(t) == ExtendedLength(t) > MaxExtended

BuildRefuses(t) ==
  \/ EncodeRefuses(t.prior) \/ EncodeRefuses(t.retrieved)
  \/ \E k \in PrefixesOf(t) : PrefixRefuses(t, k)
  \/ ~ Sequential(t) /\ \E k \in PrefixesOf(t) : 1 \in AnswerTokens(Target(t, k))

----------------------------------------------------------------------------
(* What a score depends on                                                  *)

PackedAt(t, p) == <<PackedToken(t, p), LogicalPosition(t, p)>>
PackedContext(t, row) ==
  {<<PackedAt(t, p), {PackedAt(t, q) : q \in StructuralMask(t, p)}>> :
     p \in StructuralMask(t, row)}

(* A token is scored by the row before it.                                  *)
FastScore(t, k) ==
  [a \in AnswerTokens(Target(t, k)) |->
     <<TargetToken(k, a), PackedContext(t, SegmentStart(t, k) + a - 1)>>]

OracleAt(t, k, p) ==
  <<IF p <= t.endpoints[k] THEN <<"trajectory", p>> ELSE TargetToken(k, p - t.endpoints[k]),
    p - 1>>
OracleContext(t, k, row) ==
  {<<OracleAt(t, k, p), {OracleAt(t, k, q) : q \in 1 .. p}>> : p \in 1 .. row}

OracleScore(t, k) ==
  [a \in AnswerTokens(Target(t, k)) |->
     <<TargetToken(k, a), OracleContext(t, k, t.endpoints[k] + a - 1)>>]

(* score_by_prefix of a task.                                               *)
FastScores(t) == [k \in PrefixesOf(t) |-> FastScore(t, k)]
OracleScores(t) == [k \in PrefixesOf(t) |-> OracleScore(t, k)]
=============================================================================
