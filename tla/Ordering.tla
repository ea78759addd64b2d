-------------------------------- MODULE Ordering --------------------------------
(***************************************************************************)
(* Python's sorted(), written by rank: an element has its place from how   *)
(* many are before it.  The community modules sort through SortSeq, which  *)
(* has an evaluator but no definition to reason from.                      *)
(***************************************************************************)
EXTENDS Integers, Sequences, FiniteSets

(* The elements of S, when no two of them are level.                        *)
SetInOrder(S, before(_, _)) ==
  LET rank == [a \in S |-> Cardinality({b \in S : before(b, a)})]
  IN  [i \in 1..Cardinality(S) |-> CHOOSE a \in S : rank[a] = i - 1]

(* A sequence; those that are level keep their order.                       *)
SeqInOrder(s, before(_, _)) ==
  LET rank == [i \in DOMAIN s |->
        Cardinality({j \in DOMAIN s :
          before(s[j], s[i]) \/ (~ before(s[i], s[j]) /\ j < i)})]
  IN  [n \in DOMAIN s |-> s[CHOOSE i \in DOMAIN s : rank[i] = n - 1]]

(* The elements of s at the positions in P, in their order.                 *)
Subsequence(s, P) ==
  LET at == SetInOrder(P, LAMBDA i, j : i < j)
  IN  [n \in DOMAIN at |-> s[at[n]]]
================================================================================
