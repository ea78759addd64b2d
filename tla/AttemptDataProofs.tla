---------------------------- MODULE AttemptDataProofs ----------------------------
(***************************************************************************)
(* Theorems about AttemptData and the selection in it.                     *)
(***************************************************************************)
EXTENDS AttemptData, DataInduction

-----------------------------------------------------------------------------
(* Selection, for every pool and every way its variances may fall.          *)

LEMMA Sums == \A S, f : SumOver(S, f) = SumOn(S, f)
  BY DEF SumOver, SumOn

LEMMA SelectionTypes ==
  /\ VarUnit \in Nat \ {0} /\ MeanUnit \in Nat \ {0} /\ GroupSize \in Nat \ {0}
  /\ MinPositive \in Nat \ {0} /\ ReferenceUpdates \in Nat \ {0}
  /\ RhoNum \in Nat \ {0} /\ RhoDen \in Nat \ {0} /\ RhoNum <= RhoDen
  /\ HealthDen \in Nat \ {0} /\ HealthNum \in Nat
  /\ MinSelected \in Nat \ {0} /\ MaxSelected \in Nat /\ MinSelected <= MaxSelected
  /\ \A c \in Channels : Alpha[c] \in Nat \ {0} /\ NoiseFloor[c] \in Nat
  BY SelectionConstants

(* The prompts with a score, from the highest score on.                     *)
Descending(scores) ==
  {q \in Positive(scores) \X Positive(scores) : Before(scores, q[1], q[2])}

LEMMA DescendingIsOrder ==
  ASSUME NEW D \in SUBSET Nat, IsFiniteSet(D), NEW scores \in [D -> Nat]
  PROVE  /\ Positive(scores) \in SUBSET D /\ IsFiniteSet(Positive(scores))
         /\ StrictOrder(Descending(scores), Positive(scores))
         /\ \A p, q \in Positive(scores) :
              (<<p, q>> \in Descending(scores)) <=> Before(scores, p, q)
         /\ \A q \in Positive(scores) :
              /\ Ahead(scores, q) = {p \in Positive(scores) : <<p, q>> \in Descending(scores)}
              /\ Ahead(scores, q) \in SUBSET Positive(scores)
              /\ IsFiniteSet(Ahead(scores, q))
<1>1. Positive(scores) \in SUBSET D
  BY DEF Positive
<1>2. IsFiniteSet(Positive(scores))
  BY <1>1, FS_Subset
<1>3. \A p, q \in Positive(scores) :
        (<<p, q>> \in Descending(scores)) <=> Before(scores, p, q)
  BY DEF Descending
<1>4. \A p \in Positive(scores) : scores[p] \in Nat /\ p \in Nat
  BY <1>1
<1>5. StrictOrder(Descending(scores), Positive(scores))
  BY <1>3, <1>4 DEF StrictOrder, Before
<1>6. \A q \in Positive(scores) :
         /\ Ahead(scores, q) = {p \in Positive(scores) : <<p, q>> \in Descending(scores)}
         /\ Ahead(scores, q) \in SUBSET Positive(scores)
  BY <1>3 DEF Ahead
<1>7. \A q \in Positive(scores) : IsFiniteSet(Ahead(scores, q))
  BY <1>2, <1>6, FS_Subset
<1> QED
  BY <1>1, <1>2, <1>3, <1>5, <1>6, <1>7

Chosen(scores) == Capped(scores, TopP(scores))

(* If a prompt is chosen, so is every prompt ahead of it.                    *)
LEMMA ChosenIsTop ==
  ASSUME NEW D \in SUBSET Nat, IsFiniteSet(D), NEW scores \in [D -> Nat],
         NEW p \in Chosen(scores), NEW q \in Positive(scores), Before(scores, q, p)
  PROVE  q \in Chosen(scores)
<1> DEFINE P == Positive(scores)
           total == SumOver(P, scores)
<1>1. /\ P \in SUBSET D /\ IsFiniteSet(P)
      /\ StrictOrder(Descending(scores), P)
      /\ \A a, b \in P : (<<a, b>> \in Descending(scores)) <=> Before(scores, a, b)
      /\ \A a \in P : /\ Ahead(scores, a) = {b \in P : <<b, a>> \in Descending(scores)}
                      /\ Ahead(scores, a) \in SUBSET P
                      /\ IsFiniteSet(Ahead(scores, a))
  BY DescendingIsOrder
<1>2. p \in P /\ SumOver(Ahead(scores, p), scores) * RhoDen < RhoNum * total
      /\ Cardinality(Ahead(scores, p)) < MaxSelected
  BY DEF Chosen, Capped, TopP
<1>3. Ahead(scores, q) \in SUBSET Ahead(scores, p)
  BY <1>1, <1>2 DEF StrictOrder
<1>4. \A x \in Ahead(scores, p) : scores[x] \in Nat
  BY <1>1, <1>2
<1>5. SumOn(Ahead(scores, q), scores) <= SumOn(Ahead(scores, p), scores)
      /\ SumOn(Ahead(scores, q), scores) \in Nat /\ SumOn(Ahead(scores, p), scores) \in Nat
  BY <1>1, <1>2, <1>3, <1>4, SumMonotone
<1>6. SumOn(P, scores) \in Nat
  <2>1. \A x \in P : scores[x] \in Nat
    BY <1>1
  <2> QED
    BY <1>1, <2>1, SumNat
<1>7. Cardinality(Ahead(scores, q)) <= Cardinality(Ahead(scores, p))
      /\ Cardinality(Ahead(scores, q)) \in Nat /\ Cardinality(Ahead(scores, p)) \in Nat
  BY <1>1, <1>2, <1>3, FS_Subset, FS_CardinalityType
<1>8. SumOver(Ahead(scores, q), scores) * RhoDen < RhoNum * total
  <2>1. SumOn(Ahead(scores, p), scores) * RhoDen < RhoNum * SumOn(P, scores)
    BY <1>2, Sums
  <2>2. SumOn(Ahead(scores, q), scores) * RhoDen <= SumOn(Ahead(scores, p), scores) * RhoDen
    BY <1>5, SelectionTypes
  <2>3. /\ SumOn(Ahead(scores, q), scores) * RhoDen \in Int
        /\ SumOn(Ahead(scores, p), scores) * RhoDen \in Int
        /\ RhoNum * SumOn(P, scores) \in Int
    BY <1>5, <1>6, SelectionTypes
  <2> QED
    BY <2>1, <2>2, <2>3, Sums
<1>9. Cardinality(Ahead(scores, q)) < MaxSelected
  BY <1>2, <1>7, SelectionTypes
<1> QED
  BY <1>8, <1>9 DEF Chosen, Capped, TopP

(* What is chosen is a smallest top set with the share of the mass, or the  *)
(* cap.                                                                     *)
MinimalMass(scores, D, S) ==
  /\ Cardinality(S) <= MaxSelected
  /\ \A p \in S, q \in D \ S : scores[p] > 0 /\ scores[p] >= scores[q]
  /\ \A p \in S : SumOver(S \ {p}, scores) * RhoDen < RhoNum * SumOver(D, scores)
  /\ \/ SumOver(S, scores) * RhoDen >= RhoNum * SumOver(D, scores)
     \/ Cardinality(S) = MaxSelected

LEMMA ChosenIsMinimalMass ==
  ASSUME NEW D \in SUBSET Nat, IsFiniteSet(D), NEW scores \in [D -> Nat]
  PROVE  /\ Chosen(scores) \in SUBSET Positive(scores)
         /\ MinimalMass(scores, D, Chosen(scores))
<1> DEFINE P == Positive(scores)
           S == Chosen(scores)
           R == Descending(scores)
<1>1. /\ P \in SUBSET D /\ IsFiniteSet(P)
      /\ StrictOrder(R, P)
      /\ \A a, b \in P : (<<a, b>> \in R) <=> Before(scores, a, b)
      /\ \A a \in P : /\ Ahead(scores, a) = {b \in P : <<b, a>> \in R}
                      /\ Ahead(scores, a) \in SUBSET P
                      /\ IsFiniteSet(Ahead(scores, a))
  BY DescendingIsOrder
<1>2. S \in SUBSET P
  BY DEF Chosen, Capped, TopP
<1>3. IsFiniteSet(S) /\ Cardinality(S) \in Nat
  BY <1>1, <1>2, FS_Subset, FS_CardinalityType
<1>4. \A q \in S : /\ SumOver(Ahead(scores, q), scores) * RhoDen < RhoNum * SumOver(P, scores)
                   /\ Cardinality(Ahead(scores, q)) < MaxSelected
  BY DEF Chosen, Capped, TopP
<1>5. \A x \in D : scores[x] \in Nat
  OBVIOUS
<1>6. \A x \in P : scores[x] \in Nat /\ scores[x] > 0
  BY <1>1, <1>5 DEF Positive
<1>7. /\ SumOn(P, scores) = SumOn(D, scores) /\ SumOn(D, scores) \in Nat
      /\ SumOn(S, scores) <= SumOn(P, scores) /\ SumOn(S, scores) \in Nat
  <2>1. \A x \in D \ P : scores[x] = 0
    BY <1>5 DEF Positive
  <2>2. SumOn(P, scores) = SumOn(D, scores) /\ SumOn(D, scores) \in Nat
    BY <1>1, <1>5, <2>1, SumMonotone
  <2>3. \A x \in P : scores[x] \in Nat
    BY <1>6
  <2>4. SumOn(S, scores) <= SumOn(P, scores) /\ SumOn(S, scores) \in Nat
    BY <1>1, <1>2, <2>3, SumMonotone
  <2> QED
    BY <2>2, <2>4
<1>8. \A p \in S : \A q \in P : Before(scores, q, p) => q \in S
  BY ChosenIsTop
<1> HIDE DEF S
<1>9. StrictOrder(R, S)
  BY <1>1, <1>2 DEF StrictOrder
<1>10. ASSUME S # {}
       PROVE  \E l \in S : /\ S \ {l} \in SUBSET Ahead(scores, l)
                           /\ \A p \in S : scores[l] <= scores[p]
  <2>1. PICK l \in S : \A b \in S \ {l} : <<b, l>> \in R
    BY <1>3, <1>9, <1>10, EndsOfOrder
  <2>2. S \ {l} \in SUBSET Ahead(scores, l)
    <3> SUFFICES ASSUME NEW b \in S \ {l} PROVE b \in Ahead(scores, l)
      OBVIOUS
    <3>1. b \in P /\ l \in P /\ <<b, l>> \in R
      BY <1>2, <2>1
    <3> QED
      BY <1>1, <3>1
  <2>3. \A p \in S \ {l} : Before(scores, p, l)
    BY <1>1, <1>2, <2>1
  <2>4. \A p \in S : scores[l] <= scores[p]
    BY <1>2, <1>6, <2>3 DEF Before
  <2> QED
    BY <2>2, <2>4
<1>11. Cardinality(S) <= MaxSelected
  <2>1. CASE S = {}
    BY <2>1, FS_EmptySet, SelectionTypes
  <2>2. CASE S # {}
    <3>1. PICK l \in S : S \ {l} \in SUBSET Ahead(scores, l)
      BY <1>10, <2>2
    <3>2. Cardinality(S \ {l}) = Cardinality(S) - 1
      BY <1>3, FS_RemoveElement
    <3>3. Cardinality(S \ {l}) <= Cardinality(Ahead(scores, l))
          /\ Cardinality(Ahead(scores, l)) \in Nat
      BY <1>1, <1>2, <3>1, FS_Subset, FS_CardinalityType
    <3>4. Cardinality(Ahead(scores, l)) < MaxSelected
      BY <1>4 DEF S
    <3> QED
      BY <1>3, <3>2, <3>3, <3>4, SelectionTypes
  <2> QED
    BY <2>1, <2>2
<1>12. ASSUME NEW p \in S, NEW q \in D \ S
       PROVE  scores[p] > 0 /\ scores[p] >= scores[q]
  <2>1. CASE q \in P
    <3>1. ~ Before(scores, q, p)
      BY <1>8, <2>1 DEF S
    <3> QED
      BY <1>2, <1>6, <2>1, <3>1 DEF Before
  <2>2. CASE q \notin P
    <3>1. scores[q] = 0
      BY <1>5, <2>2 DEF Positive
    <3> QED
      BY <1>2, <1>6, <3>1
  <2> QED
    BY <2>1, <2>2
<1>13. ASSUME NEW p \in S
       PROVE  SumOver(S \ {p}, scores) * RhoDen < RhoNum * SumOver(D, scores)
  <2>1. PICK l \in S : /\ S \ {l} \in SUBSET Ahead(scores, l)
                       /\ scores[l] <= scores[p]
    BY <1>10
  <2>2. Ints(S, scores)
    BY <1>2, <1>6 DEF Ints
  <2>3. /\ SumOn(S, scores) = scores[p] + SumOn(S \ {p}, scores)
        /\ SumOn(S \ {p}, scores) \in Int
    BY <1>3, <2>2, SumRemove
  <2>4. /\ SumOn(S, scores) = scores[l] + SumOn(S \ {l}, scores)
        /\ SumOn(S \ {l}, scores) \in Int
    BY <1>3, <2>2, SumRemove
  <2>5. scores[p] \in Nat /\ scores[l] \in Nat
    BY <1>2, <1>6
  <2>6. SumOn(S \ {p}, scores) <= SumOn(S \ {l}, scores)
    BY <1>7, <2>1, <2>3, <2>4, <2>5
  <2>7. l \in P /\ \A x \in Ahead(scores, l) : scores[x] \in Nat
    BY <1>1, <1>2, <1>6
  <2>8. SumOn(S \ {l}, scores) <= SumOn(Ahead(scores, l), scores)
        /\ SumOn(Ahead(scores, l), scores) \in Nat
    BY <1>1, <2>1, <2>7, SumMonotone
  <2>9. SumOn(Ahead(scores, l), scores) * RhoDen < RhoNum * SumOn(D, scores)
    <3>1. SumOver(Ahead(scores, l), scores) * RhoDen < RhoNum * SumOver(P, scores)
      BY <1>4 DEF S
    <3> QED
      BY <1>7, <3>1, Sums
  <2>10. SumOn(S \ {p}, scores) <= SumOn(Ahead(scores, l), scores)
    BY <2>3, <2>4, <2>6, <2>8
  <2>11. SumOn(S \ {p}, scores) * RhoDen <= SumOn(Ahead(scores, l), scores) * RhoDen
    BY <2>3, <2>8, <2>10, SelectionTypes
  <2>12. /\ SumOn(S \ {p}, scores) * RhoDen \in Int
         /\ SumOn(Ahead(scores, l), scores) * RhoDen \in Int
         /\ RhoNum * SumOn(D, scores) \in Int
    BY <1>7, <2>3, <2>8, SelectionTypes
  <2>13. SumOn(S \ {p}, scores) * RhoDen < RhoNum * SumOn(D, scores)
    BY <2>9, <2>11, <2>12
  <2> QED
    BY <2>13, Sums
<1>14. \/ SumOver(S, scores) * RhoDen >= RhoNum * SumOver(D, scores)
       \/ Cardinality(S) = MaxSelected
  <2>1. CASE P \ S = {}
    <3>1. S = P
      BY <1>2, <2>1
    <3>2. SumOn(S, scores) = SumOn(D, scores)
      BY <1>7, <3>1
    <3>3. SumOn(D, scores) * RhoDen >= RhoNum * SumOn(D, scores)
      BY <1>7, SelectionTypes
    <3> QED
      BY <3>2, <3>3, Sums
  <2>2. CASE P \ S # {}
    <3>1. IsFiniteSet(P \ S) /\ StrictOrder(R, P \ S)
      BY <1>1, FS_Difference DEF StrictOrder
    <3>2. PICK f \in P \ S : \A b \in (P \ S) \ {f} : <<f, b>> \in R
      BY <2>2, <3>1, EndsOfOrder
    <3>3. Ahead(scores, f) \in SUBSET S
      <4> SUFFICES ASSUME NEW b \in Ahead(scores, f), b \notin S PROVE FALSE
        OBVIOUS
      <4>1. b \in P /\ <<b, f>> \in R /\ f \in P
        BY <1>1, <3>2
      <4>2. b # f
        BY <1>1, <4>1 DEF StrictOrder
      <4>3. <<f, b>> \in R
        BY <3>2, <4>1, <4>2
      <4> QED
        BY <1>1, <4>1, <4>3 DEF StrictOrder
    <3>4. \/ ~ (SumOver(Ahead(scores, f), scores) * RhoDen < RhoNum * SumOver(P, scores))
          \/ ~ (Cardinality(Ahead(scores, f)) < MaxSelected)
      BY <3>2 DEF S, Chosen, Capped, TopP
    <3>5. CASE ~ (Cardinality(Ahead(scores, f)) < MaxSelected)
      <4>1. Cardinality(Ahead(scores, f)) <= Cardinality(S)
            /\ Cardinality(Ahead(scores, f)) \in Nat
        BY <1>1, <1>3, <3>3, FS_Subset, FS_CardinalityType
      <4>2. Cardinality(S) = MaxSelected
        BY <1>3, <1>11, <3>5, <4>1, SelectionTypes
      <4> QED
        BY <4>2
    <3>6. CASE ~ (SumOver(Ahead(scores, f), scores) * RhoDen < RhoNum * SumOver(P, scores))
      <4>1. \A x \in S : scores[x] \in Nat
        BY <1>2, <1>6
      <4>2. SumOn(Ahead(scores, f), scores) <= SumOn(S, scores)
            /\ SumOn(Ahead(scores, f), scores) \in Nat
        BY <1>3, <3>3, <4>1, SumMonotone
      <4>3. ~ (SumOn(Ahead(scores, f), scores) * RhoDen < RhoNum * SumOn(D, scores))
        BY <1>7, <3>6, Sums
      <4>4. SumOn(Ahead(scores, f), scores) * RhoDen <= SumOn(S, scores) * RhoDen
        BY <1>7, <4>2, SelectionTypes
      <4>5. /\ SumOn(Ahead(scores, f), scores) * RhoDen \in Int
            /\ SumOn(S, scores) * RhoDen \in Int
            /\ RhoNum * SumOn(D, scores) \in Int
        BY <1>7, <4>2, SelectionTypes
      <4>6. SumOn(S, scores) * RhoDen >= RhoNum * SumOn(D, scores)
        BY <4>3, <4>4, <4>5
      <4> QED
        BY <4>6, Sums
    <3> QED
      BY <3>4, <3>5, <3>6
  <2> QED
    BY <2>1, <2>2
<1> QED
  BY <1>2, <1>11, <1>12, <1>13, <1>14 DEF MinimalMass, S

-----------------------------------------------------------------------------
(* Variances are never negative.                                            *)

LEMMA SquareIsNat ==
  ASSUME NEW a \in Int
  PROVE  a * a \in Nat
<1>1. CASE a >= 0
  BY <1>1
<1>2. CASE a < 0
  <2>1. PICK b \in Nat : b = -a
    BY <1>2
  <2>2. a * a = b * b /\ b * b \in Nat
    BY <2>1
  <2> QED
    BY <2>2
<1> QED
  BY <1>1, <1>2

(* The squared distances of a set of values from a, by their sums.          *)
LEMMA DistancesAreNat ==
  ASSUME NEW S, IsFiniteSet(S), NEW f, Ints(S, f), NEW g,
         \A x \in S : g[x] = f[x] * f[x], NEW a \in Int
  PROVE  /\ SumOn(S, g) \in Int /\ SumOn(S, f) \in Int /\ Cardinality(S) \in Nat
         /\ SumOn(S, g) + Cardinality(S) * (a * a) - 2 * (a * SumOn(S, f)) >= 0
<1> DEFINE D(T) == SumOn(T, g) + Cardinality(T) * (a * a) - 2 * (a * SumOn(T, f))
           F == {T \in SUBSET S : D(T) >= 0}
<1>1. \A T \in SUBSET S : /\ IsFiniteSet(T) /\ Cardinality(T) \in Nat
                          /\ Ints(T, f) /\ Ints(T, g)
                          /\ SumOn(T, f) \in Int /\ SumOn(T, g) \in Int
  <2> SUFFICES ASSUME NEW T \in SUBSET S
               PROVE  /\ IsFiniteSet(T) /\ Cardinality(T) \in Nat
                      /\ Ints(T, f) /\ Ints(T, g)
                      /\ SumOn(T, f) \in Int /\ SumOn(T, g) \in Int
    OBVIOUS
  <2>1. IsFiniteSet(T) /\ Cardinality(T) \in Nat
    BY FS_Subset, FS_CardinalityType
  <2>2. Ints(T, f) /\ Ints(T, g)
    BY DEF Ints
  <2> QED
    BY <2>1, <2>2, SumType
<1>2. {} \in F
  <2>1. SumOn({}, g) = 0 /\ SumOn({}, f) = 0 /\ Cardinality({}) = 0
    BY SumEmpty, FS_EmptySet
  <2>2. D({}) = 0 + 0 * (a * a) - 2 * (a * 0)
    BY <2>1
  <2>3. a * a \in Int /\ a * 0 = 0
    OBVIOUS
  <2> QED
    BY <2>2, <2>3
<1>3. ASSUME NEW T \in SUBSET S, NEW x \in S \ T, T \in F PROVE T \cup {x} \in F
  <2>1. T \cup {x} \in SUBSET S /\ x \notin T
    OBVIOUS
  <2>2. Cardinality(T \cup {x}) = Cardinality(T) + 1 /\ Cardinality(T) \in Nat
    BY <1>1, <2>1, FS_AddElement
  <2>3. /\ SumOn(T \cup {x}, f) = f[x] + SumOn(T, f)
        /\ SumOn(T, f) \in Int /\ f[x] \in Int
    BY <1>1, <2>1, SumAdd
  <2>4. /\ SumOn(T \cup {x}, g) = g[x] + SumOn(T, g)
        /\ SumOn(T, g) \in Int
    BY <1>1, <2>1, SumAdd
  <2>5. g[x] = f[x] * f[x]
    OBVIOUS
  <2>6. \A q, s, n, v \in Int :
          (v * v + q) + (n + 1) * (a * a) - 2 * (a * (v + s))
            = (q + n * (a * a) - 2 * (a * s)) + (v - a) * (v - a)
    OBVIOUS
  <2>7. D(T \cup {x}) = D(T) + (f[x] - a) * (f[x] - a)
    BY <2>2, <2>3, <2>4, <2>5, <2>6
  <2>8. (f[x] - a) * (f[x] - a) \in Nat
    <3>1. f[x] - a \in Int
      BY <2>3
    <3> QED
      BY <3>1, SquareIsNat
  <2>9. D(T) >= 0 /\ D(T) \in Int
    BY <1>3, <2>2, <2>3, <2>4
  <2> QED
    BY <2>1, <2>7, <2>8, <2>9
<1>4. S \in F
  <2> HIDE DEF F
  <2> QED
    BY <1>2, <1>3, FamilyOfSubsets
<1> QED
  BY <1>1, <1>4

(* The square of a sum is at most the count times the sum of the squares.   *)
LEMMA SquareOfSum ==
  ASSUME NEW S, IsFiniteSet(S), NEW f, Ints(S, f), NEW g,
         \A x \in S : g[x] = f[x] * f[x]
  PROVE  Cardinality(S) * SumOn(S, g) - SumOn(S, f) * SumOn(S, f) \in Nat
<1> DEFINE D(T) == Cardinality(T) * SumOn(T, g) - SumOn(T, f) * SumOn(T, f)
           F == {T \in SUBSET S : D(T) >= 0}
<1>1. \A T \in SUBSET S : /\ IsFiniteSet(T) /\ Ints(T, f) /\ Ints(T, g)
                          /\ \A x \in T : g[x] = f[x] * f[x]
  BY FS_Subset DEF Ints
<1>2. {} \in F
  <2>1. SumOn({}, g) = 0 /\ SumOn({}, f) = 0 /\ Cardinality({}) = 0
    BY SumEmpty, FS_EmptySet
  <2> QED
    BY <2>1
<1>3. ASSUME NEW T \in SUBSET S, NEW x \in S \ T, T \in F PROVE T \cup {x} \in F
  <2>1. T \cup {x} \in SUBSET S /\ x \notin T
    OBVIOUS
  <2>2. Cardinality(T \cup {x}) = Cardinality(T) + 1
    BY <1>1, <2>1, FS_AddElement
  <2>3. /\ SumOn(T \cup {x}, f) = f[x] + SumOn(T, f)
        /\ SumOn(T, f) \in Int /\ f[x] \in Int
    BY <1>1, <2>1, SumAdd
  <2>4. /\ SumOn(T \cup {x}, g) = g[x] + SumOn(T, g)
        /\ SumOn(T, g) \in Int
    BY <1>1, <2>1, SumAdd
  <2>5. g[x] = f[x] * f[x]
    OBVIOUS
  <2>6. /\ Cardinality(T) \in Nat
        /\ SumOn(T, g) + Cardinality(T) * (f[x] * f[x]) - 2 * (f[x] * SumOn(T, f)) >= 0
    BY <1>1, <2>3, DistancesAreNat
  <2>7. \A q, s, n, v \in Int :
          (n + 1) * (v * v + q) - (v + s) * (v + s)
            = (n * q - s * s) + (q + n * (v * v) - 2 * (v * s))
    OBVIOUS
  <2>8. D(T \cup {x}) = D(T) + (SumOn(T, g) + Cardinality(T) * (f[x] * f[x])
                                  - 2 * (f[x] * SumOn(T, f)))
    <3>1. PICK q, s, n, v \in Int :
            q = SumOn(T, g) /\ s = SumOn(T, f) /\ n = Cardinality(T) /\ v = f[x]
      BY <2>3, <2>4, <2>6
    <3>2. (n + 1) * (v * v + q) - (v + s) * (v + s)
            = (n * q - s * s) + (q + n * (v * v) - 2 * (v * s))
      BY <2>7
    <3>3. D(T \cup {x}) = (n + 1) * (v * v + q) - (v + s) * (v + s)
      BY <2>2, <2>3, <2>4, <2>5, <3>1
    <3>4. D(T) = n * q - s * s
      BY <3>1
    <3> QED
      BY <3>1, <3>2, <3>3, <3>4
  <2>9. D(T) >= 0 /\ D(T) \in Int
    BY <1>3, <2>3, <2>4, <2>6
  <2>10. SumOn(T, g) + Cardinality(T) * (f[x] * f[x]) - 2 * (f[x] * SumOn(T, f)) \in Int
    BY <2>3, <2>4, <2>6
  <2> QED
    BY <2>1, <2>6, <2>8, <2>9, <2>10
<1>4. S \in F
  <2> HIDE DEF F
  <2> QED
    BY <1>2, <1>3, FamilyOfSubsets
<1>5. D(S) \in Int
  <2>1. Cardinality(S) \in Nat /\ SumOn(S, f) \in Int /\ SumOn(S, g) \in Int
    <3>1. 0 \in Int
      OBVIOUS
    <3> QED
      BY <3>1, DistancesAreNat
  <2> QED
    BY <2>1
<1> QED
  BY <1>4, <1>5

LEMMA SampleVarianceIsNat ==
  ASSUME NEW S, IsFiniteSet(S), NEW f, Ints(S, f)
  PROVE  SampleVariance(S, f) \in Nat
<1> DEFINE n == Cardinality(S)
           g == [x \in S |-> f[x] * f[x]]
<1>1. n \in Nat
  BY FS_CardinalityType
<1>2. CASE n < 2
  BY <1>2 DEF SampleVariance
<1>3. CASE ~ (n < 2)
  <2>1. n * SumOn(S, g) - SumOn(S, f) * SumOn(S, f) \in Nat
    BY SquareOfSum
  <2>2. n * (n - 1) \in Nat \ {0}
    <3>1. n - 1 \in Nat /\ n - 1 # 0 /\ n # 0
      BY <1>1, <1>3
    <3> HIDE DEF n
    <3> QED
      BY <1>1, <3>1
  <2>3. VarUnit \div (n * (n - 1)) \in Nat
    <3> HIDE DEF n
    <3> QED
      BY <2>2, SelectionTypes
  <2>4. SampleVariance(S, f)
          = (n * SumOn(S, g) - SumOn(S, f) * SumOn(S, f)) * (VarUnit \div (n * (n - 1)))
    BY <1>3, Sums DEF SampleVariance
  <2> HIDE DEF n, g
  <2>5. \A a, b \in Nat : a * b \in Nat
    OBVIOUS
  <2> QED
    BY <2>1, <2>3, <2>4, <2>5
<1> QED
  BY <1>2, <1>3

(* What a group says to the selection, in every mode.                       *)
LEMMA PromptGroupIsNat ==
  ASSUME NEW g \in Groups, NEW deferred \in BOOLEAN
  PROVE  PromptGroup(g, deferred).ig \in Nat /\ PromptGroup(g, deferred).outcome \in Nat
<1>1. /\ DOMAIN g = 1..GroupSize /\ IsFiniteSet(1..GroupSize)
      /\ \A i \in 1..GroupSize : IsTrajectory(g[i])
  BY DataConstants, SelectionTypes, FS_Interval
<1>2. OutcomeVariance(g) \in Nat
  <2> DEFINE S == {i \in DOMAIN g : g[i].eligible}
             f == [i \in DOMAIN g |-> g[i].outcome]
  <2>1. S \in SUBSET (1..GroupSize)
    BY <1>1
  <2>2. IsFiniteSet(S)
    BY <1>1, <2>1, FS_Subset
  <2>3. Ints(S, f)
    BY <1>1 DEF Ints, IsTrajectory
  <2>4. SampleVariance(S, f) \in Nat
    BY <2>2, <2>3, SampleVarianceIsNat
  <2> QED
    BY <2>4 DEF OutcomeVariance
<1>3. IgVariance(g) \in Nat
  <2> DEFINE I == UNION {DOMAIN g[i].gains : i \in DOMAIN g}
             P == [k \in I |-> {i \in DOMAIN g : k \in DOMAIN g[i].gains}]
             U == {k \in I : Cardinality(P[k]) >= 2}
             count == [k \in I |-> Cardinality(P[k])]
             weighted == [k \in I |-> count[k] * SampleVariance(P[k],
                            [i \in P[k] |-> g[i].gains[k]])]
  <2>1. \A k \in I : IsFiniteSet(P[k]) /\ count[k] \in Nat /\ weighted[k] \in Nat
    <3> SUFFICES ASSUME NEW k \in I
                 PROVE  IsFiniteSet(P[k]) /\ count[k] \in Nat /\ weighted[k] \in Nat
      OBVIOUS
    <3>1. P[k] \in SUBSET (1..GroupSize)
      BY <1>1
    <3>2. IsFiniteSet(P[k])
      BY <1>1, <3>1, FS_Subset
    <3>3. Ints(P[k], [i \in P[k] |-> g[i].gains[k]])
      <4>1. \A i \in P[k] : g[i].gains[k] \in Int
        BY <1>1 DEF IsTrajectory
      <4> QED
        BY <4>1 DEF Ints
    <3>4. SampleVariance(P[k], [i \in P[k] |-> g[i].gains[k]]) \in Nat
      BY <3>2, <3>3, SampleVarianceIsNat
    <3>5. Cardinality(P[k]) \in Nat
      BY <3>2, FS_CardinalityType
    <3>6. /\ count[k] = Cardinality(P[k])
          /\ weighted[k] = count[k] * SampleVariance(P[k], [i \in P[k] |-> g[i].gains[k]])
      OBVIOUS
    <3> HIDE DEF P, count, weighted, I
    <3>7. \A a, b \in Nat : a * b \in Nat
      OBVIOUS
    <3> QED
      BY <3>2, <3>4, <3>5, <3>6, <3>7
  <2>2. IsFiniteSet(I)
    <3> DEFINE F == {T \in SUBSET (1..GroupSize) :
                       IsFiniteSet(UNION {DOMAIN g[i].gains : i \in T})}
    <3>1. {} \in F
      <4>1. UNION {DOMAIN g[i].gains : i \in {}} = {}
        OBVIOUS
      <4> QED
        BY <4>1, FS_EmptySet
    <3>2. ASSUME NEW T \in SUBSET (1..GroupSize), NEW x \in (1..GroupSize) \ T, T \in F
          PROVE  T \cup {x} \in F
      <4>1. UNION {DOMAIN g[i].gains : i \in T \cup {x}}
              = (UNION {DOMAIN g[i].gains : i \in T}) \cup DOMAIN g[x].gains
        OBVIOUS
      <4>2. IsFiniteSet(DOMAIN g[x].gains)
        BY <1>1 DEF IsTrajectory
      <4>3. IsFiniteSet(UNION {DOMAIN g[i].gains : i \in T})
        BY <3>2
      <4>4. IsFiniteSet((UNION {DOMAIN g[i].gains : i \in T}) \cup DOMAIN g[x].gains)
        BY <4>2, <4>3, FS_Union
      <4> QED
        BY <4>1, <4>4
    <3>3. 1..GroupSize \in F
      <4> HIDE DEF F
      <4> QED
        BY <1>1, <3>1, <3>2, FamilyOfSubsets
    <3> QED
      BY <1>1, <3>3
  <2>3. IgVariance(g) = IF U = {} THEN 0 ELSE SumOn(U, weighted) \div SumOn(U, count)
    BY Sums DEF IgVariance
  <2>4. U \in SUBSET I /\ \A k \in U : count[k] >= 2
    OBVIOUS
  <2> HIDE DEF I, P, U, count, weighted
  <2>5. IsFiniteSet(U)
    BY <2>2, <2>4, FS_Subset
  <2>6. \A k \in U : weighted[k] \in Nat /\ count[k] \in Nat /\ count[k] >= 2
    BY <2>1, <2>4
  <2>7. SumOn(U, weighted) \in Nat /\ SumOn(U, count) \in Nat
    BY <2>5, <2>6, SumNat
  <2>8. CASE U # {}
    <3>1. PICK k \in U : TRUE
      BY <2>8
    <3>2. Ints(U, count)
      BY <2>6 DEF Ints
    <3>3. SumOn(U, count) = count[k] + SumOn(U \ {k}, count)
      BY <2>5, <3>2, SumRemove
    <3>4. SumOn(U \ {k}, count) \in Nat
      <4>1. IsFiniteSet(U \ {k}) /\ \A j \in U \ {k} : count[j] \in Nat
        BY <2>5, <2>6, FS_RemoveElement
      <4> QED
        BY <4>1, SumNat
    <3>5. SumOn(U, count) > 0
      BY <2>6, <3>3, <3>4
    <3>6. \A a, b \in Nat : b > 0 => a \div b \in Nat
      OBVIOUS
    <3> QED
      BY <2>3, <2>7, <2>8, <3>5, <3>6
  <2> QED
    BY <2>3, <2>8
<1> QED
  BY <1>2, <1>3 DEF PromptGroup

-----------------------------------------------------------------------------
(* Medians and the statistics of a channel                                  *)

LEMMA MedianOfValues ==
  ASSUME NEW S, IsFiniteSet(S), NEW f, \A x \in S : x \in Nat /\ f[x] \in Nat
  PROVE  /\ Median2(S, f) \in Nat
         /\ S # {} /\ (\A x \in S : f[x] > 0) => Median2(S, f) > 0
<1> DEFINE n == Cardinality(S)
<1>0. PICK R : R = {q \in S \X S : f[q[1]] < f[q[2]] \/ (f[q[1]] = f[q[2]] /\ q[1] < q[2])}
  OBVIOUS
<1>1. n \in Nat
  BY FS_CardinalityType
<1>2. \A a, b \in S : (<<a, b>> \in R) <=> (f[a] < f[b] \/ (f[a] = f[b] /\ a < b))
  BY <1>0
<1>3. StrictOrder(R, S)
  BY <1>2 DEF StrictOrder
<1>4. PICK rank : rank = [a \in S |-> Cardinality({b \in S : <<b, a>> \in R})]
  OBVIOUS
<1>5. \A i \in 0 .. n - 1 : \E a \in S : rank[a] = i
  <2> HIDE DEF n
  <2>1. \A i \in 0 .. Cardinality(S) - 1 : \E a \in S : rank[a] = i
    BY <1>3, <1>4, RanksAreAll
  <2> QED
    BY <2>1 DEF n
<1>6. PICK sorted : sorted = SetInOrder(S, LAMBDA a, b : f[a] < f[b] \/ (f[a] = f[b] /\ a < b))
  OBVIOUS
<1>7. sorted = [i \in 1 .. n |-> CHOOSE a \in S : rank[a] = i - 1]
  <2>1. rank = [a \in S |-> Cardinality({b \in S : f[b] < f[a] \/ (f[b] = f[a] /\ b < a)})]
    <3>1. \A a \in S : {b \in S : <<b, a>> \in R}
                         = {b \in S : f[b] < f[a] \/ (f[b] = f[a] /\ b < a)}
      BY <1>2
    <3> QED
      BY <1>4, <3>1
  <2> QED
    BY <1>6, <2>1 DEF SetInOrder
<1>8. Len(sorted) = n
  BY <1>1, <1>7
<1>9. Median2(S, f) = IF n = 0 THEN 0
                      ELSE f[sorted[(n + 1) \div 2]] + f[sorted[(n \div 2) + 1]]
  BY <1>6, <1>8 DEF Median2
<1> HIDE DEF n
<1>10. CASE n = 0
  BY <1>9, <1>10, FS_EmptySet DEF n
<1>11. CASE n # 0
  <2>1. (n + 1) \div 2 \in 1 .. n /\ (n \div 2) + 1 \in 1 .. n
    BY <1>1, <1>11
  <2>2. \A i \in 1 .. n : sorted[i] \in S
    <3> SUFFICES ASSUME NEW i \in 1 .. n PROVE sorted[i] \in S
      OBVIOUS
    <3>1. i - 1 \in 0 .. n - 1
      BY <1>1
    <3>2. \E a \in S : rank[a] = i - 1
      BY <1>5, <3>1
    <3> QED
      BY <1>7, <3>2
  <2>3. PICK a, b \in S : a = sorted[(n + 1) \div 2] /\ b = sorted[(n \div 2) + 1]
    BY <2>1, <2>2
  <2>4. Median2(S, f) = f[a] + f[b]
    BY <1>9, <1>11, <2>3
  <2> QED
    BY <2>4
<1> QED
  BY <1>10, <1>11

ScaleStates == [scale : Nat, observations : Seq(Nat), reference : Nat]

(* Statistics over the pool D: a live channel has something positive in it  *)
(* and a scale to divide by.                                                *)
StatsOver(t, D) ==
  /\ t.excess \in [D -> Nat] /\ t.median \in Nat /\ t.mean \in Nat /\ t.scale \in Nat
  /\ t.valid => t.median > 0
  /\ t.mayMove => t.valid
  /\ t.active => t.valid /\ t.mayMove /\ t.scale > 0

LEMMA PoolStatsType ==
  ASSUME NEW c \in Channels, NEW state \in ScaleStates,
         NEW D \in SUBSET Nat, IsFiniteSet(D), NEW variance \in [D -> Nat],
         NEW provisional \in BOOLEAN
  PROVE  StatsOver(PoolStats(c, state, variance, provisional), D)
<1> DEFINE t == PoolStats(c, state, variance, provisional)
           excess == [p \in D |-> IF variance[p] > NoiseFloor[c]
                                    THEN variance[p] - NoiseFloor[c] ELSE 0]
           positive == {p \in D : excess[p] > 0}
           mean == IF D = {} THEN 0
                   ELSE (SumOn(D, excess) * MeanUnit) \div Cardinality(D)
           scale == IF state.scale # 0 THEN state.scale
                    ELSE IF provisional THEN Median2(positive, excess) ELSE 0
           active == /\ SignalPresent(mean, Cardinality(positive))
                     /\ Healthy(mean, state.reference)
                     /\ scale > 0
<1>1. DOMAIN variance = D
  OBVIOUS
<1>2. /\ t.excess = excess /\ t.median = Median2(positive, excess) /\ t.mean = mean
      /\ t.scale = scale
      /\ t.active <=> active
      /\ t.valid <=> positive # {}
      /\ t.mayMove <=> positive # {} /\ (state.reference = 0 \/ active)
  BY <1>1, Sums DEF PoolStats
<1>3. excess \in [D -> Nat]
  BY SelectionTypes
<1>4. positive \in SUBSET D
  OBVIOUS
<1>5. IsFiniteSet(positive)
  BY <1>4, FS_Subset
<1>6. \A p \in positive : excess[p] > 0
  OBVIOUS
<1> HIDE DEF excess, positive
<1>7. /\ Median2(positive, excess) \in Nat
      /\ positive # {} => Median2(positive, excess) > 0
  <2>1. positive \in SUBSET Nat /\ \A p \in positive : p \in Nat /\ excess[p] \in Nat
    BY <1>3, <1>4
  <2> QED
    BY <1>5, <1>6, <2>1, MedianOfValues
<1>8. mean \in Nat
  <2>1. CASE D # {}
    <3>1. Cardinality(D) \in Nat /\ Cardinality(D) # 0
      BY <2>1, FS_CardinalityType, FS_EmptySet
    <3>2. \A p \in D : excess[p] \in Nat
      BY <1>3
    <3>3. SumOn(D, excess) \in Nat
      BY <3>2, SumNat
    <3>4. SumOn(D, excess) * MeanUnit \in Nat
      BY <3>3, SelectionTypes
    <3>5. \A a, b \in Nat : b # 0 => a \div b \in Nat
      OBVIOUS
    <3> QED
      BY <2>1, <3>1, <3>4, <3>5
  <2> QED
    BY <2>1
<1>9. scale \in Nat
  BY <1>7 DEF ScaleStates
<1>10. active => positive # {} /\ scale > 0
  <2>1. Cardinality({}) = 0
    BY FS_EmptySet
  <2> HIDE DEF mean, scale
  <2> QED
    BY <2>1, SelectionTypes DEF SignalPresent
<1> HIDE DEF mean, scale, active, t
<1>11. StatsOver(t, D)
  BY <1>2, <1>3, <1>7, <1>8, <1>9, <1>10 DEF StatsOver
<1> QED
  BY <1>11 DEF t

(* After a successful update a scale is still one, and a channel that was   *)
(* alive in the first of all updates has got one.                           *)
LEMMA CommittedKeepsScale ==
  ASSUME NEW state \in ScaleStates, NEW D, NEW t, StatsOver(t, D),
         NEW first \in BOOLEAN, NEW s \in CommittedAfterSuccess(state, t, first)
  PROVE  /\ s \in ScaleStates
         /\ state.scale > 0 => s.scale > 0
         /\ first /\ t.active => s.scale > 0
<1>1. state.scale \in Nat /\ state.reference \in Nat /\ state.observations \in Seq(Nat)
  BY DEF ScaleStates
<1>2. t.median \in Nat /\ t.mean \in Nat
  BY DEF StatsOver
<1>3. CASE ~ t.valid
  BY <1>1, <1>3 DEF CommittedAfterSuccess, StatsOver
<1>4. CASE t.valid
  <2>1. PICK observations : observations = Append(state.observations, t.mean)
    OBVIOUS
  <2>2. observations \in Seq(Nat)
    BY <1>1, <1>2, <2>1
  <2>3. PICK reference : reference =
          IF state.reference = 0 /\ Len(observations) >= ReferenceUpdates
            THEN Median2(1..ReferenceUpdates, observations) ELSE state.reference
    OBVIOUS
  <2>4. reference \in Nat
    <3>1. CASE Len(observations) >= ReferenceUpdates
      <4>1. 1..ReferenceUpdates \in SUBSET Nat /\ IsFiniteSet(1..ReferenceUpdates)
        BY SelectionTypes, FS_Interval
      <4>2. \A i \in 1..ReferenceUpdates : i \in Nat /\ observations[i] \in Nat
        BY <2>2, <3>1, SelectionTypes
      <4>3. Median2(1..ReferenceUpdates, observations) \in Nat
        BY <4>1, <4>2, MedianOfValues
      <4> QED
        BY <1>1, <2>3, <4>3
    <3>2. CASE ~ (Len(observations) >= ReferenceUpdates)
      BY <1>1, <2>3, <3>2
    <3> QED
      BY <3>1, <3>2
  <2>5. PICK v \in IF ~ t.mayMove THEN {state.scale}
                   ELSE IF state.scale = 0 THEN {IF first THEN t.median ELSE 0}
                   ELSE Between(state.scale, t.median) :
          s = [scale |-> v, observations |-> observations, reference |-> reference]
    BY <1>4, <2>1, <2>3 DEF CommittedAfterSuccess
  <2>6. t.median > 0
    BY <1>4 DEF StatsOver
  <2>7. v \in Nat /\ (state.scale > 0 => v > 0) /\ (first /\ t.active => v > 0)
    <3>1. CASE ~ t.mayMove
      BY <1>1, <2>5, <3>1 DEF StatsOver
    <3>2. CASE t.mayMove /\ state.scale = 0
      BY <1>2, <2>5, <2>6, <3>2
    <3>3. CASE t.mayMove /\ state.scale # 0
      <4>1. v \in Between(state.scale, t.median)
        BY <2>5, <3>3
      <4> QED
        BY <1>1, <1>2, <2>6, <3>3, <4>1 DEF Between
    <3> QED
      BY <3>1, <3>2, <3>3
  <2> QED
    BY <2>2, <2>4, <2>5, <2>7 DEF ScaleStates
<1> QED
  BY <1>3, <1>4

-----------------------------------------------------------------------------
(* The decision over a pool                                                 *)

(* Both channels' statistics, as select takes them.                         *)
StatsOf(m, states, variances, provisional) ==
  [c \in Channels |-> IF m = "paper" THEN PaperStats(variances[c])
                      ELSE PoolStats(c, states[c], variances[c], provisional)]

LEMMA ScoresType ==
  ASSUME NEW m \in Modes, NEW D, NEW variances, NEW stats,
         \A c \in Channels : variances[c] \in [D -> Nat] /\ StatsOver(stats[c], D),
         NEW scores, scores = Scores(m, stats, variances)
  PROVE  /\ scores \in [D -> Nat]
         /\ m # "paper" /\ (\E p \in D : scores[p] > 0) => \E c \in Channels : stats[c].active
<1> DEFINE others(c) == {d \in Channels \ {c} : stats[d].active}
           weight == [c \in Channels |->
             IF ~ stats[c].active THEN 0
             ELSE Alpha[c] * (IF others(c) = {} \/ m = "answer" THEN 1
                              ELSE stats[CHOOSE d \in others(c) : TRUE].scale)]
           ig(p) == stats["ig"].excess[p]
           outcome(p) == stats["outcome"].excess[p]
<1>1. DOMAIN variances["outcome"] = D
  BY DEF Channels
<1>2. scores = [p \in D |->
        CASE m = "paper"  -> variances["outcome"][p]
          [] m = "answer" -> weight["outcome"] * outcome(p)
          [] m = "dual"   -> weight["ig"] * ig(p) + weight["outcome"] * outcome(p)]
  BY <1>1 DEF Scores
<1>3. ASSUME NEW c \in Channels
      PROVE  weight[c] \in Nat /\ (~ stats[c].active => weight[c] = 0)
  <2>1. CASE ~ stats[c].active
    BY <2>1
  <2>2. CASE stats[c].active
    <3>1. PICK k : k = IF others(c) = {} \/ m = "answer" THEN 1
                       ELSE stats[CHOOSE d \in others(c) : TRUE].scale
      OBVIOUS
    <3>2. k \in Nat
      <4>1. \A d \in others(c) : stats[d].scale \in Nat
        BY DEF StatsOver
      <4> HIDE DEF others
      <4>2. CASE others(c) # {}
        <5>1. (CHOOSE d \in others(c) : TRUE) \in others(c)
          BY <4>2
        <5> QED
          BY <3>1, <4>1, <5>1
      <4> QED
        BY <3>1, <4>2
    <3>3. weight[c] = Alpha[c] * k
      BY <2>2, <3>1
    <3>4. Alpha[c] \in Nat
      BY SelectionTypes
    <3> HIDE DEF weight
    <3>5. Alpha[c] * k \in Nat
      BY <3>2, <3>4
    <3> QED
      BY <2>2, <3>3, <3>5
  <2> QED
    BY <2>1, <2>2
<1>4. "ig" \in Channels /\ "outcome" \in Channels
  BY DEF Channels
<1>5. \A p \in D : ig(p) \in Nat /\ outcome(p) \in Nat
  BY <1>4 DEF StatsOver
<1> HIDE DEF weight, ig, outcome
<1>6. \A a, b \in Nat : a * b \in Nat
  OBVIOUS
<1>7. ASSUME NEW p \in D
      PROVE  /\ weight["ig"] * ig(p) \in Nat /\ weight["outcome"] * outcome(p) \in Nat
             /\ ~ stats["ig"].active => weight["ig"] * ig(p) = 0
             /\ ~ stats["outcome"].active => weight["outcome"] * outcome(p) = 0
  <2>1. weight["ig"] \in Nat /\ weight["outcome"] \in Nat /\ ig(p) \in Nat /\ outcome(p) \in Nat
    BY <1>3, <1>4, <1>5
  <2>2. \A b \in Nat : 0 * b = 0
    OBVIOUS
  <2> QED
    BY <1>3, <1>4, <1>6, <2>1, <2>2
<1>8. \A p \in D : variances["outcome"][p] \in Nat
  BY <1>4
<1>9. ASSUME NEW p \in D
      PROVE  /\ scores[p] \in Nat
             /\ m # "paper" /\ scores[p] > 0 => \E c \in Channels : stats[c].active
  <2>1. CASE m = "paper"
    BY <1>2, <1>8, <2>1
  <2>2. CASE m = "answer"
    <3>1. scores[p] = weight["outcome"] * outcome(p)
      BY <1>2, <2>2
    <3> QED
      BY <1>4, <1>7, <3>1
  <2>3. CASE m = "dual"
    <3>1. scores[p] = weight["ig"] * ig(p) + weight["outcome"] * outcome(p)
      BY <1>2, <2>3
    <3> QED
      BY <1>4, <1>7, <3>1
  <2> QED
    BY <2>1, <2>2, <2>3 DEF Modes
<1> QED
  BY <1>2, <1>9

IsPool(candidates) ==
  /\ DOMAIN candidates \in SUBSET Prompts
  /\ \A p \in DOMAIN candidates : candidates[p].ig \in Nat /\ candidates[p].outcome \in Nat

LEMMA PromptsAreFinite ==
  \A D \in SUBSET Prompts : D \in SUBSET Nat /\ IsFiniteSet(D) /\ Cardinality(D) \in Nat
<1>0. Size \in Nat
  BY DataConstants
<1>1. IsFiniteSet(Prompts) /\ Prompts \in SUBSET Nat
  BY <1>0, FS_Interval DEF Prompts
<1> QED
  BY <1>1, FS_Subset, FS_CardinalityType

LEMMA DecisionOverPool ==
  ASSUME NEW m \in Modes, NEW states \in [Channels -> ScaleStates],
         NEW candidates, IsPool(candidates), NEW provisional \in BOOLEAN, NEW maximum \in Nat,
         NEW d, d = SelectionDecision(m, states, candidates, provisional, maximum)
  PROVE  /\ d.scores \in [DOMAIN candidates -> Nat]
         /\ d.selected = Chosen(d.scores)
         /\ d.selected \in SUBSET Positive(d.scores)
         /\ MinimalMass(d.scores, DOMAIN candidates, d.selected)
         /\ \A c \in Channels : StatsOver(d.stats[c], DOMAIN candidates)
         /\ ~ d.refill /\ ~ d.skip => Cardinality(d.selected) >= MinSelected
         /\ m # "paper" /\ d.selected # {} => \E c \in Channels : d.stats[c].active
<1> DEFINE D == DOMAIN candidates
           variances == [c \in Channels |-> [p \in D |-> candidates[p][c]]]
           stats == StatsOf(m, states, variances, provisional)
           scores == Scores(m, stats, variances)
<1>1. /\ d.scores = scores /\ d.stats = stats /\ d.selected = Chosen(scores)
      /\ d.refill <=> /\ Cardinality(d.selected) < MinSelected
                      /\ Cardinality(D) < maximum
      /\ d.skip <=> /\ Cardinality(d.selected) < MinSelected
                    /\ Cardinality(D) >= maximum
  BY DEF SelectionDecision, StatsOf, Chosen
<1>2. D \in SUBSET Nat /\ IsFiniteSet(D) /\ Cardinality(D) \in Nat
  BY PromptsAreFinite DEF IsPool
<1>3. \A c \in Channels : variances[c] \in [D -> Nat]
  BY DEF IsPool, Channels
<1>4. \A c \in Channels : StatsOver(stats[c], D)
  <2> SUFFICES ASSUME NEW c \in Channels PROVE StatsOver(stats[c], D)
    OBVIOUS
  <2>1. CASE m = "paper"
    <3>1. stats[c] = PaperStats(variances[c])
      BY <2>1 DEF StatsOf
    <3> HIDE DEF stats, variances
    <3> QED
      BY <1>3, <3>1 DEF PaperStats, StatsOver
  <2>2. CASE m # "paper"
    <3>1. stats[c] = PoolStats(c, states[c], variances[c], provisional)
      BY <2>2 DEF StatsOf
    <3>2. states[c] \in ScaleStates
      OBVIOUS
    <3> HIDE DEF stats, variances
    <3> QED
      BY <1>2, <1>3, <3>1, <3>2, PoolStatsType
  <2> QED
    BY <2>1, <2>2
<1> HIDE DEF variances, stats, scores
<1>5. /\ scores \in [D -> Nat]
      /\ m # "paper" /\ (\E p \in D : scores[p] > 0) => \E c \in Channels : stats[c].active
  BY <1>3, <1>4, ScoresType DEF scores
<1>6. Chosen(scores) \in SUBSET Positive(scores) /\ MinimalMass(scores, D, Chosen(scores))
  BY <1>2, <1>5, ChosenIsMinimalMass
<1>7. Cardinality(Chosen(scores)) \in Nat
  <2>1. Chosen(scores) \in SUBSET D
    BY <1>5, <1>6 DEF Positive
  <2> QED
    BY <1>2, <2>1, FS_Subset, FS_CardinalityType
<1>8. ~ d.refill /\ ~ d.skip => Cardinality(d.selected) >= MinSelected
  BY <1>1, <1>2, <1>7, SelectionTypes
<1>9. m # "paper" /\ d.selected # {} => \E c \in Channels : d.stats[c].active
  BY <1>1, <1>5, <1>6 DEF Positive
<1> QED
  BY <1>1, <1>4, <1>5, <1>6, <1>8, <1>9

-----------------------------------------------------------------------------
(* The sampler's stream                                                     *)

LEMMA StreamTypes ==
  /\ Size \in Nat \ {0} /\ Cardinality(Epochs) \in Nat
  /\ Epochs = 0..Cardinality(Epochs) - 1
  /\ Initial \in Nat \ {0} /\ WaveSize \in Nat \ {0} /\ Refill \in Nat \ {0}
  /\ Maximum \in Nat \ {0}
<1>1. IsFiniteSet(Epochs) /\ Epochs = 0..Cardinality(Epochs) - 1
  BY DataConstants
<1>2. Cardinality(Epochs) \in Nat
  BY <1>1, FS_CardinalityType
<1> QED
  BY <1>1, <1>2, DataConstants

LEMMA Division ==
  ASSUME NEW n \in Nat, NEW s \in Nat \ {0}
  PROVE  /\ n \div s \in Nat /\ n % s \in 0..s - 1
         /\ n = (n \div s) * s + (n % s)
  OBVIOUS

LEMMA DivisionIsUnique ==
  ASSUME NEW q \in Nat, NEW s \in Nat \ {0}, NEW r \in 0..s - 1
  PROVE  /\ q * s + r \in Nat
         /\ (q * s + r) \div s = q /\ (q * s + r) % s = r
<1>1. q * s \in Nat /\ q * s + r \in Nat
  OBVIOUS
<1> DEFINE n == q * s + r
           d == n \div s
           m == n % s
<1>2. d \in Nat /\ m \in 0..s - 1 /\ n = d * s + m
  BY <1>1, Division
<1> HIDE DEF d, m
<1>3. ~ (d < q)
  <2> SUFFICES ASSUME d < q PROVE FALSE
    OBVIOUS
  <2>1. (d + 1) * s <= q * s
    <3>1. \A a, b \in Nat : a <= b => a * s <= b * s
      OBVIOUS
    <3>2. d + 1 \in Nat /\ d + 1 <= q
      BY <1>2
    <3> QED
      BY <3>1, <3>2
  <2>2. (d + 1) * s = d * s + s /\ d * s \in Nat
    BY <1>2
  <2> QED
    BY <1>1, <1>2, <2>1, <2>2
<1>4. ~ (q < d)
  <2> SUFFICES ASSUME q < d PROVE FALSE
    OBVIOUS
  <2>1. (q + 1) * s <= d * s
    <3>1. \A a, b \in Nat : a <= b => a * s <= b * s
      OBVIOUS
    <3>2. q + 1 \in Nat /\ q + 1 <= d
      BY <1>2
    <3> QED
      BY <1>2, <3>1, <3>2
  <2>2. (q + 1) * s = q * s + s /\ d * s \in Nat
    BY <1>2
  <2> QED
    BY <1>1, <1>2, <2>1, <2>2
<1>5. d = q
  BY <1>2, <1>3, <1>4
<1>6. m = r
  BY <1>1, <1>2, <1>5
<1> QED
  BY <1>1, <1>5, <1>6 DEF d, m

Total == Size * Cardinality(Epochs)

LEMMA RowAtType ==
  ASSUME NEW n \in Nat, n < Total
  PROVE  /\ n \div Size \in Epochs /\ n % Size \in 0..Size - 1
         /\ (n % Size) + 1 \in Prompts
         /\ RowAt(n) \in Row
         /\ RowAt(n).epoch = n \div Size
         /\ RowAt(n).prompt = Shuffle[n \div Size][(n % Size) + 1]
<1>1. Size \in Nat \ {0} /\ Cardinality(Epochs) \in Nat
  BY StreamTypes
<1>2. n \div Size \in Nat /\ n % Size \in 0..Size - 1 /\ n = (n \div Size) * Size + (n % Size)
  BY <1>1, Division
<1>3. n \div Size < Cardinality(Epochs)
  <2> SUFFICES ASSUME ~ (n \div Size < Cardinality(Epochs)) PROVE FALSE
    OBVIOUS
  <2> DEFINE d == n \div Size
             m == n % Size
  <2>0. d \in Nat /\ m \in 0..Size - 1 /\ n = d * Size + m
    BY <1>2
  <2> HIDE DEF d, m
  <2>1. Cardinality(Epochs) * Size <= d * Size
    <3>1. \A a, b, s \in Nat : a <= b => a * s <= b * s
      OBVIOUS
    <3>2. Cardinality(Epochs) <= d
      BY <1>1, <2>0 DEF d
    <3> QED
      BY <1>1, <2>0, <3>1, <3>2
  <2>2. Total = Cardinality(Epochs) * Size /\ Total \in Nat /\ d * Size \in Nat
    BY <1>1, <2>0 DEF Total
  <2> QED
    BY <2>0, <2>1, <2>2, <1>1
<1>4. n \div Size \in Epochs
  BY <1>1, <1>2, <1>3, StreamTypes
<1>5. (n % Size) + 1 \in Prompts
  BY <1>1, <1>2 DEF Prompts
<1>6. Shuffle[n \div Size][(n % Size) + 1] \in Prompts
  BY <1>4, <1>5, DataConstants
<1> QED
  BY <1>2, <1>4, <1>5, <1>6 DEF RowAt, Row

(* The permutation of an epoch, being onto, is one to one.                  *)
LEMMA ShuffleIsOneToOne ==
  ASSUME NEW e \in Epochs
  PROVE  \A i, j \in Prompts : Shuffle[e][i] = Shuffle[e][j] => i = j
<1>1. Shuffle[e] \in Surjection(Prompts, Prompts)
  BY DataConstants DEF Surjection
<1>2. IsFiniteSet(Prompts)
  BY PromptsAreFinite
<1>3. Shuffle[e] \in Injection(Prompts, Prompts)
  BY <1>1, <1>2, FS_SurjSameCardinalityImpliesInj
<1> QED
  BY <1>3 DEF Injection, IsInjective

LEMMA RowsAreDistinct ==
  ASSUME NEW a \in Nat, a < Total, NEW b \in Nat, b < Total, RowAt(a) = RowAt(b)
  PROVE  a = b
<1>1. Size \in Nat \ {0}
  BY StreamTypes
<1>2. a \div Size = b \div Size /\ a \div Size \in Epochs
  BY RowAtType
<1>3. (a % Size) + 1 = (b % Size) + 1
  BY <1>2, RowAtType, ShuffleIsOneToOne
<1>4. a % Size \in Nat /\ b % Size \in Nat
  BY <1>1, Division
<1>5. a % Size = b % Size
  BY <1>3, <1>4
<1>6. a = (a \div Size) * Size + (a % Size) /\ b = (b \div Size) * Size + (b % Size)
  BY <1>1, Division
<1> QED
  BY <1>2, <1>5, <1>6

Samplers == [epoch : Epochs, cursor : 0..Size]

LEMMA PositionType ==
  ASSUME NEW s \in Samplers
  PROVE  /\ Position(s) \in Nat /\ Position(s) <= Total /\ Total \in Nat
         /\ \A e \in Epochs : e < s.epoch => e * Size \in Nat /\ e * Size + Size <= Position(s)
<1>1. /\ Size \in Nat \ {0} /\ Cardinality(Epochs) \in Nat
      /\ s.epoch \in Nat /\ s.epoch + 1 <= Cardinality(Epochs) /\ s.cursor \in 0..Size
      /\ \A e \in Epochs : e \in Nat
  BY StreamTypes DEF Samplers
<1>2. \A a, b, c \in Nat : a <= b => a * c <= b * c
  OBVIOUS
<1>3. s.epoch * Size \in Nat /\ Total \in Nat /\ Total = Cardinality(Epochs) * Size
  BY <1>1 DEF Total
<1>4. (s.epoch + 1) * Size <= Total /\ (s.epoch + 1) * Size = s.epoch * Size + Size
  <2>1. PICK e, k, z \in Nat : e = s.epoch /\ k = Cardinality(Epochs) /\ z = Size
    BY <1>1
  <2>2. (e + 1) * z <= k * z
    <3>1. e + 1 \in Nat /\ e + 1 <= k
      BY <1>1, <2>1
    <3> QED
      BY <1>2, <3>1
  <2>3. (e + 1) * z = e * z + z
    OBVIOUS
  <2> QED
    BY <1>3, <2>1, <2>2, <2>3
<1>5. Position(s) = s.epoch * Size + s.cursor
  BY DEF Position
<1>6. ASSUME NEW e \in Epochs, e < s.epoch
      PROVE  e * Size \in Nat /\ e * Size + Size <= Position(s)
  <2>1. e \in Nat /\ e + 1 <= s.epoch /\ e + 1 \in Nat
    BY <1>1, <1>6
  <2>2. (e + 1) * Size <= s.epoch * Size
    BY <1>1, <1>2, <2>1
  <2>3. (e + 1) * Size = e * Size + Size /\ e * Size \in Nat
    BY <1>1, <2>1
  <2> QED
    BY <1>1, <1>3, <1>5, <2>2, <2>3
<1> QED
  BY <1>1, <1>3, <1>4, <1>5, <1>6

(* After an allocation the sampler stands behind what it gave.              *)
LEMMA AllocationMoves ==
  ASSUME NEW s \in Samplers, NEW count \in Nat \ {0}, Position(s) + count <= Total
  PROVE  /\ AfterAllocating(s, count) \in Samplers
         /\ Position(AfterAllocating(s, count)) = Position(s) + count
         /\ Allocated(s, count) \in Seq(Row) /\ Len(Allocated(s, count)) = count
         /\ \A i \in 1..count : Allocated(s, count)[i] = RowAt(Position(s) + i - 1)
<1> DEFINE n == Position(s) + count - 1
<1>1. Position(s) \in Nat /\ Total \in Nat /\ Size \in Nat \ {0}
  BY PositionType, StreamTypes
<1>2. n \in Nat /\ n < Total
  BY <1>1
<1>3. n \div Size \in Epochs /\ n % Size \in 0..Size - 1
  BY <1>2, RowAtType
<1>4. n = (n \div Size) * Size + (n % Size)
  BY <1>1, <1>2, Division
<1>5. AfterAllocating(s, count) = [epoch |-> n \div Size, cursor |-> (n % Size) + 1]
  BY DEF AfterAllocating
<1>6. (n % Size) + 1 \in 0..Size
  BY <1>1, <1>3
<1>7. AfterAllocating(s, count) \in Samplers
  BY <1>3, <1>5, <1>6 DEF Samplers
<1>8. Position(AfterAllocating(s, count)) = (n \div Size) * Size + ((n % Size) + 1)
  BY <1>5 DEF Position
<1>9. Position(AfterAllocating(s, count)) = n + 1
  <2> DEFINE a == (n \div Size) * Size
             b == n % Size
  <2>1. b \in Nat
    BY <1>3
  <2>2. a \in Int
    <3>1. n \div Size \in Nat
      BY <1>1, <1>2, Division
    <3> QED
      BY <1>1, <3>1
  <2>3. n = a + b /\ Position(AfterAllocating(s, count)) = a + (b + 1)
    BY <1>4, <1>8
  <2> HIDE DEF a, b
  <2> QED
    BY <1>2, <2>1, <2>2, <2>3
<1>10. n + 1 = Position(s) + count
  BY <1>1
<1>11. Allocated(s, count) = [i \in 1..count |-> RowAt(Position(s) + i - 1)]
  BY DEF Allocated
<1>12. \A i \in 1..count : RowAt(Position(s) + i - 1) \in Row
  <2> SUFFICES ASSUME NEW i \in 1..count PROVE RowAt(Position(s) + i - 1) \in Row
    OBVIOUS
  <2>1. Position(s) + i - 1 \in Nat /\ Position(s) + i - 1 < Total
    BY <1>1
  <2> QED
    BY <2>1, RowAtType
<1>13. Allocated(s, count) \in Seq(Row) /\ Len(Allocated(s, count)) = count
  BY <1>11, <1>12
<1> QED
  BY <1>7, <1>9, <1>10, <1>11, <1>13

-----------------------------------------------------------------------------
(* The invariant                                                            *)

(* rows are the first ones of the stream, and s stands behind them.         *)
StreamUpTo(s, rows) ==
  /\ s \in Samplers
  /\ rows \in Seq(Row) /\ Len(rows) = Position(s)
  /\ \A i \in DOMAIN rows : rows[i] = RowAt(i - 1)

(* learnt has no row twice and none but of rows.                            *)
LearntFrom(rows, learnt) ==
  /\ learnt \in Seq(Row)
  /\ \A i, j \in DOMAIN learnt : learnt[i] = learnt[j] => i = j
  /\ \A i \in DOMAIN learnt : \E k \in DOMAIN rows : learnt[i] = rows[k]

InAttempt == pc \notin {"idle", "dead"}

(* Where the rows are: drawn is the end of the stream, and an attempt has   *)
(* not yet learnt from what it drew.                                        *)
StreamInv ==
  /\ StreamUpTo(sampler, stream)
  /\ LearntFrom(stream, trained)
  /\ StreamUpTo(saved.sampler, saved.stream)
  /\ LearntFrom(saved.stream, saved.trained)
  /\ drawn \in Seq(Row) /\ Len(drawn) <= Len(stream)
  /\ \A i \in DOMAIN drawn : drawn[i] = stream[Len(stream) - Len(drawn) + i]
  /\ InAttempt => \A i \in DOMAIN trained, j \in DOMAIN drawn : trained[i] # drawn[j]

ValidGroups == [epoch : Epochs, prompt : Prompts, group : Groups]
WasDrawn(e, p) == \E j \in DOMAIN drawn : drawn[j] = [epoch |-> e, prompt |-> p]

(* What a collection and the pool are made of: rows of this attempt.  Until *)
(* the selected ones are scored, a valid group has all of its tasks.        *)
CollectionInv ==
  /\ mode \in Modes
  /\ pc \in {"idle", "collect", "results", "collected", "selected", "ready", "dead"}
  /\ target \in Nat
  /\ pc = "collect" => chunk \in Nat \ {0}
  /\ pending \in Seq(Row)
  /\ \A i \in DOMAIN pending : WasDrawn(pending[i].epoch, pending[i].prompt)
  /\ groups \in Seq(ValidGroups)
  /\ \A i \in DOMAIN groups : WasDrawn(groups[i].epoch, groups[i].prompt)
  /\ IsPool(pool)
  /\ \A p \in DOMAIN pool : WasDrawn(pool[p].epoch, p)
  /\ tasks \in [Prompts -> SUBSET Members]
  /\ Deferred /\ InAttempt /\ pc # "ready" =>
       /\ \A i \in DOMAIN groups : tasks[groups[i].prompt] = Members
       /\ \A p \in DOMAIN pool : tasks[p] = Members

Alive(states, updates) ==
  mode # "paper" /\ updates > 0 => \E c \in Channels : states[c].scale > 0

(* The decision is the one over the pool, the scales and the step of now.   *)
DecisionIsCurrent ==
  \E m, s, c, f : /\ m = mode /\ s = channels /\ c = pool /\ f = (step = 0)
                  /\ decision = SelectionDecision(m, s, c, f, Maximum)

(* The scales of the lineage, and the decision an update is made of.        *)
DecisionInv ==
  /\ channels \in [Channels -> ScaleStates] /\ step \in Nat /\ Alive(channels, step)
  /\ saved.channels \in [Channels -> ScaleStates] /\ saved.step \in Nat
  /\ Alive(saved.channels, saved.step)
  /\ pc \in {"selected", "ready"} =>
       DecisionIsCurrent /\ ~ decision.refill /\ ~ decision.skip

DataInv == StreamInv /\ CollectionInv /\ DecisionInv

(* d is a and then b.                                                       *)
IsJoin(d, a, b, S) ==
  /\ d \in Seq(S) /\ Len(d) = Len(a) + Len(b)
  /\ Len(a) \in Nat /\ Len(b) \in Nat
  /\ DOMAIN d = 1..Len(a) + Len(b) /\ DOMAIN a = 1..Len(a) /\ DOMAIN b = 1..Len(b)
  /\ \A i \in 1..Len(a) : d[i] = a[i]
  /\ \A i \in Len(a) + 1..Len(a) + Len(b) :
       i - Len(a) \in 1..Len(b) /\ d[i] = b[i - Len(a)]

LEMMA Joined ==
  ASSUME NEW S, NEW a \in Seq(S), NEW b \in Seq(S)
  PROVE  IsJoin(a \o b, a, b, S)
  BY DEF IsJoin

LEMMA EmptyIsStream ==
  StreamUpTo([epoch |-> 0, cursor |-> 0], <<>>)
<1>1. Size \in Nat \ {0} /\ Cardinality(Epochs) \in Nat /\ Epochs = 0..Cardinality(Epochs) - 1
  BY StreamTypes
<1>2. CASE 0 \in Epochs
  <2>1. [epoch |-> 0, cursor |-> 0] \in Samplers
    BY <1>1, <1>2 DEF Samplers
  <2>2. Position([epoch |-> 0, cursor |-> 0]) = 0
    BY <1>1 DEF Position
  <2> QED
    BY <2>1, <2>2 DEF StreamUpTo
<1>3. 0 \in Epochs
  BY DataConstants
<1> QED
  BY <1>2, <1>3

LEMMA StreamInit == Init => StreamInv
<1> SUFFICES ASSUME Init PROVE StreamInv
  OBVIOUS
<1>1. /\ sampler = [epoch |-> 0, cursor |-> 0] /\ stream = <<>> /\ trained = <<>> /\ drawn = <<>>
      /\ saved.sampler = [epoch |-> 0, cursor |-> 0] /\ saved.stream = <<>>
      /\ saved.trained = <<>> /\ pc = "idle"
  BY DEF Init, EmptyRecord, NothingCollected
<1>2. LearntFrom(<<>>, <<>>)
  BY DEF LearntFrom
<1> QED
  BY <1>1, <1>2, EmptyIsStream DEF StreamInv, InAttempt

(* What the selected prompts bring to the history.                          *)
SelectedRows == {[epoch |-> pool[p].epoch, prompt |-> p] : p \in decision.selected}

LEMMA SelectedRowsListed ==
  ASSUME StreamInv, CollectionInv, IsFiniteSet(decision.selected),
         decision.selected \in SUBSET DOMAIN pool
  PROVE  /\ SetToSeq(SelectedRows) \in Seq(Row)
         /\ \A i, j \in DOMAIN SetToSeq(SelectedRows) :
              SetToSeq(SelectedRows)[i] = SetToSeq(SelectedRows)[j] => i = j
         /\ \A i \in DOMAIN SetToSeq(SelectedRows) :
              \E j \in DOMAIN drawn : SetToSeq(SelectedRows)[i] = drawn[j]
<1> DEFINE f == [p \in decision.selected |-> [epoch |-> pool[p].epoch, prompt |-> p]]
<1>1. f \in Surjection(decision.selected, SelectedRows)
  BY DEF Surjection, SelectedRows
<1>2. IsFiniteSet(SelectedRows)
  BY <1>1, FS_Surjection
<1>3. PICK s : s = SetToSeq(SelectedRows)
  OBVIOUS
<1>4. s = CHOOSE g \in [1 .. Cardinality(SelectedRows) -> SelectedRows] : IsInjective(g)
  BY <1>3 DEF SetToSeq
<1>5. /\ s \in Seq(SelectedRows) /\ \A i, j \in DOMAIN s : s[i] = s[j] => i = j
  BY <1>2, <1>4, ListedOnce
<1>6. \A i \in DOMAIN s : s[i] \in SelectedRows
  BY <1>5
<1>7. \A r \in SelectedRows : \E j \in DOMAIN drawn : r = drawn[j]
  BY DEF SelectedRows, CollectionInv, WasDrawn
<1>8. \A r \in SelectedRows : r \in Row
  BY <1>7 DEF StreamInv
<1>9. s \in Seq(Row)
  BY <1>5, <1>8
<1> QED
  BY <1>3, <1>5, <1>6, <1>7, <1>9

LEMMA LearningMore ==
  ASSUME NEW rows \in Seq(Row), NEW learnt, LearntFrom(rows, learnt), NEW more \in Seq(Row),
         \A i, j \in DOMAIN more : more[i] = more[j] => i = j,
         \A i \in DOMAIN more : \E k \in DOMAIN rows : more[i] = rows[k],
         \A i \in DOMAIN learnt, j \in DOMAIN more : learnt[i] # more[j]
  PROVE  LearntFrom(rows, learnt \o more)
<1> DEFINE both == learnt \o more
<1>1. learnt \in Seq(Row) /\ both \in Seq(Row) /\ Len(both) = Len(learnt) + Len(more)
  BY DEF LearntFrom
<1>2. \A i \in DOMAIN both : \/ i \in DOMAIN learnt /\ both[i] = learnt[i]
                             \/ /\ i - Len(learnt) \in DOMAIN more
                                /\ both[i] = more[i - Len(learnt)]
  BY <1>1
<1>3. Len(learnt) \in Nat /\ \A i \in DOMAIN both : i \in Nat
  BY <1>1
<1> HIDE DEF both
<1>4. \A i, j \in DOMAIN both : both[i] = both[j] => i = j
  <2> SUFFICES ASSUME NEW i \in DOMAIN both, NEW j \in DOMAIN both, both[i] = both[j]
               PROVE  i = j
    OBVIOUS
  <2>1. CASE /\ i \in DOMAIN learnt /\ both[i] = learnt[i]
             /\ j \in DOMAIN learnt /\ both[j] = learnt[j]
    BY <2>1 DEF LearntFrom
  <2>2. CASE /\ i - Len(learnt) \in DOMAIN more /\ both[i] = more[i - Len(learnt)]
             /\ j - Len(learnt) \in DOMAIN more /\ both[j] = more[j - Len(learnt)]
    <3>1. i - Len(learnt) = j - Len(learnt)
      BY <2>2
    <3> QED
      BY <1>3, <3>1
  <2> QED
    BY <1>2, <2>1, <2>2
<1>5. \A i \in DOMAIN both : \E k \in DOMAIN rows : both[i] = rows[k]
  BY <1>2 DEF LearntFrom
<1> QED
  BY <1>1, <1>4, <1>5 DEF LearntFrom, both

(* A wave: new rows behind the stream, none of which it had.                *)
LEMMA WaveExtendsStream ==
  ASSUME StreamInv, CollectionInv, DrawWave
  PROVE  StreamInv'
<1> DEFINE new == Allocated(sampler, chunk)
<1>1. /\ chunk \in Nat \ {0} /\ CanDraw(chunk) /\ pc = "collect"
      /\ drawn' = drawn \o new /\ stream' = stream \o new
      /\ sampler' = AfterAllocating(sampler, chunk)
      /\ trained' = trained /\ saved' = saved
  BY DEF CollectionInv, DrawWave, model
<1>2. /\ sampler \in Samplers /\ stream \in Seq(Row) /\ Len(stream) = Position(sampler)
      /\ \A i \in DOMAIN stream : stream[i] = RowAt(i - 1)
      /\ drawn \in Seq(Row) /\ Len(drawn) <= Len(stream)
      /\ \A i \in DOMAIN drawn : drawn[i] = stream[Len(stream) - Len(drawn) + i]
      /\ LearntFrom(stream, trained)
  BY DEF StreamInv, StreamUpTo
<1>3. Position(sampler) + chunk <= Total
  BY <1>1 DEF CanDraw, Total
<1>4. /\ AfterAllocating(sampler, chunk) \in Samplers
      /\ Position(AfterAllocating(sampler, chunk)) = Position(sampler) + chunk
      /\ new \in Seq(Row) /\ Len(new) = chunk
      /\ \A i \in 1..chunk : new[i] = RowAt(Position(sampler) + i - 1)
  BY <1>1, <1>2, <1>3, AllocationMoves
<1> HIDE DEF new
<1>41. /\ drawn' \in Seq(Row) /\ Len(drawn') = Len(drawn) + chunk
       /\ DOMAIN drawn' = 1..Len(drawn) + chunk /\ DOMAIN drawn = 1..Len(drawn)
       /\ \A i \in 1..Len(drawn) : drawn'[i] = drawn[i]
       /\ \A i \in Len(drawn) + 1..Len(drawn) + chunk :
            i - Len(drawn) \in 1..chunk /\ drawn'[i] = new[i - Len(drawn)]
  <2>1. drawn \in Seq(Row) /\ new \in Seq(Row) /\ Len(new) = chunk /\ drawn' = drawn \o new
    BY <1>1, <1>2, <1>4
  <2>2. IsJoin(drawn', drawn, new, Row)
    BY <2>1, Joined
  <2> QED
    BY <2>1, <2>2 DEF IsJoin
<1>42. /\ stream' \in Seq(Row) /\ Len(stream') = Len(stream) + chunk
       /\ DOMAIN stream' = 1..Len(stream) + chunk /\ DOMAIN stream = 1..Len(stream)
       /\ \A i \in 1..Len(stream) : stream'[i] = stream[i]
       /\ \A i \in Len(stream) + 1..Len(stream) + chunk :
            i - Len(stream) \in 1..chunk /\ stream'[i] = new[i - Len(stream)]
  <2>1. stream \in Seq(Row) /\ new \in Seq(Row) /\ Len(new) = chunk /\ stream' = stream \o new
    BY <1>1, <1>2, <1>4
  <2>2. IsJoin(stream', stream, new, Row)
    BY <2>1, Joined
  <2> QED
    BY <2>1, <2>2 DEF IsJoin
<1>43. Len(stream) \in Nat /\ Len(drawn) \in Nat /\ chunk \in Nat
  BY <1>1, <1>2
<1>5. Position(sampler) \in Nat /\ Total \in Nat
  BY <1>2, PositionType
<1>6. StreamUpTo(sampler', stream')
  <2>1. stream' \in Seq(Row) /\ Len(stream') = Position(sampler')
    BY <1>1, <1>2, <1>4, <1>42
  <2>2. ASSUME NEW i \in DOMAIN stream' PROVE stream'[i] = RowAt(i - 1)
    <3>1. CASE i \in DOMAIN stream
      BY <1>2, <1>42, <3>1
    <3>2. CASE i \notin DOMAIN stream
      <4>1. i - Len(stream) \in 1..chunk /\ stream'[i] = new[i - Len(stream)]
        BY <1>42, <1>43, <3>2
      <4>2. Position(sampler) + (i - Len(stream)) - 1 = i - 1
        BY <1>2, <1>5, <2>1
      <4> QED
        BY <1>4, <4>1, <4>2
    <3> QED
      BY <3>1, <3>2
  <2> QED
    BY <1>1, <1>4, <2>1, <2>2 DEF StreamUpTo
<1>7. \A i \in DOMAIN stream : i \in DOMAIN stream' /\ stream'[i] = stream[i]
  BY <1>42, <1>43
<1>8. LearntFrom(stream', trained')
  BY <1>1, <1>2, <1>7 DEF LearntFrom
<1>9. /\ drawn' \in Seq(Row) /\ Len(drawn') = Len(drawn) + chunk
      /\ Len(stream') = Len(stream) + chunk
  BY <1>41, <1>42
<1>10. ASSUME NEW i \in DOMAIN drawn'
       PROVE  drawn'[i] = stream'[Len(stream') - Len(drawn') + i]
  <2>0. Len(stream) \in Nat /\ Len(drawn) \in Nat /\ chunk \in Nat /\ i \in 1..Len(drawn) + chunk
    BY <1>41, <1>43
  <2>1. Len(stream') - Len(drawn') + i = Len(stream) - Len(drawn) + i
    BY <1>9, <2>0
  <2>2. CASE i \in DOMAIN drawn
    <3>1. drawn'[i] = drawn[i]
      BY <1>41, <2>2
    <3>2. Len(stream) - Len(drawn) + i \in DOMAIN stream
      BY <1>2, <1>41, <1>42, <2>0, <2>2
    <3> QED
      BY <1>2, <1>7, <2>1, <2>2, <3>1, <3>2
  <2>3. CASE i \notin DOMAIN drawn
    <3>1. i - Len(drawn) \in 1..chunk /\ drawn'[i] = new[i - Len(drawn)]
      BY <1>41, <2>0, <2>3
    <3>2. PICK k : k = Len(stream) - Len(drawn) + i
      OBVIOUS
    <3>3. /\ k \in Nat /\ k - Len(stream) = i - Len(drawn)
          /\ k > Len(stream) /\ k <= Len(stream) + chunk
      BY <1>2, <2>0, <3>1, <3>2
    <3>4. stream'[k] = new[k - Len(stream)]
      <4>1. k \in Len(stream) + 1..Len(stream) + chunk
        BY <2>0, <3>3
      <4> QED
        BY <1>42, <4>1
    <3> QED
      BY <2>1, <3>1, <3>2, <3>3, <3>4
  <2> QED
    BY <2>2, <2>3
<1>11. ASSUME NEW i \in DOMAIN trained, NEW j \in DOMAIN drawn'
       PROVE  trained[i] # drawn'[j]
  <2>1. CASE j \in DOMAIN drawn
    <3>1. drawn'[j] = drawn[j]
      BY <1>41, <2>1
    <3> QED
      BY <1>1, <2>1, <3>1 DEF StreamInv, InAttempt
  <2>2. CASE j \notin DOMAIN drawn
    <3>1. j - Len(drawn) \in 1..chunk /\ drawn'[j] = new[j - Len(drawn)]
      BY <1>41, <1>43, <2>2
    <3>2. PICK m \in Nat : m = Position(sampler) + (j - Len(drawn)) - 1
      BY <1>5, <3>1
    <3>3. drawn'[j] = RowAt(m) /\ m >= Len(stream) /\ m < Total
      <4>1. new[j - Len(drawn)] = RowAt(Position(sampler) + (j - Len(drawn)) - 1)
        BY <1>4, <3>1
      <4>2. PICK i1 \in 1..chunk : i1 = j - Len(drawn)
        BY <3>1
      <4>3. m = Position(sampler) + i1 - 1
        BY <3>2, <4>2
      <4>4. m >= Position(sampler) /\ m < Position(sampler) + chunk
        BY <1>5, <1>43, <4>2, <4>3
      <4> QED
        BY <1>2, <1>3, <1>5, <1>43, <3>1, <3>2, <4>1, <4>4
    <3>4. PICK k \in DOMAIN stream : trained[i] = stream[k]
      BY <1>2 DEF LearntFrom
    <3>5. k - 1 \in Nat /\ k - 1 < Len(stream) /\ trained[i] = RowAt(k - 1)
      BY <1>2, <3>4
    <3>6. Len(stream) \in Nat /\ k - 1 < Total
      BY <1>2, <1>5, <3>3, <3>5
    <3>7. m # k - 1
      BY <3>3, <3>5, <3>6
    <3> QED
      BY <3>3, <3>5, <3>6, <3>7, RowsAreDistinct
  <2> QED
    BY <2>1, <2>2
<1>13. /\ StreamUpTo(sampler', stream') /\ LearntFrom(stream', trained')
       /\ StreamUpTo((saved').sampler, (saved').stream)
       /\ LearntFrom((saved').stream, (saved').trained)
  BY <1>1, <1>6, <1>8 DEF StreamInv
<1>14. Len(drawn') <= Len(stream')
  BY <1>2, <1>4, <1>9
<1>15. StreamUpTo(sampler, stream)' /\ LearntFrom(stream, trained)'
  BY <1>13 DEF StreamUpTo, LearntFrom, Position
<1>16. StreamUpTo(saved.sampler, saved.stream)' /\ LearntFrom(saved.stream, saved.trained)'
  BY <1>1, <1>13 DEF StreamUpTo, LearntFrom, Position
<1>17. (\A i \in DOMAIN trained, j \in DOMAIN drawn : trained[i] # drawn[j])'
  BY <1>1, <1>11
<1>18. (\A i \in DOMAIN drawn : drawn[i] = stream[Len(stream) - Len(drawn) + i])'
  BY <1>10
<1> QED
  BY <1>9, <1>14, <1>15, <1>16, <1>17, <1>18 DEF StreamInv

(* What an update is made of.                                               *)
LEMMA CurrentDecision ==
  ASSUME CollectionInv, DecisionInv, pc \in {"selected", "ready"}
  PROVE  /\ decision.scores \in [DOMAIN pool -> Nat]
         /\ decision.selected \in SUBSET DOMAIN pool
         /\ IsFiniteSet(decision.selected) /\ Cardinality(decision.selected) \in Nat
         /\ Cardinality(decision.selected) >= MinSelected /\ decision.selected # {}
         /\ MinimalMass(decision.scores, DOMAIN pool, decision.selected)
         /\ \A c \in Channels : StatsOver(decision.stats[c], DOMAIN pool)
         /\ mode # "paper" => \E c \in Channels : decision.stats[c].active
<1>1. /\ mode \in Modes /\ channels \in [Channels -> ScaleStates] /\ IsPool(pool)
      /\ decision = SelectionDecision(mode, channels, pool, step = 0, Maximum)
      /\ ~ decision.refill /\ ~ decision.skip
  BY DEF CollectionInv, DecisionInv, DecisionIsCurrent
<1>2. Maximum \in Nat /\ (step = 0) \in BOOLEAN
  BY StreamTypes
<1>3. /\ decision.scores \in [DOMAIN pool -> Nat]
      /\ decision.selected \in SUBSET Positive(decision.scores)
      /\ MinimalMass(decision.scores, DOMAIN pool, decision.selected)
      /\ \A c \in Channels : StatsOver(decision.stats[c], DOMAIN pool)
      /\ ~ decision.refill /\ ~ decision.skip => Cardinality(decision.selected) >= MinSelected
      /\ mode # "paper" /\ decision.selected # {} => \E c \in Channels : decision.stats[c].active
  BY <1>1, <1>2, DecisionOverPool
<1>4. decision.selected \in SUBSET DOMAIN pool
  BY <1>3 DEF Positive
<1>5. IsFiniteSet(decision.selected) /\ Cardinality(decision.selected) \in Nat
  <2>1. decision.selected \in SUBSET Prompts
    BY <1>1, <1>4 DEF IsPool
  <2> QED
    BY <2>1, PromptsAreFinite
<1>6. decision.selected # {}
  <2>1. Cardinality({}) = 0
    BY FS_EmptySet
  <2>2. Cardinality(decision.selected) >= MinSelected
    BY <1>1, <1>3
  <2> QED
    BY <2>1, <2>2, SelectionTypes
<1> QED
  BY <1>1, <1>3, <1>4, <1>5, <1>6

(* An update learns from rows of its own attempt, each for the first time.  *)
LEMMA CommitLearns ==
  ASSUME StreamInv, CollectionInv, DecisionInv, Commit
  PROVE  StreamInv'
<1> DEFINE more == SetToSeq(SelectedRows)
<1>1. pc \in {"selected", "ready"} /\ pc' = "idle"
  BY DEF Commit
<1>2. /\ drawn' = drawn /\ stream' = stream /\ sampler' = sampler
      /\ trained' = trained \o more
      /\ \/ saved' = saved
         \/ /\ saved'.sampler = sampler /\ saved'.stream = stream
            /\ saved'.trained = trained \o more
  BY DEF Commit, CheckpointRecord, SelectedRows, collection
<1>3. decision.selected \in SUBSET DOMAIN pool /\ IsFiniteSet(decision.selected)
  BY <1>1, CurrentDecision
<1>4. /\ more \in Seq(Row) /\ \A i, j \in DOMAIN more : more[i] = more[j] => i = j
      /\ \A i \in DOMAIN more : \E j \in DOMAIN drawn : more[i] = drawn[j]
  BY <1>3, SelectedRowsListed
<1> HIDE DEF more
<1>5. /\ stream \in Seq(Row) /\ LearntFrom(stream, trained) /\ StreamUpTo(sampler, stream)
      /\ drawn \in Seq(Row) /\ Len(drawn) <= Len(stream)
      /\ \A i \in DOMAIN drawn : drawn[i] = stream[Len(stream) - Len(drawn) + i]
      /\ \A i \in DOMAIN trained, j \in DOMAIN drawn : trained[i] # drawn[j]
  BY <1>1 DEF StreamInv, StreamUpTo, InAttempt
<1>6. \A j \in DOMAIN drawn : \E k \in DOMAIN stream : drawn[j] = stream[k]
  <2> SUFFICES ASSUME NEW j \in DOMAIN drawn PROVE \E k \in DOMAIN stream : drawn[j] = stream[k]
    OBVIOUS
  <2>1. Len(stream) - Len(drawn) + j \in DOMAIN stream
    BY <1>5
  <2> QED
    BY <1>5, <2>1
<1>7. LearntFrom(stream, trained \o more)
  <2>1. \A i \in DOMAIN more : \E k \in DOMAIN stream : more[i] = stream[k]
    BY <1>4, <1>6
  <2>2. \A i \in DOMAIN trained, j \in DOMAIN more : trained[i] # more[j]
    BY <1>4, <1>5
  <2> QED
    BY <1>4, <1>5, <2>1, <2>2, LearningMore
<1>8. /\ StreamUpTo(saved'.sampler, saved'.stream)
      /\ LearntFrom(saved'.stream, saved'.trained)
  BY <1>2, <1>5, <1>7 DEF StreamInv
<1>9. StreamUpTo(sampler, stream)' /\ LearntFrom(stream, trained)'
  BY <1>2, <1>5, <1>7 DEF StreamUpTo, LearntFrom, Position
<1>10. StreamUpTo(saved.sampler, saved.stream)' /\ LearntFrom(saved.stream, saved.trained)'
  BY <1>8 DEF StreamUpTo, LearntFrom, Position
<1> QED
  BY <1>1, <1>2, <1>5, <1>9, <1>10 DEF StreamInv, InAttempt

LEMMA StreamStep ==
  ASSUME StreamInv, CollectionInv, DecisionInv, [Next]_vars
  PROVE  StreamInv'
<1>1. ASSUME sampler' = sampler, stream' = stream, trained' = trained, saved' = saved,
             drawn' = drawn, InAttempt' => InAttempt
      PROVE  StreamInv'
  BY <1>1 DEF StreamInv, StreamUpTo, LearntFrom, Position
<1>2. ASSUME sampler' = sampler, stream' = stream, trained' = trained, saved' = saved,
             drawn' = <<>>
      PROVE  StreamInv'
  <2>1. /\ drawn' \in Seq(Row) /\ Len(drawn') = 0 /\ DOMAIN drawn' = {}
    BY <1>2
  <2>2. Len(stream) \in Nat
    BY DEF StreamInv, StreamUpTo
  <2> QED
    BY <1>2, <2>1, <2>2 DEF StreamInv, StreamUpTo, LearntFrom, Position
<1>3. CASE StartAttempt
  BY <1>2, <1>3 DEF StartAttempt, ClearAttempt, model
<1>4. CASE DrawWave
  BY <1>4, WaveExtendsStream
<1>5. CASE Finish
  BY <1>1, <1>5 DEF Finish, InAttempt, model
<1>6. CASE AddAndSelect
  BY <1>1, <1>6 DEF AddAndSelect, InAttempt, model
<1>7. CASE FinishRaises \/ AddRaises \/ FinalizeSelectedExactIg \/ Die
  BY <1>1, <1>7
     DEF FinishRaises, AddRaises, FinalizeSelectedExactIg, Die, InAttempt, model, collection
<1>8. CASE Commit
  BY <1>8, CommitLearns
<1>9. CASE Resume
  <2>1. /\ stream' = saved.stream /\ trained' = saved.trained /\ saved' = saved
        /\ sampler' = [epoch |-> saved.sampler.epoch, cursor |-> saved.sampler.cursor]
        /\ drawn' = <<>>
    BY <1>9 DEF Resume, Restored, ClearAttempt
  <2>2. StreamUpTo(saved.sampler, saved.stream) /\ LearntFrom(saved.stream, saved.trained)
    BY DEF StreamInv
  <2>3. saved.sampler = [epoch |-> saved.sampler.epoch, cursor |-> saved.sampler.cursor]
    BY <2>2 DEF StreamUpTo, Samplers
  <2>4. StreamUpTo(sampler', stream') /\ LearntFrom(stream', trained')
    BY <2>1, <2>2, <2>3
  <2>5. StreamUpTo(sampler, stream)' /\ LearntFrom(stream, trained)'
    BY <2>4 DEF StreamUpTo, LearntFrom, Position
  <2>6. /\ drawn' \in Seq(Row) /\ Len(drawn') = 0 /\ DOMAIN drawn' = {}
    BY <2>1
  <2>7. Len(stream') \in Nat
    BY <2>4 DEF StreamUpTo
  <2> QED
    BY <2>1, <2>2, <2>5, <2>6, <2>7 DEF StreamInv, StreamUpTo, LearntFrom, Position
<1>10. CASE UNCHANGED vars
  BY <1>1, <1>10 DEF vars, model, collection, InAttempt
<1> QED
  BY <1>3, <1>4, <1>5, <1>6, <1>7, <1>8, <1>9, <1>10 DEF Next

-----------------------------------------------------------------------------
(* The collection                                                           *)

LEMMA GroupsAreNotEmpty ==
  \A g \in Groups : g # <<>>
<1> SUFFICES ASSUME NEW g \in Groups, g = <<>> PROVE FALSE
  OBVIOUS
<1>1. DOMAIN g = 1..GroupSize /\ GroupSize \in Nat \ {0}
  BY DataConstants, SelectionTypes
<1>2. 1 \in DOMAIN g
  BY <1>1
<1> QED
  BY <1>2

(* The set in the order of its numbers has every element at some place.     *)
LEMMA NumbersInOrder ==
  ASSUME NEW S, IsFiniteSet(S), \A x \in S : x \in Nat
  PROVE  /\ Cardinality(S) \in Nat
         /\ DOMAIN SetInOrder(S, <) = 1..Cardinality(S)
         /\ \A k \in 1..Cardinality(S) : SetInOrder(S, <)[k] \in S
<1>1. Cardinality(S) \in Nat
  BY FS_CardinalityType
<1>2. PICK R : R = {q \in S \X S : q[1] < q[2]}
  OBVIOUS
<1>3. \A a, b \in S : (<<a, b>> \in R) <=> a < b
  BY <1>2
<1>4. StrictOrder(R, S)
  BY <1>3 DEF StrictOrder
<1>5. PICK rank : rank = [a \in S |-> Cardinality({b \in S : <<b, a>> \in R})]
  OBVIOUS
<1>6. \A i \in 0 .. Cardinality(S) - 1 : \E a \in S : rank[a] = i
  BY <1>4, <1>5, RanksAreAll
<1>7. rank = [a \in S |-> Cardinality({b \in S : b < a})]
  <2>1. \A a \in S : {b \in S : <<b, a>> \in R} = {b \in S : b < a}
    BY <1>3
  <2> QED
    BY <1>5, <2>1
<1>8. SetInOrder(S, <) = [i \in 1..Cardinality(S) |-> CHOOSE a \in S : rank[a] = i - 1]
  BY <1>7 DEF SetInOrder
<1>9. ASSUME NEW k \in 1..Cardinality(S) PROVE SetInOrder(S, <)[k] \in S
  <2>1. k - 1 \in 0 .. Cardinality(S) - 1
    BY <1>1
  <2>2. \E a \in S : rank[a] = k - 1
    BY <1>6, <2>1
  <2> QED
    BY <1>8, <2>2
<1>10. DOMAIN SetInOrder(S, <) = 1..Cardinality(S)
  BY DEF SetInOrder
<1> QED
  BY <1>1, <1>9, <1>10

(* The groups a turn adds, with all of their tasks.                          *)
LEMMA ValidOnes ==
  ASSUME CollectionInv, NEW results \in [DOMAIN pending -> Results],
         NEW valid, valid = ReadyGroups(pending, results)
  PROVE  /\ valid \in Seq(ValidGroups) /\ \A k \in DOMAIN valid : valid[k] \in ValidGroups
         /\ \A k \in DOMAIN valid : WasDrawn(valid[k].epoch, valid[k].prompt)
         /\ \A k \in DOMAIN valid : \E i \in DOMAIN pending :
              i \in Of(pending, valid[k].prompt) /\ results[i].tasks = Members
<1>1. pending \in Seq(Row) /\ \A i \in DOMAIN pending : pending[i] \in Row
  BY DEF CollectionInv
<1>2. PICK ready : ready = ReadyPrompts(pending, results)
  OBVIOUS
<1>21. ready \in SUBSET Prompts
  BY <1>1, <1>2 DEF ReadyPrompts, DrawnPrompts, Row
<1>3. IsFiniteSet(ready) /\ \A p \in ready : p \in Nat
  BY <1>21, PromptsAreFinite
<1>4. PICK sorted : sorted = SetInOrder(ready, <)
  OBVIOUS
<1>5. /\ Cardinality(ready) \in Nat /\ DOMAIN sorted = 1..Cardinality(ready)
      /\ \A k \in 1..Cardinality(ready) : sorted[k] \in ready
  BY <1>3, <1>4, NumbersInOrder
<1>51. valid = [k \in DOMAIN sorted |->
                 LET i == CHOOSE n \in Of(pending, sorted[k]) : TRUE
                 IN  [epoch |-> pending[i].epoch, prompt |-> pending[i].prompt,
                      group |-> results[i].group]]
  BY <1>2, <1>4 DEF ReadyGroups
<1>6. ASSUME NEW k \in 1..Cardinality(ready)
      PROVE  /\ valid[k] \in ValidGroups
             /\ WasDrawn(valid[k].epoch, valid[k].prompt)
             /\ \E i \in DOMAIN pending : i \in Of(pending, valid[k].prompt)
                                          /\ results[i].tasks = Members
  <2>1. PICK p \in ready : p = sorted[k]
    BY <1>5
  <2>2. PICK i : i = CHOOSE n \in Of(pending, p) : TRUE
    OBVIOUS
  <2>3. i \in Of(pending, p)
    BY <1>2, <2>2 DEF ReadyPrompts, DrawnPrompts, Of
  <2>4. i \in DOMAIN pending /\ pending[i].prompt = p /\ results[i].group # <<>>
    BY <1>2, <2>3 DEF ReadyPrompts, Of
  <2>5. valid[k] = [epoch |-> pending[i].epoch, prompt |-> pending[i].prompt,
                    group |-> results[i].group]
    BY <1>5, <1>51, <2>1, <2>2
  <2>6. results[i].group \in Groups /\ results[i].tasks = Members
    <3>1. results[i] \in Results
      BY <2>4
    <3> QED
      BY <2>4, <3>1 DEF Results
  <2>7. pending[i].epoch \in Epochs /\ pending[i].prompt \in Prompts
    BY <1>1, <2>4 DEF Row
  <2>8. WasDrawn(pending[i].epoch, pending[i].prompt)
    BY <2>4 DEF CollectionInv
  <2> QED
    BY <2>3, <2>4, <2>5, <2>6, <2>7, <2>8 DEF ValidGroups
<1>7. DOMAIN valid = 1..Cardinality(ready) /\ valid = [k \in 1..Cardinality(ready) |-> valid[k]]
  BY <1>5, <1>51
<1>8. valid \in [1..Cardinality(ready) -> ValidGroups]
  BY <1>6, <1>7
<1>9. valid \in Seq(ValidGroups)
  <2>1. PICK n \in Nat : n = Cardinality(ready)
    BY <1>5
  <2>2. valid \in [1..n -> ValidGroups]
    BY <1>8, <2>1
  <2> QED
    BY <2>2
<1> QED
  BY <1>6, <1>7, <1>9

LEMMA FinishKeepsCollection ==
  ASSUME CollectionInv, Finish
  PROVE  CollectionInv'
<1>1. pc = "results"
  BY DEF Finish
<1>2. PICK results \in [DOMAIN pending -> Results] : FinishSubmissions(results)
  BY DEF Finish
<1>3. UNCHANGED <<mode, drawn, target, pool>>
  BY DEF Finish
<1>4. PICK valid : valid = ReadyGroups(pending, results)
  OBVIOUS
<1>6. /\ valid \in Seq(ValidGroups) /\ \A k \in DOMAIN valid : valid[k] \in ValidGroups
      /\ \A k \in DOMAIN valid : WasDrawn(valid[k].epoch, valid[k].prompt)
      /\ \A k \in DOMAIN valid : \E i \in DOMAIN pending :
           i \in Of(pending, valid[k].prompt) /\ results[i].tasks = Members
  BY <1>4, ValidOnes
<1>7. /\ tasks' = IF ~Deferred THEN tasks
                  ELSE [p \in Prompts |->
                          tasks[p] \cup UNION {results[i].tasks : i \in Of(pending, p)}]
      /\ groups' = groups \o valid /\ pending' = <<>>
      /\ \/ pc' = "collected"
         \/ /\ target - (Len(groups) + Len(valid)) > 0
            /\ chunk' = target - (Len(groups) + Len(valid))
            /\ pc' = "collect"
         \/ pc' = "dead"
  BY <1>2, <1>4 DEF FinishSubmissions
<1>81. \A i \in DOMAIN groups : groups[i] \in ValidGroups
  BY DEF CollectionInv
<1>8. groups \in Seq(ValidGroups) /\ target \in Nat /\ tasks \in [Prompts -> SUBSET Members]
  BY DEF CollectionInv
<1>9. IsJoin(groups', groups, valid, ValidGroups)
  BY <1>6, <1>7, <1>8, Joined
<1>10. \A i \in DOMAIN groups' : \/ i \in DOMAIN groups /\ groups'[i] = groups[i]
                                 \/ \E k \in DOMAIN valid : groups'[i] = valid[k]
  BY <1>9 DEF IsJoin
<1>11. pc' = "collect" => chunk' \in Nat \ {0}
  <2>1. Len(groups) \in Nat /\ Len(valid) \in Nat
    BY <1>9 DEF IsJoin
  <2> QED
    BY <1>7, <1>8, <2>1
<1>12. \A p \in Prompts, i \in DOMAIN pending : results[i].tasks \in SUBSET Members
  BY DEF Results
<1>13. tasks' \in [Prompts -> SUBSET Members]
  <2>1. \A p \in Prompts : UNION {results[i].tasks : i \in Of(pending, p)} \in SUBSET Members
    BY <1>12 DEF Of
  <2> QED
    BY <1>7, <1>8, <2>1
<1>14. \A i \in DOMAIN groups' : WasDrawn(groups'[i].epoch, groups'[i].prompt)
  BY <1>6, <1>10 DEF CollectionInv
<1>15. ASSUME Deferred
       PROVE  /\ \A i \in DOMAIN groups' : tasks'[groups'[i].prompt] = Members
              /\ \A p \in DOMAIN pool : tasks'[p] = Members
  <2>1. /\ \A i \in DOMAIN groups : tasks[groups[i].prompt] = Members
        /\ \A p \in DOMAIN pool : tasks[p] = Members
    BY <1>1, <1>15 DEF CollectionInv, InAttempt
  <2>2. \A p \in Prompts : tasks'[p] = tasks[p] \cup UNION {results[i].tasks : i \in Of(pending, p)}
    BY <1>7, <1>15
  <2>3. \A p \in Prompts : tasks[p] = Members => tasks'[p] = Members
    <3> SUFFICES ASSUME NEW p \in Prompts, tasks[p] = Members PROVE tasks'[p] = Members
      OBVIOUS
    <3>1. Members \subseteq tasks'[p]
      BY <2>2
    <3>2. tasks'[p] \subseteq Members
      BY <1>13
    <3> QED
      BY <3>1, <3>2
  <2>4. \A p \in DOMAIN pool : p \in Prompts
    BY DEF CollectionInv, IsPool
  <2>5. \A p \in DOMAIN pool : tasks'[p] = Members
    BY <2>1, <2>3, <2>4
  <2>6. ASSUME NEW i \in DOMAIN groups' PROVE tasks'[groups'[i].prompt] = Members
    <3>1. CASE i \in DOMAIN groups /\ groups'[i] = groups[i]
      <4>1. groups[i].prompt \in Prompts
        BY <1>81, <3>1 DEF ValidGroups
      <4> QED
        BY <2>1, <2>3, <3>1, <4>1
    <3>2. CASE \E k \in DOMAIN valid : groups'[i] = valid[k]
      <4>1. PICK k \in DOMAIN valid : groups'[i] = valid[k]
        BY <3>2
      <4>2. PICK j \in DOMAIN pending :
               j \in Of(pending, valid[k].prompt) /\ results[j].tasks = Members
        BY <1>6
      <4>3. valid[k].prompt \in Prompts
        BY <1>6 DEF ValidGroups
      <4>4. Members \subseteq tasks'[valid[k].prompt]
        BY <2>2, <4>2, <4>3
      <4>6. tasks'[valid[k].prompt] \subseteq Members
        BY <1>13, <4>3
      <4>5. tasks'[valid[k].prompt] = Members
        BY <4>4, <4>6
      <4> QED
        BY <4>1, <4>5
    <3> QED
      BY <1>10, <3>1, <3>2
  <2> QED
    BY <2>5, <2>6
<1>16. IsPool(pool)' /\ IsPool(pool)
  BY <1>3 DEF IsPool, CollectionInv
<1>17. groups' \in Seq(ValidGroups)
  BY <1>9 DEF IsJoin
<1>18. pending' \in Seq(Row) /\ DOMAIN pending' = {}
  BY <1>7
<1>19. (\A i \in DOMAIN groups : WasDrawn(groups[i].epoch, groups[i].prompt))'
  BY <1>3, <1>14 DEF WasDrawn
<1>20. (\A p \in DOMAIN pool : WasDrawn(pool[p].epoch, p))'
  BY <1>3 DEF WasDrawn, CollectionInv
<1>21. (\A i \in DOMAIN pending : WasDrawn(pending[i].epoch, pending[i].prompt))'
  BY <1>18
<1>22. (Deferred /\ InAttempt /\ pc # "ready" =>
          /\ \A i \in DOMAIN groups : tasks[groups[i].prompt] = Members
          /\ \A p \in DOMAIN pool : tasks[p] = Members)'
  BY <1>3, <1>15 DEF Deferred
<1>23. mode' \in Modes /\ target' \in Nat
       /\ pc' \in {"idle", "collect", "results", "collected", "selected", "ready", "dead"}
  BY <1>3, <1>7, <1>8 DEF CollectionInv
<1> QED
  BY <1>11, <1>13, <1>16, <1>17, <1>18, <1>19, <1>20, <1>21, <1>22, <1>23 DEF CollectionInv

(* A new prompt of the pool is a valid group of the collection.             *)
LEMMA PoolGrows ==
  ASSUME CollectionInv, pool' = PoolWith(groups), drawn' = drawn,
         Deferred => \A i \in DOMAIN groups : tasks[groups[i].prompt] = Members,
         Deferred => \A p \in DOMAIN pool : tasks[p] = Members
  PROVE  /\ IsPool(pool')
         /\ \A p \in DOMAIN pool' : WasDrawn(pool'[p].epoch, p)
         /\ Deferred => \A p \in DOMAIN pool' : tasks[p] = Members
<1>1. /\ \A i \in DOMAIN groups : groups[i] \in ValidGroups
      /\ \A i \in DOMAIN groups : WasDrawn(groups[i].epoch, groups[i].prompt)
      /\ IsPool(pool) /\ \A p \in DOMAIN pool : WasDrawn(pool[p].epoch, p)
  BY DEF CollectionInv
<1>2. DOMAIN pool' = DOMAIN pool \cup DrawnPrompts(groups)
  BY DEF PoolWith
<1>3. \A p \in DOMAIN pool : pool'[p] = pool[p]
  BY <1>2 DEF PoolWith
<1>4. ASSUME NEW p \in DrawnPrompts(groups), p \notin DOMAIN pool
      PROVE  /\ p \in Prompts /\ pool'[p].ig \in Nat /\ pool'[p].outcome \in Nat
             /\ WasDrawn(pool'[p].epoch, p) /\ (Deferred => tasks[p] = Members)
  <2>1. PICK i : i = CHOOSE k \in Of(groups, p) : TRUE
    OBVIOUS
  <2>2. i \in DOMAIN groups /\ groups[i].prompt = p
    BY <2>1 DEF DrawnPrompts, Of
  <2>3. PICK v : v = PromptGroup(groups[i].group, Deferred)
    OBVIOUS
  <2>4. pool'[p] = [ig |-> v.ig, outcome |-> v.outcome, epoch |-> groups[i].epoch]
    BY <1>4, <2>1, <2>3 DEF PoolWith
  <2>5. groups[i].group \in Groups /\ p \in Prompts
    BY <1>1, <2>2 DEF ValidGroups
  <2>6. Deferred \in BOOLEAN
    BY DEF Deferred
  <2>7. v.ig \in Nat /\ v.outcome \in Nat
    BY <2>3, <2>5, <2>6, PromptGroupIsNat
  <2> QED
    BY <1>1, <2>2, <2>4, <2>5, <2>7
<1>5. ASSUME NEW p \in DOMAIN pool'
      PROVE  /\ p \in Prompts /\ pool'[p].ig \in Nat /\ pool'[p].outcome \in Nat
             /\ WasDrawn(pool'[p].epoch, p) /\ (Deferred => tasks[p] = Members)
  <2>1. CASE p \in DOMAIN pool
    BY <1>1, <1>3, <2>1 DEF IsPool
  <2> QED
    BY <1>2, <1>4, <2>1
<1>6. DOMAIN pool' \in SUBSET Prompts
  BY <1>5
<1> QED
  BY <1>5, <1>6 DEF IsPool

LEMMA SelectKeepsCollection ==
  ASSUME CollectionInv, AddAndSelect
  PROVE  CollectionInv'
<1>1. /\ pc = "collected" /\ pool' = PoolWith(groups)
      /\ mode' = mode /\ drawn' = drawn /\ tasks' = tasks
      /\ \/ /\ target' = Refill /\ chunk' = Refill
            /\ groups' = <<>> /\ pending' = <<>> /\ pc' = "collect"
         \/ /\ pc' \in {"idle", "selected"}
            /\ target' = target /\ groups' = groups /\ pending' = pending
  BY DEF AddAndSelect, Collect
<1>2. Deferred => /\ \A i \in DOMAIN groups : tasks[groups[i].prompt] = Members
                  /\ \A p \in DOMAIN pool : tasks[p] = Members
  BY <1>1 DEF CollectionInv, InAttempt
<1>3. /\ IsPool(pool')
      /\ \A p \in DOMAIN pool' : WasDrawn(pool'[p].epoch, p)
      /\ Deferred => \A p \in DOMAIN pool' : tasks[p] = Members
  BY <1>1, <1>2, PoolGrows
<1>4. IsPool(pool)' /\ (\A p \in DOMAIN pool : WasDrawn(pool[p].epoch, p))'
  BY <1>1, <1>3 DEF IsPool, WasDrawn
<1>5. target' \in Nat /\ (pc' = "collect" => chunk' \in Nat \ {0})
  BY <1>1, StreamTypes DEF CollectionInv
<1>6. groups' \in Seq(ValidGroups) /\ pending' \in Seq(Row)
  <2>1. groups \in Seq(ValidGroups) /\ pending \in Seq(Row)
    BY DEF CollectionInv
  <2>2. <<>> \in Seq(ValidGroups) /\ <<>> \in Seq(Row)
    OBVIOUS
  <2> QED
    BY <1>1, <2>1, <2>2
<1>7. \/ DOMAIN groups' = {} /\ DOMAIN pending' = {}
      \/ groups' = groups /\ pending' = pending
  BY <1>1
<1>8. /\ (\A i \in DOMAIN pending : WasDrawn(pending[i].epoch, pending[i].prompt))'
      /\ (\A i \in DOMAIN groups : WasDrawn(groups[i].epoch, groups[i].prompt))'
  BY <1>1, <1>7 DEF CollectionInv, WasDrawn
<1>9. (Deferred /\ InAttempt /\ pc # "ready" =>
         /\ \A i \in DOMAIN groups : tasks[groups[i].prompt] = Members
         /\ \A p \in DOMAIN pool : tasks[p] = Members)'
  BY <1>1, <1>2, <1>3, <1>7 DEF Deferred
<1>10. /\ mode' \in Modes /\ tasks' \in [Prompts -> SUBSET Members]
       /\ pc' \in {"idle", "collect", "results", "collected", "selected", "ready", "dead"}
  BY <1>1 DEF CollectionInv
<1> QED
  BY <1>4, <1>5, <1>6, <1>8, <1>9, <1>10 DEF CollectionInv

(* A wave: its rows are drawn rows.                                         *)
LEMMA WaveKeepsCollection ==
  ASSUME StreamInv, CollectionInv, DrawWave
  PROVE  CollectionInv'
<1>1. PICK rows : rows = Allocated(sampler, chunk)
  OBVIOUS
<1>2. /\ pc = "collect" /\ CanDraw(chunk)
      /\ pending' = pending \o rows /\ drawn' = drawn \o rows
      /\ pc' \in {"results", "collect"}
      /\ mode' = mode /\ chunk' = chunk /\ target' = target /\ groups' = groups
      /\ pool' = pool /\ tasks' = tasks
  BY <1>1 DEF DrawWave
<1>3. chunk \in Nat \ {0} /\ pending \in Seq(Row) /\ sampler \in Samplers /\ drawn \in Seq(Row)
  BY <1>2 DEF CollectionInv, StreamInv, StreamUpTo
<1>4. Position(sampler) + chunk <= Total
  BY <1>2 DEF CanDraw, Total
<1>5. rows \in Seq(Row)
  BY <1>1, <1>3, <1>4, AllocationMoves
<1>6. IsJoin(pending', pending, rows, Row) /\ IsJoin(drawn', drawn, rows, Row)
  BY <1>2, <1>3, <1>5, Joined
<1>7. \A j \in DOMAIN drawn : j \in DOMAIN drawn' /\ drawn'[j] = drawn[j]
  BY <1>6 DEF IsJoin
<1>8. \A k \in DOMAIN rows : \E j \in DOMAIN drawn' : drawn'[j] = rows[k]
  <2> SUFFICES ASSUME NEW k \in DOMAIN rows PROVE \E j \in DOMAIN drawn' : drawn'[j] = rows[k]
    OBVIOUS
  <2>1. PICK j : j = Len(drawn) + k
    OBVIOUS
  <2>2. Len(drawn) \in Nat /\ Len(rows) \in Nat /\ k \in 1..Len(rows)
    BY <1>6 DEF IsJoin
  <2>3. j \in Len(drawn) + 1..Len(drawn) + Len(rows) /\ j - Len(drawn) = k
    BY <2>1, <2>2
  <2>4. j \in DOMAIN drawn'
    BY <1>6, <2>2, <2>3 DEF IsJoin
  <2> QED
    BY <1>6, <2>3, <2>4 DEF IsJoin
<1>9. ASSUME NEW e, NEW p, WasDrawn(e, p)
      PROVE  \E j \in DOMAIN drawn' : drawn'[j] = [epoch |-> e, prompt |-> p]
  BY <1>7, <1>9 DEF WasDrawn
<1>10. ASSUME NEW i \in DOMAIN pending'
       PROVE  \E j \in DOMAIN drawn' :
                drawn'[j] = [epoch |-> pending'[i].epoch, prompt |-> pending'[i].prompt]
  <2>1. CASE i \in DOMAIN pending
    <3>1. pending'[i] = pending[i]
      BY <1>6, <2>1 DEF IsJoin
    <3>2. WasDrawn(pending[i].epoch, pending[i].prompt)
      BY <2>1 DEF CollectionInv
    <3> QED
      BY <1>9, <3>1, <3>2
  <2>2. CASE i \notin DOMAIN pending
    <3>1. i - Len(pending) \in DOMAIN rows /\ pending'[i] = rows[i - Len(pending)]
      BY <1>6, <2>2 DEF IsJoin
    <3>2. pending'[i] \in Row
      BY <1>6 DEF IsJoin
    <3>3. pending'[i] = [epoch |-> pending'[i].epoch, prompt |-> pending'[i].prompt]
      BY <3>2 DEF Row
    <3> QED
      BY <1>8, <3>1, <3>3
  <2> QED
    BY <2>1, <2>2
<1>11. (\A i \in DOMAIN pending : WasDrawn(pending[i].epoch, pending[i].prompt))'
  BY <1>10 DEF WasDrawn
<1>12. (\A i \in DOMAIN groups : WasDrawn(groups[i].epoch, groups[i].prompt))'
  <2>1. \A i \in DOMAIN groups : WasDrawn(groups[i].epoch, groups[i].prompt)
    BY DEF CollectionInv
  <2>2. \A i \in DOMAIN groups : \E j \in DOMAIN drawn' :
          drawn'[j] = [epoch |-> groups[i].epoch, prompt |-> groups[i].prompt]
    BY <1>9, <2>1
  <2> QED
    BY <1>2, <2>2 DEF WasDrawn
<1>13. (\A p \in DOMAIN pool : WasDrawn(pool[p].epoch, p))'
  <2>1. \A p \in DOMAIN pool : WasDrawn(pool[p].epoch, p)
    BY DEF CollectionInv
  <2>2. \A p \in DOMAIN pool : \E j \in DOMAIN drawn' :
          drawn'[j] = [epoch |-> pool[p].epoch, prompt |-> p]
    BY <1>9, <2>1
  <2> QED
    BY <1>2, <2>2 DEF WasDrawn
<1>14. pending' \in Seq(Row)
  BY <1>6 DEF IsJoin
<1>15. (Deferred /\ InAttempt /\ pc # "ready" =>
          /\ \A i \in DOMAIN groups : tasks[groups[i].prompt] = Members
          /\ \A p \in DOMAIN pool : tasks[p] = Members)'
  BY <1>2 DEF Deferred, CollectionInv, InAttempt
<1>16. IsPool(pool)'
  BY <1>2 DEF IsPool, CollectionInv
<1> QED
  BY <1>2, <1>3, <1>11, <1>12, <1>13, <1>14, <1>15, <1>16 DEF CollectionInv

(* Nothing is collected yet.                                                *)
LEMMA NothingKeepsCollection ==
  ASSUME CollectionInv, mode' = mode, pending' = <<>>, groups' = <<>>, pool' = <<>>,
         tasks' = [p \in Prompts |-> {}], target' \in Nat,
         pc' = "idle" \/ (pc' = "collect" /\ chunk' \in Nat \ {0})
  PROVE  CollectionInv'
<1>1. pending' \in Seq(Row) /\ groups' \in Seq(ValidGroups)
  OBVIOUS
<1>2. DOMAIN pending' = {} /\ DOMAIN groups' = {} /\ DOMAIN pool' = {}
  OBVIOUS
<1>3. tasks' \in [Prompts -> SUBSET Members]
  OBVIOUS
<1>4. IsPool(pool)'
  BY <1>2 DEF IsPool
<1> QED
  BY <1>1, <1>2, <1>3, <1>4 DEF CollectionInv

LEMMA CollectionStep ==
  ASSUME StreamInv, CollectionInv, [Next]_vars
  PROVE  CollectionInv'
<1>1. ASSUME UNCHANGED collection, mode' = mode, pc' \in {"idle", "dead"} \/ pc' = pc
      PROVE  CollectionInv'
  <2>1. UNCHANGED <<chunk, pending, drawn, target, groups, pool, tasks>>
    BY <1>1 DEF collection
  <2>2. IsPool(pool)'
    BY <2>1 DEF IsPool, CollectionInv
  <2>3. (Deferred /\ InAttempt /\ pc # "ready" =>
          /\ \A i \in DOMAIN groups : tasks[groups[i].prompt] = Members
          /\ \A p \in DOMAIN pool : tasks[p] = Members)'
    BY <1>1, <2>1 DEF Deferred, CollectionInv, InAttempt
  <2> QED
    BY <1>1, <2>1, <2>2, <2>3 DEF CollectionInv, WasDrawn
<1>2. CASE StartAttempt
  BY <1>2, StreamTypes, NothingKeepsCollection DEF StartAttempt, Collect, ClearAttempt
<1>3. CASE DrawWave
  BY <1>3, WaveKeepsCollection
<1>4. CASE Finish
  BY <1>4, FinishKeepsCollection
<1>5. CASE AddAndSelect
  BY <1>5, SelectKeepsCollection
<1>6. CASE FinishRaises \/ AddRaises \/ Die
  BY <1>1, <1>6 DEF FinishRaises, AddRaises, Die
<1>7. CASE FinalizeSelectedExactIg
  <2>1. /\ UNCHANGED <<mode, chunk, pending, drawn, target, groups, pool>>
        /\ tasks' = [p \in Prompts |-> {}] /\ pc' = "ready"
    BY <1>7 DEF FinalizeSelectedExactIg
  <2>2. IsPool(pool)'
    BY <2>1 DEF IsPool, CollectionInv
  <2>3. tasks' \in [Prompts -> SUBSET Members]
    BY <2>1
  <2> QED
    BY <2>1, <2>2, <2>3 DEF CollectionInv, WasDrawn
<1>8. CASE Commit
  <2>1. UNCHANGED collection /\ mode' = mode /\ pc' = "idle"
    BY <1>8 DEF Commit
  <2> QED
    BY <1>1, <2>1
<1>9. CASE Resume
  BY <1>9, NothingKeepsCollection DEF Resume, Collect, ClearAttempt
<1>10. CASE UNCHANGED vars
  BY <1>1, <1>10 DEF vars
<1> QED
  BY <1>2, <1>3, <1>4, <1>5, <1>6, <1>7, <1>8, <1>9, <1>10 DEF Next

LEMMA CollectionInit == Init => CollectionInv
<1> SUFFICES ASSUME Init PROVE CollectionInv
  OBVIOUS
<1>1. /\ mode \in Modes /\ pc = "idle" /\ target = 0 /\ pending = <<>> /\ groups = <<>>
      /\ pool = <<>> /\ tasks = [p \in Prompts |-> {}]
  BY DEF Init, NothingCollected
<1>2. pending \in Seq(Row) /\ groups \in Seq(ValidGroups)
  BY <1>1
<1>3. DOMAIN pending = {} /\ DOMAIN groups = {} /\ DOMAIN pool = {}
  BY <1>1
<1>4. tasks \in [Prompts -> SUBSET Members]
  BY <1>1
<1>5. IsPool(pool)
  BY <1>3 DEF IsPool
<1> QED
  BY <1>1, <1>2, <1>3, <1>4, <1>5 DEF CollectionInv, InAttempt

-----------------------------------------------------------------------------
(* The scales                                                               *)

LEMMA DecisionInit == Init => DecisionInv
<1> SUFFICES ASSUME Init PROVE DecisionInv
  OBVIOUS
<1>1. /\ channels = [c \in Channels |-> NewScale] /\ step = 0 /\ pc = "idle"
      /\ saved.channels = [c \in Channels |-> NewScale] /\ saved.step = 0
  BY DEF Init, EmptyRecord
<1>2. NewScale \in ScaleStates
  <2>1. <<>> \in Seq(Nat)
    OBVIOUS
  <2> QED
    BY <2>1 DEF NewScale, ScaleStates
<1> QED
  BY <1>1, <1>2 DEF DecisionInv, Alive

LEMMA SelectDecides ==
  ASSUME DecisionInv, AddAndSelect
  PROVE  DecisionInv'
<1>1. /\ decision' = SelectionDecision(mode, channels, pool', step = 0, Maximum)
      /\ mode' = mode /\ channels' = channels /\ step' = step /\ saved' = saved
      /\ pc' \in {"collect", "idle"} \/ (~ decision'.refill /\ ~ decision'.skip)
  BY DEF AddAndSelect, model
<1>2. DecisionIsCurrent'
  BY <1>1 DEF DecisionIsCurrent
<1> QED
  BY <1>1, <1>2 DEF DecisionInv, Alive

LEMMA CommitKeepsScales ==
  ASSUME CollectionInv, DecisionInv, Commit
  PROVE  DecisionInv'
<1>1. pc \in {"selected", "ready"} /\ pc' = "idle"
  BY DEF Commit
<1>2. /\ \A d \in Channels : StatsOver(decision.stats[d], DOMAIN pool)
      /\ mode # "paper" => \E d \in Channels : decision.stats[d].active
  BY <1>1, CurrentDecision
<1>3. /\ DOMAIN channels' = Channels /\ channels' = [d \in Channels |-> channels'[d]]
      /\ \A d \in Channels :
           channels'[d] \in CommittedAfterSuccess(channels[d], decision.stats[d], step = 0)
      /\ step' = step + 1 /\ mode' = mode
      /\ \/ saved' = saved
         \/ saved'.channels = channels' /\ saved'.step = step + 1
  BY DEF Commit, CheckpointRecord
<1>4. /\ channels \in [Channels -> ScaleStates] /\ step \in Nat /\ Alive(channels, step)
      /\ (step = 0) \in BOOLEAN
  BY DEF DecisionInv
<1>5. ASSUME NEW d \in Channels
      PROVE  /\ channels'[d] \in ScaleStates
             /\ channels[d].scale > 0 => channels'[d].scale > 0
             /\ step = 0 /\ decision.stats[d].active => channels'[d].scale > 0
  <2>1. channels[d] \in ScaleStates
    BY <1>4
  <2> QED
    <3>1. PICK first \in BOOLEAN : first = (step = 0)
      BY <1>4
    <3>2. PICK t : t = decision.stats[d]
      OBVIOUS
    <3>3. PICK s : s = channels'[d]
      OBVIOUS
    <3>4. StatsOver(t, DOMAIN pool) /\ s \in CommittedAfterSuccess(channels[d], t, first)
      BY <1>2, <1>3, <3>1, <3>2, <3>3
    <3>5. /\ s \in ScaleStates
          /\ channels[d].scale > 0 => s.scale > 0
          /\ first /\ t.active => s.scale > 0
      BY <2>1, <3>4, CommittedKeepsScale
    <3> QED
      BY <3>1, <3>2, <3>3, <3>5
<1>6. channels' \in [Channels -> ScaleStates]
  BY <1>3, <1>5
<1>7. mode # "paper" => \E c \in Channels : channels'[c].scale > 0
  <2>1. CASE step = 0
    BY <1>2, <1>5, <2>1
  <2>2. CASE step > 0
    BY <1>4, <1>5, <2>2 DEF Alive
  <2> QED
    BY <1>4, <2>1, <2>2
<1>8. step' \in Nat
  BY <1>3, <1>4
<1> QED
  BY <1>1, <1>3, <1>6, <1>7, <1>8 DEF DecisionInv, Alive

LEMMA DecisionStep ==
  ASSUME CollectionInv, DecisionInv, [Next]_vars
  PROVE  DecisionInv'
<1>1. ASSUME UNCHANGED <<mode, channels, step, saved>>, pc' \notin {"selected", "ready"}
      PROVE  DecisionInv'
  BY <1>1 DEF DecisionInv, Alive
<1>2. ASSUME UNCHANGED <<mode, channels, step, saved, pool, decision>>,
             pc' = pc \/ (pc' = "ready" /\ pc = "selected")
      PROVE  DecisionInv'
  BY <1>2 DEF DecisionInv, Alive, DecisionIsCurrent
<1>3. CASE AddAndSelect
  BY <1>3, SelectDecides
<1>4. CASE Commit
  BY <1>4, CommitKeepsScales
<1>5. CASE FinalizeSelectedExactIg
  BY <1>2, <1>5 DEF FinalizeSelectedExactIg, model
<1>6. CASE StartAttempt \/ DrawWave \/ Finish
  BY <1>1, <1>6 DEF StartAttempt, DrawWave, Finish, FinishSubmissions, model
<1>7. CASE FinishRaises \/ AddRaises \/ Die
  BY <1>1, <1>7 DEF FinishRaises, AddRaises, Die, model
<1>8. CASE Resume
  <2>1. /\ channels' = saved.channels /\ step' = saved.step /\ saved' = saved
        /\ mode' = mode /\ pc' = "idle"
    BY <1>8 DEF Resume
  <2> QED
    BY <2>1 DEF DecisionInv, Alive
<1>9. CASE UNCHANGED vars
  BY <1>2, <1>9 DEF vars, model, collection
<1> QED
  BY <1>3, <1>4, <1>5, <1>6, <1>7, <1>8, <1>9 DEF Next

-----------------------------------------------------------------------------
(* The theorems                                                             *)

LEMMA DataInvariant == Spec => []DataInv
<1>1. Init => DataInv
  BY StreamInit, CollectionInit, DecisionInit DEF DataInv
<1>2. DataInv /\ [Next]_vars => DataInv'
  BY StreamStep, CollectionStep, DecisionStep DEF DataInv
<1> QED
  BY <1>1, <1>2, PTL DEF Spec

(* A stream as long as s is far has no row twice, and of the epochs before  *)
(* that of s it has every one.                                              *)
LEMMA TimesInStream ==
  ASSUME NEW s, NEW rows, StreamUpTo(s, rows), NEW e \in Epochs, NEW p \in Prompts,
         NEW times, times = {i \in DOMAIN rows : rows[i] = [epoch |-> e, prompt |-> p]}
  PROVE  Cardinality(times) <= 1 /\ (e < s.epoch => Cardinality(times) = 1)
<1>1. /\ s \in Samplers /\ rows \in Seq(Row) /\ Len(rows) = Position(s)
      /\ \A i \in DOMAIN rows : rows[i] = RowAt(i - 1)
  BY DEF StreamUpTo
<1>2. /\ Position(s) \in Nat /\ Position(s) <= Total /\ Total \in Nat
      /\ e < s.epoch => e * Size \in Nat /\ e * Size + Size <= Position(s)
  BY <1>1, PositionType
<1>3. DOMAIN rows = 1..Position(s)
  BY <1>1
<1>4. \A i, j \in times : i = j
  <2> SUFFICES ASSUME NEW i \in times, NEW j \in times PROVE i = j
    OBVIOUS
  <2>1. i \in 1..Position(s) /\ j \in 1..Position(s) /\ rows[i] = rows[j]
    BY <1>3
  <2>2. i - 1 \in Nat /\ i - 1 < Total /\ j - 1 \in Nat /\ j - 1 < Total
    BY <1>2, <2>1
  <2>3. RowAt(i - 1) = RowAt(j - 1)
    BY <1>1, <1>3, <2>1
  <2>4. i - 1 = j - 1
    BY <2>2, <2>3, RowsAreDistinct
  <2> QED
    BY <2>1, <2>4
<1>5. times = {} \/ \E i : times = {i}
  BY <1>4
<1>6. Cardinality(times) <= 1 /\ (times # {} => Cardinality(times) = 1)
  <2>1. Cardinality({}) = 0 /\ \A i : Cardinality({i}) = 1
    BY FS_EmptySet, FS_Singleton
  <2>2. CASE times = {}
    BY <2>1, <2>2
  <2>3. CASE \E i : times = {i}
    <3>1. PICK i : times = {i}
      BY <2>3
    <3>2. Cardinality(times) = 1
      BY <2>1, <3>1
    <3> QED
      BY <3>2
  <2> QED
    BY <1>5, <2>2, <2>3
<1>7. ASSUME e < s.epoch PROVE times # {}
  <2>1. PICK k \in Prompts : Shuffle[e][k] = p
    BY DataConstants
  <2>2. Size \in Nat \ {0} /\ e \in Nat
    BY StreamTypes
  <2>3. k \in Nat /\ k - 1 \in 0..Size - 1
    BY <2>1, <2>2 DEF Prompts
  <2>4. PICK n : n = e * Size + (k - 1)
    OBVIOUS
  <2>5. n \in Nat /\ n \div Size = e /\ n % Size = k - 1
    BY <2>2, <2>3, <2>4, DivisionIsUnique
  <2>6. n < Position(s)
    <3>1. PICK m : m = e * Size
      OBVIOUS
    <3>2. m \in Nat /\ m + Size <= Position(s) /\ n = m + (k - 1)
      BY <1>2, <1>7, <2>4, <3>1
    <3> QED
      BY <1>2, <2>2, <2>3, <3>2
  <2>7. (n % Size) + 1 = k
    BY <2>3, <2>5
  <2>8. RowAt(n) = [epoch |-> e, prompt |-> p]
    BY <2>1, <2>5, <2>7 DEF RowAt
  <2>9. n + 1 \in DOMAIN rows /\ rows[n + 1] = RowAt(n)
    BY <1>1, <1>2, <1>3, <2>5, <2>6
  <2> QED
    BY <2>8, <2>9
<1> QED
  BY <1>6, <1>7

(* The stream behind the state of the sampler and of the model is whole:    *)
(* whatever crashes, replacements of failed prompts and resumes there were, *)
(* every epoch before the current one gave every prompt once, the current   *)
(* one none twice, and no row taught the model twice (prompt_sampler.py,    *)
(* rng_state of the checkpoint, _restore_checkpoint).                       *)
THEOREM StreamStaysWhole == Spec => []StreamIsWhole
<1>1. DataInv => StreamIsWhole
  <2> SUFFICES ASSUME StreamInv PROVE StreamIsWhole
    BY DEF DataInv
  <2>1. StreamUpTo(sampler, stream) /\ LearntFrom(stream, trained)
    BY DEF StreamInv
  <2>2. ASSUME NEW e \in Epochs, NEW p \in Prompts, NEW times,
               times = {i \in DOMAIN stream : stream[i] = [epoch |-> e, prompt |-> p]}
        PROVE  Cardinality(times) <= 1 /\ (e < sampler.epoch => Cardinality(times) = 1)
    BY <2>1, <2>2, TimesInStream
  <2>3. ToSet(trained) \subseteq ToSet(stream)
    BY <2>1 DEF ToSet, LearntFrom
  <2>4. \A i, j \in DOMAIN trained : i # j => trained[i] # trained[j]
    BY <2>1 DEF LearntFrom
  <2> QED
    BY <2>2, <2>3, <2>4 DEF StreamIsWhole
<1> QED
  BY <1>1, DataInvariant, PTL

(* A pooled group is one that this attempt drew, with all of its deferred   *)
(* tasks until the selected ones are scored, whatever prompts had to be     *)
(* replaced and however often the pool was refilled; and only an attempt    *)
(* that crosses an epoch meets a prompt twice (CandidatePool.add,           *)
(* _finish_submissions, finalize_selected_exact_ig).                        *)
THEOREM PoolBelongsToAttempt == Spec => []PoolIsOfThisAttempt
<1>1. ASSUME DataInv PROVE PoolIsOfThisAttempt
  <2>1. StreamInv /\ CollectionInv
    BY <1>1 DEF DataInv
  <2>2. \A p \in DOMAIN pool : [epoch |-> pool[p].epoch, prompt |-> p] \in ToSet(drawn)
    BY <2>1 DEF CollectionInv, WasDrawn, ToSet
  <2>3. pc = "selected" /\ Deferred => \A p \in DOMAIN pool : tasks[p] = Members
    BY <2>1 DEF CollectionInv, InAttempt
  <2>4. ASSUME ~ Cardinality({drawn[i].epoch : i \in DOMAIN drawn}) > 1
        PROVE  ~ Cardinality(DrawnPrompts(drawn)) < Len(drawn)
    <3>1. PICK E : E = {drawn[i].epoch : i \in DOMAIN drawn}
      OBVIOUS
    <3>2. PICK D : D = DrawnPrompts(drawn)
      OBVIOUS
    <3>3. drawn \in Seq(Row) /\ \A i \in DOMAIN drawn : drawn[i] \in Row
      BY <2>1 DEF StreamInv
    <3>4. PICK n \in Nat : n = Len(drawn) /\ DOMAIN drawn = 1..n
      BY <3>3
    <3>5. IsFiniteSet(E) /\ IsFiniteSet(D)
      <4>1. E \in SUBSET Epochs /\ D \in SUBSET Prompts
        BY <3>1, <3>2, <3>3 DEF Row, DrawnPrompts
      <4> QED
        BY <4>1, DataConstants, FS_Subset, PromptsAreFinite
    <3>6. \A a, b \in E : a = b
      <4> SUFFICES ASSUME NEW a \in E, NEW b \in E, a # b PROVE FALSE
        OBVIOUS
      <4>1. IsFiniteSet({a}) /\ Cardinality({a}) = 1
        BY FS_Singleton
      <4>2. IsFiniteSet({a} \cup {b}) /\ Cardinality({a} \cup {b}) = 2
        BY <4>1, FS_AddElement
      <4>3. {a} \cup {b} \in SUBSET E
        OBVIOUS
      <4>4. 2 <= Cardinality(E) /\ Cardinality(E) \in Nat
        BY <3>5, <4>2, <4>3, FS_Subset, FS_CardinalityType
      <4> QED
        BY <2>4, <3>1, <4>4
    <3>7. \A i, j \in DOMAIN drawn : drawn[i].prompt = drawn[j].prompt => i = j
      <4> SUFFICES ASSUME NEW i \in DOMAIN drawn, NEW j \in DOMAIN drawn,
                          drawn[i].prompt = drawn[j].prompt
                   PROVE  i = j
        OBVIOUS
      <4>1. drawn[i] = drawn[j]
        <5>1. drawn[i].epoch = drawn[j].epoch
          BY <3>1, <3>6
        <5> QED
          BY <3>3, <5>1 DEF Row
      <4>2. /\ StreamUpTo(sampler, stream) /\ Len(drawn) <= Len(stream)
            /\ \A k \in DOMAIN drawn : drawn[k] = stream[Len(stream) - Len(drawn) + k]
        BY <2>1 DEF StreamInv
      <4>3. PICK m : m = Len(stream)
        OBVIOUS
      <4>4. /\ m \in Nat /\ m <= Total /\ Total \in Nat /\ DOMAIN stream = 1..m
            /\ \A k \in DOMAIN stream : stream[k] = RowAt(k - 1)
        BY <4>2, <4>3, PositionType DEF StreamUpTo
      <4>5. /\ m - n + i \in 1..m /\ m - n + j \in 1..m /\ i \in Nat /\ j \in Nat
            /\ m - n + i - 1 \in Nat /\ m - n + i - 1 < Total
            /\ m - n + j - 1 \in Nat /\ m - n + j - 1 < Total
        BY <3>4, <4>2, <4>3, <4>4
      <4>6. drawn[i] = RowAt(m - n + i - 1) /\ drawn[j] = RowAt(m - n + j - 1)
        BY <3>4, <4>2, <4>3, <4>4, <4>5
      <4>7. m - n + i - 1 = m - n + j - 1
        BY <4>1, <4>5, <4>6, RowsAreDistinct
      <4> QED
        BY <4>4, <4>5, <4>7
    <3>8. PICK f : f = [i \in 1..n |-> drawn[i].prompt]
      OBVIOUS
    <3>9. f \in Injection(1..n, D)
      <4>1. f \in [1..n -> D]
        BY <3>2, <3>4, <3>8 DEF DrawnPrompts
      <4>2. \A i, j \in 1..n : f[i] = f[j] => i = j
        BY <3>4, <3>7, <3>8
      <4> QED
        BY <4>1, <4>2 DEF Injection, IsInjective
    <3>10. Cardinality(1..n) = n
      BY FS_Interval
    <3>11. n <= Cardinality(D) /\ Cardinality(D) \in Nat
      BY <3>5, <3>9, <3>10, FS_Injection, FS_CardinalityType
    <3> QED
      BY <3>2, <3>4, <3>11
  <2> QED
    BY <2>2, <2>3, <2>4 DEF PoolIsOfThisAttempt
<1> QED
  BY <1>1, DataInvariant, PTL

(* What an update is made of is a smallest top set of the attempt's pool    *)
(* with the share RhoNum/RhoDen of the score mass, or the cap's worth of    *)
(* it, whichever channels are gated, whatever scales they have and however  *)
(* the scores fall (CandidatePool.select, stable_mass_top_p).               *)
THEOREM SelectionIsMinimalMass == Spec => []SelectedIsMinimalMass
<1>1. ASSUME DataInv, pc \in {"selected", "ready"}
      PROVE  LET S == decision.selected
                 total == Mass(DOMAIN pool)
             IN  /\ Cardinality(S) \in MinSelected..MaxSelected
                 /\ \A p \in S, q \in DOMAIN pool \ S :
                      decision.scores[p] > 0 /\ decision.scores[p] >= decision.scores[q]
                 /\ \A p \in S : Mass(S \ {p}) * RhoDen < RhoNum * total
                 /\ \/ Mass(S) * RhoDen >= RhoNum * total
                    \/ Cardinality(S) = MaxSelected
  <2>1. /\ Cardinality(decision.selected) \in Nat
        /\ Cardinality(decision.selected) >= MinSelected
        /\ MinimalMass(decision.scores, DOMAIN pool, decision.selected)
    BY <1>1, CurrentDecision DEF DataInv
  <2>2. Cardinality(decision.selected) \in MinSelected..MaxSelected
    BY <2>1, SelectionTypes DEF MinimalMass
  <2> QED
    BY <2>1, <2>2 DEF MinimalMass, Mass
<1>2. DataInv => SelectedIsMinimalMass
  BY <1>1 DEF SelectedIsMinimalMass
<1> QED
  BY <1>2, DataInvariant, PTL

(* The first successful update leaves a channel alive and no later one, no  *)
(* death and no resume kills it: a run that has trained has a scale to      *)
(* select by (committed_after_success, _restore_checkpoint).                *)
THEOREM AChannelStaysAlive == Spec => []ScalesStayAlive
<1>1. DataInv => ScalesStayAlive
  BY DEF DataInv, DecisionInv, Alive, ScalesStayAlive
<1> QED
  BY <1>1, DataInvariant, PTL
==================================================================================
