----------------------------- MODULE DataInduction -----------------------------
(***************************************************************************)
(* Induction over data, for the proofs about folds, sums and sorted lists  *)
(* of the other modules.  What is inducted over is a SET of numbers or of  *)
(* sets, never a predicate, so that every lemma here is cited with values  *)
(* for its parameters.                                                     *)
(***************************************************************************)
EXTENDS Integers, Sequences, FiniteSets, FiniteSetsExt, SequencesExt, Ordering,
        FiniteSetTheorems, SequenceTheorems, WellFoundedInduction, TLAPS

(* Every non-empty set of naturals has a least element.                     *)
LEMMA LeastNatural ==
  ASSUME NEW S \in SUBSET Nat, S # {}
  PROVE  \E n \in S : \A m \in S : n <= m
<1> DEFINE R == OpToRel(<, Nat)
<1>1. IsWellFoundedOn(R, Nat)
  BY NatLessThanWellFounded
<1>2. \A a, b \in Nat : a < b => <<a, b>> \in R
  BY DEF OpToRel
<1> HIDE DEF R
<1>3. PICK n \in S : \A m \in S : ~ (<<m, n>> \in R)
  BY <1>1, WFMin
<1>4. ASSUME NEW m \in S PROVE n <= m
  <2>1. n \in Nat /\ m \in Nat
    OBVIOUS
  <2>2. ~ (m < n)
    BY <1>2, <1>3, <2>1
  <2> QED
    BY <2>1, <2>2
<1> QED
  BY <1>4

(* Induction over the naturals: a set with 0 and every successor is Nat.    *)
LEMMA SetOfNaturals ==
  ASSUME NEW S, 0 \in S, \A n \in Nat : n \in S => n + 1 \in S
  PROVE  Nat \subseteq S
<1> SUFFICES ASSUME NEW k \in Nat, k \notin S PROVE FALSE
  OBVIOUS
<1> DEFINE T == Nat \ S
<1>1. PICK n \in T : \A m \in T : n <= m
  BY LeastNatural
<1>2. n # 0
  OBVIOUS
<1>3. n - 1 \in Nat /\ n - 1 \in S
  BY <1>1, <1>2
<1>4. (n - 1) + 1 = n
  BY <1>3
<1> QED
  BY <1>3, <1>4

(* The same up to a bound.                                                  *)
LEMMA SetUpTo ==
  ASSUME NEW n \in Nat, NEW S, 0 \in S,
         \A k \in 0 .. n - 1 : k \in S => k + 1 \in S
  PROVE  0 .. n \subseteq S
<1> DEFINE T == {k \in Nat : k <= n => k \in S}
<1>1. 0 \in T
  OBVIOUS
<1>2. ASSUME NEW k \in Nat, k \in T PROVE k + 1 \in T
  <2>1. k + 1 \in Nat
    OBVIOUS
  <2>2. CASE k + 1 <= n
    BY <1>2, <2>1, <2>2
  <2>3. CASE ~ (k + 1 <= n)
    BY <2>1, <2>3
  <2> QED
    BY <2>2, <2>3
<1>3. Nat \subseteq T
  BY <1>1, <1>2, SetOfNaturals
<1> QED
  BY <1>3

(* Induction over a finite set: a family that holds {} and is closed under  *)
(* adding one element of S holds S itself.                                  *)
LEMMA FamilyOfSubsets ==
  ASSUME NEW S, IsFiniteSet(S), NEW F, {} \in F,
         \A T \in SUBSET S : \A x \in S \ T : T \in F => T \cup {x} \in F
  PROVE  S \in F
<1> DEFINE N == {n \in Nat : \A T \in SUBSET S : Cardinality(T) = n => T \in F}
<1>1. 0 \in N
  <2>1. ASSUME NEW T \in SUBSET S, Cardinality(T) = 0 PROVE T = {}
    BY <2>1, FS_Subset, FS_EmptySet
  <2> QED
    BY <2>1
<1>2. ASSUME NEW n \in Nat, n \in N PROVE n + 1 \in N
  <2>1. n + 1 \in Nat
    OBVIOUS
  <2>2. ASSUME NEW T \in SUBSET S, Cardinality(T) = n + 1 PROVE T \in F
    <3>1. IsFiniteSet(T)
      BY FS_Subset
    <3>2. T # {}
      <4>1. n + 1 # 0 /\ Cardinality({}) = 0
        BY FS_EmptySet
      <4> QED
        BY <2>2, <4>1
    <3>3. PICK x \in T : TRUE
      BY <3>2
    <3>4. Cardinality(T \ {x}) = n
      <4>1. Cardinality(T \ {x}) = Cardinality(T) - 1
        BY <3>1, FS_RemoveElement
      <4> QED
        BY <2>2, <4>1
    <3>5. T \ {x} \in F
      BY <1>2, <3>4
    <3>6. (T \ {x}) \cup {x} = T /\ T \ {x} \in SUBSET S /\ x \in S \ (T \ {x})
      OBVIOUS
    <3>7. (T \ {x}) \cup {x} \in F
      BY <3>5, <3>6
    <3> QED
      BY <3>6, <3>7
  <2> QED
    BY <2>1, <2>2
<1>3. Nat \subseteq N
  <2> HIDE DEF N
  <2> QED
    BY <1>1, <1>2, SetOfNaturals
<1>4. Cardinality(S) \in Nat
  BY FS_CardinalityType
<1> QED
  BY <1>3, <1>4

(* A finite set of integers has a greatest and a least element, and Max and *)
(* Min are these.                                                           *)
LEMMA MaxOfFinite ==
  ASSUME NEW S \in SUBSET Int, S # {}, IsFiniteSet(S)
  PROVE  /\ Max(S) \in S
         /\ \A y \in S : Max(S) >= y
<1> DEFINE F == {T \in SUBSET S : T = {} \/ \E x \in T : \A y \in T : x >= y}
<1>1. {} \in F
  OBVIOUS
<1>2. ASSUME NEW T \in SUBSET S, NEW x \in S \ T, T \in F
      PROVE  T \cup {x} \in F
  <2>1. CASE T = {}
    BY <2>1
  <2>2. ASSUME NEW m \in T, \A y \in T : m >= y
        PROVE  T \cup {x} \in F
    <3>1. m \in Int /\ x \in Int /\ \A y \in T : y \in Int
      OBVIOUS
    <3>2. CASE m >= x
      BY <2>2, <3>1, <3>2
    <3>3. CASE ~ (m >= x)
      <4>1. \A y \in T \cup {x} : x >= y
        BY <2>2, <3>1, <3>3
      <4> QED
        BY <4>1
    <3> QED
      BY <3>2, <3>3
  <2> QED
    BY <1>2, <2>1, <2>2
<1>3. S \in F
  <2> HIDE DEF F
  <2> QED
    BY <1>1, <1>2, FamilyOfSubsets
<1>4. \E x \in S : \A y \in S : x >= y
  BY <1>3
<1> QED
  BY <1>4 DEF Max

LEMMA MinOfFinite ==
  ASSUME NEW S \in SUBSET Int, S # {}, IsFiniteSet(S)
  PROVE  /\ Min(S) \in S
         /\ \A y \in S : Min(S) <= y
<1> DEFINE F == {T \in SUBSET S : T = {} \/ \E x \in T : \A y \in T : x <= y}
<1>1. {} \in F
  OBVIOUS
<1>2. ASSUME NEW T \in SUBSET S, NEW x \in S \ T, T \in F
      PROVE  T \cup {x} \in F
  <2>1. CASE T = {}
    BY <2>1
  <2>2. ASSUME NEW m \in T, \A y \in T : m <= y
        PROVE  T \cup {x} \in F
    <3>1. m \in Int /\ x \in Int /\ \A y \in T : y \in Int
      OBVIOUS
    <3>2. CASE m <= x
      BY <2>2, <3>1, <3>2
    <3>3. CASE ~ (m <= x)
      <4>1. \A y \in T \cup {x} : x <= y
        BY <2>2, <3>1, <3>3
      <4> QED
        BY <4>1
    <3> QED
      BY <3>2, <3>3
  <2> QED
    BY <1>2, <2>1, <2>2
<1>3. S \in F
  <2> HIDE DEF F
  <2> QED
    BY <1>1, <1>2, FamilyOfSubsets
<1>4. \E x \in S : \A y \in S : x <= y
  BY <1>3
<1> QED
  BY <1>4 DEF Min
-----------------------------------------------------------------------------
(* Recursion over the subsets of a finite set, one chosen element at a      *)
(* time: there is a function that the equation of the recursion describes.  *)
Chooses(c, S) == \A s \in SUBSET S : s # {} => c[s] \in s
Recurses(it, S, V, b, c, g) ==
  /\ it \in [SUBSET S -> V]
  /\ \A s \in SUBSET S :
       it[s] = IF s = {} THEN b ELSE g[<<c[s], it[s \ {c[s]}]>>]

LEMMA RecursionOnSubsets ==
  ASSUME NEW S, IsFiniteSet(S), NEW V, NEW b \in V,
         NEW c, Chooses(c, S), NEW g \in [S \X V -> V]
  PROVE  \E it : Recurses(it, S, V, b, c, g)
<1> USE DEF Chooses
<1> DEFINE Small(n) == {T \in SUBSET S : Cardinality(T) <= n}
           Good(n, it) == /\ it \in [Small(n) -> V]
                          /\ \A s \in Small(n) :
                               it[s] = IF s = {} THEN b ELSE g[<<c[s], it[s \ {c[s]}]>>]
           N == {n \in Nat : \E it : Good(n, it)}
<1>1. \A T \in SUBSET S : IsFiniteSet(T) /\ Cardinality(T) \in Nat
  BY FS_Subset, FS_CardinalityType
<1>2. \A T \in SUBSET S : Cardinality(T) <= 0 <=> T = {}
  BY <1>1, FS_EmptySet
<1>3. \A T \in SUBSET S : T # {} =>
        /\ c[T] \in S /\ T \ {c[T]} \in SUBSET S
        /\ Cardinality(T \ {c[T]}) = Cardinality(T) - 1
  BY <1>1, FS_RemoveElement
<1>4. 0 \in N
  <2>1. Good(0, [s \in Small(0) |-> b])
    BY <1>2
  <2> QED
    BY <2>1
<1>5. ASSUME NEW n \in Nat, n \in N PROVE n + 1 \in N
  <2>1. PICK it : Good(n, it)
    BY <1>5
  <2> DEFINE new == [s \in Small(n + 1) |->
                       IF s \in Small(n) THEN it[s]
                       ELSE g[<<c[s], it[s \ {c[s]}]>>]]
  <2>2. \A s \in Small(n + 1) : s # {} => s \ {c[s]} \in Small(n)
    BY <1>1, <1>3
  <2>3. {} \in Small(n)
    BY <1>2, FS_EmptySet
  <2>4. Small(n) \subseteq Small(n + 1)
    BY <1>1
  <2>5. new \in [Small(n + 1) -> V]
    <3>1. ASSUME NEW s \in Small(n + 1) PROVE new[s] \in V
      <4>1. CASE s \in Small(n)
        BY <2>1, <4>1
      <4>2. CASE s \notin Small(n)
        <5>1. s # {} /\ s \ {c[s]} \in Small(n) /\ c[s] \in S
          BY <2>2, <2>3, <4>2, <1>3
        <5>2. it[s \ {c[s]}] \in V
          BY <2>1, <5>1
        <5> QED
          BY <4>2, <5>1, <5>2
      <4> QED
        BY <4>1, <4>2
    <3> QED
      BY <3>1
  <2>6. ASSUME NEW s \in Small(n + 1)
        PROVE  new[s] = IF s = {} THEN b ELSE g[<<c[s], new[s \ {c[s]}]>>]
    <3>1. s # {} => new[s \ {c[s]}] = it[s \ {c[s]}]
      BY <2>2, <2>4
    <3>2. CASE s \in Small(n)
      <4>1. new[s] = it[s]
        BY <3>2
      <4>2. it[s] = IF s = {} THEN b ELSE g[<<c[s], it[s \ {c[s]}]>>]
        BY <2>1, <3>2
      <4> QED
        BY <3>1, <4>1, <4>2
    <3>3. CASE s \notin Small(n)
      BY <2>3, <3>1, <3>3
    <3> QED
      BY <3>2, <3>3
  <2>7. Good(n + 1, new)
    BY <2>5, <2>6
  <2>8. n + 1 \in Nat
    OBVIOUS
  <2> HIDE DEF Good, new
  <2> QED
    BY <2>7, <2>8
<1>6. Nat \subseteq N
  <2> HIDE DEF N
  <2> QED
    BY <1>4, <1>5, SetOfNaturals
<1>7. PICK it : Good(Cardinality(S), it)
  <2>1. Cardinality(S) \in N
    BY <1>1, <1>6
  <2> QED
    BY <2>1
<1>8. Small(Cardinality(S)) = SUBSET S
  BY FS_Subset
<1> QED
  BY <1>7, <1>8 DEF Recurses

-----------------------------------------------------------------------------
(* The sum of f over S.                                                     *)
SumOn(S, f) == MapThenSumSet(LAMBDA x : f[x], S)

Adds(it, S, f) ==
  /\ it \in [SUBSET S -> Int]
  /\ it[{}] = 0
  /\ \A s \in SUBSET S : \A x \in s : it[s] = f[x] + it[s \ {x}]

(* In whichever order the elements are added.                               *)
LEMMA AnyOrder ==
  ASSUME NEW S, IsFiniteSet(S), NEW f, \A x \in S : f[x] \in Int,
         NEW it \in [SUBSET S -> Int], it[{}] = 0,
         \A s \in SUBSET S : s # {} => \E x \in s : it[s] = f[x] + it[s \ {x}]
  PROVE  Adds(it, S, f)
<1> DEFINE N == {n \in Nat : \A s \in SUBSET S : Cardinality(s) = n =>
                    \A x \in s : it[s] = f[x] + it[s \ {x}]}
<1>1. \A T \in SUBSET S : IsFiniteSet(T) /\ Cardinality(T) \in Nat
  BY FS_Subset, FS_CardinalityType
<1>2. \A T \in SUBSET S : \A x \in T : Cardinality(T \ {x}) = Cardinality(T) - 1
  BY <1>1, FS_RemoveElement
<1>3. 0 \in N
  BY <1>1, FS_EmptySet
<1>4. ASSUME NEW n \in Nat, n \in N PROVE n + 1 \in N
  <2>1. ASSUME NEW s \in SUBSET S, Cardinality(s) = n + 1, NEW x \in s
        PROVE  it[s] = f[x] + it[s \ {x}]
    <3>1. PICK y \in s : it[s] = f[y] + it[s \ {y}]
      OBVIOUS
    <3>2. CASE x = y
      BY <3>1, <3>2
    <3>3. CASE x # y
      <4>1. Cardinality(s \ {y}) = n /\ Cardinality(s \ {x}) = n
        BY <1>2, <2>1
      <4>2. /\ s \ {y} \in SUBSET S /\ x \in s \ {y}
            /\ s \ {x} \in SUBSET S /\ y \in s \ {x}
            /\ (s \ {y}) \ {x} \in SUBSET S
            /\ (s \ {y}) \ {x} = (s \ {x}) \ {y}
        BY <3>3
      <4> DEFINE rest == it[(s \ {y}) \ {x}]
      <4>3. it[s \ {y}] = f[x] + rest
        BY <1>4, <4>1, <4>2
      <4>4. it[s \ {x}] = f[y] + rest
        <5>1. it[s \ {x}] = f[y] + it[(s \ {x}) \ {y}]
          BY <1>4, <4>1, <4>2
        <5> QED
          BY <4>2, <5>1
      <4>5. f[x] \in Int /\ f[y] \in Int /\ rest \in Int
        BY <4>2
      <4> HIDE DEF rest
      <4>6. it[s] = f[y] + (f[x] + rest)
        BY <3>1, <4>3
      <4>7. f[x] + it[s \ {x}] = f[x] + (f[y] + rest)
        BY <4>4
      <4> QED
        BY <4>5, <4>6, <4>7
    <3> QED
      BY <3>2, <3>3
  <2> QED
    BY <2>1
<1>5. Nat \subseteq N
  <2> HIDE DEF N
  <2> QED
    BY <1>3, <1>4, SetOfNaturals
<1> QED
  BY <1>1, <1>5 DEF Adds

(* Two such functions agree wherever both are defined.                      *)
LEMMA SumsAgree ==
  ASSUME NEW S, IsFiniteSet(S), NEW T, S \subseteq T, NEW f, NEW h,
         \A x \in S : f[x] \in Int /\ h[x] = f[x],
         NEW it, Adds(it, S, f), NEW jt, Adds(jt, T, h)
  PROVE  it[S] = jt[S]
<1> DEFINE F == {s \in SUBSET S : it[s] = jt[s]}
<1>1. {} \in F
  BY DEF Adds
<1>2. ASSUME NEW s \in SUBSET S, NEW x \in S \ s, s \in F PROVE s \cup {x} \in F
  <2>1. (s \cup {x}) \ {x} = s /\ s \cup {x} \in SUBSET S /\ s \cup {x} \in SUBSET T
    OBVIOUS
  <2> DEFINE u == s \cup {x}
  <2>2. it[u] = f[x] + it[u \ {x}]
    BY <2>1 DEF Adds
  <2>3. jt[u] = h[x] + jt[u \ {x}]
    BY <2>1 DEF Adds
  <2> QED
    BY <1>2, <2>1, <2>2, <2>3
<1>3. S \in F
  <2> HIDE DEF F
  <2> QED
    BY <1>1, <1>2, FamilyOfSubsets
<1> QED
  BY <1>3

(* SumOn is such a function, read at S.                                     *)
LEMMA SumOnAdds ==
  ASSUME NEW S, IsFiniteSet(S), NEW f, \A x \in S : f[x] \in Int
  PROVE  \E it : Adds(it, S, f) /\ SumOn(S, f) = it[S]
<1> DEFINE Chosen(s) == CHOOSE x \in s : TRUE
           Eq(it) == it = [s \in SUBSET S |->
                             IF s = {} THEN 0
                             ELSE f[Chosen(s)] + it[s \ {Chosen(s)}]]
           c == [s \in SUBSET S |-> Chosen(s)]
           g == [p \in S \X Int |-> f[p[1]] + p[2]]
           jt == CHOOSE it : Eq(it)
<1>1. SumOn(S, f) = jt[S]
  BY DEF SumOn, MapThenSumSet, MapThenFoldSet
<1>2. \A s \in SUBSET S : s # {} => Chosen(s) \in s
  OBVIOUS
<1> HIDE DEF Chosen
<1>3. \A s \in SUBSET S : c[s] = Chosen(s)
  OBVIOUS
<1>4. Chooses(c, S)
  BY <1>2, <1>3 DEF Chooses
<1>5. g \in [S \X Int -> Int]
  OBVIOUS
<1>6. \A x \in S, v \in Int : g[<<x, v>>] = f[x] + v
  OBVIOUS
<1>7. 0 \in Int
  OBVIOUS
<1> HIDE DEF c, g
<1>8. PICK it : Recurses(it, S, Int, 0, c, g)
  BY <1>4, <1>5, <1>7, RecursionOnSubsets
<1>9. ASSUME NEW s \in SUBSET S
      PROVE  it[s] = IF s = {} THEN 0 ELSE f[Chosen(s)] + it[s \ {Chosen(s)}]
  <2>1. CASE s = {}
    BY <1>8, <2>1 DEF Recurses
  <2>2. CASE s # {}
    <3>1. c[s] \in s /\ c[s] = Chosen(s) /\ c[s] \in S /\ it[s \ {c[s]}] \in Int
      BY <1>2, <1>3, <1>8, <2>2 DEF Recurses
    <3>2. it[s] = g[<<c[s], it[s \ {c[s]}]>>]
      BY <1>8, <2>2 DEF Recurses
    <3>3. g[<<c[s], it[s \ {c[s]}]>>] = f[c[s]] + it[s \ {c[s]}]
      BY <1>6, <3>1
    <3> QED
      BY <2>2, <3>1, <3>2, <3>3
  <2> QED
    BY <2>1, <2>2
<1>10. Eq(it)
  BY <1>8, <1>9 DEF Recurses
<1>11. Eq(jt)
  BY <1>10
<1> HIDE DEF jt
<1>12. /\ jt[{}] = 0
       /\ \A s \in SUBSET S : s # {} => jt[s] = f[Chosen(s)] + jt[s \ {Chosen(s)}]
  BY <1>11
<1>13. ASSUME NEW s \in SUBSET S PROVE jt[s] \in Int
  <2> DEFINE F == {n \in Nat : \A t \in SUBSET S : Cardinality(t) <= n => jt[t] \in Int}
  <2>1. \A t \in SUBSET S : IsFiniteSet(t) /\ Cardinality(t) \in Nat
    BY FS_Subset, FS_CardinalityType
  <2>2. 0 \in F
    <3>1. \A t \in SUBSET S : Cardinality(t) <= 0 => t = {}
      BY <2>1, FS_EmptySet
    <3>2. jt[{}] \in Int /\ 0 \in Nat
      BY <1>12
    <3> QED
      BY <3>1, <3>2
  <2>3. ASSUME NEW n \in Nat, n \in F PROVE n + 1 \in F
    <3>1. ASSUME NEW t \in SUBSET S, Cardinality(t) <= n + 1 PROVE jt[t] \in Int
      <4>1. CASE t = {}
        BY <1>12, <4>1
      <4>2. CASE t # {}
        <5>1. Chosen(t) \in t
          BY <1>2, <4>2
        <5>2. Cardinality(t \ {Chosen(t)}) = Cardinality(t) - 1
          BY <2>1, <5>1, FS_RemoveElement
        <5>3. Cardinality(t \ {Chosen(t)}) <= n
          BY <2>1, <3>1, <5>2
        <5>4. jt[t \ {Chosen(t)}] \in Int
          BY <2>3, <5>3
        <5>5. jt[t] = f[Chosen(t)] + jt[t \ {Chosen(t)}]
          BY <1>12, <4>2
        <5> QED
          BY <5>1, <5>4, <5>5
      <4> QED
        BY <4>1, <4>2
    <3> QED
      BY <3>1
  <2>4. Nat \subseteq F
    <3> HIDE DEF F
    <3> QED
      BY <2>2, <2>3, SetOfNaturals
  <2> QED
    BY <2>1, <2>4
<1>14. jt \in [SUBSET S -> Int]
  <2>1. jt = [s \in SUBSET S |-> jt[s]]
    BY <1>11
  <2> QED
    BY <1>13, <2>1
<1>15. \A s \in SUBSET S : s # {} => \E x \in s : jt[s] = f[x] + jt[s \ {x}]
  BY <1>2, <1>12
<1>16. Adds(jt, S, f)
  BY <1>12, <1>14, <1>15, AnyOrder
<1> QED
  BY <1>1, <1>16

Ints(S, f) == \A x \in S : f[x] \in Int

LEMMA SumType ==
  ASSUME NEW S, IsFiniteSet(S), NEW f, Ints(S, f)
  PROVE  SumOn(S, f) \in Int
<1>1. PICK it : Adds(it, S, f) /\ SumOn(S, f) = it[S]
  BY SumOnAdds DEF Ints
<1>2. it[S] \in Int
  BY <1>1 DEF Adds
<1> QED
  BY <1>1, <1>2

LEMMA SumEmpty ==
  ASSUME NEW f
  PROVE  SumOn({}, f) = 0
<1>1. IsFiniteSet({}) /\ \A x \in {} : f[x] \in Int
  BY FS_EmptySet
<1> QED
  BY <1>1, SumOnAdds DEF Adds

(* Only the values at the elements of the set matter.                       *)
LEMMA SumSame ==
  ASSUME NEW S, IsFiniteSet(S), NEW f, Ints(S, f),
         NEW h, \A x \in S : h[x] = f[x]
  PROVE  SumOn(S, h) = SumOn(S, f)
<1>1. \A x \in S : f[x] \in Int /\ h[x] \in Int
  BY DEF Ints
<1>2. PICK it : Adds(it, S, f) /\ SumOn(S, f) = it[S]
  BY <1>1, SumOnAdds
<1>3. PICK jt : Adds(jt, S, h) /\ SumOn(S, h) = jt[S]
  BY <1>1, SumOnAdds
<1>4. it[S] = jt[S]
  BY <1>1, <1>2, <1>3, SumsAgree
<1> QED
  BY <1>2, <1>3, <1>4

LEMMA SumRemove ==
  ASSUME NEW S, IsFiniteSet(S), NEW f, Ints(S, f), NEW x \in S
  PROVE  /\ SumOn(S, f) = f[x] + SumOn(S \ {x}, f)
         /\ SumOn(S \ {x}, f) \in Int
         /\ f[x] \in Int
<1> DEFINE T == S \ {x}
<1>1. \A y \in S : f[y] \in Int
  BY DEF Ints
<1>2. IsFiniteSet(T) /\ T \subseteq S /\ Ints(T, f)
  BY FS_RemoveElement DEF Ints
<1>3. PICK it : Adds(it, S, f) /\ SumOn(S, f) = it[S]
  BY <1>1, SumOnAdds
<1>4. PICK jt : Adds(jt, T, f) /\ SumOn(T, f) = jt[T]
  BY <1>2, SumOnAdds DEF Ints
<1>5. jt[T] = it[T]
  BY <1>1, <1>2, <1>3, <1>4, SumsAgree
<1>6. it[S] = f[x] + it[T]
  BY <1>3 DEF Adds
<1>7. SumOn(T, f) \in Int
  BY <1>2, SumType
<1> QED
  BY <1>1, <1>3, <1>4, <1>5, <1>6, <1>7

LEMMA SumAdd ==
  ASSUME NEW S, IsFiniteSet(S), NEW f, NEW x, x \notin S, Ints(S \cup {x}, f)
  PROVE  /\ SumOn(S \cup {x}, f) = f[x] + SumOn(S, f)
         /\ SumOn(S, f) \in Int
         /\ f[x] \in Int
<1> DEFINE U == S \cup {x}
<1>1. IsFiniteSet(U) /\ U \ {x} = S /\ x \in U
  BY FS_AddElement
<1> HIDE DEF U
<1>2. Ints(U, f)
  BY DEF U
<1>3. /\ SumOn(U, f) = f[x] + SumOn(U \ {x}, f)
      /\ SumOn(U \ {x}, f) \in Int
      /\ f[x] \in Int
  BY <1>1, <1>2, SumRemove
<1> QED
  BY <1>1, <1>3 DEF U

(* Sums keep an order that holds element by element.                        *)
LEMMA SumAtMost ==
  ASSUME NEW S, IsFiniteSet(S), NEW f, Ints(S, f), NEW h, Ints(S, h),
         \A x \in S : f[x] <= h[x]
  PROVE  SumOn(S, f) <= SumOn(S, h)
<1> DEFINE F == {T \in SUBSET S : SumOn(T, f) <= SumOn(T, h)}
<1>1. {} \in F
  BY SumEmpty
<1>2. ASSUME NEW T \in SUBSET S, NEW x \in S \ T, T \in F PROVE T \cup {x} \in F
  <2>1. IsFiniteSet(T) /\ x \notin T /\ T \cup {x} \in SUBSET S
    BY FS_Subset
  <2>2. Ints(T \cup {x}, f) /\ Ints(T \cup {x}, h)
    BY DEF Ints
  <2>3. SumOn(T \cup {x}, f) = f[x] + SumOn(T, f) /\ SumOn(T, f) \in Int /\ f[x] \in Int
    BY <2>1, <2>2, SumAdd
  <2>4. SumOn(T \cup {x}, h) = h[x] + SumOn(T, h) /\ SumOn(T, h) \in Int /\ h[x] \in Int
    BY <2>1, <2>2, SumAdd
  <2>5. f[x] <= h[x] /\ SumOn(T, f) <= SumOn(T, h)
    BY <1>2
  <2>6. SumOn(T \cup {x}, f) <= SumOn(T \cup {x}, h)
    BY <2>3, <2>4, <2>5
  <2> QED
    BY <2>1, <2>6
<1>3. S \in F
  <2> HIDE DEF F
  <2> QED
    BY <1>1, <1>2, FamilyOfSubsets
<1> QED
  BY <1>3

(* Sums of two parts, and what is zero outside a part.                      *)
LEMMA SumSplit ==
  ASSUME NEW S, IsFiniteSet(S), NEW T, IsFiniteSet(T), S \cap T = {},
         NEW f, Ints(S \cup T, f)
  PROVE  SumOn(S \cup T, f) = SumOn(S, f) + SumOn(T, f)
<1> DEFINE F == {U \in SUBSET T : SumOn(S \cup U, f) = SumOn(S, f) + SumOn(U, f)}
<1>1. {} \in F
  <2>1. S \cup {} = S /\ SumOn({}, f) = 0
    BY SumEmpty
  <2>2. SumOn(S, f) \in Int
    BY SumType DEF Ints
  <2> QED
    BY <2>1, <2>2
<1>2. ASSUME NEW U \in SUBSET T, NEW x \in T \ U, U \in F PROVE U \cup {x} \in F
  <2>1. IsFiniteSet(U) /\ x \notin U /\ x \notin S \cup U
    BY FS_Subset
  <2>2. IsFiniteSet(S \cup U)
    BY <2>1, FS_Union
  <2>3. Ints((S \cup U) \cup {x}, f) /\ Ints(U \cup {x}, f)
    BY DEF Ints
  <2>4. SumOn((S \cup U) \cup {x}, f) = f[x] + SumOn(S \cup U, f) /\ f[x] \in Int
    BY <2>1, <2>2, <2>3, SumAdd
  <2>5. SumOn(U \cup {x}, f) = f[x] + SumOn(U, f) /\ SumOn(U, f) \in Int
    BY <2>1, <2>3, SumAdd
  <2>6. (S \cup U) \cup {x} = S \cup (U \cup {x})
    OBVIOUS
  <2>7. SumOn(S, f) \in Int
    BY SumType DEF Ints
  <2>8. SumOn(S \cup U, f) = SumOn(S, f) + SumOn(U, f)
    BY <1>2
  <2>9. SumOn(S \cup (U \cup {x}), f) = SumOn(S, f) + SumOn(U \cup {x}, f)
    <3>1. SumOn(S \cup (U \cup {x}), f) = f[x] + (SumOn(S, f) + SumOn(U, f))
      BY <2>4, <2>6, <2>8
    <3> QED
      BY <2>4, <2>5, <2>7, <3>1
  <2> QED
    BY <2>9
<1>3. T \in F
  <2> HIDE DEF F
  <2> QED
    BY <1>1, <1>2, FamilyOfSubsets
<1> QED
  BY <1>3

LEMMA SumZero ==
  ASSUME NEW S, IsFiniteSet(S), NEW f, \A x \in S : f[x] = 0
  PROVE  SumOn(S, f) = 0
<1> DEFINE F == {T \in SUBSET S : SumOn(T, f) = 0}
<1>1. {} \in F
  BY SumEmpty
<1>2. ASSUME NEW T \in SUBSET S, NEW x \in S \ T, T \in F PROVE T \cup {x} \in F
  <2>1. IsFiniteSet(T) /\ x \notin T /\ Ints(T \cup {x}, f)
    BY FS_Subset DEF Ints
  <2>2. SumOn(T \cup {x}, f) = f[x] + SumOn(T, f)
    BY <2>1, SumAdd
  <2> QED
    BY <1>2, <2>2
<1>3. S \in F
  <2> HIDE DEF F
  <2> QED
    BY <1>1, <1>2, FamilyOfSubsets
<1> QED
  BY <1>3

LEMMA SumNat ==
  ASSUME NEW S, IsFiniteSet(S), NEW f, \A x \in S : f[x] \in Nat
  PROVE  SumOn(S, f) \in Nat
<1> DEFINE z == [x \in S |-> 0]
<1>1. Ints(S, f) /\ Ints(S, z) /\ \A x \in S : z[x] <= f[x]
  BY DEF Ints
<1>2. SumOn(S, z) = 0
  BY SumZero
<1>3. SumOn(S, z) <= SumOn(S, f) /\ SumOn(S, f) \in Int
  BY <1>1, SumAtMost, SumType
<1> QED
  BY <1>2, <1>3

LEMMA SumMonotone ==
  ASSUME NEW S, IsFiniteSet(S), NEW T \in SUBSET S, NEW f, \A x \in S : f[x] \in Nat
  PROVE  /\ SumOn(T, f) <= SumOn(S, f)
         /\ (\A x \in S \ T : f[x] = 0) => SumOn(T, f) = SumOn(S, f)
         /\ SumOn(T, f) \in Nat /\ SumOn(S, f) \in Nat
<1> DEFINE R == S \ T
<1>1. IsFiniteSet(T) /\ IsFiniteSet(R) /\ T \cap R = {} /\ T \cup R = S
  BY FS_Subset, FS_Difference
<1>2. Ints(T \cup R, f)
  BY DEF Ints
<1>3. SumOn(T \cup R, f) = SumOn(T, f) + SumOn(R, f)
  BY <1>1, <1>2, SumSplit
<1>4. SumOn(T, f) \in Nat /\ SumOn(R, f) \in Nat
  BY <1>1, SumNat
<1>5. (\A x \in R : f[x] = 0) => SumOn(R, f) = 0
  BY <1>1, SumZero
<1>6. SumOn(S, f) = SumOn(T, f) + SumOn(R, f)
  BY <1>1, <1>3
<1> QED
  BY <1>4, <1>5, <1>6

(* A sum does not depend on how its elements are named.                     *)
ImageOf(b, S) == {b[x] : x \in S}
Renames(b, S, f, h) ==
  /\ \A x, y \in S : x # y => b[x] # b[y]
  /\ \A x \in S : h[b[x]] \in Int /\ f[x] = h[b[x]]

LEMMA SumRenamed ==
  ASSUME NEW S, IsFiniteSet(S), NEW b, NEW f, NEW h, Renames(b, S, f, h)
  PROVE  SumOn(ImageOf(b, S), h) = SumOn(S, f)
<1> DEFINE Image(U) == {b[x] : x \in U}
           F == {U \in SUBSET S : IsFiniteSet(Image(U)) /\ SumOn(Image(U), h) = SumOn(U, f)}
<1>0. /\ \A x, y \in S : x # y => b[x] # b[y]
      /\ \A x \in S : h[b[x]] \in Int /\ f[x] = h[b[x]]
  BY DEF Renames
<1>1. {} \in F
  <2>1. Image({}) = {}
    OBVIOUS
  <2> QED
    BY <2>1, SumEmpty, FS_EmptySet
<1>2. ASSUME NEW U \in SUBSET S, NEW x \in S \ U, U \in F PROVE U \cup {x} \in F
  <2>1. Image(U \cup {x}) = Image(U) \cup {b[x]} /\ b[x] \notin Image(U)
    BY <1>0
  <2>2. IsFiniteSet(U) /\ x \notin U /\ IsFiniteSet(Image(U))
    BY <1>2, FS_Subset
  <2>3. Ints(U \cup {x}, f) /\ Ints(Image(U) \cup {b[x]}, h)
    BY <1>0 DEF Ints
  <2> HIDE DEF Image
  <2>4. SumOn(U \cup {x}, f) = f[x] + SumOn(U, f)
    BY <2>2, <2>3, SumAdd
  <2>5. SumOn(Image(U) \cup {b[x]}, h) = h[b[x]] + SumOn(Image(U), h)
    BY <2>1, <2>2, <2>3, SumAdd
  <2>6. SumOn(Image(U), h) = SumOn(U, f) /\ f[x] = h[b[x]]
    BY <1>0, <1>2
  <2>7. IsFiniteSet(Image(U \cup {x}))
    <3>1. IsFiniteSet(Image(U) \cup {b[x]})
      BY <2>2, FS_AddElement
    <3> QED
      BY <2>1, <3>1
  <2>8. SumOn(Image(U \cup {x}), h) = SumOn(U \cup {x}, f)
    BY <2>1, <2>4, <2>5, <2>6
  <2> QED
    BY <2>7, <2>8
<1>3. S \in F
  <2> HIDE DEF F
  <2> QED
    BY <1>1, <1>2, FamilyOfSubsets
<1> QED
  BY <1>3 DEF ImageOf

-----------------------------------------------------------------------------
(* Orders on finite sets                                                    *)

StrictOrder(R, S) ==
  /\ \A a \in S : <<a, a>> \notin R
  /\ \A a, b, d \in S : <<a, b>> \in R /\ <<b, d>> \in R => <<a, d>> \in R
  /\ \A a, b \in S : a = b \/ <<a, b>> \in R \/ <<b, a>> \in R

(* The element with r elements before it has rank r: every rank below the   *)
(* number of elements is somebody's, and nobody else's.                     *)
LEMMA RanksAreAll ==
  ASSUME NEW S, IsFiniteSet(S), NEW R, StrictOrder(R, S),
         NEW rank, rank = [a \in S |-> Cardinality({b \in S : <<b, a>> \in R})]
  PROVE  /\ rank \in [S -> 0 .. Cardinality(S) - 1]
         /\ \A a, b \in S : <<a, b>> \in R => rank[a] < rank[b]
         /\ \A a, b \in S : rank[a] = rank[b] => a = b
         /\ \A i \in 0 .. Cardinality(S) - 1 : \E a \in S : rank[a] = i
<1> DEFINE Before(a) == {b \in S : <<b, a>> \in R}
           n == Cardinality(S)
<1>1. n \in Nat
  BY FS_CardinalityType
<1>2. ASSUME NEW a \in S
      PROVE  /\ IsFiniteSet(Before(a)) /\ rank[a] = Cardinality(Before(a)) /\ rank[a] \in Nat
             /\ Cardinality(Before(a) \cup {a}) = rank[a] + 1
             /\ Before(a) \cup {a} \subseteq S
  <2>1. Before(a) \in SUBSET S /\ a \notin Before(a)
    BY DEF StrictOrder
  <2>2. IsFiniteSet(Before(a))
    BY <2>1, FS_Subset
  <2>3. rank[a] = Cardinality(Before(a))
    OBVIOUS
  <2> HIDE DEF Before
  <2>4. Cardinality(Before(a)) \in Nat
    BY <2>2, FS_CardinalityType
  <2>5. Cardinality(Before(a) \cup {a}) = Cardinality(Before(a)) + 1
    BY <2>1, <2>2, FS_AddElement
  <2> QED
    BY <2>1, <2>2, <2>3, <2>4, <2>5
<1>3. \A a \in S : rank[a] \in 0 .. n - 1
  <2> SUFFICES ASSUME NEW a \in S PROVE rank[a] \in 0 .. n - 1
    OBVIOUS
  <2> HIDE DEF Before
  <2>1. Cardinality(Before(a) \cup {a}) <= n
    BY <1>2, FS_Subset
  <2> QED
    BY <1>1, <1>2, <2>1
<1>4. \A a, b \in S : <<a, b>> \in R => rank[a] < rank[b]
  <2> SUFFICES ASSUME NEW a \in S, NEW b \in S, <<a, b>> \in R PROVE rank[a] < rank[b]
    OBVIOUS
  <2>1. Before(a) \cup {a} \in SUBSET Before(b)
    BY DEF StrictOrder
  <2> HIDE DEF Before
  <2>2. Cardinality(Before(a) \cup {a}) <= Cardinality(Before(b))
    BY <1>2, <2>1, FS_Subset
  <2>3. /\ rank[a] \in Nat /\ Cardinality(Before(a) \cup {a}) = rank[a] + 1
        /\ rank[b] \in Nat /\ Cardinality(Before(b)) = rank[b]
    BY <1>2
  <2> QED
    BY <2>2, <2>3
<1>5. \A a, b \in S : rank[a] = rank[b] => a = b
  <2> SUFFICES ASSUME NEW a \in S, NEW b \in S, rank[a] = rank[b], a # b PROVE FALSE
    OBVIOUS
  <2>1. <<a, b>> \in R \/ <<b, a>> \in R
    BY DEF StrictOrder
  <2>2. rank[a] < rank[b] \/ rank[b] < rank[a]
    BY <1>4, <2>1
  <2>3. rank[a] \in Nat /\ rank[b] \in Nat
    BY <1>2
  <2> QED
    BY <2>2, <2>3
<1>6. rank \in [S -> 0 .. n - 1]
  <2>1. rank = [a \in S |-> rank[a]]
    OBVIOUS
  <2> HIDE DEF Before
  <2> QED
    BY <1>3, <2>1
<1>7. rank \in Injection(S, 0 .. n - 1)
  BY <1>5, <1>6 DEF Injection, IsInjective
<1>8. IsFiniteSet(0 .. n - 1) /\ Cardinality(0 .. n - 1) = n
  <2>1. 0 \in Int /\ n - 1 \in Int
    BY <1>1
  <2>2. /\ IsFiniteSet(0 .. n - 1)
        /\ Cardinality(0 .. n - 1) = IF 0 > n - 1 THEN 0 ELSE (n - 1) - 0 + 1
    BY <2>1, FS_Interval
  <2> QED
    BY <1>1, <2>2
<1>9. rank \in Surjection(S, 0 .. n - 1)
  BY <1>7, <1>8, FS_Injection
<1>10. \A i \in 0 .. n - 1 : \E a \in S : rank[a] = i
  BY <1>9 DEF Surjection
<1> QED
  BY <1>4, <1>5, <1>6, <1>10

(* A non-empty finite set has a first and a last element.                   *)
LEMMA EndsOfOrder ==
  ASSUME NEW S, IsFiniteSet(S), NEW R, StrictOrder(R, S), S # {}
  PROVE  /\ \E a \in S : \A b \in S \ {a} : <<a, b>> \in R
         /\ \E a \in S : \A b \in S \ {a} : <<b, a>> \in R
<1> DEFINE n == Cardinality(S)
<1>0. PICK rank : rank = [a \in S |-> Cardinality({b \in S : <<b, a>> \in R})]
  OBVIOUS
<1>1. n \in Nat /\ n # 0
  BY FS_CardinalityType, FS_EmptySet
<1>2. /\ rank \in [S -> 0 .. n - 1]
      /\ \A a, b \in S : <<a, b>> \in R => rank[a] < rank[b]
      /\ \A i \in 0 .. n - 1 : \E a \in S : rank[a] = i
  BY <1>0, RanksAreAll
<1> HIDE DEF n
<1>3. PICK a \in S : rank[a] = 0
  BY <1>1, <1>2
<1>4. PICK d \in S : rank[d] = n - 1
  BY <1>1, <1>2
<1>5. \A b \in S \ {a} : <<a, b>> \in R
  <2> SUFFICES ASSUME NEW b \in S, b # a, <<b, a>> \in R PROVE FALSE
    BY DEF StrictOrder
  <2> QED
    BY <1>2, <1>3
<1>6. \A b \in S \ {d} : <<b, d>> \in R
  <2> SUFFICES ASSUME NEW b \in S, b # d, <<d, b>> \in R PROVE FALSE
    BY DEF StrictOrder
  <2>1. rank[b] \in 0 .. n - 1 /\ rank[d] < rank[b]
    BY <1>2
  <2> QED
    BY <1>1, <1>4, <2>1
<1> QED
  BY <1>5, <1>6

(* SetToSeq lists every element once.                                       *)
LEMMA ListedOnce ==
  ASSUME NEW S, IsFiniteSet(S), NEW s,
         s = CHOOSE f \in [1 .. Cardinality(S) -> S] : IsInjective(f)
  PROVE  /\ s \in Seq(S) /\ Len(s) = Cardinality(S) /\ Cardinality(S) \in Nat
         /\ s \in [1 .. Cardinality(S) -> S]
         /\ \A i, j \in DOMAIN s : s[i] = s[j] => i = j
         /\ \A x \in S : \E i \in DOMAIN s : s[i] = x
<1> DEFINE n == Cardinality(S)
<1>1. n \in Nat /\ \E f : f \in Bijection(1 .. n, S)
  BY FS_CardinalityType DEF ExistsBijection
<1>2. \E f \in [1 .. n -> S] : IsInjective(f)
  BY <1>1 DEF Bijection, Injection
<1>3. s \in [1 .. n -> S] /\ IsInjective(s)
  BY <1>2
<1>4. s \in Seq(S) /\ Len(s) = n /\ DOMAIN s = 1 .. n
  BY <1>1, <1>3
<1>5. IsFiniteSet(1 .. n) /\ Cardinality(1 .. n) = n
  <2>1. IsFiniteSet(1 .. n) /\ Cardinality(1 .. n) = IF 1 > n THEN 0 ELSE n - 1 + 1
    BY <1>1, FS_Interval
  <2> QED
    BY <1>1, <2>1
<1>6. s \in Injection(1 .. n, S)
  BY <1>3 DEF Injection
<1>7. s \in Surjection(1 .. n, S)
  <2> HIDE DEF n
  <2>1. Cardinality(1 .. n) = Cardinality(S)
    BY <1>5 DEF n
  <2> QED
    BY <1>6, <2>1, FS_Injection
<1> QED
  BY <1>1, <1>3, <1>4, <1>7 DEF Surjection, IsInjective
-----------------------------------------------------------------------------
(* Folds over sequences.                                                    *)
LEMMA IntervalTop ==
  ASSUME NEW i \in Nat, i # 0
  PROVE  /\ Max(1 .. i) = i /\ 1 .. i # {}
         /\ (1 .. i) \ {i} = 1 .. i - 1
<1>1. /\ Max(1 .. i) \in 1 .. i
      /\ \A y \in 1 .. i : Max(1 .. i) >= y
  <2>1. IsFiniteSet(1 .. i)
    BY FS_Interval
  <2>. QED
    BY <2>1, MaxOfFinite
<1>. QED
  BY <1>1

(* FoldLeft takes the last element first: on subsets of positions it        *)
(* descends by the greatest; on prefixes it goes step by step.              *)
Descends(it, n, b, g) ==
  \A s \in SUBSET (1 .. n) : it[s] = IF s = {} THEN b ELSE g[<<Max(s), it[s \ {Max(s)}]>>]
DescendsIn(it, n, V, b, g) ==
  \A s \in SUBSET (1 .. n) :
    \/ s = {} /\ it[s] = b
    \/ s # {} /\ (it[s \ {Max(s)}] \in V => it[s] = g[<<Max(s), it[s \ {Max(s)}]>>])
GoesBy(f, n, b, g) == f[0] = b /\ \A i \in 1 .. n : f[i] = g[<<i, f[i - 1]>>]

LEMMA FoldExists ==
  ASSUME NEW n \in Nat, NEW V, NEW b \in V, NEW g \in [(1 .. n) \X V -> V]
  PROVE  \E it \in [SUBSET (1 .. n) -> V] : Descends(it, n, b, g)
<1> DEFINE c == [s \in SUBSET (1 .. n) |-> Max(s)]
<1>1. IsFiniteSet(1 .. n)
  BY FS_Interval
<1>2. ASSUME NEW s \in SUBSET (1 .. n), s # {} PROVE Max(s) \in s
  <2>1. IsFiniteSet(s)
    BY <1>1, FS_Subset
  <2>2. s \in SUBSET Int
    <3>. SUFFICES ASSUME NEW x \in s PROVE x \in Int
      OBVIOUS
    <3>. QED
      OBVIOUS
  <2>. QED
    BY <1>2, <2>1, <2>2, MaxOfFinite
<1>3. \A s \in SUBSET (1 .. n) : c[s] = Max(s)
  OBVIOUS
<1>4. Chooses(c, 1 .. n)
  BY <1>2, <1>3 DEF Chooses
<1> HIDE DEF c
<1>5. PICK it : Recurses(it, 1 .. n, V, b, c, g)
  BY <1>1, <1>4, RecursionOnSubsets
<1>. QED
  BY <1>3, <1>5 DEF Recurses, Descends

(* What the function that FoldLeft defines is on the prefixes.              *)
LEMMA FoldPrefixes ==
  ASSUME NEW n \in Nat, NEW V, NEW b \in V, NEW g \in [(1 .. n) \X V -> V], NEW it,
         DescendsIn(it, n, V, b, g)
  PROVE  \E f \in [0 .. n -> V] : f[n] = it[1 .. n] /\ GoesBy(f, n, b, g)
<1> DEFINE f == [i \in 0 .. n |-> it[1 .. i]]
           F == {i \in 0 .. n : f[i] \in V}
<1>1. f[0] = b
  <2>1. 1 .. 0 = {} /\ {} \in SUBSET (1 .. n) /\ 0 \in 0 .. n
    OBVIOUS
  <2>2. it[{}] = b
    BY <2>1 DEF DescendsIn
  <2>3. f[0] = it[1 .. 0]
    BY <2>1
  <2>. QED
    BY <2>1, <2>2, <2>3
<1>2. ASSUME NEW i \in 1 .. n, f[i - 1] \in V
      PROVE  f[i] = g[<<i, f[i - 1]>>] /\ f[i] \in V
  <2>1. /\ Max(1 .. i) = i /\ 1 .. i # {} /\ (1 .. i) \ {i} = 1 .. i - 1
        /\ 1 .. i \in SUBSET (1 .. n)
    <3>1. i \in Nat /\ i # 0 /\ 1 .. i \in SUBSET (1 .. n)
      OBVIOUS
    <3>. QED
      BY <3>1, IntervalTop
  <2>2. f[i - 1] = it[1 .. i - 1] /\ f[i] = it[1 .. i]
    OBVIOUS
  <2>. HIDE DEF f
  <2>3. f[i] = g[<<i, f[i - 1]>>]
    BY <1>2, <2>1, <2>2 DEF DescendsIn
  <2>. QED
    BY <1>2, <2>3
<1>3. 0 \in F
  BY <1>1
<1>4. ASSUME NEW k \in 0 .. n - 1, k \in F PROVE k + 1 \in F
  <2>1. k + 1 \in 1 .. n /\ (k + 1) - 1 = k /\ k + 1 \in 0 .. n
    OBVIOUS
  <2>2. f[(k + 1) - 1] \in V
    BY <1>4, <2>1
  <2>3. f[k + 1] \in V
    BY <1>2, <2>1, <2>2
  <2>. QED
    BY <2>1, <2>3
<1>5. 0 .. n \subseteq F
  <2> HIDE DEF F
  <2>. QED
    BY <1>3, <1>4, SetUpTo
<1>6. \A i \in 1 .. n : f[i - 1] \in V
  BY <1>5
<1>7. f \in [0 .. n -> V] /\ f[n] = it[1 .. n]
  BY <1>5
<1>8. GoesBy(f, n, b, g)
  <2>. HIDE DEF f
  <2>. QED
    BY <1>1, <1>2, <1>6 DEF GoesBy
<1>. QED
  BY <1>7, <1>8
-----------------------------------------------------------------------------
(* Sequences that list a set once.                                          *)
Lists(s, S) ==
  /\ s \in Seq(S)
  /\ \A i, j \in DOMAIN s : s[i] = s[j] => i = j
  /\ \A x \in S : \E i \in DOMAIN s : s[i] = x

(* t has the elements of s in another order.                                *)
Permutes(t, s) ==
  \E p \in Bijection(DOMAIN s, DOMAIN s) : t = [i \in DOMAIN s |-> s[p[i]]]

RankedBy(rank, S, R) == rank = [a \in S |-> Cardinality({b \in S : <<b, a>> \in R})]
HasAllRanks(rank, S, R) ==
  /\ rank \in [S -> 0 .. Cardinality(S) - 1]
  /\ \A a, b \in S : <<a, b>> \in R => rank[a] < rank[b]
  /\ \A a, b \in S : rank[a] = rank[b] => a = b
  /\ \A i \in 0 .. Cardinality(S) - 1 : \E a \in S : rank[a] = i

LEMMA RanksOfOrder ==
  ASSUME NEW S, IsFiniteSet(S), NEW R, StrictOrder(R, S), NEW rank, RankedBy(rank, S, R)
  PROVE  HasAllRanks(rank, S, R)
<1>0. rank = [a \in S |-> Cardinality({b \in S : <<b, a>> \in R})]
  BY DEF RankedBy
<1>1. rank \in [S -> 0 .. Cardinality(S) - 1]
  BY <1>0, RanksAreAll
<1>2. \A a, b \in S : <<a, b>> \in R => rank[a] < rank[b]
  BY <1>0, RanksAreAll
<1>3. \A a, b \in S : rank[a] = rank[b] => a = b
  BY <1>0, RanksAreAll
<1>4. \A i \in 0 .. Cardinality(S) - 1 : \E a \in S : rank[a] = i
  BY <1>0, RanksAreAll
<1>. QED
  BY <1>1, <1>2, <1>3, <1>4 DEF HasAllRanks

(* What lists S by rank: CHOOSE finds an element where there is one.        *)
ByRank(at, rank, S) ==
  /\ at = [i \in DOMAIN at |-> at[i]]
  /\ \A i \in DOMAIN at : (\E a \in S : rank[a] = i - 1) => at[i] \in S /\ rank[at[i]] = i - 1

LEMMA RankedLists ==
  ASSUME NEW S, IsFiniteSet(S), NEW R, StrictOrder(R, S),
         NEW rank, RankedBy(rank, S, R),
         NEW at, DOMAIN at = 1 .. Cardinality(S), ByRank(at, rank, S)
  PROVE  /\ Lists(at, S) /\ Len(at) = Cardinality(S)
         /\ \A i, j \in DOMAIN at : i < j => <<at[i], at[j]>> \in R
<1>0. PICK n : n = Cardinality(S)
  OBVIOUS
<1>1. n \in Nat /\ DOMAIN at = 1 .. n
  BY <1>0, FS_CardinalityType
<1>2. /\ rank \in [S -> 0 .. n - 1]
      /\ \A a, b \in S : <<a, b>> \in R => rank[a] < rank[b]
      /\ \A a, b \in S : rank[a] = rank[b] => a = b
      /\ \A i \in 0 .. n - 1 : \E a \in S : rank[a] = i
  <2>1. HasAllRanks(rank, S, R)
    BY RanksOfOrder
  <2>. QED
    BY <1>0, <2>1 DEF HasAllRanks
<1>3. ASSUME NEW i \in 1 .. n PROVE at[i] \in S /\ rank[at[i]] = i - 1
  <2>1. i - 1 \in 0 .. n - 1
    BY <1>1
  <2>2. \E a \in S : rank[a] = i - 1
    BY <1>2, <2>1
  <2>. QED
    BY <1>1, <2>2 DEF ByRank
<1>4. at \in Seq(S) /\ Len(at) = n
  <2>1. at = [i \in DOMAIN at |-> at[i]]
    BY DEF ByRank
  <2>2. at \in [1 .. n -> S]
    BY <1>1, <1>3, <2>1
  <2>. QED
    BY <1>1, <2>2
<1>5. ASSUME NEW i \in 1 .. n, NEW j \in 1 .. n, at[i] = at[j] PROVE i = j
  <2>1. i - 1 = j - 1
    BY <1>3, <1>5
  <2>. QED
    BY <1>1, <2>1
<1>6. ASSUME NEW x \in S PROVE \E i \in 1 .. n : at[i] = x
  <2>1. PICK r \in 0 .. n - 1 : r = rank[x]
    BY <1>2
  <2>2. r + 1 \in 1 .. n /\ (r + 1) - 1 = r
    BY <1>1
  <2>3. rank[at[r + 1]] = r /\ at[r + 1] \in S
    BY <1>3, <2>2
  <2>. QED
    BY <1>2, <2>1, <2>2, <2>3
<1>7. ASSUME NEW i \in 1 .. n, NEW j \in 1 .. n, i < j PROVE <<at[i], at[j]>> \in R
  <2>1. rank[at[i]] = i - 1 /\ rank[at[j]] = j - 1 /\ at[i] \in S /\ at[j] \in S
    BY <1>3
  <2>2. ~ (rank[at[j]] < rank[at[i]]) /\ at[i] # at[j]
    BY <1>1, <1>7, <2>1
  <2>3. <<at[j], at[i]>> \notin R
    BY <1>2, <2>1, <2>2
  <2>. QED
    BY <2>1, <2>2, <2>3 DEF StrictOrder
<1>. QED
  BY <1>0, <1>1, <1>4, <1>5, <1>6, <1>7 DEF Lists

LEMMA RankedPermutes ==
  ASSUME NEW E, NEW s \in Seq(E), NEW R, StrictOrder(R, DOMAIN s),
         NEW rank, RankedBy(rank, DOMAIN s, R),
         NEW at, DOMAIN at = DOMAIN s, ByRank(at, rank, DOMAIN s),
         NEW t, t = [m \in DOMAIN s |-> s[at[m]]]
  PROVE  Permutes(t, s)
<1>1. DOMAIN s = 1 .. Len(s) /\ Len(s) \in Nat
  OBVIOUS
<1>2. IsFiniteSet(DOMAIN s) /\ Cardinality(DOMAIN s) = Len(s)
  <2>1. /\ IsFiniteSet(1 .. Len(s))
        /\ Cardinality(1 .. Len(s)) = IF 1 > Len(s) THEN 0 ELSE Len(s) - 1 + 1
    BY <1>1, FS_Interval
  <2>. QED
    BY <1>1, <2>1
<1>3. DOMAIN at = 1 .. Cardinality(DOMAIN s)
  BY <1>1, <1>2
<1>4. Lists(at, DOMAIN s)
  BY <1>2, <1>3, RankedLists
<1>5. at \in Bijection(DOMAIN s, DOMAIN s)
  <2>1. at \in [DOMAIN s -> DOMAIN s]
    BY <1>1, <1>4 DEF Lists
  <2>. QED
    BY <1>4, <2>1 DEF Bijection, Injection, Surjection, IsInjective, Lists
<1>. QED
  BY <1>5 DEF Permutes

LEMMA PermutedElements ==
  ASSUME NEW E, NEW s \in Seq(E), NEW t, Permutes(t, s)
  PROVE  /\ t \in Seq(E) /\ Len(t) = Len(s) /\ DOMAIN t = DOMAIN s
         /\ ToSet(t) = ToSet(s)
         /\ (\A i, j \in DOMAIN s : s[i] = s[j] => i = j) =>
              \A i, j \in DOMAIN t : t[i] = t[j] => i = j
<1>1. PICK p \in Bijection(DOMAIN s, DOMAIN s) : t = [i \in DOMAIN s |-> s[p[i]]]
  BY DEF Permutes
<1>2. /\ p \in [DOMAIN s -> DOMAIN s]
      /\ \A i, j \in DOMAIN s : p[i] = p[j] => i = j
      /\ \A j \in DOMAIN s : \E i \in DOMAIN s : p[i] = j
  BY <1>1 DEF Bijection, Injection, Surjection, IsInjective
<1>3. DOMAIN s = 1 .. Len(s) /\ Len(s) \in Nat /\ \A i \in DOMAIN s : s[i] \in E
  OBVIOUS
<1>4. t \in [1 .. Len(s) -> E]
  BY <1>1, <1>2, <1>3
<1>5. t \in Seq(E) /\ Len(t) = Len(s) /\ DOMAIN t = DOMAIN s
  BY <1>3, <1>4
<1>6. ToSet(t) = ToSet(s)
  <2>1. ASSUME NEW x \in ToSet(t) PROVE x \in ToSet(s)
    BY <1>1, <1>2, <1>5 DEF ToSet
  <2>2. ASSUME NEW x \in ToSet(s) PROVE x \in ToSet(t)
    <3>1. PICK j \in DOMAIN s : s[j] = x
      BY DEF ToSet
    <3>2. PICK i \in DOMAIN s : p[i] = j
      BY <1>2
    <3>3. t[i] = x
      BY <1>1, <3>1, <3>2
    <3>. QED
      BY <1>5, <3>3 DEF ToSet
  <2>. QED
    BY <2>1, <2>2
<1>7. ASSUME \A i, j \in DOMAIN s : s[i] = s[j] => i = j, NEW i \in DOMAIN t, NEW j \in DOMAIN t,
             t[i] = t[j]
      PROVE  i = j
  BY <1>1, <1>2, <1>5, <1>7
<1>. QED
  BY <1>5, <1>6, <1>7

(* A selection of s has the selected elements, each where it was unique.    *)
LEMMA SubsequenceElements ==
  ASSUME NEW E, NEW s \in Seq(E), NEW P \in SUBSET (DOMAIN s)
  PROVE  \E at : /\ Lists(at, P) /\ Len(at) = Cardinality(P)
                 /\ \A i, j \in DOMAIN at : i < j => at[i] < at[j]
                 /\ Subsequence(s, P) = [m \in DOMAIN at |-> s[at[m]]]
                 /\ Subsequence(s, P) \in Seq(E)
                 /\ DOMAIN Subsequence(s, P) = DOMAIN at
<1>1. DOMAIN s = 1 .. Len(s) /\ Len(s) \in Nat /\ \A i \in DOMAIN s : s[i] \in E
  OBVIOUS
<1>2. IsFiniteSet(P) /\ P \subseteq Int
  <2>1. IsFiniteSet(1 .. Len(s))
    BY <1>1, FS_Interval
  <2>. QED
    BY <1>1, <2>1, FS_Subset
<1>. DEFINE R == {e \in P \X P : e[1] < e[2]}
            rank == [a \in P |-> Cardinality({b \in P : b < a})]
            at == [i \in 1 .. Cardinality(P) |-> CHOOSE a \in P : rank[a] = i - 1]
<1>3. \A a, b \in P : <<a, b>> \in R <=> a < b
  OBVIOUS
<1>4. StrictOrder(R, P)
  <2>. HIDE DEF R
  <2>. QED
    BY <1>2, <1>3 DEF StrictOrder
<1>5. RankedBy(rank, P, R)
  <2>. HIDE DEF R
  <2>1. \A a \in P : {b \in P : <<b, a>> \in R} = {b \in P : b < a}
    BY <1>3
  <2>. QED
    BY <2>1 DEF RankedBy
<1>6. Subsequence(s, P) = [m \in DOMAIN at |-> s[at[m]]]
  BY DEF Subsequence, SetInOrder
<1>7. ByRank(at, rank, P)
  <2>. HIDE DEF rank
  <2>. QED
    BY DEF ByRank
<1>. HIDE DEF R, rank
<1>8. DOMAIN at = 1 .. Cardinality(P)
  OBVIOUS
<1>. HIDE DEF at
<1>9. /\ Lists(at, P) /\ Len(at) = Cardinality(P)
      /\ \A i, j \in DOMAIN at : i < j => <<at[i], at[j]>> \in R
  BY <1>2, <1>4, <1>5, <1>7, <1>8, RankedLists
<1>10. at \in Seq(P) /\ DOMAIN at = 1 .. Len(at) /\ Len(at) \in Nat
  BY <1>9 DEF Lists
<1>11. \A i \in DOMAIN at : at[i] \in P
  BY <1>10
<1>12. \A i, j \in DOMAIN at : i < j => at[i] < at[j]
  BY <1>3, <1>9, <1>11
<1>13. PICK u : u = [m \in DOMAIN at |-> s[at[m]]]
  OBVIOUS
<1>14. u \in [1 .. Len(at) -> E]
  BY <1>1, <1>10, <1>11, <1>13
<1>15. u \in Seq(E) /\ DOMAIN u = DOMAIN at
  BY <1>10, <1>14
<1>16. Subsequence(s, P) = u
  BY <1>6, <1>13
<1>. QED
  BY <1>9, <1>12, <1>13, <1>15, <1>16
-----------------------------------------------------------------------------
(* Sequences of sequences.                                                  *)
LEMMA FlattenPrefixes ==
  ASSUME NEW E, NEW seqs \in Seq(Seq(E))
  PROVE  \E f \in [0 .. Len(seqs) -> Seq(E)] :
           /\ f[0] = <<>> /\ f[Len(seqs)] = FlattenSeq(seqs)
           /\ \A i \in 1 .. Len(seqs) : f[i] = f[i - 1] \o seqs[i]
<1>0. PICK n \in Nat : n = Len(seqs)
  OBVIOUS
<1>1. \A i \in 1 .. n : seqs[i] \in Seq(E)
  BY <1>0
<1>9. PICK V : V = Seq(E)
  OBVIOUS
<1>10. PICK none : none = <<>>
  OBVIOUS
<1>. DEFINE g == [p \in (1 .. n) \X V |-> p[2] \o seqs[p[1]]]
<1>2. g \in [(1 .. n) \X V -> V]
  <2>1. ASSUME NEW p \in (1 .. n) \X V PROVE p[2] \o seqs[p[1]] \in V
    <3>1. p[2] \in Seq(E) /\ seqs[p[1]] \in Seq(E)
      BY <1>1, <1>9
    <3>. QED
      BY <1>9, <3>1, ConcatProperties
  <2>. QED
    BY <2>1
<1>3. \A i \in 1 .. n, s \in V : g[<<i, s>>] = s \o seqs[i]
  OBVIOUS
<1>4. none \in V
  BY <1>9, <1>10
<1>. HIDE DEF g
<1>5. PICK it \in [SUBSET (1 .. n) -> V] : Descends(it, n, none, g)
  BY <1>2, <1>4, FoldExists
<1>6. PICK f \in [0 .. n -> V] : f[n] = it[1 .. n] /\ GoesBy(f, n, none, g)
  <2>1. DescendsIn(it, n, V, none, g)
    BY <1>5 DEF Descends, DescendsIn
  <2>. QED
    BY <1>2, <1>4, <2>1, FoldPrefixes
<1>11. f \in [0 .. n -> Seq(E)] /\ f[0] = <<>>
  BY <1>6, <1>9, <1>10 DEF GoesBy
<1>7. ASSUME NEW i \in 1 .. n PROVE f[i] = f[i - 1] \o seqs[i]
  <2>1. f[i - 1] \in V
    BY <1>6
  <2>2. g[<<i, f[i - 1]>>] = f[i - 1] \o seqs[i]
    BY <1>3, <2>1
  <2>. QED
    BY <1>6, <2>2 DEF GoesBy
<1>8. f[n] = FlattenSeq(seqs)
  <2>1. CASE n = 0
    <3>1. Len(seqs) = 0
      BY <1>0, <2>1
    <3>2. seqs = <<>>
      BY <3>1, EmptySeq
    <3>3. FlattenSeq(seqs) = seqs
      BY <3>1 DEF FlattenSeq
    <3>. QED
      BY <1>11, <2>1, <3>2, <3>3
  <2>2. CASE n # 0
    <3>. DEFINE Eq(h) == h = [i \in 1 .. Len(seqs) |->
                               IF i = 1 THEN seqs[i] ELSE h[i - 1] \o seqs[i]]
                flatten == CHOOSE h : Eq(h)
    <3>1. FlattenSeq(seqs) = flatten[n]
      BY <1>0, <2>2 DEF FlattenSeq
    <3>2. Eq([i \in 1 .. n |-> f[i]])
      <4>. DEFINE h == [i \in 1 .. n |-> f[i]]
      <4>1. ASSUME NEW i \in 1 .. n
            PROVE  h[i] = IF i = 1 THEN seqs[i] ELSE h[i - 1] \o seqs[i]
        <5>1. CASE i = 1
          <6>1. seqs[i] \in Seq(E) /\ f[i - 1] = <<>>
            BY <1>1, <1>11, <5>1
          <6>2. <<>> \o seqs[i] = seqs[i]
            BY <6>1, ConcatEmptySeq
          <6>. QED
            BY <1>7, <5>1, <6>1, <6>2
        <5>2. CASE i # 1
          <6>1. i - 1 \in 1 .. n
            BY <5>2
          <6>. QED
            BY <1>7, <5>2, <6>1
        <5>. QED
          BY <5>1, <5>2
      <4>. QED
        BY <1>0, <4>1
    <3>3. Eq(flatten)
      BY <3>2
    <3>. HIDE DEF flatten
    <3>. DEFINE F == {i \in 0 .. n : i # 0 => flatten[i] = f[i]}
    <3>4. 0 \in F
      OBVIOUS
    <3>5. ASSUME NEW k \in 0 .. n - 1, k \in F PROVE k + 1 \in F
      <4>1. k + 1 \in 1 .. n /\ (k + 1) - 1 = k /\ k + 1 \in 0 .. n
        OBVIOUS
      <4>2. flatten[k + 1] = IF k + 1 = 1 THEN seqs[k + 1] ELSE flatten[k] \o seqs[k + 1]
        BY <1>0, <3>3, <4>1
      <4>3. f[k + 1] = f[k] \o seqs[k + 1]
        BY <1>7, <4>1
      <4>4. CASE k = 0
        <5>1. seqs[k + 1] \in Seq(E) /\ f[k] = <<>>
          BY <1>1, <1>11, <4>1, <4>4
        <5>2. <<>> \o seqs[k + 1] = seqs[k + 1]
          BY <5>1, ConcatEmptySeq
        <5>. QED
          BY <4>1, <4>2, <4>3, <4>4, <5>1, <5>2
      <4>5. CASE k # 0
        <5>1. flatten[k] = f[k] /\ k + 1 # 1
          BY <3>5, <4>5
        <5>. QED
          BY <4>1, <4>2, <4>3, <5>1
      <4>. QED
        BY <4>4, <4>5
    <3>6. 0 .. n \subseteq F
      <4>. HIDE DEF F
      <4>. QED
        BY <3>4, <3>5, SetUpTo
    <3>. QED
      BY <2>2, <3>1, <3>6
  <2>. QED
    BY <2>1, <2>2
<1>. QED
  BY <1>0, <1>11, <1>7, <1>8

OnceEach(s) == \A i, j \in DOMAIN s : s[i] = s[j] => i = j
Apart(seqs) ==
  \A i, j \in DOMAIN seqs : i # j => ToSet(seqs[i]) \cap ToSet(seqs[j]) = {}

LEMMA ConcatElements ==
  ASSUME NEW E, NEW s \in Seq(E), NEW t \in Seq(E)
  PROVE  /\ s \o t \in Seq(E)
         /\ ToSet(s \o t) = ToSet(s) \cup ToSet(t)
         /\ OnceEach(s) /\ OnceEach(t) /\ ToSet(s) \cap ToSet(t) = {} => OnceEach(s \o t)
<1>1. PICK u : u = s \o t
  OBVIOUS
<1>2. PICK m \in Nat : m = Len(s)
  OBVIOUS
<1>3. PICK n \in Nat : n = Len(t)
  OBVIOUS
<1>4. /\ u \in Seq(E) /\ Len(u) = m + n
      /\ \A i \in 1 .. m + n : u[i] = IF i <= m THEN s[i] ELSE t[i - m]
  BY <1>1, <1>2, <1>3, ConcatProperties
<1>5. DOMAIN s = 1 .. m /\ DOMAIN t = 1 .. n /\ DOMAIN u = 1 .. m + n
  BY <1>2, <1>3, <1>4
<1>6. \A x \in ToSet(u) : x \in ToSet(s) \cup ToSet(t)
  <2>. SUFFICES ASSUME NEW i \in 1 .. m + n PROVE u[i] \in ToSet(s) \cup ToSet(t)
    BY <1>5 DEF ToSet
  <2>1. CASE i <= m
    <3>1. i \in 1 .. m /\ u[i] = s[i]
      BY <1>4, <2>1
    <3>. QED
      BY <1>5, <3>1 DEF ToSet
  <2>2. CASE i > m
    <3>1. i - m \in 1 .. n /\ u[i] = t[i - m]
      BY <1>4, <2>2
    <3>. QED
      BY <1>5, <3>1 DEF ToSet
  <2>. QED
    BY <2>1, <2>2
<1>7. \A x \in ToSet(s) : x \in ToSet(u)
  <2>. SUFFICES ASSUME NEW i \in 1 .. m PROVE s[i] \in ToSet(u)
    BY <1>5 DEF ToSet
  <2>1. i \in 1 .. m + n /\ u[i] = s[i]
    BY <1>4
  <2>. QED
    BY <1>5, <2>1 DEF ToSet
<1>8. \A x \in ToSet(t) : x \in ToSet(u)
  <2>. SUFFICES ASSUME NEW i \in 1 .. n PROVE t[i] \in ToSet(u)
    BY <1>5 DEF ToSet
  <2>1. m + i \in 1 .. m + n /\ ~ (m + i <= m) /\ (m + i) - m = i
    OBVIOUS
  <2>2. u[m + i] = t[i]
    BY <1>4, <2>1
  <2>. QED
    BY <1>5, <2>1, <2>2 DEF ToSet
<1>9. ASSUME OnceEach(s), OnceEach(t), ToSet(s) \cap ToSet(t) = {} PROVE OnceEach(u)
  <2>. SUFFICES ASSUME NEW i \in 1 .. m + n, NEW j \in 1 .. m + n, u[i] = u[j] PROVE i = j
    BY <1>5 DEF OnceEach
  <2>1. i <= m => u[i] = s[i] /\ i \in 1 .. m
    BY <1>4
  <2>2. j <= m => u[j] = s[j] /\ j \in 1 .. m
    BY <1>4
  <2>3. ~ (i <= m) => u[i] = t[i - m] /\ i - m \in 1 .. n
    BY <1>4
  <2>4. ~ (j <= m) => u[j] = t[j - m] /\ j - m \in 1 .. n
    BY <1>4
  <2>5. CASE i <= m /\ j <= m
    BY <1>5, <1>9, <2>1, <2>2, <2>5 DEF OnceEach
  <2>6. CASE ~ (i <= m) /\ ~ (j <= m)
    <3>1. i - m = j - m
      BY <1>5, <1>9, <2>3, <2>4, <2>6 DEF OnceEach
    <3>. QED
      BY <3>1
  <2>7. CASE i <= m /\ ~ (j <= m)
    <3>1. u[i] \in ToSet(s) /\ u[j] \in ToSet(t)
      BY <1>5, <2>1, <2>4, <2>7 DEF ToSet
    <3>. QED
      BY <1>9, <3>1
  <2>8. CASE ~ (i <= m) /\ j <= m
    <3>1. u[j] \in ToSet(s) /\ u[i] \in ToSet(t)
      BY <1>5, <2>2, <2>3, <2>8 DEF ToSet
    <3>. QED
      BY <1>9, <3>1
  <2>. QED
    BY <2>5, <2>6, <2>7, <2>8
<1>. QED
  BY <1>1, <1>4, <1>6, <1>7, <1>8, <1>9

(* FlattenSeq has the elements of its parts, and once each if they are      *)
(* apart.                                                                   *)
LEMMA FlattenElements ==
  ASSUME NEW E, NEW seqs \in Seq(Seq(E))
  PROVE  /\ FlattenSeq(seqs) \in Seq(E)
         /\ ToSet(FlattenSeq(seqs)) = UNION {ToSet(seqs[i]) : i \in DOMAIN seqs}
         /\ Apart(seqs) /\ (\A i \in DOMAIN seqs : OnceEach(seqs[i])) => OnceEach(FlattenSeq(seqs))
<1>0. PICK n \in Nat : n = Len(seqs)
  OBVIOUS
<1>1. DOMAIN seqs = 1 .. n /\ \A i \in 1 .. n : seqs[i] \in Seq(E)
  BY <1>0
<1>2. PICK f \in [0 .. n -> Seq(E)] :
        /\ f[0] = <<>> /\ f[n] = FlattenSeq(seqs)
        /\ \A i \in 1 .. n : f[i] = f[i - 1] \o seqs[i]
  BY <1>0, FlattenPrefixes
<1>. DEFINE Once == Apart(seqs) /\ \A i \in DOMAIN seqs : OnceEach(seqs[i])
            F == {k \in 0 .. n : /\ \A x : x \in ToSet(f[k]) <=> \E i \in 1 .. k : x \in ToSet(seqs[i])
                                 /\ Once => OnceEach(f[k])}
<1>3. 0 \in F
  BY <1>2 DEF ToSet, OnceEach
<1>4. ASSUME NEW k \in 0 .. n - 1, k \in F PROVE k + 1 \in F
  <2>1. k + 1 \in 1 .. n /\ (k + 1) - 1 = k /\ k + 1 \in 0 .. n /\ k \in 0 .. n
    OBVIOUS
  <2>2. f[k + 1] = f[k] \o seqs[k + 1] /\ f[k] \in Seq(E) /\ seqs[k + 1] \in Seq(E)
    BY <1>1, <1>2, <2>1
  <2>3. ToSet(f[k + 1]) = ToSet(f[k]) \cup ToSet(seqs[k + 1])
    BY <2>2, ConcatElements
  <2>4. \A x : x \in ToSet(f[k]) <=> \E i \in 1 .. k : x \in ToSet(seqs[i])
    BY <1>4
  <2>5. \A i : i \in 1 .. k + 1 <=> i \in 1 .. k \/ i = k + 1
    OBVIOUS
  <2>6. \A x : x \in ToSet(f[k + 1]) <=> \E i \in 1 .. k + 1 : x \in ToSet(seqs[i])
    BY <2>3, <2>4, <2>5
  <2>7. ASSUME Once PROVE OnceEach(f[k + 1])
    <3>1. OnceEach(f[k]) /\ OnceEach(seqs[k + 1])
      BY <1>1, <1>4, <2>1, <2>7
    <3>2. ASSUME NEW x \in ToSet(f[k]), x \in ToSet(seqs[k + 1]) PROVE FALSE
      <4>1. PICK i \in 1 .. k : x \in ToSet(seqs[i])
        BY <2>4
      <4>2. i \in 1 .. n /\ i # k + 1
        OBVIOUS
      <4>. QED
        BY <1>1, <2>1, <2>7, <3>2, <4>1, <4>2 DEF Apart
    <3>3. ToSet(f[k]) \cap ToSet(seqs[k + 1]) = {}
      BY <3>2
    <3>. QED
      BY <2>2, <3>1, <3>3, ConcatElements
  <2>. QED
    BY <2>1, <2>6, <2>7
<1>5. n \in F
  <2> HIDE DEF F
  <2>1. 0 .. n \subseteq F
    BY <1>3, <1>4, SetUpTo
  <2>. QED
    BY <2>1
<1>6. f[n] \in Seq(E)
  BY <1>2
<1>7. ToSet(f[n]) = UNION {ToSet(seqs[i]) : i \in 1 .. n}
  <2>1. \A x : x \in ToSet(f[n]) <=> \E i \in 1 .. n : x \in ToSet(seqs[i])
    BY <1>5
  <2>. QED
    BY <2>1
<1>. QED
  BY <1>1, <1>2, <1>5, <1>6, <1>7
-----------------------------------------------------------------------------
(* Two keys and then the position.                                          *)
ByKeys(R, S, k, m) ==
  \A a, b \in S : <<a, b>> \in R <=>
    k[a] < k[b] \/ (k[a] = k[b] /\ (m[a] < m[b] \/ (m[a] = m[b] /\ a < b)))

LEMMA KeysOrder ==
  ASSUME NEW S, S \subseteq Int, NEW k \in [S -> Int], NEW m \in [S -> Int], NEW R,
         ByKeys(R, S, k, m)
  PROVE  StrictOrder(R, S)
<1>1. \A a \in S : a \in Int /\ k[a] \in Int /\ m[a] \in Int
  OBVIOUS
<1>2. \A a \in S : <<a, a>> \notin R
  BY <1>1 DEF ByKeys
<1>3. ASSUME NEW a \in S, NEW b \in S, NEW d \in S, <<a, b>> \in R, <<b, d>> \in R
      PROVE  <<a, d>> \in R
  <2>1. k[a] < k[b] \/ (k[a] = k[b] /\ (m[a] < m[b] \/ (m[a] = m[b] /\ a < b)))
    BY <1>3 DEF ByKeys
  <2>2. k[b] < k[d] \/ (k[b] = k[d] /\ (m[b] < m[d] \/ (m[b] = m[d] /\ b < d)))
    BY <1>3 DEF ByKeys
  <2>3. k[a] < k[d] \/ (k[a] = k[d] /\ (m[a] < m[d] \/ (m[a] = m[d] /\ a < d)))
    BY <1>1, <2>1, <2>2
  <2>. QED
    BY <2>3 DEF ByKeys
<1>4. ASSUME NEW a \in S, NEW b \in S, a # b PROVE <<a, b>> \in R \/ <<b, a>> \in R
  <2>1. \/ k[a] < k[b] \/ (k[a] = k[b] /\ (m[a] < m[b] \/ (m[a] = m[b] /\ a < b)))
        \/ k[b] < k[a] \/ (k[b] = k[a] /\ (m[b] < m[a] \/ (m[b] = m[a] /\ b < a)))
    BY <1>1, <1>4
  <2>. QED
    BY <2>1 DEF ByKeys
<1>. QED
  BY <1>2, <1>3, <1>4 DEF StrictOrder
-----------------------------------------------------------------------------
(* What Append and Subsequence have.                                        *)
LEMMA AppendElements ==
  ASSUME NEW E, NEW q \in Seq(E), NEW e \in E
  PROVE  /\ Append(q, e) \in Seq(E) /\ Len(Append(q, e)) = Len(q) + 1
         /\ \A i \in 1 .. Len(q) : Append(q, e)[i] = q[i]
         /\ Append(q, e)[Len(q) + 1] = e
         /\ ToSet(Append(q, e)) = ToSet(q) \cup {e}
<1>1. PICK n : n = Len(q)
  OBVIOUS
<1>2. n \in Nat /\ DOMAIN q = 1 .. n
  BY <1>1
<1>3. PICK u : u = Append(q, e)
  OBVIOUS
<1>4. u \in Seq(E) /\ Len(u) = n + 1 /\ DOMAIN u = 1 .. n + 1
  BY <1>1, <1>3
<1>5. (\A i \in 1 .. n : u[i] = q[i]) /\ u[n + 1] = e
  BY <1>1, <1>3
<1>6. ASSUME NEW x, x \in ToSet(u) PROVE x \in ToSet(q) \cup {e}
  <2>1. PICK i \in 1 .. n + 1 : u[i] = x
    BY <1>4, <1>6 DEF ToSet
  <2>2. CASE i = n + 1
    BY <1>5, <2>1, <2>2
  <2>3. CASE i # n + 1
    <3>1. i \in 1 .. n
      BY <1>2, <2>3
    <3>. QED
      BY <1>2, <1>5, <2>1, <3>1 DEF ToSet
  <2>. QED
    BY <2>2, <2>3
<1>7. ASSUME NEW x, x \in ToSet(q) \cup {e} PROVE x \in ToSet(u)
  <2>1. CASE x = e
    <3>1. n + 1 \in 1 .. n + 1
      BY <1>2
    <3>. QED
      BY <1>4, <1>5, <2>1, <3>1 DEF ToSet
  <2>2. CASE x \in ToSet(q)
    <3>1. PICK i \in 1 .. n : q[i] = x
      BY <1>2, <2>2 DEF ToSet
    <3>2. i \in 1 .. n + 1 /\ u[i] = x
      BY <1>2, <1>5, <3>1
    <3>. QED
      BY <1>4, <3>2 DEF ToSet
  <2>. QED
    BY <1>7, <2>1, <2>2
<1>. QED
  BY <1>1, <1>3, <1>4, <1>5, <1>6, <1>7

LEMMA AppendOnce ==
  ASSUME NEW E, NEW q \in Seq(E), NEW e \in E, OnceEach(q), e \notin ToSet(q)
  PROVE  OnceEach(Append(q, e))
<1>1. PICK n : n = Len(q)
  OBVIOUS
<1>2. n \in Nat /\ DOMAIN q = 1 .. n
  BY <1>1
<1>3. PICK u : u = Append(q, e)
  OBVIOUS
<1>4. DOMAIN u = 1 .. n + 1 /\ (\A i \in 1 .. n : u[i] = q[i]) /\ u[n + 1] = e
  BY <1>1, <1>3
<1>5. ASSUME NEW i \in 1 .. n + 1, NEW j \in 1 .. n + 1, u[i] = u[j] PROVE i = j
  <2>1. \A m \in 1 .. n + 1 : m = n + 1 \/ m \in 1 .. n
    BY <1>2
  <2>2. \A m \in 1 .. n : q[m] # e
    BY <1>2 DEF ToSet
  <2>. QED
    BY <1>2, <1>4, <1>5, <2>1, <2>2 DEF OnceEach
<1>. QED
  BY <1>3, <1>4, <1>5 DEF OnceEach

LEMMA SubsequenceHas ==
  ASSUME NEW E, NEW s \in Seq(E), NEW P \in SUBSET (DOMAIN s)
  PROVE  /\ Subsequence(s, P) \in Seq(E)
         /\ ToSet(Subsequence(s, P)) = {s[i] : i \in P}
         /\ (\A i, j \in P : s[i] = s[j] => i = j) => OnceEach(Subsequence(s, P))
<1>1. PICK at : /\ Lists(at, P) /\ Len(at) = Cardinality(P)
                /\ \A i, j \in DOMAIN at : i < j => at[i] < at[j]
                /\ Subsequence(s, P) = [m \in DOMAIN at |-> s[at[m]]]
                /\ Subsequence(s, P) \in Seq(E)
                /\ DOMAIN Subsequence(s, P) = DOMAIN at
  BY SubsequenceElements
<1>2. PICK u : u = Subsequence(s, P)
  OBVIOUS
<1>3. DOMAIN u = DOMAIN at /\ \A m \in DOMAIN at : u[m] = s[at[m]]
  BY <1>1, <1>2
<1>4. /\ \A m \in DOMAIN at : at[m] \in P
      /\ \A i, j \in DOMAIN at : at[i] = at[j] => i = j
      /\ \A x \in P : \E i \in DOMAIN at : at[i] = x
  BY <1>1 DEF Lists
<1>5. ToSet(u) = {s[i] : i \in P}
  BY <1>3, <1>4 DEF ToSet
<1>6. (\A i, j \in P : s[i] = s[j] => i = j) => OnceEach(u)
  BY <1>3, <1>4 DEF OnceEach
<1>. QED
  BY <1>1, <1>2, <1>5, <1>6
================================================================================
