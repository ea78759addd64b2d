------------------------- MODULE RetrieverClientProofs -------------------------
(* No call of the retriever client is lost or gets another's documents, for *)
(* any number of trajectories and queries, batch sizes, queues and retries. *)
EXTENDS RetrieverClient, SequenceTheorems, TLAPS

(* The queries that have entered the client, in the order of their arrival. *)
Line == batch \o queue

Waits(p) == p \in woken \/ \E i \in DOMAIN putters : putters[i] = p

(* A put waits in one place, and its caller is in put() exactly as long.    *)
PutInv ==
  /\ \A i \in DOMAIN putters : putters[i] \notin woken
  /\ \A i, j \in DOMAIN putters : putters[i] = putters[j] => i = j
  /\ \A c \in Callers : call[c] = "putting" <=> Waits(c)
  /\ \A c \in Callers : call[c] = "putting" => turn[c] \in 1 .. Turns
  /\ closing = "putting" <=> Waits(Owner)

(* What is in the line is there once and is what its caller waits for, or   *)
(* did before it was cancelled; who waits for an answer is in the line.     *)
Once(line) == \A i, j \in DOMAIN line : line[i] = line[j] => i = j
Holds(line, item) == \E i \in DOMAIN line : line[i] = item
InLine(item) == Holds(Line, item)
LineInv ==
  /\ Once(Line)
  /\ \A c \in Callers, k \in 1 .. Turns : InLine(<<c, k>>) =>
       call[c] \in {"awaiting", "cancelled"} /\ turn[c] = k
  /\ InLine(Sentinel) => closing \in {"joining", "closed"}
  /\ \A c \in Callers : call[c] = "awaiting" => InLine(<<c, turn[c]>>)

BatchInv == worker \in {"absent", "get", "ended"} <=> batch = <<>>

ClientInv == TypeOK /\ PutInv /\ LineInv /\ BatchInv /\ AnswersMatch
-----------------------------------------------------------------------------
LEMMA SlotsNat == QueueFactor * MaxBatch \in Nat \ {0} /\ MaxBatch \in Nat \ {0}
BY ClientConstants

LEMMA ItemTypes ==
  /\ Sentinel \in Item
  /\ \A c \in Callers, k \in 1 .. Turns : <<c, k>> \in Item \ {Sentinel}
  /\ \A item \in Item \ {Sentinel} :
       item[1] \in Callers /\ item[2] \in 1 .. Turns /\ item = <<item[1], item[2]>>
BY ClientConstants DEF Item, Sentinel

LEMMA LineIs ==
  ASSUME NEW b \in Seq(Item), NEW q \in Seq(Item)
  PROVE  /\ b \o q \in Seq(Item)
         /\ DOMAIN (b \o q) = 1 .. Len(b) + Len(q)
         /\ \A i \in 1 .. Len(b) : (b \o q)[i] = b[i]
         /\ \A i \in 1 .. Len(q) : (b \o q)[Len(b) + i] = q[i]
<1>1. Len(b) \in Nat /\ Len(q) \in Nat
  OBVIOUS
<1>2. /\ b \o q \in Seq(Item)
      /\ Len(b \o q) = Len(b) + Len(q)
      /\ \A i \in 1 .. Len(b) + Len(q) :
           (b \o q)[i] = IF i <= Len(b) THEN b[i] ELSE q[i - Len(b)]
  BY ConcatProperties
<1>3. DOMAIN (b \o q) = 1 .. Len(b) + Len(q)
  BY <1>2
<1>4. \A i \in 1 .. Len(b) : (b \o q)[i] = b[i]
  BY <1>1, <1>2
<1>5. ASSUME NEW i \in 1 .. Len(q)
      PROVE  (b \o q)[Len(b) + i] = q[i]
  <2>1. Len(b) + i \in 1 .. Len(b) + Len(q) /\ ~ Len(b) + i <= Len(b)
        /\ (Len(b) + i) - Len(b) = i
    BY <1>1
  <2> QED
    BY <1>2, <2>1
<1> QED
  BY <1>2, <1>3, <1>4, <1>5

(* Taking an item from the queue into the batch leaves the line as it is.   *)
LEMMA LineMoves ==
  ASSUME NEW b \in Seq(Item), NEW q \in Seq(Item), q # <<>>
  PROVE  Append(b, Head(q)) \o Tail(q) = b \o q
<1>1. /\ Head(q) \in Item /\ Tail(q) \in Seq(Item)
      /\ <<Head(q)>> \in Seq(Item)
      /\ q = <<Head(q)>> \o Tail(q)
      /\ Append(b, Head(q)) = b \o <<Head(q)>>
  OBVIOUS
<1> QED
  BY <1>1, ConcatAssociative

LEMMA LineGrows ==
  ASSUME NEW b \in Seq(Item), NEW q \in Seq(Item), NEW item \in Item
  PROVE  b \o Append(q, item) = Append(b \o q, item)
<1>1. /\ <<item>> \in Seq(Item)
      /\ Append(q, item) = q \o <<item>>
      /\ b \o q \in Seq(Item)
      /\ Append(b \o q, item) = (b \o q) \o <<item>>
  BY LineIs
<1> QED
  BY <1>1, ConcatAssociative

(* An item that enters the line is there once, behind what was there.       *)
LEMMA LineAppends ==
  ASSUME NEW l \in Seq(Item), NEW item \in Item, Once(l), ~ Holds(l, item)
  PROVE  /\ Once(Append(l, item))
         /\ \A x : Holds(Append(l, item), x) <=> Holds(l, x) \/ x = item
<1> DEFINE t == Append(l, item)
<1>1. /\ DOMAIN t = 1 .. Len(l) + 1
      /\ DOMAIN l = 1 .. Len(l) /\ Len(l) \in Nat
      /\ \A i \in 1 .. Len(l) : t[i] = l[i]
      /\ t[Len(l) + 1] = item
  OBVIOUS
<1> HIDE DEF t
<1>2. \A i \in DOMAIN t : i \in DOMAIN l \/ i = Len(l) + 1
  BY <1>1
<1>3. Once(t)
  BY <1>1, <1>2 DEF Once, Holds
<1>4. ASSUME NEW x PROVE Holds(t, x) <=> Holds(l, x) \/ x = item
  <2>1. Holds(l, x) => Holds(t, x)
    BY <1>1 DEF Holds
  <2>2. Holds(t, item)
    BY <1>1 DEF Holds
  <2>3. Holds(t, x) => Holds(l, x) \/ x = item
    BY <1>1, <1>2 DEF Holds
  <2> QED
    BY <2>1, <2>2, <2>3
<1> QED
  BY <1>3, <1>4 DEF t

(* t is the line l, of m + n items, with the one at m + 1 left out.         *)
Omits(m, n, l, t) ==
  /\ DOMAIN l = 1 .. m + n /\ DOMAIN t = 1 .. m + (n - 1)
  /\ \A i \in 1 .. m : t[i] = l[i]
  /\ \A i \in 1 .. n - 1 : t[m + i] = l[m + (i + 1)]

LEMMA LeavesOut ==
  ASSUME NEW m \in Nat, NEW n \in Nat \ {0}, NEW l, NEW t, Omits(m, n, l, t), Once(l)
  PROVE  /\ Once(t)
         /\ \A x : Holds(t, x) <=> Holds(l, x) /\ x # l[m + 1]
<1> USE DEF Omits
<1>1. ASSUME NEW i \in 1 .. m + (n - 1)
      PROVE  \/ i <= m /\ i \in 1 .. m + n /\ t[i] = l[i]
             \/ i > m /\ i + 1 \in 1 .. m + n /\ t[i] = l[i + 1]
  <2>1. CASE i <= m
    BY <2>1
  <2>2. CASE i > m
    <3>1. /\ i - m \in 1 .. n - 1 /\ i = m + (i - m)
          /\ i + 1 = m + ((i - m) + 1) /\ i + 1 \in 1 .. m + n
      BY <2>2
    <3> QED
      BY <2>2, <3>1
  <2> QED
    BY <2>1, <2>2
<1>2. \A v, w \in 1 .. m + n : l[v] = l[w] => v = w
  BY DEF Once
<1>3. Once(t)
  <2> SUFFICES ASSUME NEW i \in 1 .. m + (n - 1), NEW j \in 1 .. m + (n - 1), t[i] = t[j]
               PROVE  i = j
    BY DEF Once
  <2> QED
    BY <1>1, <1>2
<1>4. m + 1 \in 1 .. m + n
  OBVIOUS
<1>5. ASSUME NEW x, Holds(t, x) PROVE Holds(l, x) /\ x # l[m + 1]
  <2>1. PICK i \in 1 .. m + (n - 1) : t[i] = x
    BY <1>5 DEF Holds
  <2>2. PICK v \in 1 .. m + n : l[v] = x /\ v # m + 1
    BY <1>1, <2>1
  <2> QED
    BY <1>2, <1>4, <2>2 DEF Holds
<1>6. ASSUME NEW x, Holds(l, x), x # l[m + 1] PROVE Holds(t, x)
  <2>1. PICK i \in 1 .. m + n : l[i] = x
    BY <1>6 DEF Holds
  <2>2. CASE i <= m
    <3>1. i \in 1 .. m /\ i \in 1 .. m + (n - 1)
      BY <2>2
    <3> QED
      BY <2>1, <3>1 DEF Holds
  <2>3. CASE i > m
    <3>1. i # m + 1
      BY <1>6, <2>1
    <3>2. /\ (i - m) - 1 \in 1 .. n - 1 /\ m + (((i - m) - 1) + 1) = i
          /\ m + ((i - m) - 1) \in 1 .. m + (n - 1)
      BY <2>3, <3>1
    <3> QED
      BY <2>1, <3>2 DEF Holds
  <2> QED
    BY <2>2, <2>3
<1> QED
  BY <1>3, <1>5, <1>6

(* The line l is the m items of b and, behind them, the n of q.             *)
Joins(m, n, b, q, l) ==
  /\ DOMAIN b = 1 .. m /\ DOMAIN q = 1 .. n /\ DOMAIN l = 1 .. m + n
  /\ \A i \in 1 .. m : l[i] = b[i]
  /\ \A i \in 1 .. n : l[m + i] = q[i]

LEMMA PutTogether ==
  ASSUME NEW m \in Nat, NEW n \in Nat, NEW b, NEW q, NEW l,
         Joins(m, n, b, q, l), Once(l)
  PROVE  /\ Once(q)
         /\ \A x : Holds(l, x) <=> Holds(b, x) \/ Holds(q, x)
         /\ \A x : ~ (Holds(b, x) /\ Holds(q, x))
<1> USE DEF Joins
<1>1. \A v, w \in 1 .. m + n : l[v] = l[w] => v = w
  BY DEF Once
<1>2. \A i \in 1 .. m : i \in 1 .. m + n
  OBVIOUS
<1>3. \A i \in 1 .. n : m + i \in 1 .. m + n /\ m + i \notin 1 .. m
  OBVIOUS
<1>4. Once(q)
  <2> SUFFICES ASSUME NEW i \in 1 .. n, NEW j \in 1 .. n, q[i] = q[j]
               PROVE  i = j
    BY DEF Once
  <2>1. m + i = m + j
    BY <1>1, <1>3
  <2> QED
    BY <2>1
<1>5. ASSUME NEW x, Holds(b, x), Holds(q, x) PROVE FALSE
  <2>1. PICK i \in 1 .. m : b[i] = x
    BY <1>5 DEF Holds
  <2>2. PICK j \in 1 .. n : q[j] = x
    BY <1>5 DEF Holds
  <2>3. l[i] = l[m + j] /\ i \in 1 .. m + n /\ m + j \in 1 .. m + n
    BY <1>2, <1>3, <2>1, <2>2
  <2> QED
    BY <1>1, <1>3, <2>3
<1>6. \A x : Holds(b, x) \/ Holds(q, x) => Holds(l, x)
  BY <1>2, <1>3 DEF Holds
<1>7. ASSUME NEW x, Holds(l, x) PROVE Holds(b, x) \/ Holds(q, x)
  <2>1. PICK i \in 1 .. m + n : l[i] = x
    BY <1>7 DEF Holds
  <2>2. i \in 1 .. m \/ (i - m \in 1 .. n /\ m + (i - m) = i)
    OBVIOUS
  <2> QED
    BY <2>1, <2>2 DEF Holds
<1> QED
  BY <1>4, <1>5, <1>6, <1>7

LEMMA LineDrops ==
  ASSUME NEW b \in Seq(Item), NEW q \in Seq(Item), q # <<>>, Once(b \o q)
  PROVE  /\ Once(b \o Tail(q))
         /\ \A x : Holds(b \o Tail(q), x) <=> Holds(b \o q, x) /\ x # Head(q)
<1> DEFINE l == b \o q
           t == b \o Tail(q)
<1>1. /\ Len(b) \in Nat /\ Len(q) \in Nat \ {0}
      /\ Tail(q) \in Seq(Item) /\ Len(Tail(q)) = Len(q) - 1
      /\ \A i \in 1 .. Len(q) - 1 : Tail(q)[i] = q[i + 1]
      /\ q[1] = Head(q)
  OBVIOUS
<1>2. /\ DOMAIN l = 1 .. Len(b) + Len(q)
      /\ \A i \in 1 .. Len(b) : l[i] = b[i]
      /\ \A i \in 1 .. Len(q) : l[Len(b) + i] = q[i]
  BY LineIs
<1>3. /\ DOMAIN t = 1 .. Len(b) + (Len(q) - 1)
      /\ \A i \in 1 .. Len(b) : t[i] = b[i]
      /\ \A i \in 1 .. Len(q) - 1 : t[Len(b) + i] = Tail(q)[i]
  BY <1>1, LineIs
<1>4. Once(l)
  OBVIOUS
<1> HIDE DEF l, t
<1>5. \A i \in 1 .. Len(b) : t[i] = l[i]
  BY <1>2, <1>3
<1>6. \A i \in 1 .. Len(q) - 1 : t[Len(b) + i] = l[Len(b) + (i + 1)]
  <2> TAKE i \in 1 .. Len(q) - 1
  <2>1. i + 1 \in 1 .. Len(q)
    BY <1>1
  <2> QED
    BY <1>1, <1>2, <1>3, <2>1
<1>7. l[Len(b) + 1] = Head(q)
  BY <1>1, <1>2
<1>8. Omits(Len(b), Len(q), l, t)
  BY <1>2, <1>3, <1>5, <1>6 DEF Omits
<1>9. Once(t) /\ \A x : Holds(t, x) <=> Holds(l, x) /\ x # l[Len(b) + 1]
  BY <1>1, <1>4, <1>8, LeavesOut
<1> QED
  BY <1>7, <1>9 DEF l, t

LEMMA LineSplits ==
  ASSUME NEW b \in Seq(Item), NEW q \in Seq(Item), Once(b \o q)
  PROVE  /\ Once(q)
         /\ \A x : Holds(b \o q, x) <=> Holds(b, x) \/ Holds(q, x)
         /\ \A x : ~ (Holds(b, x) /\ Holds(q, x))
<1> DEFINE l == b \o q
<1>1. Len(b) \in Nat /\ Len(q) \in Nat /\ DOMAIN b = 1 .. Len(b) /\ DOMAIN q = 1 .. Len(q)
  OBVIOUS
<1>2. /\ DOMAIN l = 1 .. Len(b) + Len(q)
      /\ \A i \in 1 .. Len(b) : l[i] = b[i]
      /\ \A i \in 1 .. Len(q) : l[Len(b) + i] = q[i]
  BY LineIs
<1>3. Once(l)
  OBVIOUS
<1> HIDE DEF l
<1>4. Joins(Len(b), Len(q), b, q, l)
  BY <1>1, <1>2 DEF Joins
<1>5. /\ Once(q)
      /\ \A x : Holds(l, x) <=> Holds(b, x) \/ Holds(q, x)
      /\ \A x : ~ (Holds(b, x) /\ Holds(q, x))
  BY <1>1, <1>3, <1>4, PutTogether
<1> QED
  BY <1>5 DEF l
-----------------------------------------------------------------------------
(* The queue's own bookkeeping                                              *)

LEMMA GetKeepsPuts ==
  ASSUME TypeOK, PutInv, Get, UNCHANGED <<call, turn, closing>>
  PROVE  /\ PutInv'
         /\ putters' \in Seq(Callers \union {Owner})
         /\ woken' \subseteq Callers \union {Owner}
<1>1. CASE putters = <<>>
  BY <1>1 DEF Get, PutInv, Waits, TypeOK
<1>2. CASE putters # <<>>
  <2> DEFINE h == Head(putters)
             t == Tail(putters)
  <2>1. /\ putters' = t /\ woken' = woken \union {h}
        /\ putters \in Seq(Callers \union {Owner})
    BY <1>2 DEF Get, TypeOK
  <2>2. /\ h \in Callers \union {Owner} /\ h = putters[1] /\ 1 \in DOMAIN putters
        /\ t \in Seq(Callers \union {Owner})
        /\ DOMAIN putters = 1 .. Len(putters) /\ Len(putters) \in Nat
        /\ DOMAIN t = 1 .. Len(putters) - 1
        /\ \A i \in DOMAIN t : t[i] = putters[i + 1]
    BY <1>2, <2>1
  <2> HIDE DEF h, t
  <2>3. \A i \in DOMAIN t : i + 1 \in DOMAIN putters /\ i + 1 # 1
    BY <2>2
  <2>4. \A i \in DOMAIN t : t[i] \notin woken'
    BY <2>1, <2>2, <2>3 DEF PutInv
  <2>5. \A i, j \in DOMAIN t : t[i] = t[j] => i = j
    <3> TAKE i, j \in DOMAIN t
    <3> HAVE t[i] = t[j]
    <3>1. i + 1 = j + 1
      BY <2>2, <2>3 DEF PutInv
    <3> QED
      BY <2>2, <3>1
  <2>6. ASSUME NEW p PROVE Waits(p)' <=> Waits(p)
    <3>1. \A i \in DOMAIN putters : i = 1 \/ (i - 1 \in DOMAIN t /\ putters[i] = t[i - 1])
      BY <2>2
    <3>2. ASSUME Waits(p) PROVE Waits(p)'
      BY <2>1, <2>2, <3>1, <3>2 DEF Waits
    <3>3. ASSUME Waits(p)' PROVE Waits(p)
      BY <2>1, <2>2, <2>3, <3>3 DEF Waits
    <3> QED
      BY <3>2, <3>3
  <2> QED
    BY <2>1, <2>2, <2>4, <2>5, <2>6 DEF PutInv, TypeOK
<1> QED
  BY <1>1, <1>2

(* A put that starts waits, or is done at once.                             *)
LEMMA PutJoins ==
  ASSUME TypeOK, PutInv, NEW p \in Callers \union {Owner}, ~ Waits(p),
         NEW item \in Item, Put(p, item)
  PROVE  /\ \A i \in DOMAIN putters' : putters'[i] \notin woken'
         /\ \A i, j \in DOMAIN putters' : putters'[i] = putters'[j] => i = j
         /\ \A q : Waits(q)' <=> Waits(q) \/ (QueueFull /\ q = p)
         /\ putters' \in Seq(Callers \union {Owner})
         /\ woken' \subseteq Callers \union {Owner}
<1>1. CASE QueueFull
  <2>1. /\ putters' = Append(putters, p) /\ woken' = woken
        /\ putters \in Seq(Callers \union {Owner})
    BY <1>1 DEF Put, TypeOK
  <2>2. /\ putters' \in Seq(Callers \union {Owner})
        /\ DOMAIN putters = 1 .. Len(putters) /\ Len(putters) \in Nat
        /\ DOMAIN putters' = 1 .. Len(putters) + 1
        /\ \A i \in DOMAIN putters : putters'[i] = putters[i]
        /\ putters'[Len(putters) + 1] = p
    BY <2>1
  <2>3. \A i \in DOMAIN putters' : i \in DOMAIN putters \/ i = Len(putters) + 1
    BY <2>2
  <2>4. \A q : Waits(q)' <=> Waits(q) \/ q = p
    <3> TAKE q
    <3>1. Waits(q)' => Waits(q) \/ q = p
      BY <2>1, <2>2, <2>3 DEF Waits
    <3>2. Waits(q) => Waits(q)'
      BY <2>1, <2>2 DEF Waits
    <3>3. q = p => Waits(q)'
      BY <2>1, <2>2 DEF Waits
    <3> QED
      BY <3>1, <3>2, <3>3
  <2> QED
    BY <1>1, <2>1, <2>2, <2>3, <2>4 DEF PutInv, Waits, TypeOK
<1>2. CASE ~ QueueFull
  BY <1>2 DEF Put, PutInv, Waits, TypeOK
<1> QED
  BY <1>1, <1>2

(* A woken put waits again, or is done.                                     *)
LEMMA PutResumed ==
  ASSUME TypeOK, PutInv, NEW p \in Callers \union {Owner},
         NEW item \in Item, PutResumes(p, item)
  PROVE  /\ Waits(p)
         /\ \A i \in DOMAIN putters' : putters'[i] \notin woken'
         /\ \A i, j \in DOMAIN putters' : putters'[i] = putters'[j] => i = j
         /\ \A q : Waits(q)' <=> Waits(q) /\ (QueueFull \/ q # p)
         /\ putters' \in Seq(Callers \union {Owner})
         /\ woken' \subseteq Callers \union {Owner}
<1>1. CASE QueueFull
  <2>1. /\ putters' = Append(putters, p) /\ woken' = woken \ {p} /\ p \in woken
        /\ putters \in Seq(Callers \union {Owner})
    BY <1>1 DEF PutResumes, TypeOK
  <2>2. /\ putters' \in Seq(Callers \union {Owner})
        /\ DOMAIN putters = 1 .. Len(putters) /\ Len(putters) \in Nat
        /\ DOMAIN putters' = 1 .. Len(putters) + 1
        /\ \A i \in DOMAIN putters : putters'[i] = putters[i]
        /\ putters'[Len(putters) + 1] = p
    BY <2>1
  <2>3. \A i \in DOMAIN putters' : i \in DOMAIN putters \/ i = Len(putters) + 1
    BY <2>2
  <2>4. \A q : Waits(q)' <=> Waits(q)
    <3> TAKE q
    <3>1. Waits(q)' => Waits(q)
      BY <2>1, <2>2, <2>3 DEF Waits
    <3>2. Waits(q) => Waits(q)'
      BY <2>1, <2>2 DEF Waits
    <3> QED
      BY <3>1, <3>2
  <2> QED
    BY <1>1, <2>1, <2>2, <2>3, <2>4 DEF PutInv, Waits, TypeOK
<1>2. CASE ~ QueueFull
  <2>1. putters' = putters /\ woken' = woken \ {p} /\ p \in woken
    BY <1>2 DEF PutResumes
  <2> QED
    BY <1>2, <2>1 DEF PutInv, Waits, TypeOK
<1> QED
  BY <1>1, <1>2
-----------------------------------------------------------------------------
(* The line                                                                 *)

LEMMA LineTypes ==
  ASSUME TypeOK
  PROVE  batch \in Seq(Item) /\ queue \in Seq(Item) /\ Line \in Seq(Item)
<1>1. batch \in Seq(Item) /\ queue \in Seq(Item)
  BY SeqMonotonic DEF TypeOK
<1> QED
  BY <1>1, LineIs DEF Line

LEMMA LineKept ==
  ASSUME LineInv, Line' = Line, UNCHANGED <<call, turn, closing>>
  PROVE  LineInv'
BY DEF LineInv, InLine

LEMMA LineJoins ==
  ASSUME TypeOK, LineInv, NEW item \in Item, ~ InLine(item),
         batch' = batch, queue' = Append(queue, item)
  PROVE  /\ Once(Line')
         /\ \A x : InLine(x)' <=> InLine(x) \/ x = item
<1>1. Line' = Append(Line, item) /\ Line \in Seq(Item)
  BY LineTypes, LineGrows DEF Line
<1> QED
  BY <1>1, LineAppends DEF LineInv, InLine

(* The sentinel is dropped behind the batch in hand.                        *)
LEMMA LineDropsSentinel ==
  ASSUME TypeOK, LineInv, queue # <<>>, Head(queue) = Sentinel,
         queue' = Tail(queue), batch' = batch, UNCHANGED <<call, turn, closing>>
  PROVE  LineInv'
<1>1. /\ Once(Line')
      /\ \A x : InLine(x)' <=> InLine(x) /\ x # Sentinel
  BY LineTypes, LineDrops DEF Line, LineInv, InLine
<1>2. \A c \in Callers : \A k : <<c, k>> # Sentinel
  BY ClientConstants DEF Sentinel
<1> QED
  BY <1>1, <1>2 DEF LineInv
-----------------------------------------------------------------------------
(* A batch is over                                                          *)

LEMMA WholeReply ==
  ASSUME TypeOK, NEW found \in Replies, Len(found) = Len(batch)
  PROVE  found = batch
<1>1. SUFFICES ASSUME NEW i \in DOMAIN batch, found = RemoveAt(batch, i)
               PROVE  FALSE
  BY DEF Replies
<1>2. batch \in Seq(Item) /\ Len(batch) \in Nat /\ i \in 1 .. Len(batch)
  BY <1>1, LineTypes
<1>3. /\ SubSeq(batch, 1, i - 1) \in Seq(Item)
      /\ Len(SubSeq(batch, 1, i - 1)) = i - 1
  BY <1>2
<1>4. /\ SubSeq(batch, i + 1, Len(batch)) \in Seq(Item)
      /\ Len(SubSeq(batch, i + 1, Len(batch))) = Len(batch) - i
  BY <1>2
<1>5. Len(found) = (i - 1) + (Len(batch) - i)
  BY <1>1, <1>3, <1>4, ConcatProperties DEF RemoveAt
<1> QED
  BY <1>2, <1>5

(* Whom the end of a batch concerns.                                        *)
Resolved(c) ==
  call[c] = "awaiting" /\ \E i \in DOMAIN batch : batch[i] = <<c, turn[c]>>

LEMMA OpenFutures ==
  ASSUME TypeOK, NEW c \in Callers
  PROVE  /\ \A i \in DOMAIN batch :
              batch[i][1] = c /\ FutureOpen(batch[i]) =>
                batch[i] = <<c, turn[c]>> /\ call[c] = "awaiting"
         /\ Resolved(c) => \E i \in DOMAIN batch :
              batch[i][1] = c /\ FutureOpen(batch[i])
<1>1. \A i \in DOMAIN batch : batch[i] \in Item \ {Sentinel}
  BY DEF TypeOK
<1>2. \A i \in DOMAIN batch : batch[i] = <<batch[i][1], batch[i][2]>>
  BY <1>1, ItemTypes
<1>3. ASSUME NEW i \in DOMAIN batch, batch[i][1] = c, FutureOpen(batch[i])
      PROVE  batch[i] = <<c, turn[c]>> /\ call[c] = "awaiting"
  BY <1>2, <1>3 DEF FutureOpen
<1>4. ASSUME Resolved(c)
      PROVE  \E i \in DOMAIN batch : batch[i][1] = c /\ FutureOpen(batch[i])
  BY <1>4 DEF Resolved, FutureOpen
<1> QED
  BY <1>3, <1>4

LEMMA DeliverResolves ==
  ASSUME TypeOK, Deliver(batch)
  PROVE  \A c \in Callers :
           /\ call'[c] = IF Resolved(c) THEN "idle" ELSE call[c]
           /\ answer'[c] = IF Resolved(c) THEN <<c, turn[c]>> ELSE answer[c]
<1> DEFINE slots == {i \in DOMAIN batch : i \in DOMAIN batch /\ FutureOpen(batch[i])}
           slotOf(c) == CHOOSE i \in slots : batch[i][1] = c
           served == {batch[i][1] : i \in slots}
<1>1. \A c \in Callers :
        /\ call'[c] = IF c \in served THEN "idle" ELSE call[c]
        /\ answer'[c] = IF c \in served THEN batch[slotOf(c)] ELSE answer[c]
  BY DEF Deliver
<1>2. ASSUME NEW c \in Callers, Resolved(c)
      PROVE  c \in served /\ batch[slotOf(c)] = <<c, turn[c]>>
  <2>1. \E i \in slots : batch[i][1] = c
    BY <1>2, OpenFutures
  <2>2. slotOf(c) \in slots /\ batch[slotOf(c)][1] = c
    BY <2>1
  <2> HIDE DEF slotOf
  <2> QED
    BY <2>1, <2>2, OpenFutures
<1>3. ASSUME NEW c \in Callers, c \in served
      PROVE  Resolved(c)
  <2>1. PICK i \in slots : batch[i][1] = c
    BY <1>3
  <2> QED
    BY <2>1, OpenFutures DEF Resolved
<1> HIDE DEF slotOf, served
<1> QED
  BY <1>1, <1>2, <1>3

LEMMA RaiseResolves ==
  ASSUME TypeOK, RaiseAll(batch)
  PROVE  \A c \in Callers :
           /\ call'[c] = IF Resolved(c) THEN "raised" ELSE call[c]
           /\ answer'[c] = answer[c]
<1>1. ASSUME NEW c \in Callers
      PROVE  Resolved(c) <=> \E i \in DOMAIN batch : batch[i][1] = c /\ FutureOpen(batch[i])
  BY OpenFutures DEF Resolved
<1> QED
  BY <1>1 DEF RaiseAll

(* Who waits and is not in the batch waits in the queue.                    *)
LEMMA BatchResolved ==
  ASSUME TypeOK, PutInv, LineInv, BatchDone, NEW v \in {"idle", "raised"},
         \A c \in Callers : call'[c] = IF Resolved(c) THEN v ELSE call[c]
  PROVE  PutInv' /\ LineInv' /\ BatchInv'
<1>1. /\ batch \in Seq(Item) /\ queue \in Seq(Item)
      /\ batch' = <<>> /\ queue' = queue /\ turn' = turn /\ closing' = closing
      /\ putters' = putters /\ woken' = woken
  BY LineTypes DEF BatchDone, queueVars
<1>2. Line' = queue
  BY <1>1, ConcatEmptySeq DEF Line
<1>3. /\ Once(Line')
      /\ \A x : InLine(x)' <=> InLine(x) /\ ~ Holds(batch, x)
  BY <1>1, <1>2, LineSplits DEF Line, LineInv, InLine
<1>4. \A c : Resolved(c) <=> call[c] = "awaiting" /\ Holds(batch, <<c, turn[c]>>)
  BY DEF Resolved, Holds
<1>5. ASSUME NEW c \in Callers, NEW k \in 1 .. Turns, InLine(<<c, k>>)'
      PROVE  call'[c] \in {"awaiting", "cancelled"} /\ turn'[c] = k
  BY <1>1, <1>3, <1>4, <1>5 DEF LineInv
<1>6. ASSUME NEW c \in Callers, call'[c] = "awaiting"
      PROVE  InLine(<<c, turn[c]>>)'
  BY <1>1, <1>3, <1>4, <1>6 DEF LineInv
<1>7. LineInv'
  BY <1>1, <1>3, <1>5, <1>6 DEF LineInv
<1>8. \A p : Waits(p)' <=> Waits(p)
  BY <1>1 DEF Waits
<1>9. PutInv'
  BY <1>1, <1>8 DEF PutInv, Resolved
<1>10. BatchInv'
  BY <1>1 DEF BatchInv, BatchDone
<1> QED
  BY <1>7, <1>9, <1>10
-----------------------------------------------------------------------------
(* The invariant is inductive                                               *)

LEMMA ClientInitInv == Init => ClientInv
<1> SUFFICES ASSUME Init PROVE ClientInv
  OBVIOUS
<1>1. TypeOK
  <2>1. /\ <<>> \in Seq(Item) /\ <<>> \in Seq(Callers \union {Owner})
        /\ <<>> \in Seq(Item \ {Sentinel}) /\ Len(<<>>) = 0
    OBVIOUS
  <2>2. 0 \in 0 .. Turns /\ 0 \in 0 .. NetworkRetries
    BY ClientConstants
  <2>3. 0 <= QueueFactor * MaxBatch /\ 0 <= MaxBatch
    BY SlotsNat
  <2> QED
    BY <2>1, <2>2, <2>3 DEF Init, TypeOK, NoAnswer
<1>2. PutInv
  BY ClientConstants DEF Init, PutInv, Waits
<1>3. Line = <<>>
  BY DEF Init, Line
<1>4. LineInv
  BY <1>3 DEF Init, LineInv, InLine, Holds, Once
<1> QED
  BY <1>1, <1>2, <1>4 DEF Init, ClientInv, BatchInv, AnswersMatch

(* get() shortens the queue.                                                *)
LEMMA GetTypes ==
  ASSUME TypeOK, Get
  PROVE  /\ queue # <<>> /\ queue' = Tail(queue)
         /\ queue \in Seq(Item) /\ Head(queue) \in Item
         /\ queue' \in Seq(Item) /\ Len(queue') <= QueueFactor * MaxBatch
<1>1. /\ queue \in Seq(Item) /\ queue # <<>> /\ queue' = Tail(queue)
      /\ Len(queue) <= QueueFactor * MaxBatch
  BY DEF TypeOK, Get
<1>2. /\ Head(queue) \in Item /\ Tail(queue) \in Seq(Item)
      /\ Len(Tail(queue)) = Len(queue) - 1 /\ Len(queue) \in Nat
  BY <1>1
<1> QED
  BY <1>1, <1>2, SlotsNat

LEMMA TakeFirstInv ==
  ASSUME ClientInv, TakeFirst
  PROVE  ClientInv'
<1> USE DEF ClientInv
<1>1. /\ worker = "get" /\ batch = <<>> /\ Get
      /\ UNCHANGED <<call, turn, answer, stopping, closing>>
  BY DEF TakeFirst, callVars, BatchInv
<1>2. PutInv' /\ putters' \in Seq(Callers \union {Owner}) /\ woken' \subseteq Callers \union {Owner}
  BY <1>1, GetKeepsPuts
<1>3. /\ queue # <<>> /\ queue' = Tail(queue) /\ queue \in Seq(Item)
      /\ Head(queue) \in Item /\ queue' \in Seq(Item)
      /\ Len(queue') <= QueueFactor * MaxBatch
  BY <1>1, GetTypes
<1>4. CASE Head(queue) = Sentinel
  <2>1. worker' = "ended" /\ batch' = batch
    BY <1>4 DEF TakeFirst
  <2>2. LineInv'
    BY <1>1, <1>3, <1>4, <2>1, LineDropsSentinel
  <2> QED
    BY <1>1, <1>2, <1>3, <2>1, <2>2, ClientConstants
       DEF TypeOK, BatchInv, AnswersMatch, TakeFirst
<1>5. CASE Head(queue) # Sentinel
  <2>1. worker' = "collect" /\ batch' = Append(batch, Head(queue)) /\ batch' = <<Head(queue)>>
    BY <1>1, <1>5 DEF TakeFirst
  <2>2. Line' = Line
    BY <1>3, <2>1, LineMoves, LineTypes DEF Line
  <2>3. LineInv'
    BY <1>1, <2>2, LineKept
  <2>4. batch' \in Seq(Item \ {Sentinel}) /\ Len(batch') <= MaxBatch /\ batch' # <<>>
    <3>1. \A x \in Item \ {Sentinel} :
            <<x>> \in Seq(Item \ {Sentinel}) /\ Len(<<x>>) = 1 /\ <<x>> # <<>>
      OBVIOUS
    <3>2. PICK h \in Item \ {Sentinel} : h = Head(queue)
      BY <1>3, <1>5
    <3>3. batch' = <<h>>
      BY <2>1, <3>2
    <3>4. 1 <= MaxBatch
      BY SlotsNat
    <3> HIDE DEF ClientInv
    <3> QED
      BY <3>1, <3>3, <3>4
  <2> QED
    BY <1>1, <1>2, <1>3, <2>1, <2>3, <2>4, ClientConstants
       DEF TypeOK, BatchInv, AnswersMatch, TakeFirst
<1> QED
  BY <1>4, <1>5

LEMMA TakeMoreInv ==
  ASSUME ClientInv, TakeMore
  PROVE  ClientInv'
<1> USE DEF ClientInv
<1>1. /\ worker = "collect" /\ batch # <<>> /\ Len(batch) < MaxBatch /\ Get
      /\ UNCHANGED <<call, turn, answer, attempt, closing>>
  BY DEF TakeMore, callVars, BatchInv
<1>2. PutInv' /\ putters' \in Seq(Callers \union {Owner}) /\ woken' \subseteq Callers \union {Owner}
  BY <1>1, GetKeepsPuts
<1>3. /\ queue # <<>> /\ queue' = Tail(queue) /\ queue \in Seq(Item)
      /\ Head(queue) \in Item /\ queue' \in Seq(Item)
      /\ Len(queue') <= QueueFactor * MaxBatch
  BY <1>1, GetTypes
<1>4. CASE Head(queue) = Sentinel
  <2>1. worker' = "post" /\ batch' = batch /\ stopping' = TRUE
    BY <1>4 DEF TakeMore
  <2>2. LineInv'
    BY <1>1, <1>3, <1>4, <2>1, LineDropsSentinel
  <2> QED
    BY <1>1, <1>2, <1>3, <2>1, <2>2 DEF TypeOK, BatchInv, AnswersMatch
<1>5. CASE Head(queue) # Sentinel
  <2>1. worker' = worker /\ stopping' = stopping /\ batch' = Append(batch, Head(queue))
    BY <1>5 DEF TakeMore
  <2>2. Line' = Line
    BY <1>3, <2>1, LineMoves, LineTypes DEF Line
  <2>3. LineInv'
    BY <1>1, <2>2, LineKept
  <2>4. batch' \in Seq(Item \ {Sentinel}) /\ Len(batch') <= MaxBatch /\ batch' # <<>>
    <3>1. batch \in Seq(Item \ {Sentinel}) /\ Head(queue) \in Item \ {Sentinel}
      BY <1>3, <1>5 DEF TypeOK
    <3>2. /\ Append(batch, Head(queue)) \in Seq(Item \ {Sentinel})
          /\ Len(Append(batch, Head(queue))) = Len(batch) + 1
          /\ Len(batch) \in Nat
      BY <3>1
    <3> QED
      BY <1>1, <2>1, <3>2, SlotsNat
  <2> QED
    BY <1>1, <1>2, <1>3, <2>1, <2>3, <2>4 DEF TypeOK, BatchInv, AnswersMatch
<1> QED
  BY <1>4, <1>5

(* The three ways a batch ends.                                             *)
LEMMA PostInv ==
  ASSUME ClientInv, PostAnswered \/ PostFails \/ PostRejected
  PROVE  ClientInv'
<1> USE DEF ClientInv
<1>1. worker = "post"
  BY DEF PostAnswered, PostFails, PostRejected
<1>2. CASE \E found \in Replies : Len(found) = Len(batch) /\ Deliver(found) /\ BatchDone
  <2>1. Deliver(batch) /\ BatchDone
    BY <1>2, WholeReply
  <2>2. \A c \in Callers :
          /\ call'[c] = IF Resolved(c) THEN "idle" ELSE call[c]
          /\ answer'[c] = IF Resolved(c) THEN <<c, turn[c]>> ELSE answer[c]
    BY <2>1, DeliverResolves
  <2>3. PutInv' /\ LineInv' /\ BatchInv'
    BY <2>1, <2>2, BatchResolved
  <2>4. \A c \in Callers : Resolved(c) => <<c, turn[c]>> \in Item
    <3> SUFFICES ASSUME NEW c \in Callers, NEW i \in DOMAIN batch, batch[i] = <<c, turn[c]>>
                 PROVE  <<c, turn[c]>> \in Item
      BY DEF Resolved
    <3>1. batch \in Seq(Item)
      BY LineTypes
    <3>2. batch[i] \in Item
      BY <3>1
    <3> QED
      BY <3>2
  <2>5. /\ call' = [c \in Callers |-> call'[c]]
        /\ answer' = [c \in Callers |-> answer'[c]]
    BY <2>1 DEF Deliver
  <2>6. TypeOK'
    BY <2>1, <2>2, <2>4, <2>5, SlotsNat DEF TypeOK, BatchDone, queueVars
  <2>7. AnswersMatch'
    BY <2>1, <2>2 DEF AnswersMatch, BatchDone
  <2> QED
    BY <2>3, <2>6, <2>7
<1>3. CASE RaiseAll(batch) /\ BatchDone
  <2>1. \A c \in Callers :
          /\ call'[c] = IF Resolved(c) THEN "raised" ELSE call[c]
          /\ answer'[c] = answer[c]
    BY <1>3, RaiseResolves
  <2>2. PutInv' /\ LineInv' /\ BatchInv'
    BY <1>3, <2>1, BatchResolved
  <2>3. call' = [c \in Callers |-> call'[c]] /\ answer' = answer
    BY <1>3 DEF RaiseAll
  <2>4. TypeOK'
    BY <1>3, <2>1, <2>3, SlotsNat DEF TypeOK, BatchDone, queueVars
  <2>5. AnswersMatch'
    BY <1>3, <2>1 DEF AnswersMatch, BatchDone
  <2> QED
    BY <2>2, <2>4, <2>5
<1>4. CASE /\ PostFails /\ attempt < NetworkRetries
  <2>1. /\ attempt' = attempt + 1 /\ attempt' \in 0 .. NetworkRetries
        /\ UNCHANGED <<callVars, queueVars, worker, batch, stopping, closing>>
    BY <1>4, ClientConstants DEF PostFails, TypeOK
  <2>2. PutInv' /\ LineInv'
    BY <2>1, LineKept DEF PutInv, Waits, Line, callVars, queueVars
  <2> QED
    BY <2>1, <2>2 DEF TypeOK, BatchInv, AnswersMatch, callVars, queueVars
<1>5. \/ \E found \in Replies : Len(found) = Len(batch) /\ Deliver(found) /\ BatchDone
      \/ RaiseAll(batch) /\ BatchDone
      \/ PostFails /\ attempt < NetworkRetries
  <2>1. CASE PostAnswered
    BY <2>1 DEF PostAnswered
  <2>2. CASE PostFails
    BY <2>2 DEF PostFails
  <2>3. CASE PostRejected
    BY <2>3 DEF PostRejected
  <2> QED
    BY <2>1, <2>2, <2>3
<1> QED
  BY <1>2, <1>3, <1>4, <1>5

(* A step that moves no call and no item.                                   *)
LEMMA QuietInv ==
  ASSUME ClientInv, StopCollecting \/ Health \/ WorkerJoined \/ UNCHANGED vars
  PROVE  ClientInv'
<1> USE DEF ClientInv
<1>1. /\ UNCHANGED <<call, turn, answer, queue, putters, woken, batch, stopping, attempt>>
      /\ closing' \in {"open", "putting", "joining", "closed"}
      /\ worker' \in {"absent", "get", "collect", "post", "ended"}
      /\ closing' = closing \/ (closing = "joining" /\ closing' = "closed")
  BY DEF TypeOK, StopCollecting, Health, WorkerJoined, vars, callVars, queueVars, workerVars
<1>2. BatchInv'
  BY <1>1 DEF BatchInv, StopCollecting, Health, WorkerJoined, vars, workerVars
<1>3. PutInv'
  BY <1>1 DEF PutInv, Waits
<1>4. Line' = Line
  BY <1>1 DEF Line
<1>5. LineInv'
  BY <1>1, <1>4 DEF LineInv, InLine
<1> QED
  BY <1>1, <1>2, <1>3, <1>5 DEF TypeOK, AnswersMatch

LEMMA RetrieveOneInv ==
  ASSUME ClientInv, NEW c \in Callers, RetrieveOne(c)
  PROVE  ClientInv'
<1> USE DEF ClientInv
<1>1. /\ call[c] = "idle" /\ turn[c] \in 0 .. Turns /\ turn[c] < Turns
      /\ UNCHANGED <<batch, stopping, attempt, closing>>
      /\ Turns \in Nat
  BY ClientConstants DEF RetrieveOne, TypeOK
<1>2. CASE closing # "open"
  <2>1. /\ call' = [call EXCEPT ![c] = "raised"]
        /\ UNCHANGED <<turn, answer, queue, putters, woken, worker>>
    BY <1>2 DEF RetrieveOne, queueVars
  <2>2. \A d \in Callers : call'[d] = IF d = c THEN "raised" ELSE call[d]
    BY <2>1 DEF TypeOK
  <2>3. Line' = Line /\ (\A p : Waits(p)' <=> Waits(p))
    BY <1>1, <2>1 DEF Line, Waits
  <2>4. PutInv'
    BY <1>1, <2>1, <2>2, <2>3 DEF PutInv
  <2>5. LineInv'
    BY <1>1, <2>1, <2>2, <2>3 DEF LineInv, InLine
  <2> QED
    BY <1>1, <2>1, <2>2, <2>4, <2>5 DEF TypeOK, BatchInv, AnswersMatch
<1>3. CASE closing = "open"
  <2> DEFINE k == turn[c] + 1
  <2>1. /\ turn' = [turn EXCEPT ![c] = k]
        /\ answer' = [answer EXCEPT ![c] = NoAnswer]
        /\ call' = [call EXCEPT ![c] = IF QueueFull THEN "putting" ELSE "awaiting"]
        /\ worker' = IF worker = "absent" THEN "get" ELSE worker
        /\ k \in 1 .. Turns /\ turn'[c] = k /\ Put(c, <<c, turn'[c]>>)
    BY <1>1, <1>3 DEF RetrieveOne, TypeOK
  <2> HIDE DEF k
  <2>2. Put(c, <<c, k>>) /\ <<c, k>> \in Item
    BY <2>1, ItemTypes
  <2>3. \A d \in Callers :
          /\ call'[d] = IF d = c THEN IF QueueFull THEN "putting" ELSE "awaiting" ELSE call[d]
          /\ turn'[d] = IF d = c THEN k ELSE turn[d]
          /\ answer'[d] = IF d = c THEN NoAnswer ELSE answer[d]
    BY <2>1 DEF TypeOK
  <2>4. ~ Waits(c)
    BY <1>1 DEF PutInv
  <2>5. /\ \A i \in DOMAIN putters' : putters'[i] \notin woken'
        /\ \A i, j \in DOMAIN putters' : putters'[i] = putters'[j] => i = j
        /\ \A q : Waits(q)' <=> Waits(q) \/ (QueueFull /\ q = c)
        /\ putters' \in Seq(Callers \union {Owner})
        /\ woken' \subseteq Callers \union {Owner}
    BY <2>2, <2>4, PutJoins
  <2>6. PutInv'
    <3>1. k \in 1 .. Turns
      BY <2>1
    <3> QED
      BY <1>1, <2>3, <2>5, <3>1, ClientConstants DEF PutInv
  <2>7. ~ InLine(<<c, k>>) /\ \A n \in 1 .. Turns : ~ InLine(<<c, n>>)
    BY <1>1, <2>1 DEF LineInv
  <2>8. LineInv' /\ queue' \in Seq(Item) /\ Len(queue') <= QueueFactor * MaxBatch
    <3>1. CASE QueueFull
      <4>1. queue' = queue /\ Line' = Line
        BY <1>1, <2>2, <3>1 DEF Put, Line
      <4> QED
        BY <1>1, <2>3, <2>7, <3>1, <4>1 DEF LineInv, InLine, TypeOK
    <3>2. CASE ~ QueueFull
      <4>1. queue' = Append(queue, <<c, k>>)
        BY <2>2, <3>2 DEF Put
      <4>2. /\ Once(Line')
            /\ \A x : InLine(x)' <=> InLine(x) \/ x = <<c, k>>
        BY <1>1, <2>2, <2>7, <4>1, LineJoins
      <4>3. <<c, k>> # Sentinel
        BY ClientConstants DEF Sentinel
      <4>4. \A d \in Callers : \A n : <<d, n>> = <<c, k>> => d = c /\ n = k
        OBVIOUS
      <4>5. ASSUME NEW d \in Callers, NEW n \in 1 .. Turns, InLine(<<d, n>>)'
            PROVE  call'[d] \in {"awaiting", "cancelled"} /\ turn'[d] = n
        BY <2>3, <2>7, <3>2, <4>2, <4>4, <4>5 DEF LineInv
      <4>6. ASSUME NEW d \in Callers, call'[d] = "awaiting"
            PROVE  InLine(<<d, turn[d]>>)'
        BY <2>3, <4>2, <4>6 DEF LineInv
      <4>7. LineInv'
        BY <1>1, <4>2, <4>3, <4>5, <4>6 DEF LineInv
      <4>8. queue' \in Seq(Item) /\ Len(queue') = Len(queue) + 1 /\ Len(queue) \in Nat
        BY <2>2, <4>1 DEF TypeOK
      <4>9. Len(queue) < QueueFactor * MaxBatch
        BY <3>2, <4>8, SlotsNat DEF QueueFull
      <4> QED
        BY <4>7, <4>8, <4>9, SlotsNat
    <3> QED
      BY <3>1, <3>2
  <2>9. TypeOK'
    <3>1. /\ call' \in [Callers -> {"idle", "putting", "awaiting", "raised", "cancelled"}]
          /\ turn' \in [Callers -> 0 .. Turns]
          /\ answer' \in [Callers -> Item \union {NoAnswer}]
          /\ worker' \in {"absent", "get", "collect", "post", "ended"}
      BY <2>1 DEF TypeOK
    <3> QED
      BY <1>1, <2>5, <2>8, <3>1 DEF TypeOK
  <2> QED
    BY <1>1, <2>1, <2>3, <2>6, <2>8, <2>9 DEF BatchInv, AnswersMatch
<1> QED
  BY <1>2, <1>3

LEMMA QueryPutInv ==
  ASSUME ClientInv, NEW c \in Callers, QueryPut(c)
  PROVE  ClientInv'
<1> USE DEF ClientInv
<1>1. /\ PutResumes(c, <<c, turn[c]>>)
      /\ call' = [call EXCEPT ![c] = IF QueueFull THEN @ ELSE "awaiting"]
      /\ UNCHANGED <<turn, answer, worker, batch, stopping, attempt, closing>>
      /\ c \in woken
  BY DEF QueryPut, PutResumes, workerVars
<1>2. call[c] = "putting" /\ turn[c] \in 1 .. Turns /\ <<c, turn[c]>> \in Item
  BY <1>1, ItemTypes DEF PutInv, Waits
<1>3. /\ \A i \in DOMAIN putters' : putters'[i] \notin woken'
      /\ \A i, j \in DOMAIN putters' : putters'[i] = putters'[j] => i = j
      /\ \A q : Waits(q)' <=> Waits(q) /\ (QueueFull \/ q # c)
      /\ putters' \in Seq(Callers \union {Owner})
      /\ woken' \subseteq Callers \union {Owner}
  BY <1>1, <1>2, PutResumed
<1>4. \A d \in Callers : call'[d] = IF d = c /\ ~ QueueFull THEN "awaiting" ELSE call[d]
  BY <1>1 DEF TypeOK
<1>5. PutInv'
  BY <1>1, <1>2, <1>3, <1>4, ClientConstants DEF PutInv
<1>6. ~ InLine(<<c, turn[c]>>) /\ \A n \in 1 .. Turns : ~ InLine(<<c, n>>)
  BY <1>2 DEF LineInv
<1>7. LineInv' /\ queue' \in Seq(Item) /\ Len(queue') <= QueueFactor * MaxBatch
  <2>1. CASE QueueFull
    <3>1. queue' = queue /\ Line' = Line /\ call' = call
      BY <1>1, <2>1 DEF PutResumes, Line, TypeOK
    <3> QED
      BY <1>1, <3>1, LineKept DEF TypeOK
  <2>2. CASE ~ QueueFull
    <3>1. queue' = Append(queue, <<c, turn[c]>>)
      BY <1>1, <2>2 DEF PutResumes
    <3>2. /\ Once(Line')
          /\ \A x : InLine(x)' <=> InLine(x) \/ x = <<c, turn[c]>>
      BY <1>1, <1>2, <1>6, <3>1, LineJoins
    <3>3. <<c, turn[c]>> # Sentinel
      BY ClientConstants DEF Sentinel
    <3>4. \A d \in Callers : \A n : <<d, n>> = <<c, turn[c]>> => d = c /\ n = turn[c]
      OBVIOUS
    <3>5. ASSUME NEW d \in Callers, NEW n \in 1 .. Turns, InLine(<<d, n>>)'
          PROVE  call'[d] \in {"awaiting", "cancelled"} /\ turn'[d] = n
      BY <1>1, <1>4, <1>6, <2>2, <3>2, <3>4, <3>5 DEF LineInv
    <3>6. ASSUME NEW d \in Callers, call'[d] = "awaiting"
          PROVE  InLine(<<d, turn[d]>>)'
      BY <1>1, <1>4, <3>2, <3>6 DEF LineInv
    <3>7. LineInv'
      BY <1>1, <3>2, <3>3, <3>5, <3>6 DEF LineInv
    <3>8. queue' \in Seq(Item) /\ Len(queue') = Len(queue) + 1 /\ Len(queue) \in Nat
      BY <1>2, <3>1 DEF TypeOK
    <3>9. Len(queue) < QueueFactor * MaxBatch
      BY <2>2, <3>8, SlotsNat DEF QueueFull
    <3> QED
      BY <3>7, <3>8, <3>9, SlotsNat
  <2> QED
    BY <2>1, <2>2
<1>8. call' \in [Callers -> {"idle", "putting", "awaiting", "raised", "cancelled"}]
  BY <1>1 DEF TypeOK
<1> QED
  BY <1>1, <1>2, <1>3, <1>4, <1>5, <1>7, <1>8 DEF TypeOK, BatchInv, AnswersMatch

(* The sentinel enters the line, and nothing else changes.                  *)
LEMMA SentinelEnters ==
  ASSUME TypeOK, LineInv, ~ InLine(Sentinel), ~ QueueFull,
         queue' = Append(queue, Sentinel), closing' = "joining",
         UNCHANGED <<batch, call, turn>>
  PROVE  LineInv' /\ queue' \in Seq(Item) /\ Len(queue') <= QueueFactor * MaxBatch
<1>1. /\ Once(Line')
      /\ \A x : InLine(x)' <=> InLine(x) \/ x = Sentinel
  BY ItemTypes, LineJoins
<1>2. \A c \in Callers : \A k : <<c, k>> # Sentinel
  BY ClientConstants DEF Sentinel
<1>3. LineInv'
  BY <1>1, <1>2 DEF LineInv
<1>4. queue' \in Seq(Item) /\ Len(queue') = Len(queue) + 1 /\ Len(queue) \in Nat
  BY ItemTypes DEF TypeOK
<1>5. Len(queue) < QueueFactor * MaxBatch
  BY <1>4, SlotsNat DEF QueueFull
<1> QED
  BY <1>3, <1>4, <1>5, SlotsNat

LEMMA CloseInv ==
  ASSUME ClientInv, Close
  PROVE  ClientInv'
<1> USE DEF ClientInv
<1>1. /\ closing = "open" /\ ~ Waits(Owner) /\ ~ InLine(Sentinel)
      /\ UNCHANGED <<call, turn, answer, worker, batch, stopping, attempt>>
  BY DEF Close, PutInv, LineInv, callVars, workerVars
<1>2. CASE worker = "absent"
  <2>1. closing' = "closed" /\ UNCHANGED <<queue, putters, woken>>
    BY <1>2 DEF Close, queueVars
  <2>2. Line' = Line /\ \A p : Waits(p)' <=> Waits(p)
    BY <1>1, <2>1 DEF Line, Waits
  <2>3. PutInv' /\ LineInv'
    BY <1>1, <2>1, <2>2 DEF PutInv, LineInv, InLine
  <2> QED
    BY <1>1, <2>1, <2>3 DEF TypeOK, BatchInv, AnswersMatch
<1>3. CASE worker # "absent"
  <2>1. /\ Put(Owner, Sentinel)
        /\ closing' = IF QueueFull THEN "putting" ELSE "joining"
    BY <1>3 DEF Close
  <2>2. /\ \A i \in DOMAIN putters' : putters'[i] \notin woken'
        /\ \A i, j \in DOMAIN putters' : putters'[i] = putters'[j] => i = j
        /\ \A q : Waits(q)' <=> Waits(q) \/ (QueueFull /\ q = Owner)
        /\ putters' \in Seq(Callers \union {Owner})
        /\ woken' \subseteq Callers \union {Owner}
    BY <1>1, <2>1, PutJoins, ItemTypes
  <2>3. PutInv'
    BY <1>1, <2>1, <2>2, ClientConstants DEF PutInv
  <2>4. LineInv' /\ queue' \in Seq(Item) /\ Len(queue') <= QueueFactor * MaxBatch
    <3>1. CASE QueueFull
      <4>1. queue' = queue /\ Line' = Line
        BY <1>1, <2>1, <3>1 DEF Put, Line
      <4> QED
        BY <1>1, <4>1 DEF LineInv, InLine, TypeOK
    <3>2. CASE ~ QueueFull
      BY <1>1, <2>1, <3>2, SentinelEnters DEF Put
    <3> QED
      BY <3>1, <3>2
  <2> QED
    BY <1>1, <2>1, <2>2, <2>3, <2>4 DEF TypeOK, BatchInv, AnswersMatch
<1> QED
  BY <1>2, <1>3

LEMMA SentinelPutInv ==
  ASSUME ClientInv, SentinelPut
  PROVE  ClientInv'
<1> USE DEF ClientInv
<1>1. /\ PutResumes(Owner, Sentinel)
      /\ closing' = IF QueueFull THEN "putting" ELSE "joining"
      /\ UNCHANGED <<call, turn, answer, worker, batch, stopping, attempt>>
      /\ closing = "putting" /\ ~ InLine(Sentinel)
  BY DEF SentinelPut, PutResumes, PutInv, Waits, LineInv, callVars, workerVars
<1>2. /\ \A i \in DOMAIN putters' : putters'[i] \notin woken'
      /\ \A i, j \in DOMAIN putters' : putters'[i] = putters'[j] => i = j
      /\ \A q : Waits(q)' <=> Waits(q) /\ (QueueFull \/ q # Owner)
      /\ putters' \in Seq(Callers \union {Owner})
      /\ woken' \subseteq Callers \union {Owner}
  BY <1>1, PutResumed, ItemTypes
<1>3. PutInv'
  BY <1>1, <1>2, ClientConstants DEF PutInv
<1>4. LineInv' /\ queue' \in Seq(Item) /\ Len(queue') <= QueueFactor * MaxBatch
  <2>1. CASE QueueFull
    <3>1. queue' = queue /\ Line' = Line /\ closing' = closing
      BY <1>1, <2>1 DEF PutResumes, Line
    <3> QED
      BY <1>1, <3>1, LineKept DEF TypeOK
  <2>2. CASE ~ QueueFull
    BY <1>1, <2>2, SentinelEnters DEF PutResumes
  <2> QED
    BY <2>1, <2>2
<1> QED
  BY <1>1, <1>2, <1>3, <1>4 DEF TypeOK, BatchInv, AnswersMatch

LEMMA CancelInv ==
  ASSUME ClientInv, CancelCalls
  PROVE  ClientInv'
<1> USE DEF ClientInv
<1>1. /\ closing = "closed" /\ putters' = <<>> /\ woken' = {}
      /\ call' = [c \in Callers |-> IF c \in Pending THEN "cancelled" ELSE call[c]]
      /\ UNCHANGED <<turn, answer, queue, worker, batch, stopping, attempt, closing>>
  BY DEF CancelCalls, workerVars
<1>2. \A c \in Callers :
        call'[c] = IF call[c] \in {"putting", "awaiting"} THEN "cancelled" ELSE call[c]
  BY <1>1 DEF Pending
<1>3. Line' = Line /\ \A p : ~ Waits(p)'
  BY <1>1 DEF Line, Waits
<1>4. PutInv'
  BY <1>1, <1>2, <1>3 DEF PutInv
<1>5. LineInv'
  BY <1>1, <1>2, <1>3 DEF LineInv, InLine
<1>6. call' \in [Callers -> {"idle", "putting", "awaiting", "raised", "cancelled"}]
  BY <1>1, <1>2 DEF TypeOK
<1> QED
  BY <1>1, <1>2, <1>4, <1>5, <1>6 DEF TypeOK, BatchInv, AnswersMatch

LEMMA ClientStepInv == ClientInv /\ [Next]_vars => ClientInv'
<1> SUFFICES ASSUME ClientInv, [Next]_vars PROVE ClientInv'
  OBVIOUS
<1>1. CASE Worker
  <2>1. CASE TakeFirst
    BY <2>1, TakeFirstInv
  <2>2. CASE TakeMore
    BY <2>2, TakeMoreInv
  <2>3. CASE StopCollecting
    BY <2>3, QuietInv
  <2>4. CASE PostAnswered \/ PostFails \/ PostRejected
    BY <2>4, PostInv
  <2> QED
    BY <1>1, <2>1, <2>2, <2>3, <2>4 DEF Worker
<1>2. CASE Closer
  <2>1. CASE SentinelPut
    BY <2>1, SentinelPutInv
  <2>2. CASE WorkerJoined
    BY <2>2, QuietInv
  <2>3. CASE CancelCalls
    BY <2>3, CancelInv
  <2> QED
    BY <1>2, <2>1, <2>2, <2>3 DEF Closer
<1>3. CASE Health \/ UNCHANGED vars
  BY <1>3, QuietInv
<1>4. CASE Close
  BY <1>4, CloseInv
<1>5. ASSUME NEW c \in Callers, RetrieveOne(c) \/ QueryPut(c) PROVE ClientInv'
  BY <1>5, RetrieveOneInv, QueryPutInv
<1> QED
  BY <1>1, <1>2, <1>3, <1>4, <1>5 DEF Next

LEMMA ClientInvariant == Spec => []ClientInv
<1>1. Init => ClientInv
  BY ClientInitInv
<1>2. ClientInv /\ [Next]_vars => ClientInv'
  BY ClientStepInv
<1> QED
  BY <1>1, <1>2, PTL DEF Spec
-----------------------------------------------------------------------------
(* Every variable of the client keeps its type: the queue its slots, a      *)
(* batch its size, a post its retries.                                      *)
THEOREM ClientTypeCorrect == Spec => []TypeOK
<1>1. ClientInv => TypeOK
  BY DEF ClientInv
<1> QED
  BY <1>1, ClientInvariant, PTL

(* Whatever is batched, retried, refused or answered in part, a trajectory  *)
(* gets the documents of its own query (_execute_batch).                    *)
THEOREM AnswersAreOwn == Spec => []AnswersMatch
<1>1. ClientInv => AnswersMatch
  BY DEF ClientInv
<1> QED
  BY <1>1, ClientInvariant, PTL

(* A call that waits is in exactly one place from which it will be resumed  *)
(* or resolved, however puts, batches, failures and close() interleave.     *)
THEOREM CallsAreHeld == Spec => []EveryCallIsHeld
<1>1. ASSUME ClientInv PROVE EveryCallIsHeld
  <2> SUFFICES ASSUME NEW c \in Callers
               PROVE  /\ call[c] = "putting" =>
                           IF c \in woken THEN c \notin ToSet(putters)
                           ELSE \E i \in DOMAIN putters :
                                  \A j \in DOMAIN putters : putters[j] = c <=> j = i
                      /\ call[c] = "awaiting" =>
                           \E i \in DOMAIN Line :
                             \A j \in DOMAIN Line : Line[j] = <<c, turn[c]>> <=> j = i
    BY DEF EveryCallIsHeld, Line
  <2>1. PutInv /\ LineInv
    BY <1>1 DEF ClientInv
  <2>2. ASSUME call[c] = "putting", c \in woken PROVE c \notin ToSet(putters)
    BY <2>1, <2>2 DEF PutInv, ToSet
  <2>3. ASSUME call[c] = "putting", c \notin woken
        PROVE  \E i \in DOMAIN putters : \A j \in DOMAIN putters : putters[j] = c <=> j = i
    BY <2>1, <2>3 DEF PutInv, Waits
  <2>4. ASSUME call[c] = "awaiting"
        PROVE  \E i \in DOMAIN Line : \A j \in DOMAIN Line : Line[j] = <<c, turn[c]>> <=> j = i
    <3>1. Once(Line) /\ Holds(Line, <<c, turn[c]>>)
      BY <2>1, <2>4 DEF LineInv, InLine
    <3> QED
      BY <3>1 DEF Once, Holds
  <2> QED
    BY <2>2, <2>3, <2>4
<1> QED
  BY <1>1, ClientInvariant, PTL
=============================================================================
