------------------------------ MODULE SearchProofs ------------------------------
(***************************************************************************)
(* Theorems about the search loop and the credit of what it leaves, for    *)
(* any actions the model may write, any documents the retriever may find,  *)
(* any gains and any answers of the probes.                                *)
(***************************************************************************)
EXTENDS SearchCredit, DataInduction, TLAPS

-----------------------------------------------------------------------------
(* The text of an action                                                    *)

(* Positions of a text have a first and a last one.                         *)
LEMMA PositionEnds ==
  ASSUME NEW n \in Nat, NEW S \in SUBSET (1 .. n)
  PROVE  /\ IsFiniteSet(S) /\ Cardinality(S) \in Nat /\ S \in SUBSET Nat
         /\ S # {} => /\ Min(S) \in S /\ \A i \in S : Min(S) <= i
                      /\ Max(S) \in S /\ \A i \in S : i <= Max(S)
<1>1. IsFiniteSet(S)
  <2>1. 1 \in Int /\ n \in Int
    OBVIOUS
  <2>2. IsFiniteSet(1 .. n)
    BY <2>1, FS_Interval
  <2> QED
    BY <2>2, FS_Subset
<1>2. S \in SUBSET Int /\ S \in SUBSET Nat
  OBVIOUS
<1>3. S # {} => /\ Min(S) \in S /\ \A i \in S : Min(S) <= i
                /\ Max(S) \in S /\ \A i \in S : Max(S) >= i
  BY <1>1, <1>2, MaxOfFinite, MinOfFinite
<1>4. \A i, j \in S : i >= j => j <= i
  BY <1>2
<1> QED
  BY <1>1, <1>2, <1>3, <1>4, FS_CardinalityType

(* A text by its length and its symbols.                                    *)
IsText(text) == /\ text \in Seq(STRING) /\ Len(text) \in Nat
                /\ DOMAIN text = 1 .. Len(text)

(* The symbols of a text are among its positions.                           *)
LEMMA SymbolsOfText ==
  ASSUME NEW text, IsText(text), NEW symbol
  PROVE  /\ At(text, symbol) \in SUBSET (1 .. Len(text))
         /\ \A i : After(text, symbol, i) \in SUBSET (1 .. Len(text))
BY DEF At, After, IsText

(* A part of a text is a text.                                              *)
LEMMA SubText ==
  ASSUME NEW text, IsText(text), NEW m \in 1 .. Len(text), NEW n \in m .. Len(text)
  PROVE  /\ SubSeq(text, m, n) \in Seq(STRING) /\ SubSeq(text, m, n) # <<>>
         /\ SubSeq(text, m, n)[1] = text[m]
<1>1. PICK E : E = STRING
  OBVIOUS
<1>2. text \in Seq(E)
  BY <1>1 DEF IsText
<1>3. /\ m \in 1 .. Len(text) + 1 /\ n \in m - 1 .. Len(text)
  BY DEF IsText
<1>4. PICK s : s = SubSeq(text, m, n)
  OBVIOUS
<1>5. /\ s \in Seq(E) /\ Len(s) = n - m + 1
      /\ \A i \in 1 .. n - m + 1 : s[i] = text[m + i - 1]
  BY <1>2, <1>3, <1>4, SubSeqProperties
<1>6. 1 \in 1 .. n - m + 1 /\ n - m + 1 # 0 /\ m + 1 - 1 = m
  BY DEF IsText
<1>7. s[1] = text[m]
  BY <1>5, <1>6
<1>8. s # <<>>
  BY <1>5, <1>6
<1> QED
  BY <1>1, <1>4, <1>5, <1>7, <1>8

(* A trimmed text does not begin with white space, and is empty when blank. *)
LEMMA TrimmedText ==
  ASSUME NEW text, IsText(text), NEW a \in Nat \ {0}, NEW b \in Int, b <= Len(text)
  PROVE  /\ Trimmed(text, a, b) \in Seq(STRING)
         /\ Trimmed(text, a, b) # <<>> => Trimmed(text, a, b)[1] # " "
         /\ (\E i \in a .. b : text[i] # " ") => Trimmed(text, a, b) # <<>>
<1> DEFINE visible == {i \in a .. b : text[i] # " "}
<1>0. PICK size \in Nat : size = Len(text)
  BY DEF IsText
<1>1. visible \in SUBSET (1 .. size)
  <2>1. \A i \in a .. b : i \in 1 .. size
    BY <1>0
  <2>2. \A i \in visible : i \in a .. b
    OBVIOUS
  <2> QED
    BY <2>1, <2>2
<1>2. CASE visible = {}
  <2>1. Trimmed(text, a, b) = <<>>
    BY <1>2 DEF Trimmed
  <2>2. <<>> \in Seq(STRING)
    OBVIOUS
  <2> QED
    BY <1>2, <2>1, <2>2
<1>3. CASE visible # {}
  <2>1. PICK m, n : m = Min(visible) /\ n = Max(visible)
    OBVIOUS
  <2>2. m \in visible /\ n \in visible /\ m <= n
    <3> HIDE DEF visible
    <3> QED
      BY <1>1, <1>3, <2>1, PositionEnds
  <2>6. text[m] # " "
    BY <2>2
  <2>7. m \in 1 .. size /\ n \in 1 .. size
    BY <1>1, <2>2
  <2>8. m <= n
    BY <2>2
  <2>3. m \in 1 .. Len(text) /\ n \in m .. Len(text)
    <3> HIDE DEF visible
    <3> QED
      BY <1>0, <2>7, <2>8
  <2>4. Trimmed(text, a, b) = SubSeq(text, m, n)
    BY <1>3, <2>1 DEF Trimmed
  <2>5. /\ SubSeq(text, m, n) \in Seq(STRING) /\ SubSeq(text, m, n) # <<>>
        /\ SubSeq(text, m, n)[1] = text[m]
    BY <2>3, SubText
  <2> QED
    BY <2>3, <2>4, <2>5, <2>6
<1> QED
  BY <1>2, <1>3

(* Every sequence of symbols is a text.                                     *)
LEMMA IsTextSeq ==
  ASSUME NEW text \in Seq(STRING)
  PROVE  IsText(text)
BY DEF IsText

(* What is not empty has a first element.                                   *)
LEMMA NonEmpty ==
  ASSUME NEW E, NEW s \in Seq(E), s # <<>>
  PROVE  Len(s) \in Nat \ {0} /\ DOMAIN s = 1 .. Len(s) /\ 1 \in 1 .. Len(s)
OBVIOUS

(* Nothing has a place in the empty sequence.                               *)
LEMMA EmptyDomain == DOMAIN <<>> = {}
OBVIOUS

(* A text that begins with something other than white space.                *)
Begins(v) == v # <<>> /\ v[1] # " "

(* A query that begins with a symbol stays one when it is normalized.       *)
LEMMA QueryText ==
  ASSUME NEW v \in Seq(STRING), Begins(v)
  PROVE  NormalizedQuery(v) # <<>>
<1>0. IsText(v)
  BY IsTextSeq
<1>1. PICK shown : shown = Trimmed(v, 1, Len(v))
  OBVIOUS
<1>2. PICK a, b : a = 1 /\ b = Len(v)
  OBVIOUS
<1>3. a \in Nat \ {0} /\ b \in Int /\ b <= Len(v) /\ 1 \in a .. b
  <2>1. Len(v) \in Nat \ {0}
    BY NonEmpty DEF Begins
  <2>2. \A n \in Nat \ {0} : /\ 1 \in Nat \ {0} /\ n \in Int /\ n <= n /\ 1 \in 1 .. n
    OBVIOUS
  <2> QED
    BY <1>2, <2>1, <2>2, Zenon
<1>4. /\ Trimmed(v, a, b) \in Seq(STRING)
      /\ (\E i \in a .. b : v[i] # " ") => Trimmed(v, a, b) # <<>>
  BY <1>0, <1>3, TrimmedText
<1>5. shown \in Seq(STRING) /\ shown # <<>>
  BY <1>1, <1>2, <1>3, <1>4 DEF Begins
<1>6. DOMAIN shown # {}
  BY <1>5, NonEmpty
<1>7. PICK u : u = [i \in DOMAIN shown |-> IF shown[i] = "X" THEN "x" ELSE shown[i]]
  OBVIOUS
<1>8. NormalizedQuery(v) = u /\ DOMAIN u = DOMAIN shown
  BY <1>1, <1>7 DEF NormalizedQuery
<1> QED
  BY <1>6, <1>8, EmptyDomain

(* An action that parses ends in its block, whose value is not blank.       *)
EndsInBlock(text, tag) ==
  \E last \in DOMAIN text :
    /\ text[last] = Closing[tag] /\ \A i \in DOMAIN text : text[i] # " " => i <= last
    /\ \E k \in At(text, Opening[tag]) : k < last /\ k + 1 # last

(* The block a text ends with.                                              *)
LEMMA BlockEnds ==
  ASSUME NEW text \in Seq(STRING), NEW tag \in {"search", "answer"},
         BlockOpen(text, tag) # 0
  PROVE  /\ BlockValue(text, tag) # <<>> => EndsInBlock(text, tag)
         /\ BlockValue(text, tag) \in Seq(STRING)
         /\ BlockValue(text, tag) # <<>> => BlockValue(text, tag)[1] # " "
<1> DEFINE visible == {i \in DOMAIN text : text[i] # " "}
           opens == {k \in At(text, Opening[tag]) :
                       /\ k < Max(visible)
                       /\ \/ k = Min(visible)
                          \/ /\ text[Min(visible)] = Opening["think"]
                             /\ \E j \in At(text, Closing["think"]) :
                                  j < k /\ Blank(text, j + 1, k - 1)}
<1>0. IsText(text)
  BY IsTextSeq
<1>1. /\ visible # {} /\ text[Max(visible)] = Closing[tag] /\ opens # {}
      /\ BlockOpen(text, tag) = Min(opens)
  BY DEF BlockOpen
<1>2. PICK last : last = Max(visible)
  OBVIOUS
<1>3. visible \in SUBSET (1 .. Len(text)) /\ opens \in SUBSET (1 .. Len(text))
      /\ Len(text) \in Nat
  BY <1>0, SymbolsOfText DEF IsText
<1>4. PICK k : k = Min(opens)
  OBVIOUS
<1>5. last \in visible /\ (\A i \in visible : i <= last) /\ k \in opens
  <2> HIDE DEF visible, opens
  <2> QED
    BY <1>1, <1>2, <1>3, <1>4, PositionEnds
<1>6. k \in At(text, Opening[tag]) /\ k < last
  BY <1>2, <1>5
<1>7. BlockValue(text, tag) = Trimmed(text, k + 1, last - 1)
  BY <1>1, <1>2, <1>4 DEF BlockValue
<1>8. BlockValue(text, tag) # <<>> => EndsInBlock(text, tag)
  <2>1. SUFFICES ASSUME BlockValue(text, tag) # <<>> PROVE EndsInBlock(text, tag)
    OBVIOUS
  <2>2. last \in DOMAIN text /\ text[last] = Closing[tag]
    BY <1>1, <1>2, <1>5
  <2>3. \A i \in DOMAIN text : text[i] # " " => i <= last
    BY <1>5
  <2>4. k + 1 # last
    <3>1. SUFFICES ASSUME k + 1 = last PROVE FALSE
      OBVIOUS
    <3>2. last \in Int
      <4> HIDE DEF visible, opens
      <4> QED
        BY <1>3, <1>5
    <3>3. k + 1 .. last - 1 = {}
      BY <3>1, <3>2
    <3>4. Trimmed(text, k + 1, last - 1) = <<>>
      BY <3>3 DEF Trimmed
    <3> QED
      BY <1>7, <2>1, <3>4
  <2> HIDE DEF visible, opens
  <2> QED
    BY <1>6, <2>2, <2>3, <2>4 DEF EndsInBlock
<1>9. last \in 1 .. Len(text) /\ k \in 1 .. Len(text)
  BY <1>3, <1>5
<1> HIDE DEF visible, opens
<1>10. PICK a, b : a = k + 1 /\ b = last - 1
  OBVIOUS
<1>11. a \in Nat \ {0} /\ b \in Int /\ b <= Len(text)
  BY <1>3, <1>9, <1>10
<1>12. Trimmed(text, a, b) \in Seq(STRING) /\ (Trimmed(text, a, b) # <<>> => Trimmed(text, a, b)[1] # " ")
  BY <1>0, <1>11, TrimmedText
<1> QED
  BY <1>7, <1>8, <1>10, <1>12

(* What the parser says of an action.                                       *)
Readable(text, kind, value) ==
  /\ kind \in {"search", "answer"} /\ EndsInBlock(text, kind)
  /\ value \in Seq(STRING) /\ Begins(value)
  /\ HasSpan(text, "search") # HasSpan(text, "answer")

(* The parser reads such a block or nothing.                                *)
LEMMA ParsedAction ==
  ASSUME NEW text \in Seq(STRING)
  PROVE  \/ Parse(text).kind = "none"
         \/ Readable(text, Parse(text).kind, Parse(text).value)
<1> DEFINE malformed ==
             \/ At(text, "I") # {}
             \/ \E tag \in Tags : ~Balanced(text, tag) \/ HasTwoSpans(text, tag)
             \/ HasSpan(text, "search") = HasSpan(text, "answer")
           unblocked == \A tag \in {"search", "answer"} : BlockOpen(text, tag) = 0
           kind == CHOOSE tag \in {"search", "answer"} : BlockOpen(text, tag) # 0
<1>0. PICK k, v, m, b : /\ k = kind /\ v = BlockValue(text, k)
                        /\ m = malformed /\ b = unblocked
  OBVIOUS
<1>1. Parse(text) = IF m \/ b \/ v = <<>>
                      THEN [valid |-> FALSE, kind |-> "none", value |-> <<>>]
                      ELSE [valid |-> TRUE, kind |-> k, value |-> v]
  BY <1>0 DEF Parse
<1>2. CASE m \/ b \/ v = <<>>
  BY <1>1, <1>2
<1>3. CASE ~ (m \/ b \/ v = <<>>)
  <2>1. HasSpan(text, "search") # HasSpan(text, "answer")
    BY <1>0, <1>3
  <2>2. \E tag \in {"search", "answer"} : BlockOpen(text, tag) # 0
    BY <1>0, <1>3
  <2>3. k \in {"search", "answer"} /\ BlockOpen(text, k) # 0
    BY <1>0, <2>2
  <2>4. EndsInBlock(text, k) /\ v \in Seq(STRING) /\ Begins(v)
    BY <1>0, <1>3, <2>3, BlockEnds DEF Begins
  <2>5. Parse(text).kind = k /\ Parse(text).value = v
    BY <1>1, <1>3
  <2> QED
    BY <2>1, <2>3, <2>4, <2>5 DEF Readable
<1> QED
  BY <1>2, <1>3

(* A search the parser accepts: where its tag opens and where it ends.      *)
LEMMA ReadableSearch ==
  ASSUME NEW text \in Seq(STRING), EndsInBlock(text, "search")
  PROVE  \E open, last \in 1 .. Len(text) :
           /\ open = Min(At(text, "S")) /\ last = Max(At(text, "/S"))
           /\ open < last /\ text[open] = "S" /\ text[last] = "/S"
           /\ \A i \in 1 .. Len(text) : text[i] = "S" => open <= i
           /\ \A i \in 1 .. Len(text) : text[i] # " " => i <= last
           /\ \E k \in At(text, "S") : k < last /\ k + 1 # last
<1>0. IsText(text)
  BY IsTextSeq
<1>1. PICK n \in Nat : n = Len(text) /\ DOMAIN text = 1 .. n
  BY <1>0 DEF IsText
<1>2. Opening["search"] = "S" /\ Closing["search"] = "/S"
  BY DEF Opening, Closing
<1>3. PICK last \in 1 .. n :
        /\ text[last] = "/S" /\ (\A i \in 1 .. n : text[i] # " " => i <= last)
        /\ \E k \in At(text, "S") : k < last /\ k + 1 # last
  BY <1>1, <1>2 DEF EndsInBlock
<1>4. At(text, "S") \in SUBSET (1 .. n) /\ At(text, "/S") \in SUBSET (1 .. n)
  BY <1>0, <1>1, SymbolsOfText
<1>5. At(text, "S") # {} /\ last \in At(text, "/S")
  BY <1>1, <1>3 DEF At
<1>6. PICK open : open = Min(At(text, "S"))
  OBVIOUS
<1>7. open \in At(text, "S") /\ \A i \in At(text, "S") : open <= i
  BY <1>4, <1>5, <1>6, PositionEnds
<1>8. PICK top : top = Max(At(text, "/S"))
  OBVIOUS
<1>9. top \in At(text, "/S") /\ \A i \in At(text, "/S") : i <= top
  BY <1>4, <1>5, <1>8, PositionEnds
<1>10. top = last
  <2>1. top \in 1 .. n /\ text[top] # " "
    BY <1>4, <1>9 DEF At
  <2>2. top <= last /\ last <= top
    BY <1>3, <1>5, <1>9, <2>1, Zenon
  <2>3. top \in Nat /\ last \in Nat
    BY <1>4, <1>9
  <2> QED
    BY <2>2, <2>3
<1>11. open \in 1 .. n /\ text[open] = "S" /\ open < last
  <2>1. PICK k \in At(text, "S") : k < last
    BY <1>3
  <2>2. open \in 1 .. n /\ k \in 1 .. n /\ open <= k /\ last \in Nat
    BY <1>4, <1>7
  <2>3. open < last
    BY <2>1, <2>2
  <2>4. text[open] = "S"
    BY <1>7 DEF At
  <2> QED
    BY <2>2, <2>3, <2>4
<1>12. \A i \in 1 .. n : text[i] = "S" => open <= i
  BY <1>1, <1>7 DEF At
<1> QED
  BY <1>1, <1>3, <1>6, <1>8, <1>10, <1>11, <1>12

(* What parses as a search has the tag of one.                              *)
LEMMA IntentOfSearch ==
  ASSUME NEW text \in Seq(STRING), Parse(text).kind = "search"
  PROVE  SearchIntent(text)
<1>1. EndsInBlock(text, "search")
  BY ParsedAction DEF Readable
<1> QED
  BY <1>1, ReadableSearch, IsTextSeq DEF SearchIntent, At, IsText

(* No tag closes a search that opens in an answer.                          *)
LEMMA AnswerNeverSearches ==
  ASSUME NEW text \in Seq(STRING), Parse(text).kind = "answer", SearchIntent(text)
  PROVE  PayloadRaises(text)
<1>0. IsText(text)
  BY IsTextSeq
<1>1. EndsInBlock(text, "answer") /\ HasSpan(text, "search") # HasSpan(text, "answer")
  BY ParsedAction DEF Readable
<1>2. PICK last \in DOMAIN text : /\ text[last] = Closing["answer"]
                                  /\ \E k \in At(text, Opening["answer"]) : k < last
  BY <1>1 DEF EndsInBlock
<1>3. HasSpan(text, "answer")
  <2>1. last \in At(text, Closing["answer"])
    BY <1>2 DEF At
  <2> QED
    BY <1>2, <2>1 DEF HasSpan, After
<1>4. \A i \in At(text, "S") : After(text, "/S", i) = {}
  BY <1>1, <1>3 DEF HasSpan, Opening, Closing
<1>5. Min(At(text, "S")) \in At(text, "S")
  <2>1. At(text, "S") \in SUBSET (1 .. Len(text)) /\ Len(text) \in Nat
    BY <1>0, SymbolsOfText DEF IsText
  <2> QED
    BY <2>1, PositionEnds DEF SearchIntent
<1>6. Cardinality(After(text, "/S", Min(At(text, "S")))) = 0
  BY <1>4, <1>5, FS_EmptySet
<1> QED
  BY <1>6 DEF PayloadRaises
-----------------------------------------------------------------------------
(* The spans of an action                                                   *)

(* The symbols of a tokenization are a text, empty when there are none.     *)
LEMMA FlattenedLength ==
  ASSUME NEW E, NEW seqs \in Seq(Seq(E))
  PROVE  /\ FlattenSeq(seqs) \in Seq(E) /\ Len(FlattenSeq(seqs)) \in Nat
         /\ Len(seqs) = 0 => Len(FlattenSeq(seqs)) = 0
<1>1. PICK f \in [0 .. Len(seqs) -> Seq(E)] :
        f[0] = <<>> /\ f[Len(seqs)] = FlattenSeq(seqs)
  BY FlattenPrefixes
<1>2. Len(seqs) \in 0 .. Len(seqs)
  OBVIOUS
<1>3. f[Len(seqs)] \in Seq(E)
  BY <1>2
<1> QED
  BY <1>1, <1>3

(* The text of a sample.                                                    *)
LEMMA SampleText ==
  ASSUME NEW a, IsSample(a)
  PROVE  /\ Text(a) \in Seq(STRING) /\ IsText(Text(a))
         /\ Len(a.tokens) \in Nat /\ DOMAIN a.tokens = 1 .. Len(a.tokens)
BY FlattenedLength, IsTextSeq DEF IsSample, Text

(* Every symbol of the text is of some token.                               *)
LEMMA Owners ==
  ASSUME NEW a, IsSample(a), NEW p \in 1 .. Len(Text(a))
  PROVE  \E i \in 1 .. Len(a.tokens) : p \in Symbols(a, i)
<1>1. PICK E, s : E = STRING /\ s = a.tokens
  OBVIOUS
<1>2. s \in Seq(Seq(E))
  BY <1>1 DEF IsSample
<1>3. PICK n \in Nat : n = Len(s)
  BY <1>2
<1> DEFINE L(i) == Len(FlattenSeq(SubSeq(s, 1, i)))
<1>4. \A i \in 0 .. n : SubSeq(s, 1, i) \in Seq(Seq(E)) /\ Len(SubSeq(s, 1, i)) = i
  BY <1>2, <1>3
<1>5. L(0) = 0 /\ \A i \in 0 .. n : L(i) \in Nat
  <2>1. ASSUME NEW i \in 0 .. n PROVE L(i) \in Nat /\ (i = 0 => L(i) = 0)
    <3>1. PICK t : t = SubSeq(s, 1, i)
      OBVIOUS
    <3>2. t \in Seq(Seq(E)) /\ (i = 0 => Len(t) = 0)
      BY <1>4, <3>1
    <3>3. Len(FlattenSeq(t)) \in Nat /\ (i = 0 => Len(FlattenSeq(t)) = 0)
      BY <3>2, FlattenedLength
    <3> QED
      BY <3>1, <3>3
  <2>2. 0 \in 0 .. n
    OBVIOUS
  <2> HIDE DEF L
  <2> QED
    BY <2>1, <2>2
<1>6. SubSeq(s, 1, n) = s
  BY <1>2, <1>3
<1>7. L(n) = Len(Text(a))
  BY <1>1, <1>6 DEF Text
<1>8. \A i \in 1 .. n : Symbols(a, i) = L(i - 1) + 1 .. L(i)
  BY <1>1 DEF Symbols
<1> HIDE DEF L
<1> DEFINE N == {i \in Nat : i \in 0 .. n /\ p <= L(i)}
<1>9. n \in N /\ N \in SUBSET Nat
  BY <1>3, <1>5, <1>7
<1>10. PICK i \in N : \A j \in N : i <= j
  <2> HIDE DEF N
  <2> QED
    BY <1>9, LeastNatural
<1>11. i \in 1 .. n /\ i - 1 \in 0 .. n
  BY <1>5, <1>7, <1>10
<1>12. ~ (p <= L(i - 1))
  BY <1>10, <1>11
<1>13. p \in L(i - 1) + 1 .. L(i)
  BY <1>5, <1>7, <1>10, <1>11, <1>12
<1> QED
  BY <1>1, <1>3, <1>8, <1>11, <1>13

(* Spans within an action of n tokens that share none.                      *)
SpansApart(spans, n) ==
  /\ spans.think = NoThink \/ (spans.think # {} /\ spans.think \subseteq 1 .. n)
  /\ spans.decision # {} /\ spans.decision \subseteq 1 .. n
  /\ spans.query \subseteq 1 .. n
  /\ spans.decision \cap spans.query = {}
  /\ (spans.think \ NoThink) \cap spans.decision = {}
  /\ (spans.think \ NoThink) \cap spans.query = {}

(* The spans that role_spans builds lie within the tokens of the sample.    *)
LEMMA RolesWithin ==
  ASSUME NEW a, IsSample(a), SearchIntent(Text(a))
  PROVE  /\ RoleSpans(a).think = ThinkTokens(a)
         /\ \/ ThinkTokens(a) = NoThink
            \/ ThinkTokens(a) # {} /\ ThinkTokens(a) \subseteq 1 .. Len(a.tokens)
         /\ RoleSpans(a).decision # {} /\ RoleSpans(a).decision \subseteq 1 .. Len(a.tokens)
         /\ RoleSpans(a).query \subseteq 1 .. Len(a.tokens)
<1>1. DOMAIN a.tokens = 1 .. Len(a.tokens)
  BY SampleText
<1>2. RoleSpans(a).think = ThinkTokens(a) /\ ThinkTokens(a) # {}
  BY DEF RoleSpans, IsSample
<1>3. ThinkTokens(a) = NoThink \/ ThinkTokens(a) \subseteq 1 .. Len(a.tokens)
  BY <1>1 DEF ThinkTokens, Contained
<1>4. PICK open : open = Min(At(Text(a), "S"))
  OBVIOUS
<1>5. RoleSpans(a).decision = Covering(a, open, open)
  BY <1>4 DEF RoleSpans
<1>6. open \in 1 .. Len(Text(a))
  <2>1. At(Text(a), "S") \in SUBSET (1 .. Len(Text(a))) /\ Len(Text(a)) \in Nat
    BY SampleText, SymbolsOfText DEF IsText
  <2>2. open \in At(Text(a), "S")
    BY <1>4, <2>1, PositionEnds DEF SearchIntent
  <2> QED
    BY <2>1, <2>2
<1>7. PICK i \in 1 .. Len(a.tokens) : open \in Symbols(a, i)
  BY <1>6, Owners
<1>8. open \in open .. open
  BY <1>6
<1>9. i \in RoleSpans(a).decision
  BY <1>1, <1>5, <1>7, <1>8 DEF Covering
<1>10. RoleSpans(a).decision \subseteq 1 .. Len(a.tokens)
  BY <1>1, <1>5 DEF Covering
<1>11. RoleSpans(a).query \subseteq 1 .. Len(a.tokens)
  BY <1>1 DEF RoleSpans, Contained
<1> QED
  BY <1>2, <1>3, <1>9, <1>10, <1>11

(* They share no token.                                                     *)
LEMMA RolesDistinct ==
  ASSUME NEW a, IsSample(a), SearchIntent(Text(a)), Len(a.tokens) # 0
  PROVE  /\ ~ RoleSpansRaise(a) => SpansApart(RoleSpans(a), Len(a.tokens))
         /\ SpansApart(InvalidRoleSpans(a), Len(a.tokens))
<1>1. PICK s, n, think : s = RoleSpans(a) /\ n = Len(a.tokens) /\ think = ThinkTokens(a)
  OBVIOUS
<1>2. /\ s.think = think /\ s.decision # {} /\ s.decision \subseteq 1 .. n
      /\ s.query \subseteq 1 .. n
      /\ think = NoThink \/ (think # {} /\ think \subseteq 1 .. n)
  BY <1>1, RolesWithin
<1>3. n \in Nat \ {0} /\ 0 \notin 1 .. n
  BY <1>1, SampleText
<1>4. ASSUME ~ RoleSpansRaise(a) PROVE SpansApart(s, n)
  <2>1. /\ ~ Shared(s.think, s.decision) /\ ~ Shared(s.think, s.query)
        /\ ~ Shared(s.decision, s.query)
    BY <1>1, <1>4 DEF RoleSpansRaise
  <2>2. /\ s.decision \cap s.query = {}
        /\ (s.think \ NoThink) \cap s.decision = {}
        /\ (s.think \ NoThink) \cap s.query = {}
    BY <1>2, <1>3, <2>1 DEF Shared, NoThink
  <2> QED
    BY <1>2, <2>2 DEF SpansApart
<1>5. CASE ~ a.reversible
  <2>1. InvalidRoleSpans(a) = [think |-> NoThink, decision |-> Whole(a), query |-> {}]
    BY <1>5 DEF InvalidRoleSpans
  <2>2. Whole(a) = 1 .. n
    BY <1>1, SampleText DEF Whole
  <2>3. 1 .. n # {}
    <3>1. 1 \in 1 .. n
      BY <1>3
    <3> QED
      BY <3>1
  <2> QED
    BY <1>1, <1>4, <2>1, <2>2, <2>3 DEF SpansApart
<1>6. CASE a.reversible
  <2>1. PICK kept : /\ InvalidRoleSpans(a) =
                         [think |-> IF Shared(think, s.decision) \/ Shared(think, kept)
                                      THEN NoThink ELSE think,
                          decision |-> s.decision, query |-> kept]
                    /\ kept \subseteq s.query \ s.decision
    <3> DEFINE query == s.query \ s.decision
               kept == IF Contiguous(query) THEN query ELSE {}
    <3>1. InvalidRoleSpans(a) =
            [think |-> IF Shared(think, s.decision) \/ Shared(think, kept)
                         THEN NoThink ELSE think,
             decision |-> s.decision, query |-> kept]
      BY <1>1, <1>6 DEF InvalidRoleSpans
    <3>2. kept \subseteq s.query \ s.decision
      OBVIOUS
    <3> HIDE DEF kept
    <3> QED
      BY <3>1, <3>2
  <2>2. PICK own : /\ own = IF Shared(think, s.decision) \/ Shared(think, kept)
                              THEN NoThink ELSE think
                   /\ InvalidRoleSpans(a) = [think |-> own, decision |-> s.decision,
                                             query |-> kept]
    BY <2>1
  <2>3. /\ (own \ NoThink) \cap s.decision = {} /\ (own \ NoThink) \cap kept = {}
    BY <2>2 DEF Shared
  <2>4. own = NoThink \/ (own # {} /\ own \subseteq 1 .. n)
    BY <1>2, <2>2
  <2>5. kept \subseteq 1 .. n /\ s.decision \cap kept = {}
    BY <1>2, <2>1
  <2> QED
    BY <1>1, <1>2, <1>4, <2>2, <2>3, <2>4, <2>5 DEF SpansApart
<1> QED
  BY <1>5, <1>6

(* What makes the spans or the payload of an accepted search raise.         *)
NestedSearch(a) ==
  LET text == Text(a)
      inside == {text[i] : i \in Min(At(text, "S")) + 1..Max(At(text, "/S")) - 1}
  IN  \/ inside \cap {"S", "/S", "T", "/T"} # {}
      \/ RoleSpans(a).query = {}
      \/ ~a.reversible

(* An accepted search raises for the causes run() documents alone.          *)
LEMMA OnlyNestingRaises ==
  ASSUME NEW a, IsSample(a), Parse(Text(a)).kind = "search",
         RoleSpansRaise(a) \/ PayloadRaises(Text(a))
  PROVE  NestedSearch(a)
<1>0. PICK text : text = Text(a)
  OBVIOUS
<1>1. text \in Seq(STRING) /\ IsText(text)
  BY <1>0, SampleText
<1>2. EndsInBlock(text, "search")
  BY <1>0, <1>1, ParsedAction DEF Readable
<1>3. PICK n \in Nat : n = Len(text) /\ DOMAIN text = 1 .. n
  BY <1>1 DEF IsText
<1>4. PICK open, last \in 1 .. n :
        /\ open = Min(At(text, "S")) /\ last = Max(At(text, "/S"))
        /\ open < last /\ text[open] = "S" /\ text[last] = "/S"
        /\ \A i \in 1 .. n : text[i] = "S" => open <= i
        /\ \A i \in 1 .. n : text[i] # " " => i <= last
  BY <1>1, <1>2, <1>3, ReadableSearch
<1>5. SUFFICES ASSUME ~ NestedSearch(a) PROVE FALSE
  OBVIOUS
<1>6. a.reversible /\ RoleSpans(a).query # {}
  BY <1>5 DEF NestedSearch
(* Nothing but white space follows the last symbol: a tag behind the        *)
(* opening one is inside.                                                   *)
<1>7. ASSUME NEW i \in 1 .. n, open < i, text[i] \in {"S", "/S", "T", "/T"}
      PROVE  i = last
  <2>1. i <= last
    BY <1>4, <1>7
  <2>2. i \notin open + 1 .. last - 1
    BY <1>0, <1>4, <1>5, <1>7 DEF NestedSearch
  <2>3. open < i
    BY <1>7
  <2> QED
    BY <2>1, <2>2, <2>3
<1>8. ~ PayloadRaises(text)
  <2>1. At(text, "S") = {open}
    <3>1. \A i \in 1 .. n : text[i] = "S" => i = open
      <4> SUFFICES ASSUME NEW i \in 1 .. n, text[i] = "S" PROVE i = open
        OBVIOUS
      <4>1. open <= i /\ i # last
        BY <1>4
      <4>2. ~ (open < i)
        BY <1>7, <4>1
      <4> QED
        BY <4>1, <4>2
    <3> QED
      BY <1>3, <1>4, <3>1 DEF At
  <2>2. After(text, "/S", open) = {last}
    <3>1. \A i \in 1 .. n : text[i] = "/S" /\ i > open => i = last
      BY <1>7
    <3> QED
      BY <1>3, <1>4, <3>1 DEF At, After
  <2>3. Cardinality(At(text, "S")) = 1 /\ Cardinality(After(text, "/S", open)) = 1
    BY <2>1, <2>2, FS_Singleton
  <2> QED
    BY <1>4, <2>3 DEF PayloadRaises
<1>9. RoleSpansRaise(a)
  BY <1>0, <1>8
<1>10. PICK think, decision, query :
         /\ think = ThinkTokens(a) /\ decision = Covering(a, open, open)
         /\ query = Contained(a, open + 1, QueryEnd(text))
         /\ RoleSpans(a) = [think |-> think, decision |-> decision, query |-> query]
  BY <1>0, <1>4 DEF RoleSpans
<1>11. Shared(think, decision) \/ Shared(think, query) \/ Shared(decision, query)
  BY <1>6, <1>9, <1>10 DEF RoleSpansRaise
<1>12. ~ Shared(decision, query)
  <2>1. ASSUME NEW i, i \in decision, i \in query PROVE FALSE
    <3>1. Symbols(a, i) \cap (open .. open) # {}
      BY <1>10, <2>1 DEF Covering
    <3>2. Symbols(a, i) \subseteq open + 1 .. QueryEnd(text)
      BY <1>10, <2>1 DEF Contained
    <3>3. open \in open + 1 .. QueryEnd(text)
      BY <3>1, <3>2
    <3> QED
      BY <3>3
  <2> QED
    BY <2>1 DEF Shared
<1>13. PICK i \in think : /\ think # NoThink
                          /\ i \in decision \/ i \in query
  BY <1>11, <1>12 DEF Shared
(* The thought: from its opening to its closing tag.                        *)
<1>14. PICK from, to \in 1 .. n :
         /\ text[from] = "T" /\ text[to] = "/T" /\ from < to
         /\ think = Contained(a, from, to)
  <2>1. PICK m, k : m = SpanOpen(text, "think") /\ k = SpanClose(text, "think")
    OBVIOUS
  <2>2. HasSpan(text, "think") /\ think = Contained(a, m, k)
    BY <1>0, <1>10, <1>13, <2>1 DEF ThinkTokens
  <2>3. PICK j \in At(text, "T") : After(text, "/T", j) # {}
    BY <2>2 DEF HasSpan, Opening, Closing
  <2>4. At(text, "T") \in SUBSET (1 .. n) /\ m = Min(At(text, "T"))
        /\ k = Min(After(text, "/T", m))
    BY <1>1, <1>3, <2>1, SymbolsOfText DEF SpanOpen, SpanClose, Opening, Closing
  <2>5. m \in At(text, "T") /\ m <= j
    BY <2>3, <2>4, PositionEnds
  <2>6. After(text, "/T", m) # {} /\ After(text, "/T", m) \in SUBSET (1 .. n)
    <3>1. PICK l : l \in At(text, "/T") /\ l > j
      BY <2>3 DEF After
    <3>2. At(text, "/T") \in SUBSET (1 .. n)
      BY <1>1, <1>3, SymbolsOfText
    <3>3. l > m
      BY <2>3, <2>4, <2>5, <3>1, <3>2
    <3>4. l \in After(text, "/T", m)
      BY <3>1, <3>3 DEF After
    <3> QED
      BY <1>1, <1>3, <3>4, SymbolsOfText
  <2>7. k \in After(text, "/T", m)
    BY <2>4, <2>6, PositionEnds
  <2>8. m \in 1 .. n /\ k \in 1 .. n
    BY <2>4, <2>5, <2>6, <2>7
  <2>9. text[m] = "T" /\ text[k] = "/T" /\ m < k
    BY <2>5, <2>7, <2>8 DEF At, After
  <2> QED
    BY <2>2, <2>8, <2>9
<1>15. Symbols(a, i) # {} /\ Symbols(a, i) \subseteq from .. to
  BY <1>13, <1>14 DEF Contained
<1>16. from # open /\ to # open /\ from # last /\ to # last
  BY <1>4, <1>14
(* A shared token touches the search and lies in the thought.               *)
<1>17. \E p \in from .. to : open <= p
  <2>1. CASE i \in decision
    <3>1. PICK p : p \in Symbols(a, i) /\ p \in open .. open
      BY <1>10, <2>1 DEF Covering
    <3> QED
      BY <1>15, <3>1
  <2>2. CASE i \in query
    <3>1. PICK p : p \in Symbols(a, i)
      BY <1>15
    <3>2. p \in open + 1 .. QueryEnd(text)
      BY <1>10, <2>2, <3>1 DEF Contained
    <3>3. p \in from .. to /\ open <= p
      BY <1>15, <3>1, <3>2
    <3> QED
      BY <3>3
  <2> QED
    BY <1>13, <2>1, <2>2
<1>18. open < to
  BY <1>14, <1>16, <1>17
<1> QED
  BY <1>7, <1>14, <1>16, <1>18

(* A search run() accepts owns a token of its query alone.                  *)
LEMMA QueryOwned ==
  ASSUME NEW a, IsSample(a), Parse(Text(a)).kind = "search",
         ~ RoleSpansRaise(a), ~ PayloadRaises(Text(a))
  PROVE  RoleSpans(a).query # {}
<1>0. PICK text : text = Text(a)
  OBVIOUS
<1>1. text \in Seq(STRING) /\ IsText(text)
  BY <1>0, SampleText
<1>2. EndsInBlock(text, "search")
  BY <1>0, <1>1, ParsedAction DEF Readable
<1>3. PICK n \in Nat : n = Len(text) /\ DOMAIN text = 1 .. n
  BY <1>1 DEF IsText
<1>4. PICK open, last \in 1 .. n :
        /\ open = Min(At(text, "S")) /\ open < last /\ text[last] = "/S"
        /\ \E k \in At(text, "S") : k < last /\ k + 1 # last
        /\ text[open] = "S"
  BY <1>1, <1>2, <1>3, ReadableSearch
<1>5. PICK opens, closes : opens = At(text, "S") /\ closes = After(text, "/S", open)
  OBVIOUS
<1>6. /\ opens \in SUBSET (1 .. n) /\ closes \in SUBSET (1 .. n)
      /\ IsFiniteSet(opens) /\ IsFiniteSet(closes)
      /\ Cardinality(opens) = 1 /\ Cardinality(closes) = 1
  <2>1. opens \in SUBSET (1 .. n) /\ closes \in SUBSET (1 .. n)
    BY <1>1, <1>3, <1>5, SymbolsOfText
  <2>2. IsFiniteSet(opens) /\ IsFiniteSet(closes)
    BY <2>1, PositionEnds
  <2> QED
    BY <1>0, <1>4, <1>5, <2>1, <2>2 DEF PayloadRaises
<1>7. open + 1 # last
  <2>1. PICK k \in opens : k < last /\ k + 1 # last
    BY <1>4, <1>5
  <2>2. open \in opens
    BY <1>3, <1>4, <1>5 DEF At
  <2>3. k = open
    BY <1>6, <2>1, <2>2, FS_Singleton
  <2> QED
    BY <2>1, <2>3
<1>8. QueryEnd(text) = last - 1
  <2>1. last \in closes
    BY <1>3, <1>4, <1>5 DEF After, At
  <2>2. closes = {last}
    BY <1>6, <2>1, FS_Singleton
  <2>3. Min(closes) = last
    BY <1>6, <2>1, <2>2, PositionEnds
  <2> QED
    BY <1>4, <1>5, <2>1, <2>3 DEF QueryEnd
<1>9. QueryEnd(text) > open
  BY <1>4, <1>7, <1>8
<1> QED
  BY <1>0, <1>4, <1>9 DEF RoleSpansRaise
-----------------------------------------------------------------------------
(* What the loop keeps true.                                                *)

Kinds == {"search", "answer", "fallback"}
Queries == Seq(STRING \cup {"x"})
News == {"none", "some", "unknown"}
Branches == {"none", "n_budget", "n_invalid", "n_soft", "normal", "s_before"}
Keys == SUBSET Passages
Positions == SUBSET Int
SpanSets == [action : Positions, think : Positions, decision : Positions,
             query : Positions]
TurnRecords ==
  [index : Int, kind : Kinds, search : Int, text : Queries, spanValid : BOOLEAN,
   prefixValid : BOOLEAN, ig : BOOLEAN, credit : BOOLEAN, noNew : News,
   repeated : BOOLEAN, different : BOOLEAN, current : Keys, new : Keys,
   localized : BOOLEAN, executed : BOOLEAN, budget : BOOLEAN, invalid : BOOLEAN,
   main : BOOLEAN, branch : Branches, before : Keys, after : Keys,
   spans : SpanSets, observation : Positions]

Unfinished == "no_terminal_model_span"

(* A sequence of records, what searches before the i-th asked and found.    *)
Asked(ts, i) == {ts[j].text : j \in 1 .. i - 1}
Found(ts, i) == UNION {ts[j].current : j \in 1 .. i - 1}

(* The tokens of an action, and those of observations.                      *)
OwnedBy(toks, k) == {p \in 1 .. Len(toks) : toks[p] = Token("model", k)}
Environment(toks) == {p \in 1 .. Len(toks) : toks[p] = Token("environment", -1)}

(* The spans of a gated search: tokens of its action, each with one role.   *)
RolesApart(spans, mine) ==
  /\ spans.think # {} /\ spans.decision # {}
  /\ (spans.think \ NoThink) \subseteq mine
  /\ spans.decision \subseteq mine /\ spans.query \subseteq mine
  /\ (spans.think \ NoThink) \cap spans.decision = {}
  /\ (spans.think \ NoThink) \cap spans.query = {}
  /\ spans.decision \cap spans.query = {}
  /\ spans.action = mine

IsSearch(r, i, asked) ==
  /\ r.index = i - 1 /\ r.kind = "search" /\ r.search = i - 1
  /\ r.repeated <=> r.text # <<>> /\ r.text \in asked

(* A search that was answered, with what was asked and found before it.     *)
IsObserved(r, i, asked, found) ==
  /\ IsSearch(r, i, asked) /\ r.text # <<>>
  /\ r.spanValid /\ r.prefixValid /\ r.new = r.current \ found
  /\ r.noNew = (IF r.new = {} THEN "none" ELSE "some")
  /\ r.different = (r.new = {} /\ ~ r.repeated)

(* The branch of such a search: a probe may find that it was not needed.    *)
Judged(r) ==
  /\ ~ r.budget /\ ~ r.invalid
  /\ \/ r.branch = (IF r.new = {} THEN "n_soft" ELSE "normal") /\ r.main
     \/ r.branch = "s_before" /\ ~ r.main

(* What the gate, the system's health and its tokens add to it.             *)
IsGated(r, loc, mine, environment) ==
  /\ r.localized = loc /\ r.executed = loc
  /\ loc => /\ Judged(r) /\ r.spans.query # {}
            /\ r.before \subseteq r.after /\ r.new = r.after \ r.before
            /\ r.observation # {} /\ r.observation \subseteq environment
            /\ r.spans.think # NoThink /\ RolesApart(r.spans, mine)
IsCredited(r, valid) == r.credit = valid /\ r.ig = valid

(* The turn that ends a loop.                                               *)
FindsNothing(r) ==
  /\ ~ r.prefixValid /\ ~ r.ig /\ ~ r.executed
  /\ r.current = {} /\ r.new = {} /\ r.observation = {}

IsFailed(r, i) ==
  /\ r.index = i - 1 /\ r.kind = "search" /\ r.search = i - 1 /\ FindsNothing(r)
  /\ ~ r.credit /\ r.noNew = "unknown" /\ ~ r.different /\ ~ r.localized

IsMalformed(r, i, asked, mine) ==
  /\ IsSearch(r, i, asked) /\ FindsNothing(r)
  /\ r.credit /\ r.noNew = "unknown" /\ ~ r.different
  /\ r.localized /\ r.branch = "n_invalid" /\ r.invalid /\ ~ r.budget /\ ~ r.main
  /\ r.before = r.after /\ RolesApart(r.spans, mine)

IsOverBudget(r, i, asked, loc, mine) ==
  /\ IsSearch(r, i, asked) /\ FindsNothing(r)
  /\ r.spanValid /\ r.credit /\ r.noNew = "none" /\ r.different = ~ r.repeated
  /\ r.localized = loc
  /\ loc => /\ r.branch = "n_budget" /\ r.budget /\ ~ r.invalid /\ ~ r.main
            /\ r.before = r.after /\ r.spans.think # NoThink
            /\ RolesApart(r.spans, mine)

IsTerminal(r, i, kind) ==
  /\ r.index = i - 1 /\ r.kind = kind /\ r.search = -1 /\ FindsNothing(r)
  /\ r.credit /\ ~ r.spanValid /\ r.noNew = "unknown"
  /\ ~ r.repeated /\ ~ r.different /\ ~ r.localized

-----------------------------------------------------------------------------
(* Control: every search so far has one turn, and one action more is on its *)
(* way while the retriever works.                                           *)
Searching ==
  /\ searchCount = turn + 1 /\ Len(actions) = turn + 1 /\ turn < MaxSearchTurns
  /\ action.query # <<>> /\ action.query \in Queries /\ action.size \in Nat \ {0}
  /\ localized => /\ SpansApart(action.spans, action.size)
                  /\ action.spans.think # NoThink /\ action.spans.query # {}
Aborted ==
  /\ localized
  /\ \E a \in Actions :
       /\ action.sample = a /\ action.text = Text(a)
       /\ \/ Parse(Text(a)).kind = "answer" /\ SearchIntent(Text(a))
          \/ Parse(Text(a)).kind = "search" /\ NestedSearch(a)
ControlInv ==
  /\ pc \in {"generate", "retrieve", "done", "raised"}
  /\ localized \in BOOLEAN /\ systemValid \in BOOLEAN
  /\ turn \in 0 .. MaxSearchTurns
  /\ reason \in Endings \cup {Unfinished}
  /\ turns \in Seq(TurnRecords) /\ actions \in Seq(Seq(STRING))
  /\ pc # "done" => systemValid /\ reason = Unfinished /\ Len(turns) = turn
  /\ pc \in {"generate", "raised"} => searchCount = turn /\ Len(actions) = turn
  /\ pc = "retrieve" => Searching
  /\ pc = "raised" => Aborted

(* Tokens: which are whose, and where searches begin and observations end.  *)
OwnerKnown(toks, n) ==
  \A p \in 1 .. Len(toks) :
    \/ toks[p] \in {Token("prompt", -1), Token("environment", -1)}
    \/ \E k \in 0 .. n - 1 : toks[p] = Token("model", k)
EndsWithin(ends, n, top) ==
  /\ ends \in Seq(Nat \ {0}) /\ Len(ends) = n
  /\ \A i \in 1 .. n : ends[i] <= top
  /\ \A i \in 1 .. n - 1 : ends[i] <= ends[i + 1]
IsRun(S, from, to) == from < to /\ S = from + 1 .. to
TokenSet == [source : {"prompt", "model", "environment"}, turn : Int]
TokensKnown(toks, n) ==
  /\ toks \in Seq(TokenSet)
  /\ PromptLength <= Len(toks) /\ Len(toks) <= PromptLength + ResponseLength
  /\ OwnerKnown(toks, n) /\ \A k \in 0 .. n - 1 : OwnedBy(toks, k) # {}
SearchRuns(toks, ends, n) ==
  \A i \in 1 .. n : \E to \in 1 .. Len(toks) : IsRun(OwnedBy(toks, i - 1), ends[i], to)
TokenInv ==
  /\ TokensKnown(tokens, Len(actions))
  /\ searchCount \in 0 .. Len(actions) /\ EndsWithin(preEnds, searchCount, Len(tokens))
  /\ SearchRuns(tokens, preEnds, searchCount)
  /\ EndsWithin(prefixEnds, turn + 1, Len(tokens))
  /\ pc = "retrieve" =>
       /\ preEnds[turn + 1] + action.size = Len(tokens)
       /\ IsRun(OwnedBy(tokens, turn), preEnds[turn + 1], Len(tokens))

(* Turns: all but the last are searches that were observed.                 *)
ObservedInv ==
  /\ \A i \in 1 .. turn :
       /\ IsObserved(turns[i], i, Asked(turns, i), Found(turns, i))
       /\ IsGated(turns[i], localized, OwnedBy(tokens, i - 1), Environment(tokens))
       /\ IsCredited(turns[i], systemValid)
  /\ pc # "done" =>
       /\ seenPassages = Found(turns, turn + 1)
       /\ seenQueries = Asked(turns, turn + 1) \cup
                          (IF pc = "retrieve" THEN {action.query} ELSE {})
  /\ seenPassages \subseteq Passages

(* How a loop ends that runs out of tokens, and how one that does not.      *)
OutOfTokens ==
  /\ Len(turns) = turn /\ Len(actions) = turn /\ searchCount = turn /\ systemValid
  /\ reason \in {"response_length_exhausted", "empty_model_fallback"}
Final ==
  LET r == turns[turn + 1]
      asked == Asked(turns, turn + 1)
      mine == OwnedBy(tokens, turn)
  IN  \/ /\ reason = "retriever_system_failure" /\ ~ systemValid
         /\ searchCount = turn + 1 /\ IsFailed(r, turn + 1)
      \/ /\ reason = "model_generated_malformed_search" /\ systemValid /\ localized
         /\ searchCount = turn + 1 /\ IsMalformed(r, turn + 1, asked, mine)
      \/ /\ reason = "maximum_search_turns_reached" /\ systemValid
         /\ searchCount = turn + 1
         /\ IsOverBudget(r, turn + 1, asked, localized, mine)
         /\ IsRun(mine, preEnds[turn + 1], Len(tokens))
      \/ /\ reason = "model_answer" /\ systemValid /\ searchCount = turn
         /\ IsTerminal(r, turn + 1, "answer")
      \/ /\ reason = "model_generated_malformed_fallback" /\ systemValid
         /\ searchCount = turn /\ IsTerminal(r, turn + 1, "fallback")
DoneInv ==
  pc = "done" =>
    \/ OutOfTokens
    \/ Len(turns) = turn + 1 /\ Len(actions) = turn + 1 /\ Final

(* The parser reads a search in each action but perhaps the last.           *)
ParseInv ==
  /\ \A k \in 1 .. Len(actions) :
       k < Len(actions) \/ pc # "done" => Parse(actions[k]).kind = "search"
  /\ pc = "done" =>
       (reason = "model_answer" <=>
          actions # <<>> /\ Parse(actions[Len(actions)]).kind = "answer")

LoopInv == ControlInv /\ TokenInv /\ ObservedInv /\ DoneInv /\ ParseInv
-----------------------------------------------------------------------------
(* Readings, tokens and turns.                                              *)

(* A normalized query is a query.                                           *)
LEMMA QueryTyped ==
  ASSUME NEW v \in Seq(STRING)
  PROVE  NormalizedQuery(v) \in Queries
<1>0. IsText(v)
  BY IsTextSeq
<1>1. PICK shown : shown = Trimmed(v, 1, Len(v))
  OBVIOUS
<1>2. PICK a, b : a = 1 /\ b = Len(v)
  OBVIOUS
<1>3. a \in Nat \ {0} /\ b \in Int /\ b <= Len(v)
  BY <1>0, <1>2 DEF IsText
<1>4. Trimmed(v, a, b) \in Seq(STRING)
  BY <1>0, <1>3, TrimmedText
<1>5. PICK E, F : E = STRING /\ F = STRING \cup {"x"}
  OBVIOUS
<1>6. shown \in Seq(E) /\ E \subseteq F /\ "x" \in F
  BY <1>1, <1>2, <1>4, <1>5
<1>7. PICK u : u = [i \in DOMAIN shown |-> IF shown[i] = "X" THEN "x" ELSE shown[i]]
  OBVIOUS
<1>8. u \in [1 .. Len(shown) -> F] /\ Len(shown) \in Nat
  BY <1>6, <1>7
<1>9. u \in Seq(F)
  BY <1>8
<1>10. NormalizedQuery(v) = u
  BY <1>1, <1>7 DEF NormalizedQuery
<1> QED
  BY <1>5, <1>9, <1>10 DEF Queries

(* The payload of a search is a query.                                      *)
LEMMA PayloadTyped ==
  ASSUME NEW text \in Seq(STRING), SearchIntent(text)
  PROVE  Payload(text) \in Seq(STRING)
<1>0. IsText(text)
  BY IsTextSeq
<1>1. PICK n \in Nat : n = Len(text)
  BY <1>0 DEF IsText
<1>2. PICK open : open = Min(At(text, "S"))
  OBVIOUS
<1>3. open \in 1 .. n
  <2>1. At(text, "S") \in SUBSET (1 .. n) /\ At(text, "S") # {}
    BY <1>0, <1>1, SymbolsOfText DEF SearchIntent
  <2>2. open \in At(text, "S")
    BY <1>2, <2>1, PositionEnds
  <2> QED
    BY <2>1, <2>2
<1>4. PICK closes : closes = After(text, "/S", open)
  OBVIOUS
<1>5. PICK end : end = QueryEnd(text)
  OBVIOUS
<1>6. end = IF closes = {} THEN n ELSE Min(closes) - 1
  BY <1>1, <1>2, <1>4, <1>5 DEF QueryEnd
<1>7. end \in open .. n
  <2>1. CASE closes = {}
    BY <1>3, <1>6, <2>1
  <2>2. CASE closes # {}
    <3>1. closes \in SUBSET (1 .. n)
      BY <1>0, <1>1, <1>4, SymbolsOfText
    <3>2. PICK m : m = Min(closes)
      OBVIOUS
    <3>3. m \in closes
      BY <2>2, <3>1, <3>2, PositionEnds
    <3>4. m \in 1 .. n /\ m > open
      BY <1>4, <3>1, <3>3 DEF After
    <3>5. end = m - 1
      BY <1>6, <2>2, <3>2
    <3> QED
      BY <1>3, <3>4, <3>5
  <2> QED
    BY <2>1, <2>2
<1>8. PICK E, s, from : E = STRING /\ s = SubSeq(text, from, end) /\ from = open + 1
  OBVIOUS
<1>9. text \in Seq(E) /\ from \in 1 .. n + 1 /\ end \in from - 1 .. n
  BY <1>3, <1>7, <1>8
<1>10. s \in Seq(E)
  BY <1>1, <1>8, <1>9, SubSeqProperties
<1> QED
  BY <1>2, <1>5, <1>8, <1>10 DEF Payload

(* What the loop uses of a reading.                                         *)
Reads(r, a) ==
  /\ r.sample = a /\ r.text = Text(a) /\ r.text \in Seq(STRING)
  /\ r.size \in Nat /\ r.kind = Parse(Text(a)).kind
  /\ r.kind \in {"none", "search", "answer"}
  /\ r.search <=> r.kind = "search" \/ SearchIntent(Text(a))
  /\ r.kind = "answer" /\ r.search => r.payloadRaises /\ SearchIntent(Text(a))
  /\ r.kind = "search" /\ (r.raises \/ r.payloadRaises) => NestedSearch(a)
  /\ r.search /\ r.size # 0 => SpansApart(r.spans, r.size)
  /\ r.search => r.payload \in Queries
  /\ r.kind = "search" => r.query # <<>> /\ r.query \in Queries
  /\ r.kind = "search" /\ ~ r.raises /\ ~ r.payloadRaises => r.spans.query # {}

(* What the loop uses of a reading.                                         *)
LEMMA ReadingReads ==
  ASSUME NEW a \in Actions
  PROVE  Reads(Reading(a), a)
<1>0. IsSample(a)
  BY LoopConstants
<1>1. PICK text, parsed : text = Text(a) /\ parsed = Parse(Text(a))
  OBVIOUS
<1>2. text \in Seq(STRING) /\ Len(a.tokens) \in Nat
  BY <1>0, <1>1, SampleText
<1>3. PICK search : search = (parsed.kind = "search" \/ SearchIntent(text))
  OBVIOUS
<1>4. PICK raises : raises = (search /\ RoleSpansRaise(a))
  OBVIOUS
<1>5. PICK r : r = Reading(a)
  OBVIOUS
<1>6. /\ r.sample = a /\ r.text = text /\ r.size = Len(a.tokens)
      /\ r.kind = parsed.kind /\ r.search = search /\ r.raises = raises
      /\ r.payloadRaises = (search /\ PayloadRaises(text))
      /\ r.spans = (IF ~search THEN NoRoles
                    ELSE IF raises THEN InvalidRoleSpans(a) ELSE RoleSpans(a))
      /\ r.query = (IF ~search THEN <<>>
                    ELSE NormalizedQuery(IF parsed.kind = "search" THEN parsed.value
                                         ELSE Payload(text)))
      /\ r.payload = (IF search THEN NormalizedQuery(Payload(text)) ELSE <<>>)
  BY <1>1, <1>3, <1>4, <1>5 DEF Reading
<1>7. search <=> r.kind = "search" \/ SearchIntent(text)
  BY <1>3, <1>6
<1>8. \/ r.kind = "none"
      \/ r.kind \in {"search", "answer"} /\ Readable(text, r.kind, parsed.value)
  BY <1>1, <1>2, <1>6, ParsedAction DEF Readable
<1>9. r.kind = "search" => SearchIntent(text)
  BY <1>1, <1>2, <1>6, IntentOfSearch
<1>10. r.kind = "answer" /\ search => SearchIntent(text) /\ PayloadRaises(text)
  BY <1>1, <1>2, <1>6, <1>7, AnswerNeverSearches
<1>11. r.kind = "search" /\ (r.raises \/ r.payloadRaises) => NestedSearch(a)
  BY <1>0, <1>1, <1>4, <1>6, OnlyNestingRaises
<1>12. r.search /\ r.size # 0 => SpansApart(r.spans, r.size)
  BY <1>0, <1>1, <1>4, <1>6, <1>7, <1>9, RolesDistinct
<1>13. r.search => r.payload \in Queries
  <2>1. search => Payload(text) \in Seq(STRING)
    BY <1>2, <1>7, <1>9, PayloadTyped
  <2>2. search => NormalizedQuery(Payload(text)) \in Queries
    BY <2>1, QueryTyped
  <2> QED
    BY <1>6, <2>2
<1>14. r.kind = "search" => r.query # <<>> /\ r.query \in Queries
  <2>1. r.kind = "search" => r.query = NormalizedQuery(parsed.value)
    BY <1>6, <1>7
  <2>2. r.kind = "search" => parsed.value \in Seq(STRING) /\ Begins(parsed.value)
    BY <1>8 DEF Readable
  <2> QED
    BY <2>1, <2>2, QueryTyped, QueryText
<1>15. ASSUME r.kind = "search", ~ r.raises, ~ r.payloadRaises PROVE r.spans.query # {}
  <2>1. search /\ ~ RoleSpansRaise(a) /\ ~ PayloadRaises(text)
    BY <1>4, <1>6, <1>7, <1>15
  <2>2. r.spans = RoleSpans(a)
    BY <1>6, <1>15, <2>1
  <2> QED
    BY <1>0, <1>1, <1>6, <1>15, <2>1, <2>2, QueryOwned
<1> QED
  BY <1>1, <1>2, <1>5, <1>6, <1>7, <1>8, <1>10, <1>11, <1>12, <1>13, <1>14, <1>15 DEF Reads

(* Tokens grow at their end.                                                *)
LEMMA TokensTold ==
  /\ \A k \in Int : Token("model", k) \in TokenSet
  /\ Token("environment", -1) \in TokenSet /\ Token("prompt", -1) \in TokenSet
  /\ \A j, k \in Int : Token("model", j) = Token("model", k) => j = k
  /\ \A k \in Int : /\ Token("model", k) # Token("environment", -1)
                    /\ Token("model", k) # Token("prompt", -1)
  /\ Token("environment", -1) # Token("prompt", -1)
BY DEF Token, TokenSet

Extends(toks, new, n, token) ==
  /\ Len(new) = Len(toks) + n
  /\ \A p \in 1 .. Len(toks) : new[p] = toks[p]
  /\ \A p \in Len(toks) + 1 .. Len(toks) + n : new[p] = token

(* Tokens appended to a sequence.                                           *)
LEMMA TokensExtended ==
  ASSUME NEW E, NEW toks \in Seq(E), NEW n \in Nat, NEW token \in E
  PROVE  /\ toks \o Repeat(n, token) \in Seq(E)
         /\ Extends(toks, toks \o Repeat(n, token), n, token)
<1>1. PICK more : more = [i \in 1 .. n |-> token]
  OBVIOUS
<1>2. more \in Seq(E) /\ Len(more) = n /\ \A i \in 1 .. n : more[i] = token
  BY <1>1
<1>3. PICK new : new = toks \o more
  OBVIOUS
<1>4. /\ new \in Seq(E) /\ Len(new) = Len(toks) + n
      /\ \A p \in 1 .. Len(toks) : new[p] = toks[p]
      /\ \A p \in Len(toks) + 1 .. Len(toks) + n : new[p] = token
  <2>1. PICK l, m : l = Len(toks) /\ m = Len(more)
    OBVIOUS
  <2>2. /\ new \in Seq(E) /\ Len(new) = l + m
        /\ \A p \in 1 .. l + m : new[p] = IF p <= l THEN toks[p] ELSE more[p - l]
    BY <1>2, <1>3, <2>1, ConcatProperties, Zenon
  <2>3. m = n
    BY <1>2, <2>1, Zenon
  <2>4. l \in Nat
    BY <2>1
  <2>5. \A p \in 1 .. l : p \in 1 .. l + m /\ p <= l
    BY <1>2, <2>3, <2>4
  <2>6. \A p \in 1 .. l : new[p] = toks[p]
    BY <2>2, <2>5, Zenon
  <2>7. \A p \in l + 1 .. l + n : p \in 1 .. l + m /\ ~ (p <= l) /\ p - l \in 1 .. n
    BY <1>2, <2>3, <2>4
  <2>8. \A p \in l + 1 .. l + n : new[p] = token
    BY <1>2, <2>2, <2>7, Zenon
  <2> QED
    BY <2>1, <2>2, <2>3, <2>6, <2>8, Zenon
<1> QED
  BY <1>1, <1>3, <1>4 DEF Repeat, Extends

OwnersGrow(toks, new, n, token) ==
  /\ \A k : token # Token("model", k) => OwnedBy(new, k) = OwnedBy(toks, k)
  /\ \A k : token = Token("model", k) =>
              OwnedBy(new, k) = OwnedBy(toks, k) \cup (Len(toks) + 1 .. Len(toks) + n)
  /\ token # Token("environment", -1) => Environment(new) = Environment(toks)
  /\ token = Token("environment", -1) =>
       Environment(new) = Environment(toks) \cup (Len(toks) + 1 .. Len(toks) + n)

(* Who owns the tokens of an extended sequence.                             *)
LEMMA OwnersExtended ==
  ASSUME NEW toks, NEW new, Len(toks) \in Nat, NEW n \in Nat, NEW token,
         Extends(toks, new, n, token)
  PROVE  OwnersGrow(toks, new, n, token)
<1>1. PICK m \in Nat : m = Len(toks)
  OBVIOUS
<1>2. /\ Len(new) = m + n /\ (\A p \in 1 .. m : new[p] = toks[p])
      /\ \A p \in m + 1 .. m + n : new[p] = token
  BY <1>1 DEF Extends
<1>3. \A p \in 1 .. m + n : p \in 1 .. m \/ p \in m + 1 .. m + n
  OBVIOUS
<1>4. \A p : p \in 1 .. m \/ p \in m + 1 .. m + n => p \in 1 .. m + n
  OBVIOUS
<1>5. ASSUME NEW t
      PROVE  {p \in 1 .. m + n : new[p] = t} =
               {p \in 1 .. m : toks[p] = t} \cup
                 (IF token = t THEN m + 1 .. m + n ELSE {})
  BY <1>2, <1>3, <1>4
<1> QED
  BY <1>1, <1>2, <1>5 DEF OwnedBy, Environment, OwnersGrow

(* The owners stay known when those of the new tokens are.                  *)
LEMMA OwnersKnown ==
  ASSUME NEW toks, NEW new, Len(toks) \in Nat, NEW n \in Nat, NEW token, NEW k \in Nat,
         NEW m \in {k, k + 1},
         Extends(toks, new, n, token), OwnerKnown(toks, k),
         \/ token = Token("environment", -1)
         \/ token = Token("model", k) /\ m = k + 1
  PROVE  OwnerKnown(new, m)
<1>1. PICK l \in Nat : l = Len(toks)
  OBVIOUS
<1>2. /\ Len(new) = l + n /\ (\A p \in 1 .. l : new[p] = toks[p])
      /\ \A p \in l + 1 .. l + n : new[p] = token
  BY <1>1 DEF Extends
<1>3. ASSUME NEW p \in 1 .. l + n
      PROVE  \/ new[p] \in {Token("prompt", -1), Token("environment", -1)}
             \/ \E j \in 0 .. m - 1 : new[p] = Token("model", j)
  <2>1. CASE p \in 1 .. l
    <3>1. \/ toks[p] \in {Token("prompt", -1), Token("environment", -1)}
          \/ \E j \in 0 .. k - 1 : toks[p] = Token("model", j)
      BY <1>1, <2>1 DEF OwnerKnown
    <3>2. \A j \in 0 .. k - 1 : j \in 0 .. m - 1
      OBVIOUS
    <3> QED
      BY <1>2, <2>1, <3>1, <3>2
  <2>2. CASE p \notin 1 .. l
    <3>1. new[p] = token
      BY <1>2, <2>2
    <3>2. k \in 0 .. k + 1 - 1
      OBVIOUS
    <3> QED
      BY <3>1, <3>2
  <2> QED
    BY <2>1, <2>2
<1> QED
  BY <1>2, <1>3 DEF OwnerKnown

(* A turn to come owns no token.                                            *)
LEMMA OwnsNothing ==
  ASSUME NEW toks, NEW k \in Nat, OwnerKnown(toks, k)
  PROVE  OwnedBy(toks, k) = {}
<1>1. SUFFICES ASSUME NEW p \in 1 .. Len(toks), toks[p] = Token("model", k) PROVE FALSE
  BY DEF OwnedBy
<1>2. k \in Int /\ \A j \in 0 .. k - 1 : j \in Int /\ j # k
  OBVIOUS
<1> QED
  BY <1>1, <1>2, TokensTold DEF OwnerKnown

(* The spans of an action, by position.                                     *)
LEMMA AbsoluteRoles ==
  ASSUME NEW s, NEW n \in Nat, NEW base \in Nat, SpansApart(s, n)
  PROVE  /\ RolesApart(Absolute(s, base, n), base + 1 .. base + n)
         /\ s.think # NoThink => Absolute(s, base, n).think # NoThink
         /\ s.query # {} => Absolute(s, base, n).query # {}
         /\ Absolute(s, base, n) \in SpanSets
<1> DEFINE Sh(S) == Shifted(S, base)
<1>1. ASSUME NEW S \in SUBSET (1 .. n)
      PROVE  /\ Sh(S) = {base + i : i \in S} /\ Sh(S) \subseteq base + 1 .. base + n
             /\ Sh(S) \in Positions /\ 0 \notin Sh(S) /\ (S # {} => Sh(S) # {})
  <2>1. S \ NoThink = S
    BY DEF NoThink
  <2>2. Sh(S) = {base + i : i \in S}
    BY <2>1 DEF Shifted
  <2>3. \A i \in S : base + i \in base + 1 .. base + n /\ base + i \in Int /\ base + i # 0
    OBVIOUS
  <2> HIDE DEF Sh
  <2> QED
    BY <2>2, <2>3 DEF Positions
<1>2. ASSUME NEW S \in SUBSET (1 .. n), NEW T \in SUBSET (1 .. n), S \cap T = {}
      PROVE  Sh(S) \cap Sh(T) = {}
  <2>1. Sh(S) = {base + i : i \in S} /\ Sh(T) = {base + i : i \in T}
    BY <1>1
  <2>2. \A i \in S, j \in T : base + i # base + j
    BY <1>2
  <2> HIDE DEF Sh
  <2> QED
    BY <2>1, <2>2
<1>3. Sh(1 .. n) = base + 1 .. base + n
  <2>1. Sh(1 .. n) = {base + i : i \in 1 .. n}
    BY <1>1
  <2>2. \A p \in base + 1 .. base + n : p - base \in 1 .. n /\ p = base + (p - base)
    OBVIOUS
  <2>3. \A i \in 1 .. n : base + i \in base + 1 .. base + n
    OBVIOUS
  <2> HIDE DEF Sh
  <2> QED
    BY <2>1, <2>2, <2>3
<1>4. PICK think, decision, query : think = s.think /\ decision = s.decision /\ query = s.query
  OBVIOUS
<1>5. /\ think = NoThink \/ (think # {} /\ think \in SUBSET (1 .. n))
      /\ decision # {} /\ decision \in SUBSET (1 .. n) /\ query \in SUBSET (1 .. n)
      /\ decision \cap query = {}
      /\ (think \ NoThink) \cap decision = {} /\ (think \ NoThink) \cap query = {}
  BY <1>4 DEF SpansApart
<1>6. PICK t : t = IF think = NoThink THEN NoThink ELSE Sh(think)
  OBVIOUS
<1>7. Absolute(s, base, n) =
        [action |-> Sh(1 .. n), think |-> t, decision |-> Sh(decision), query |-> Sh(query)]
  BY <1>4, <1>6 DEF Absolute
<1>8. /\ t # {} /\ t \in Positions /\ (t \ NoThink) \subseteq base + 1 .. base + n
      /\ (t \ NoThink) \cap Sh(decision) = {} /\ (t \ NoThink) \cap Sh(query) = {}
      /\ think # NoThink => t # NoThink
  <2>1. CASE think = NoThink
    BY <1>6, <2>1 DEF NoThink, Positions
  <2>2. CASE think # NoThink
    <3>1. think # {} /\ think \in SUBSET (1 .. n) /\ t = Sh(think)
      BY <1>5, <1>6, <2>2
    <3>2. think \ NoThink = think
      BY <3>1 DEF NoThink
    <3>3. /\ t # {} /\ t \in Positions /\ t \subseteq base + 1 .. base + n /\ 0 \notin t
      BY <1>1, <3>1
    <3>4. t \cap Sh(decision) = {} /\ t \cap Sh(query) = {}
      BY <1>2, <1>5, <3>1, <3>2
    <3> HIDE DEF Sh
    <3> QED
      BY <3>3, <3>4 DEF NoThink
  <2> QED
    BY <2>1, <2>2
<1>9. /\ Sh(decision) # {} /\ Sh(decision) \subseteq base + 1 .. base + n
      /\ Sh(query) \subseteq base + 1 .. base + n /\ Sh(decision) \cap Sh(query) = {}
      /\ Sh(decision) \in Positions /\ Sh(query) \in Positions
      /\ query # {} => Sh(query) # {}
  BY <1>1, <1>2, <1>5
<1>10. base + 1 .. base + n \in Positions
  BY DEF Positions
<1> HIDE DEF Sh
<1> QED
  BY <1>3, <1>4, <1>7, <1>8, <1>9, <1>10 DEF RolesApart, SpanSets
-----------------------------------------------------------------------------
(* Records                                                                  *)

(* Records and sequences of records.                                        *)
LEMMA TurnTyped ==
  ASSUME NEW kind \in Kinds, turn \in Nat
  PROVE  Turn(kind) \in TurnRecords
<1>1. <<>> \in Queries /\ "unknown" \in News /\ "none" \in Branches
  BY DEF Queries, News, Branches
<1>2. {} \in Keys /\ {} \in Positions /\ NoThink \in Positions
  BY DEF Keys, Positions, NoThink
<1>3. NoSpans \in SpanSets
  BY <1>2 DEF NoSpans, SpanSets
<1>4. turn \in Int /\ -1 \in Int
  OBVIOUS
<1> QED
  BY <1>1, <1>2, <1>3, <1>4 DEF Turn, TurnRecords

(* A turn that is no search, with its defaults.                             *)
LEMMA TerminalTurn ==
  ASSUME NEW kind \in {"answer", "fallback"}, turn \in Nat
  PROVE  Turn(kind) \in TurnRecords /\ IsTerminal(Turn(kind), turn + 1, kind)
<1>1. kind \in Kinds
  BY DEF Kinds
<1>2. turn = turn + 1 - 1
  OBVIOUS
<1> QED
  BY <1>1, <1>2, TurnTyped DEF Turn, IsTerminal, FindsNothing

(* The fields a new search starts with.                                     *)
IsBlank(t, n) ==
  /\ t.index = n /\ t.kind = "search" /\ ~ t.spanValid /\ ~ t.prefixValid
  /\ ~ t.ig /\ t.credit /\ t.noNew = "unknown" /\ ~ t.different
  /\ t.current = {} /\ t.new = {} /\ ~ t.localized /\ ~ t.executed
  /\ ~ t.budget /\ ~ t.invalid /\ ~ t.main /\ t.observation = {}

(* A search turn with its defaults.                                         *)
LEMMA BlankTurn ==
  ASSUME turn \in Nat
  PROVE  Turn("search") \in TurnRecords /\ IsBlank(Turn("search"), turn)
BY TurnTyped DEF Turn, IsBlank, Kinds

MalformedTurn(t, n, query, repeated, keys, spans) ==
  [t EXCEPT
     !.search = n, !.text = query, !.repeated = repeated,
     !.localized = TRUE, !.invalid = TRUE, !.branch = "n_invalid",
     !.before = keys, !.after = keys, !.spans = spans]

(* The record of a malformed search.                                        *)
LEMMA MalformedRecord ==
  ASSUME NEW t \in TurnRecords, NEW n \in Nat, NEW query \in Queries,
         NEW repeated \in BOOLEAN, NEW keys \in Keys, NEW spans \in SpanSets, NEW r,
         r = MalformedTurn(t, n, query, repeated, keys, spans)
  PROVE  /\ r \in TurnRecords
         /\ \A asked, mine :
              IsBlank(t, n) /\ (repeated <=> query # <<>> /\ query \in asked)
                /\ RolesApart(spans, mine)
              => IsMalformed(r, n + 1, asked, mine)
<1>1. r \in TurnRecords
  <2>1. "n_invalid" \in Branches /\ n \in Int
    BY DEF Branches
  <2> QED
    BY <2>1 DEF MalformedTurn, TurnRecords
<1>2. /\ r.index = t.index /\ r.kind = t.kind /\ r.search = n
      /\ r.text = query /\ r.repeated = repeated
      /\ r.prefixValid = t.prefixValid /\ r.ig = t.ig /\ r.executed = t.executed
      /\ r.current = t.current /\ r.new = t.new /\ r.observation = t.observation
      /\ r.credit = t.credit /\ r.noNew = t.noNew /\ r.different = t.different
      /\ r.localized = TRUE /\ r.branch = "n_invalid" /\ r.invalid = TRUE
      /\ r.budget = t.budget
      /\ r.main = t.main /\ r.before = keys /\ r.after = keys /\ r.spans = spans
  BY DEF MalformedTurn, TurnRecords
<1>3. n = n + 1 - 1
  OBVIOUS
<1>4. ASSUME NEW asked, NEW mine, IsBlank(t, n), RolesApart(spans, mine),
             repeated <=> query # <<>> /\ query \in asked
      PROVE  IsMalformed(r, n + 1, asked, mine)
  <2>1. IsSearch(r, n + 1, asked)
    BY <1>2, <1>4 DEF IsSearch, IsBlank
  <2>2. FindsNothing(r)
    BY <1>2, <1>4, Zenon DEF FindsNothing, IsBlank
  <2>3. /\ r.credit /\ r.noNew = "unknown" /\ ~ r.different /\ ~ r.budget /\ ~ r.main
    BY <1>2, <1>4, Zenon DEF IsBlank
  <2>4. /\ r.localized /\ r.branch = "n_invalid" /\ r.invalid /\ r.before = r.after
    BY <1>2
  <2>5. RolesApart(r.spans, mine)
    BY <1>2, <1>4
  <2> QED
    BY <2>1, <2>2, <2>3, <2>4, <2>5, Zenon DEF IsMalformed
<1> QED
  BY <1>1, <1>4

OverBudgetTurn(t, n, query, repeated, different, loc, branch, keys, spans) ==
  [t EXCEPT
     !.search = n, !.text = query, !.spanValid = TRUE,
     !.noNew = "none", !.repeated = repeated, !.different = different,
     !.localized = loc, !.budget = loc, !.branch = branch,
     !.before = keys, !.after = keys, !.spans = spans]

Refused(t, n, query, repeated, different) ==
  [t EXCEPT !.search = n, !.text = query, !.spanValid = TRUE,
            !.noNew = "none", !.repeated = repeated, !.different = different]
Refuses(t, loc, branch, keys, spans) ==
  [t EXCEPT !.localized = loc, !.budget = loc, !.branch = branch,
            !.before = keys, !.after = keys, !.spans = spans]

(* What the record of a refused search replaces, in two steps: types,       *)
LEMMA RefusedTyped ==
  ASSUME NEW t \in TurnRecords, NEW n \in Int, NEW query \in Queries,
         NEW repeated \in BOOLEAN, NEW different \in BOOLEAN, "none" \in News
  PROVE  Refused(t, n, query, repeated, different) \in TurnRecords
BY DEF TurnRecords, Refused

(* of the second step,                                                      *)
LEMMA RefusesTyped ==
  ASSUME NEW t \in TurnRecords, NEW loc \in BOOLEAN, NEW branch \in Branches,
         NEW keys \in Keys, NEW spans \in SpanSets
  PROVE  Refuses(t, loc, branch, keys, spans) \in TurnRecords
BY DEF TurnRecords, Refuses

(* and both steps together.                                                 *)
LEMMA RefusedInTwo ==
  ASSUME NEW t, NEW n, NEW query, NEW repeated, NEW different, NEW loc, NEW branch,
         NEW keys, NEW spans
  PROVE  OverBudgetTurn(t, n, query, repeated, different, loc, branch, keys, spans) =
           Refuses(Refused(t, n, query, repeated, different), loc, branch, keys, spans)
BY DEF OverBudgetTurn, Refused, Refuses

RefusalIs(t, n, query, repeated, different, loc, branch, keys, spans, asked, mine) ==
  /\ t \in TurnRecords /\ n \in Nat /\ query \in Queries /\ repeated \in BOOLEAN
  /\ different \in BOOLEAN /\ loc \in BOOLEAN /\ branch \in Branches /\ keys \in Keys
  /\ spans \in SpanSets /\ IsBlank(t, n) /\ (different <=> ~ repeated)
  /\ repeated <=> query # <<>> /\ query \in asked
  /\ loc => branch = "n_budget" /\ RolesApart(spans, mine) /\ spans.think # NoThink

(* The record of a search over the budget.                                  *)
LEMMA OverBudgetRecord ==
  ASSUME NEW t, NEW n, NEW query, NEW repeated, NEW different, NEW loc, NEW branch,
         NEW keys, NEW spans, NEW asked, NEW mine,
         RefusalIs(t, n, query, repeated, different, loc, branch, keys, spans, asked, mine)
  PROVE  LET r == OverBudgetTurn(t, n, query, repeated, different, loc, branch, keys, spans)
         IN  r \in TurnRecords /\ IsOverBudget(r, n + 1, asked, loc, mine)
<1>a. /\ t \in TurnRecords /\ n \in Nat /\ query \in Queries /\ repeated \in BOOLEAN
      /\ different \in BOOLEAN /\ loc \in BOOLEAN /\ branch \in Branches /\ keys \in Keys
      /\ spans \in SpanSets
  BY DEF RefusalIs
<1>b. /\ IsBlank(t, n) /\ (different <=> ~ repeated)
      /\ repeated <=> query # <<>> /\ query \in asked
  BY DEF RefusalIs
<1>c. loc => branch = "n_budget" /\ RolesApart(spans, mine) /\ spans.think # NoThink
  BY DEF RefusalIs
<1>r. PICK r : r = OverBudgetTurn(t, n, query, repeated, different, loc, branch, keys, spans)
  OBVIOUS
<1>1. r \in TurnRecords
  <2>1. n \in Int /\ "none" \in News
    BY <1>a DEF News
  <2>2. Refused(t, n, query, repeated, different) \in TurnRecords
    BY <1>a, <2>1, RefusedTyped, Zenon
  <2> QED
    BY <1>a, <1>r, <2>2, RefusedInTwo, RefusesTyped, Zenon
<1>2. /\ r.index = t.index /\ r.kind = t.kind /\ r.search = n
      /\ r.text = query /\ r.repeated = repeated
      /\ r.prefixValid = t.prefixValid /\ r.ig = t.ig /\ r.executed = t.executed
      /\ r.current = t.current /\ r.new = t.new /\ r.observation = t.observation
      /\ r.spanValid = TRUE /\ r.credit = t.credit /\ r.noNew = "none"
      /\ r.different = different
      /\ r.localized = loc /\ r.branch = branch /\ r.budget = loc
      /\ r.invalid = t.invalid
      /\ r.main = t.main /\ r.before = keys /\ r.after = keys /\ r.spans = spans
  BY <1>a, <1>r DEF OverBudgetTurn, TurnRecords
<1>3. n = n + 1 - 1
  BY <1>a
<1>4. IsSearch(r, n + 1, asked)
  BY <1>2, <1>a, <1>b DEF IsSearch, IsBlank
<1>5. FindsNothing(r)
  BY <1>2, <1>b, Zenon DEF FindsNothing, IsBlank
<1>6. /\ r.spanValid /\ r.credit /\ r.noNew = "none" /\ r.different = ~ r.repeated
      /\ r.localized = loc
  BY <1>2, <1>a, <1>b DEF IsBlank
<1>7. ASSUME loc
      PROVE  /\ r.branch = "n_budget" /\ r.budget /\ ~ r.invalid /\ ~ r.main
             /\ r.before = r.after /\ r.spans.think # NoThink
             /\ RolesApart(r.spans, mine)
  <2>1. r.spans.think # NoThink /\ RolesApart(r.spans, mine) /\ r.before = r.after
    BY <1>2, <1>7, <1>c, Zenon
  <2>2. ~ r.invalid /\ ~ r.main
    BY <1>2, <1>b, Zenon DEF IsBlank
  <2>3. r.branch = "n_budget" /\ r.budget
    BY <1>2, <1>7, <1>c
  <2> QED
    BY <2>1, <2>2, <2>3
<1> QED
  BY <1>r, <1>1, <1>4, <1>5, <1>6, <1>7, Zenon DEF IsOverBudget

ObservedTurn(t, n, query, none, repeated, different, documents, new, loc, branch,
             old, all, spans, observation) ==
  [t EXCEPT
     !.search = n, !.text = query,
     !.spanValid = TRUE, !.prefixValid = TRUE, !.ig = TRUE,
     !.noNew = none, !.repeated = repeated, !.different = different,
     !.current = documents, !.new = new,
     !.localized = loc, !.executed = loc, !.main = loc,
     !.branch = branch, !.before = old, !.after = all,
     !.spans = spans, !.observation = observation]

(* The same in two steps: what was found, and what the gate makes of it.    *)
Finds(t, n, query, none, repeated, different, documents, new) ==
  [t EXCEPT
     !.search = n, !.text = query,
     !.spanValid = TRUE, !.prefixValid = TRUE, !.ig = TRUE,
     !.noNew = none, !.repeated = repeated, !.different = different,
     !.current = documents, !.new = new]
Gates(t, loc, branch, old, all, spans, observation) ==
  [t EXCEPT !.localized = loc, !.executed = loc, !.main = loc,
            !.branch = branch, !.before = old, !.after = all,
            !.spans = spans, !.observation = observation]

(* What the record of an observed search replaces, in two steps: types,     *)
LEMMA FindsTyped ==
  ASSUME NEW t \in TurnRecords, NEW n \in Int, NEW query \in Queries, NEW none \in News,
         NEW repeated \in BOOLEAN, NEW different \in BOOLEAN, NEW documents \in Keys,
         NEW new \in Keys
  PROVE  Finds(t, n, query, none, repeated, different, documents, new) \in TurnRecords
BY DEF TurnRecords, Finds

(* of the second step,                                                      *)
LEMMA GatesTyped ==
  ASSUME NEW t \in TurnRecords, NEW loc \in BOOLEAN, NEW branch \in Branches,
         NEW old \in Keys, NEW all \in Keys, NEW spans \in SpanSets,
         NEW observation \in Positions
  PROVE  Gates(t, loc, branch, old, all, spans, observation) \in TurnRecords
BY DEF TurnRecords, Gates

(* and both steps together.                                                 *)
LEMMA ObservedInTwo ==
  ASSUME NEW t, NEW n, NEW query, NEW none, NEW repeated, NEW different,
         NEW documents, NEW new , NEW loc, NEW branch, NEW old, NEW all, NEW spans,
         NEW observation
  PROVE  ObservedTurn(t, n, query, none, repeated, different, documents, new, loc,
                      branch, old, all, spans, observation) =
           Gates(Finds(t, n, query, none, repeated, different, documents, new),
                 loc, branch, old, all, spans, observation)
BY DEF ObservedTurn, Finds, Gates

ObservationIs(t, n, query, none, repeated, different, documents, new, loc, branch, old,
              all, spans, observation, asked, found, mine, environment) ==
  /\ t \in TurnRecords /\ n \in Nat /\ query \in Queries /\ none \in News
  /\ repeated \in BOOLEAN /\ different \in BOOLEAN /\ documents \in Keys
  /\ new \in Keys /\ loc \in BOOLEAN /\ branch \in Branches
  /\ old \in Keys /\ all \in Keys /\ spans \in SpanSets /\ observation \in Positions
  /\ IsBlank(t, n) /\ query # <<>> /\ (repeated <=> query \in asked)
  /\ new = documents \ found /\ none = (IF new = {} THEN "none" ELSE "some")
  /\ different <=> new = {} /\ ~ repeated
  /\ loc => /\ branch = (IF new = {} THEN "n_soft" ELSE "normal")
            /\ old \subseteq all /\ new = all \ old
            /\ observation # {} /\ observation \subseteq environment
            /\ spans.think # NoThink /\ spans.query # {} /\ RolesApart(spans, mine)

Observes(r, n, query, documents, asked, found, loc, mine, environment) ==
  /\ r \in TurnRecords /\ r.text = query /\ r.current = documents
  /\ IsObserved(r, n + 1, asked, found)
  /\ IsGated(r, loc, mine, environment) /\ IsCredited(r, TRUE)

(* The record of an observed search.                                        *)
LEMMA ObservedRecord ==
  ASSUME NEW t, NEW n, NEW query, NEW none, NEW repeated, NEW different, NEW documents,
         NEW new, NEW loc, NEW branch, NEW old, NEW all, NEW spans, NEW observation,
         NEW asked, NEW found, NEW mine, NEW environment,
         ObservationIs(t, n, query, none, repeated, different, documents, new, loc, branch,
                       old, all, spans, observation, asked, found, mine, environment)
  PROVE  Observes(ObservedTurn(t, n, query, none, repeated, different, documents, new, loc,
                               branch, old, all, spans, observation),
                  n, query, documents, asked, found, loc, mine, environment)
<1>a. /\ t \in TurnRecords /\ n \in Nat /\ query \in Queries /\ none \in News
      /\ repeated \in BOOLEAN /\ different \in BOOLEAN /\ documents \in Keys
      /\ new \in Keys /\ loc \in BOOLEAN /\ branch \in Branches
      /\ old \in Keys /\ all \in Keys /\ spans \in SpanSets /\ observation \in Positions
  BY DEF ObservationIs
<1>b. /\ IsBlank(t, n) /\ query # <<>> /\ (repeated <=> query \in asked)
      /\ new = documents \ found /\ none = (IF new = {} THEN "none" ELSE "some")
      /\ different <=> new = {} /\ ~ repeated
  BY DEF ObservationIs
<1>c. loc => /\ branch = (IF new = {} THEN "n_soft" ELSE "normal")
             /\ old \subseteq all /\ new = all \ old
             /\ observation # {} /\ observation \subseteq environment
             /\ spans.think # NoThink /\ spans.query # {} /\ RolesApart(spans, mine)
  BY DEF ObservationIs
<1>r. PICK r : r = ObservedTurn(t, n, query, none, repeated, different, documents, new, loc,
                                branch, old, all, spans, observation)
  OBVIOUS
<1>1. r \in TurnRecords
  <2>1. n \in Int
    BY <1>a
  <2>2. Finds(t, n, query, none, repeated, different, documents, new) \in TurnRecords
    BY <1>a, <2>1, FindsTyped, Zenon
  <2> QED
    BY <1>a, <1>r, <2>2, ObservedInTwo, GatesTyped, Zenon
<1>2. /\ r.index = t.index /\ r.kind = t.kind /\ r.search = n
      /\ r.text = query /\ r.repeated = repeated
      /\ r.spanValid = TRUE /\ r.prefixValid = TRUE /\ r.ig = TRUE
      /\ r.credit = t.credit
      /\ r.noNew = none /\ r.different = different
      /\ r.current = documents /\ r.new = new
      /\ r.localized = loc /\ r.executed = loc /\ r.main = loc
      /\ r.branch = branch /\ r.before = old /\ r.after = all
      /\ r.spans = spans /\ r.observation = observation
      /\ r.budget = t.budget /\ r.invalid = t.invalid
  BY <1>a, <1>r DEF ObservedTurn, TurnRecords
<1>3. n = n + 1 - 1
  BY <1>a
<1>4. IsObserved(r, n + 1, asked, found)
  <2>1. IsSearch(r, n + 1, asked)
    BY <1>2, <1>a, <1>b DEF IsSearch, IsBlank
  <2>2. /\ r.text # <<>> /\ r.spanValid /\ r.prefixValid /\ r.new = r.current \ found
        /\ r.noNew = (IF r.new = {} THEN "none" ELSE "some")
    BY <1>2, <1>b, Zenon
  <2>3. r.different = (r.new = {} /\ ~ r.repeated)
    BY <1>2, <1>a, <1>b
  <2> QED
    BY <2>1, <2>2, <2>3, Zenon DEF IsObserved
<1>5. IsGated(r, loc, mine, environment)
  <2>1. r.localized = loc /\ r.executed = loc
    BY <1>2
  <2>2. ASSUME loc
        PROVE  /\ Judged(r) /\ r.spans.query # {}
               /\ r.before \subseteq r.after /\ r.new = r.after \ r.before
               /\ r.observation # {} /\ r.observation \subseteq environment
               /\ r.spans.think # NoThink /\ RolesApart(r.spans, mine)
    <3>1. r.main /\ ~ r.budget /\ ~ r.invalid
      BY <1>2, <1>b, <2>2 DEF IsBlank
    <3>2. /\ r.branch = (IF r.new = {} THEN "n_soft" ELSE "normal")
          /\ r.before \subseteq r.after /\ r.new = r.after \ r.before
      BY <1>2, <1>c, <2>2, Zenon
    <3>3. /\ r.observation # {} /\ r.observation \subseteq environment
          /\ r.spans.think # NoThink /\ r.spans.query # {} /\ RolesApart(r.spans, mine)
      BY <1>2, <1>c, <2>2, Zenon
    <3> QED
      BY <3>1, <3>2, <3>3 DEF Judged
  <2> QED
    BY <2>1, <2>2, Zenon DEF IsGated
<1>6. IsCredited(r, TRUE)
  BY <1>2, <1>b DEF IsBlank, IsCredited
<1> QED
  BY <1>r, <1>1, <1>2, <1>4, <1>5, <1>6 DEF Observes

FailedTurn(t, n, query) == [t EXCEPT !.search = n, !.text = query, !.spanValid = TRUE]
Withdrawn(r) == [r EXCEPT !.credit = FALSE, !.ig = FALSE]

(* The record of a search that failed.                                      *)
LEMMA FailedRecord ==
  ASSUME NEW t \in TurnRecords, NEW n \in Nat, NEW query \in Queries
  PROVE  /\ FailedTurn(t, n, query) \in TurnRecords
         /\ IsBlank(t, n) => IsFailed(Withdrawn(FailedTurn(t, n, query)), n + 1)
<1>1. PICK f, w : f = FailedTurn(t, n, query) /\ w = Withdrawn(f)
  OBVIOUS
<1>2. f \in TurnRecords
  <2>1. n \in Int /\ TRUE \in BOOLEAN
    OBVIOUS
  <2> QED
    BY <1>1, <2>1 DEF FailedTurn, TurnRecords
<1>3. /\ f.index = t.index /\ f.kind = t.kind /\ f.search = n
      /\ f.prefixValid = t.prefixValid /\ f.executed = t.executed
      /\ f.current = t.current /\ f.new = t.new /\ f.observation = t.observation
      /\ f.noNew = t.noNew /\ f.different = t.different /\ f.localized = t.localized
  BY <1>1 DEF FailedTurn, TurnRecords
<1>4. /\ w.index = f.index /\ w.kind = f.kind /\ w.search = f.search
      /\ w.prefixValid = f.prefixValid /\ w.executed = f.executed
      /\ w.current = f.current /\ w.new = f.new /\ w.observation = f.observation
      /\ w.noNew = f.noNew /\ w.different = f.different /\ w.localized = f.localized
      /\ w.credit = FALSE /\ w.ig = FALSE
  BY <1>1, <1>2 DEF Withdrawn, TurnRecords
<1>5. n = n + 1 - 1
  OBVIOUS
<1>6. ASSUME IsBlank(t, n) PROVE IsFailed(w, n + 1)
  <2>1. FindsNothing(w)
    BY <1>3, <1>4, <1>6, Zenon DEF FindsNothing, IsBlank
  <2>2. /\ w.index = n + 1 - 1 /\ w.kind = "search" /\ w.search = n + 1 - 1
    BY <1>3, <1>4, <1>5, <1>6, Zenon DEF IsBlank
  <2>3. ~ w.credit /\ w.noNew = "unknown" /\ ~ w.different /\ ~ w.localized
    BY <1>3, <1>4, <1>6, Zenon DEF IsBlank
  <2> QED
    BY <2>1, <2>2, <2>3 DEF IsFailed
<1> QED
  BY <1>1, <1>2, <1>6

(* A record whose credit is withdrawn keeps all else.                       *)
LEMMA WithdrawnKeeps ==
  ASSUME NEW r \in TurnRecords, NEW i, NEW asked, NEW found, NEW loc, NEW mine, NEW env
  PROVE  /\ Withdrawn(r) \in TurnRecords
         /\ Withdrawn(r).text = r.text /\ Withdrawn(r).current = r.current
         /\ IsObserved(r, i, asked, found) => IsObserved(Withdrawn(r), i, asked, found)
         /\ IsGated(r, loc, mine, env) => IsGated(Withdrawn(r), loc, mine, env)
         /\ IsCredited(Withdrawn(r), FALSE)
<1>1. PICK w : w = Withdrawn(r)
  OBVIOUS
<1>2. w = [r EXCEPT !.credit = FALSE, !.ig = FALSE]
  BY <1>1 DEF Withdrawn
<1>3. w \in TurnRecords
  BY <1>2 DEF TurnRecords
<1>4. /\ w.index = r.index /\ w.kind = r.kind /\ w.search = r.search /\ w.text = r.text
      /\ w.spanValid = r.spanValid /\ w.prefixValid = r.prefixValid
      /\ w.noNew = r.noNew /\ w.repeated = r.repeated /\ w.different = r.different
      /\ w.current = r.current /\ w.new = r.new /\ w.localized = r.localized
      /\ w.executed = r.executed /\ w.main = r.main /\ w.branch = r.branch
      /\ w.before = r.before /\ w.after = r.after /\ w.spans = r.spans
      /\ w.observation = r.observation /\ w.credit = FALSE /\ w.ig = FALSE
      /\ w.budget = r.budget /\ w.invalid = r.invalid
  BY <1>2 DEF TurnRecords
<1> QED
  BY <1>1, <1>3, <1>4 DEF IsObserved, IsSearch, IsGated, Judged, IsCredited
-----------------------------------------------------------------------------
(* What one turn, one sample and one position more change                   *)

(* The past of a turn.                                                      *)
LEMMA PastSame ==
  ASSUME NEW ts, NEW us, NEW n \in Nat,
         \A j \in 1 .. n : us[j].text = ts[j].text /\ us[j].current = ts[j].current
  PROVE  \A i \in 1 .. n + 1 :
           Asked(us, i) = Asked(ts, i) /\ Found(us, i) = Found(ts, i)
<1>1. SUFFICES ASSUME NEW i \in 1 .. n + 1
               PROVE  Asked(us, i) = Asked(ts, i) /\ Found(us, i) = Found(ts, i)
  OBVIOUS
<1>2. \A j \in 1 .. i - 1 : us[j].text = ts[j].text /\ us[j].current = ts[j].current
  OBVIOUS
<1>3. {us[j].current : j \in 1 .. i - 1} = {ts[j].current : j \in 1 .. i - 1}
  BY <1>2
<1> QED
  BY <1>2, <1>3 DEF Asked, Found

OneTurnMore(ts, us, n, r) ==
  /\ us \in Seq(TurnRecords) /\ Len(us) = n + 1
  /\ us[n + 1] = r /\ \A i \in 1 .. n : us[i] = ts[i]
  /\ \A i \in 1 .. n + 1 : Asked(us, i) = Asked(ts, i) /\ Found(us, i) = Found(ts, i)
  /\ Asked(us, n + 1 + 1) = Asked(ts, n + 1) \cup {r.text}
  /\ Found(us, n + 1 + 1) = Found(ts, n + 1) \cup r.current

(* One turn more adds its query and its passages to the past.               *)
LEMMA PastExtended ==
  ASSUME NEW ts \in Seq(TurnRecords), NEW r \in TurnRecords, NEW n \in Nat, Len(ts) = n
  PROVE  OneTurnMore(ts, Append(ts, r), n, r)
<1>0. PICK us : us = Append(ts, r)
  OBVIOUS
<1>1. /\ us \in Seq(TurnRecords) /\ Len(us) = n + 1
      /\ us[n + 1] = r /\ \A i \in 1 .. n : us[i] = ts[i]
  BY <1>0, AppendElements
<1>2. \A i \in 1 .. n + 1 :
        Asked(us, i) = Asked(ts, i) /\ Found(us, i) = Found(ts, i)
  <2>1. \A j \in 1 .. n : us[j].text = ts[j].text /\ us[j].current = ts[j].current
    BY <1>1
  <2> QED
    BY <2>1, PastSame
<1>3. \A j : j \in 1 .. n + 1 + 1 - 1 <=> j \in 1 .. n + 1 - 1 \/ j = n + 1
  OBVIOUS
<1>4. Asked(us, n + 1 + 1) = Asked(us, n + 1) \cup {r.text}
  BY <1>1, <1>3 DEF Asked
<1>5. Found(us, n + 1 + 1) = Found(us, n + 1) \cup r.current
  BY <1>1, <1>3 DEF Found
<1>6. n + 1 \in 1 .. n + 1
  OBVIOUS
<1> QED
  BY <1>0, <1>1, <1>2, <1>4, <1>5, <1>6 DEF OneTurnMore

(* The tokens of a model's action and of an observation.                    *)
Samples(toks, new, k, size) ==
  /\ new \in Seq(TokenSet) /\ Len(new) = Len(toks) + size
  /\ OwnerKnown(new, k + 1)
  /\ \A j \in Int : j # k => OwnedBy(new, j) = OwnedBy(toks, j)
  /\ IsRun(OwnedBy(new, k), Len(toks), Len(new))
  /\ Environment(new) = Environment(toks)
Inserts(toks, new, k, size) ==
  /\ new \in Seq(TokenSet) /\ Len(new) = Len(toks) + size
  /\ OwnerKnown(new, k)
  /\ \A j \in Int : OwnedBy(new, j) = OwnedBy(toks, j)
  /\ Environment(new) = Environment(toks) \cup (Len(toks) + 1 .. Len(new))

(* The tokens of a sample belong to its turn.                               *)
LEMMA SampledTokens ==
  ASSUME NEW toks \in Seq(TokenSet), NEW k \in Nat, NEW size \in Nat \ {0},
         OwnerKnown(toks, k), NEW new, new = toks \o Repeat(size, Token("model", k))
  PROVE  Samples(toks, new, k, size)
<1>1. PICK token : token = Token("model", k)
  OBVIOUS
<1>2. token \in TokenSet /\ k \in Int
  BY <1>1, TokensTold
<1>3. new \in Seq(TokenSet) /\ Extends(toks, new, size, token)
  BY <1>1, <1>2, TokensExtended
<1>4. PICK l \in Nat : l = Len(toks)
  OBVIOUS
<1>5. Len(new) = l + size
  BY <1>3, <1>4 DEF Extends
<1>6. OwnerKnown(new, k + 1)
  BY <1>1, <1>3, <1>4, OwnersKnown
<1>11. OwnersGrow(toks, new, size, token)
  BY <1>3, <1>4, OwnersExtended
<1>7. \A j \in Int : j # k => OwnedBy(new, j) = OwnedBy(toks, j)
  <2>1. \A j \in Int : j # k => token # Token("model", j)
    BY <1>1, <1>2, TokensTold
  <2> QED
    BY <1>11, <2>1, Zenon DEF OwnersGrow
<1>8. OwnedBy(new, k) = l + 1 .. l + size
  <2>1. OwnedBy(toks, k) = {}
    BY OwnsNothing
  <2>2. OwnedBy(new, k) = OwnedBy(toks, k) \cup (l + 1 .. l + size)
    BY <1>1, <1>4, <1>11, Zenon DEF OwnersGrow
  <2> QED
    BY <2>1, <2>2
<1>9. Environment(new) = Environment(toks)
  BY <1>1, <1>2, <1>11, TokensTold DEF OwnersGrow
<1>10. l < l + size
  OBVIOUS
<1> QED
  BY <1>3, <1>4, <1>5, <1>6, <1>7, <1>8, <1>9, <1>10 DEF IsRun, Samples

(* The tokens of an observation belong to no turn.                          *)
LEMMA InsertedTokens ==
  ASSUME NEW toks \in Seq(TokenSet), NEW k \in Nat, NEW size \in Nat, OwnerKnown(toks, k),
         NEW new, new = toks \o Repeat(size, Token("environment", -1))
  PROVE  Inserts(toks, new, k, size)
<1>1. PICK token : token = Token("environment", -1)
  OBVIOUS
<1>2. token \in TokenSet
  BY <1>1, TokensTold
<1>3. new \in Seq(TokenSet) /\ Extends(toks, new, size, token)
  BY <1>1, <1>2, TokensExtended
<1>4. PICK l \in Nat : l = Len(toks)
  OBVIOUS
<1>5. Len(new) = l + size
  BY <1>3, <1>4 DEF Extends
<1>6. OwnerKnown(new, k)
  BY <1>1, <1>3, <1>4, OwnersKnown
<1>9. OwnersGrow(toks, new, size, token)
  BY <1>3, <1>4, OwnersExtended
<1>7. \A j \in Int : OwnedBy(new, j) = OwnedBy(toks, j)
  <2>1. \A j : token # Token("model", j) => OwnedBy(new, j) = OwnedBy(toks, j)
    BY <1>9, Zenon DEF OwnersGrow
  <2>2. \A j \in Int : token # Token("model", j)
    BY <1>1, TokensTold
  <2> QED
    BY <2>1, <2>2, Zenon
<1>8. Environment(new) = Environment(toks) \cup (l + 1 .. l + size)
  BY <1>1, <1>4, <1>9 DEF OwnersGrow
<1> QED
  BY <1>3, <1>4, <1>5, <1>6, <1>7, <1>8 DEF Inserts

OneEndMore(ends, new, n, e, limit) ==
  /\ EndsWithin(new, n + 1, limit) /\ new[n + 1] = e
  /\ \A i \in 1 .. n : new[i] = ends[i]

(* One position more keeps the positions in order.                          *)
LEMMA EndsExtended ==
  ASSUME NEW ends, NEW n \in Nat, NEW top \in Nat, EndsWithin(ends, n, top),
         NEW e \in Nat \ {0}, NEW limit \in Nat, top <= e, e <= limit
  PROVE  OneEndMore(ends, Append(ends, e), n, e, limit)
<1>0. PICK new : new = Append(ends, e)
  OBVIOUS
<1>1. /\ ends \in Seq(Nat \ {0}) /\ Len(ends) = n /\ (\A i \in 1 .. n : ends[i] <= top)
      /\ \A i \in 1 .. n - 1 : ends[i] <= ends[i + 1]
  BY DEF EndsWithin
<1>2. /\ new \in Seq(Nat \ {0}) /\ Len(new) = n + 1
      /\ (\A i \in 1 .. n : new[i] = ends[i]) /\ new[n + 1] = e
  BY <1>0, <1>1, AppendElements
<1>3. \A i \in 1 .. n : ends[i] \in Nat
  BY <1>1
<1>4. ASSUME NEW i \in 1 .. n + 1 PROVE new[i] <= limit
  <2>1. CASE i = n + 1
    BY <1>2, <2>1
  <2>2. CASE i \in 1 .. n
    BY <1>1, <1>2, <1>3, <2>2
  <2>3. i = n + 1 \/ i \in 1 .. n
    OBVIOUS
  <2> QED
    BY <2>1, <2>2, <2>3
<1>5. ASSUME NEW i \in 1 .. n + 1 - 1 PROVE new[i] <= new[i + 1]
  <2>1. i \in 1 .. n
    OBVIOUS
  <2>2. CASE i = n
    BY <1>1, <1>2, <1>3, <2>1, <2>2
  <2>3. CASE i # n
    <3>1. i + 1 \in 1 .. n /\ i \in 1 .. n - 1
      BY <2>1, <2>3
    <3> QED
      BY <1>1, <1>2, <2>1, <3>1
  <2> QED
    BY <2>2, <2>3
<1> QED
  BY <1>0, <1>2, <1>4, <1>5 DEF EndsWithin, OneEndMore

(* Positions stay within a larger bound.                                    *)
LEMMA EndsRaised ==
  ASSUME NEW ends, NEW n \in Nat, NEW top \in Nat, EndsWithin(ends, n, top),
         NEW limit \in Nat, top <= limit
  PROVE  EndsWithin(ends, n, limit)
<1>1. \A i \in 1 .. n : ends[i] \in Nat /\ ends[i] <= top
  BY DEF EndsWithin
<1>2. \A i \in 1 .. n : ends[i] <= limit
  BY <1>1
<1> QED
  BY <1>2 DEF EndsWithin
-----------------------------------------------------------------------------
(* The tokens of the invariant                                             *)

(* What is known of the tokens, after a sample,                             *)
LEMMA KnownAfterSample ==
  ASSUME NEW toks, NEW new, NEW k \in Nat, NEW size \in Nat \ {0}, TokensKnown(toks, k),
         Samples(toks, new, k, size), Len(toks) + size <= PromptLength + ResponseLength
  PROVE  TokensKnown(new, k + 1) /\ Len(toks) \in Nat /\ Len(new) \in Nat
         /\ Len(toks) < Len(new)
<1>1. PICK l \in Nat : l = Len(toks) /\ PromptLength <= l
  BY DEF TokensKnown
<1>2. Len(new) = l + size /\ l + size <= PromptLength + ResponseLength
  BY <1>1 DEF Samples
<1>3. PromptLength <= l + size
  BY <1>1, LoopConstants
<1>4. ASSUME NEW j \in 0 .. k + 1 - 1 PROVE OwnedBy(new, j) # {}
  <2>1. CASE j = k
    <3>1. OwnedBy(new, k) = l + 1 .. l + size
      BY <1>1, <1>2 DEF Samples, IsRun
    <3>2. l + 1 \in l + 1 .. l + size
      OBVIOUS
    <3> QED
      BY <2>1, <3>1, <3>2
  <2>2. CASE j # k
    <3>1. j \in 0 .. k - 1 /\ j \in Int
      BY <2>2
    <3> QED
      BY <2>2, <3>1 DEF Samples, TokensKnown
  <2> QED
    BY <2>1, <2>2
<1> QED
  BY <1>1, <1>2, <1>3, <1>4 DEF TokensKnown, Samples

(* of the tokens of searches, after a sample,                               *)
LEMMA RunsAfterSample ==
  ASSUME NEW toks, NEW new, NEW k \in Nat, NEW size \in Nat \ {0}, TokensKnown(toks, k),
         Samples(toks, new, k, size), NEW ends, SearchRuns(toks, ends, k)
  PROVE  /\ SearchRuns(new, ends, k)
         /\ \A more : (\A i \in 1 .. k : more[i] = ends[i]) /\ more[k + 1] = Len(toks)
                        => SearchRuns(new, more, k + 1)
<1>1. PICK l \in Nat : l = Len(toks)
  BY DEF TokensKnown
<1>2. Len(new) = l + size /\ IsRun(OwnedBy(new, k), l, l + size)
  BY <1>1 DEF Samples
<1>3. ASSUME NEW i \in 1 .. k
      PROVE  \E to \in 1 .. Len(new) : IsRun(OwnedBy(new, i - 1), ends[i], to)
  <2>1. PICK to \in 1 .. Len(toks) : IsRun(OwnedBy(toks, i - 1), ends[i], to)
    BY DEF SearchRuns
  <2>2. to \in 1 .. Len(new)
    BY <1>1, <1>2
  <2>3. i - 1 \in Int /\ i - 1 # k
    OBVIOUS
  <2>4. OwnedBy(new, i - 1) = OwnedBy(toks, i - 1)
    BY <2>3 DEF Samples
  <2> QED
    BY <2>1, <2>2, <2>4
<1>4. ASSUME NEW more, \A i \in 1 .. k : more[i] = ends[i], more[k + 1] = Len(toks)
      PROVE  SearchRuns(new, more, k + 1)
  <2>1. SUFFICES ASSUME NEW i \in 1 .. k + 1
                 PROVE  \E to \in 1 .. Len(new) : IsRun(OwnedBy(new, i - 1), more[i], to)
    BY DEF SearchRuns
  <2>2. CASE i \in 1 .. k
    BY <1>3, <1>4, <2>2
  <2>3. CASE i = k + 1
    <3>1. i - 1 = k /\ more[i] = l /\ l + size \in 1 .. Len(new)
      BY <1>1, <1>2, <1>4, <2>3
    <3> QED
      BY <1>2, <3>1
  <2>4. i \in 1 .. k \/ i = k + 1
    OBVIOUS
  <2> QED
    BY <2>2, <2>3, <2>4
<1> QED
  BY <1>3, <1>4 DEF SearchRuns

(* and of both after an observation.                                        *)
LEMMA KnownAfterInsert ==
  ASSUME NEW toks, NEW new, NEW k \in Nat, NEW size \in Nat, TokensKnown(toks, k),
         Inserts(toks, new, k, size), Len(toks) + size <= PromptLength + ResponseLength
  PROVE  TokensKnown(new, k) /\ Len(toks) \in Nat /\ Len(new) \in Nat
         /\ Len(toks) <= Len(new)
<1>1. PICK l \in Nat : l = Len(toks) /\ PromptLength <= l
  BY DEF TokensKnown
<1>2. Len(new) = l + size /\ l + size <= PromptLength + ResponseLength
  BY <1>1 DEF Inserts
<1>3. PromptLength <= l + size
  BY <1>1, LoopConstants
<1>4. ASSUME NEW j \in 0 .. k - 1 PROVE OwnedBy(new, j) # {}
  BY DEF Inserts, TokensKnown
<1> QED
  BY <1>1, <1>2, <1>3, <1>4 DEF TokensKnown, Inserts

(* The tokens of searches stay where they were.                             *)
LEMMA RunsAfterInsert ==
  ASSUME NEW toks, NEW new, NEW k \in Nat, NEW n \in Nat, NEW size \in Nat,
         TokensKnown(toks, k), Inserts(toks, new, k, size), NEW ends,
         SearchRuns(toks, ends, n)
  PROVE  SearchRuns(new, ends, n)
<1>1. PICK l \in Nat : l = Len(toks)
  BY DEF TokensKnown
<1>2. Len(new) = l + size
  BY <1>1 DEF Inserts
<1>3. ASSUME NEW i \in 1 .. n
      PROVE  \E to \in 1 .. Len(new) : IsRun(OwnedBy(new, i - 1), ends[i], to)
  <2>1. PICK to \in 1 .. Len(toks) : IsRun(OwnedBy(toks, i - 1), ends[i], to)
    BY DEF SearchRuns
  <2>2. to \in 1 .. Len(new)
    BY <1>1, <1>2
  <2>3. i - 1 \in Int
    OBVIOUS
  <2>4. OwnedBy(new, i - 1) = OwnedBy(toks, i - 1)
    BY <2>3 DEF Inserts
  <2> QED
    BY <2>1, <2>2, <2>4
<1> QED
  BY <1>3 DEF SearchRuns
-----------------------------------------------------------------------------
(* Generated actions                                                       *)

(* An action of the model.                                                  *)
SampleStep(r) ==
  /\ pc = "generate"
  /\ r.size \in 1 .. Min({MaxNewTokens, ResponseLength - Response})
  /\ r.text \in Seq(STRING) /\ Sample(r)
  /\ UNCHANGED <<localized, turn, seenPassages, prefixEnds, systemValid>>

(* A sample fits the response.                                              *)
LEMMA Room ==
  ASSUME TokenInv, NEW size \in 1 .. Min({MaxNewTokens, ResponseLength - Response})
  PROVE  size \in Nat \ {0} /\ Len(tokens) + size <= PromptLength + ResponseLength
<1>1. PICK l \in Nat : l = Len(tokens)
  BY DEF TokenInv, TokensKnown
<1>2. PICK a, b : a = MaxNewTokens /\ b = ResponseLength - (l - PromptLength)
  OBVIOUS
<1>3. a \in Int /\ b \in Int /\ PromptLength \in Int /\ ResponseLength \in Int
  BY <1>1, <1>2, LoopConstants
<1>4. IsFiniteSet({a, b})
  <2>1. IsFiniteSet({a}) /\ IsFiniteSet({b})
    BY FS_Singleton
  <2>2. {a, b} = {a} \cup {b}
    OBVIOUS
  <2> QED
    BY <2>1, <2>2, FS_Union
<1>5. PICK m : m = Min({a, b})
  OBVIOUS
<1>6. m \in {a, b} /\ m <= b
  BY <1>3, <1>4, <1>5, MinOfFinite
<1>7. Min({MaxNewTokens, ResponseLength - Response}) = m
  BY <1>1, <1>2, <1>5 DEF Response
<1> QED
  BY <1>1, <1>2, <1>3, <1>6, <1>7

(* The tokens and actions after a sample.                                   *)
LEMMA SampleShape ==
  ASSUME ControlInv, TokenInv, NEW r, SampleStep(r)
  PROVE  /\ turn \in Nat /\ r.size \in Nat \ {0}
         /\ Samples(tokens, tokens', turn, r.size)
         /\ TokensKnown(tokens', turn + 1)
         /\ Len(tokens) \in Nat \ {0} /\ Len(tokens') \in Nat /\ Len(tokens) < Len(tokens')
         /\ actions' \in Seq(Seq(STRING)) /\ Len(actions') = turn + 1
         /\ actions'[turn + 1] = r.text /\ \A k \in 1 .. turn : actions'[k] = actions[k]
<1>1. turn \in Nat /\ Len(actions) = turn /\ actions \in Seq(Seq(STRING))
  BY LoopConstants DEF ControlInv, SampleStep
<1>2. r.size \in Nat \ {0} /\ Len(tokens) + r.size <= PromptLength + ResponseLength
  BY Room DEF SampleStep
<1>3. TokensKnown(tokens, turn)
  BY <1>1 DEF TokenInv
<1>4. tokens \in Seq(TokenSet) /\ OwnerKnown(tokens, turn) /\ PromptLength <= Len(tokens)
  BY <1>3 DEF TokensKnown
<1>5. tokens' = tokens \o Repeat(r.size, Token("model", turn))
  BY DEF SampleStep, Sample
<1>6. Samples(tokens, tokens', turn, r.size)
  BY <1>1, <1>2, <1>4, <1>5, SampledTokens
<1>7. /\ TokensKnown(tokens', turn + 1) /\ Len(tokens) \in Nat /\ Len(tokens') \in Nat
      /\ Len(tokens) < Len(tokens')
  BY <1>1, <1>2, <1>3, <1>6, KnownAfterSample
<1>8. Len(tokens) # 0
  BY <1>4, <1>7, LoopConstants
<1>9. PICK E : E = Seq(STRING)
  OBVIOUS
<1>10. actions' = Append(actions, r.text) /\ r.text \in E /\ actions \in Seq(E)
  BY <1>1, <1>9 DEF SampleStep, Sample
<1>11. /\ actions' \in Seq(E) /\ Len(actions') = turn + 1
       /\ actions'[turn + 1] = r.text /\ \A k \in 1 .. turn : actions'[k] = actions[k]
  BY <1>1, <1>10, AppendElements
<1> QED
  BY <1>1, <1>2, <1>6, <1>7, <1>8, <1>9, <1>11

(* A sample keeps the part of the invariant about tokens,                   *)
LEMMA SampleTokenInv ==
  ASSUME ControlInv, TokenInv, NEW r, SampleStep(r),
         \/ pc' = "done" /\ UNCHANGED <<searchCount, preEnds>>
         \/ /\ searchCount' = searchCount + 1 /\ preEnds' = Append(preEnds, Len(tokens))
            /\ pc' = "done" \/ (pc' = "retrieve" /\ action' = r)
  PROVE  TokenInv'
<1>1. /\ turn \in Nat /\ r.size \in Nat \ {0} /\ Samples(tokens, tokens', turn, r.size)
      /\ TokensKnown(tokens', turn + 1) /\ Len(actions') = turn + 1
      /\ Len(tokens) \in Nat \ {0} /\ Len(tokens') \in Nat /\ Len(tokens) < Len(tokens')
  BY SampleShape
<1>2. /\ searchCount = turn /\ TokensKnown(tokens, turn)
      /\ EndsWithin(preEnds, turn, Len(tokens)) /\ SearchRuns(tokens, preEnds, turn)
      /\ EndsWithin(prefixEnds, turn + 1, Len(tokens))
  BY DEF ControlInv, TokenInv, SampleStep
<1>3. turn' = turn /\ EndsWithin(prefixEnds', turn' + 1, Len(tokens'))
  BY <1>1, <1>2, EndsRaised DEF SampleStep
<1>4. CASE pc' = "done" /\ UNCHANGED <<searchCount, preEnds>>
  <2>1. EndsWithin(preEnds', searchCount', Len(tokens'))
    BY <1>1, <1>2, <1>4, EndsRaised
  <2>2. SearchRuns(tokens', preEnds', searchCount')
    BY <1>1, <1>2, <1>4, RunsAfterSample
  <2>3. searchCount' \in 0 .. Len(actions')
    BY <1>1, <1>2, <1>4
  <2> QED
    BY <1>1, <1>3, <1>4, <2>1, <2>2, <2>3 DEF TokenInv
<1>5. CASE /\ searchCount' = searchCount + 1 /\ preEnds' = Append(preEnds, Len(tokens))
           /\ pc' = "done" \/ (pc' = "retrieve" /\ action' = r)
  <2>1. searchCount' = turn + 1 /\ searchCount' \in 0 .. Len(actions')
    BY <1>1, <1>2, <1>5
  <2>2. /\ EndsWithin(preEnds', turn + 1, Len(tokens')) /\ preEnds'[turn + 1] = Len(tokens)
        /\ \A i \in 1 .. turn : preEnds'[i] = preEnds[i]
    <3>1. PICK l \in Nat \ {0}, m \in Nat : l = Len(tokens) /\ m = Len(tokens')
      BY <1>1
    <3>2. l \in Nat /\ l <= l /\ l <= m /\ EndsWithin(preEnds, turn, l)
          /\ preEnds' = Append(preEnds, l)
      BY <1>1, <1>2, <1>5, <3>1
    <3>3. OneEndMore(preEnds, preEnds', turn, l, m)
      BY <1>1, <3>1, <3>2, EndsExtended
    <3> QED
      BY <3>1, <3>3 DEF OneEndMore
  <2>3. SearchRuns(tokens', preEnds', turn + 1)
    BY <1>1, <1>2, <2>2, RunsAfterSample
  <2>4. IsRun(OwnedBy(tokens', turn), Len(tokens), Len(tokens'))
    BY <1>1 DEF Samples
  <2>5. Len(tokens) + r.size = Len(tokens')
    BY <1>1 DEF Samples
  <2>6. pc' = "retrieve" => action'.size = r.size
    BY <1>5
  <2> QED
    BY <1>1, <1>3, <2>1, <2>2, <2>3, <2>4, <2>5, <2>6 DEF TokenInv
<1> QED
  BY <1>4, <1>5

(* What is earlier than the last action stays as it was.                    *)
LEMMA SampleObserved ==
  ASSUME ControlInv, TokenInv, ObservedInv, NEW r, SampleStep(r),
         \/ turns' = turns
         \/ \E t \in TurnRecords : turns' = Append(turns, t),
         pc' = "done" \/ /\ pc' = "retrieve" /\ turns' = turns
                         /\ seenQueries' = seenQueries \cup {action'.query}
  PROVE  ObservedInv'
<1>1. turn \in Nat /\ Samples(tokens, tokens', turn, r.size)
  BY SampleShape
<1>2. /\ turns \in Seq(TurnRecords) /\ Len(turns) = turn /\ pc = "generate"
      /\ turn' = turn /\ localized' = localized /\ systemValid' = systemValid
      /\ seenPassages' = seenPassages
  BY DEF ControlInv, SampleStep
<1>3. /\ \A i \in 1 .. turn : turns'[i] = turns[i]
      /\ \A i \in 1 .. turn + 1 :
           Asked(turns', i) = Asked(turns, i) /\ Found(turns', i) = Found(turns, i)
  <2>1. CASE turns' = turns
    BY <2>1
  <2>2. CASE \E t \in TurnRecords : turns' = Append(turns, t)
    <3>1. PICK t \in TurnRecords : turns' = Append(turns, t)
      BY <2>2
    <3>2. OneTurnMore(turns, turns', turn, t)
      BY <1>1, <1>2, <3>1, PastExtended
    <3> QED
      BY <3>2 DEF OneTurnMore
  <2> QED
    BY <2>1, <2>2
<1>4. ASSUME NEW i \in 1 .. turn
      PROVE  /\ IsObserved(turns'[i], i, Asked(turns', i), Found(turns', i))
             /\ IsGated(turns'[i], localized', OwnedBy(tokens', i - 1),
                        Environment(tokens'))
             /\ IsCredited(turns'[i], systemValid')
  <2>1. i \in 1 .. turn + 1 /\ i - 1 \in Int /\ i - 1 # turn
    BY <1>1
  <2>2. /\ turns'[i] = turns[i] /\ Asked(turns', i) = Asked(turns, i)
        /\ Found(turns', i) = Found(turns, i)
    BY <1>3, <2>1
  <2>3. OwnedBy(tokens', i - 1) = OwnedBy(tokens, i - 1)
    BY <1>1, <2>1 DEF Samples
  <2>4. Environment(tokens') = Environment(tokens)
    BY <1>1 DEF Samples
  <2>5. /\ IsObserved(turns[i], i, Asked(turns, i), Found(turns, i))
        /\ IsGated(turns[i], localized, OwnedBy(tokens, i - 1), Environment(tokens))
        /\ IsCredited(turns[i], systemValid)
    BY DEF ObservedInv
  <2> QED
    BY <1>2, <2>2, <2>3, <2>4, <2>5, Zenon
<1>5. seenPassages' \subseteq Passages
  BY <1>2 DEF ObservedInv
<1>6. ASSUME pc' # "done"
      PROVE  /\ seenPassages' = Found(turns', turn' + 1)
             /\ seenQueries' = Asked(turns', turn' + 1) \cup {action'.query}
  <2>1. seenPassages = Found(turns, turn + 1) /\ seenQueries = Asked(turns, turn + 1)
    BY <1>2 DEF ObservedInv
  <2> QED
    BY <1>2, <1>6, <2>1
<1> QED
  BY <1>2, <1>4, <1>5, <1>6 DEF ObservedInv

(* about control,                                                           *)
LEMMA SampleControl ==
  ASSUME ControlInv, TokenInv, NEW r, SampleStep(r), pc' = "done", reason' \in Endings,
         NEW t \in TurnRecords, turns' = Append(turns, t)
  PROVE  /\ ControlInv' /\ (ObservedInv => ObservedInv')
         /\ turn' = turn /\ localized' = localized /\ systemValid' = TRUE
         /\ Len(turns') = turn + 1 /\ turns'[turn + 1] = t
         /\ Asked(turns', turn + 1) = Asked(turns, turn + 1)
         /\ Len(actions') = turn + 1
<1>1. /\ turn \in Nat /\ actions' \in Seq(Seq(STRING)) /\ Len(actions') = turn + 1
  BY SampleShape
<1>2. /\ turns \in Seq(TurnRecords) /\ Len(turns) = turn /\ pc = "generate"
      /\ turn' = turn /\ localized' = localized /\ systemValid' = systemValid
      /\ systemValid = TRUE /\ turn \in 0 .. MaxSearchTurns /\ localized \in BOOLEAN
  BY DEF ControlInv, SampleStep
<1>3. OneTurnMore(turns, turns', turn, t)
  BY <1>1, <1>2, PastExtended
<1>4. /\ turns' \in Seq(TurnRecords) /\ Len(turns') = turn + 1 /\ turns'[turn + 1] = t
  BY <1>3 DEF OneTurnMore
<1>5. Asked(turns', turn + 1) = Asked(turns, turn + 1)
  <2>1. turn + 1 \in 1 .. turn + 1
    BY <1>1
  <2> QED
    BY <1>3, <2>1 DEF OneTurnMore
<1>6. ControlInv'
  BY <1>1, <1>2, <1>4 DEF ControlInv
<1>7. ObservedInv => ObservedInv'
  BY SampleObserved
<1> QED
  BY <1>1, <1>2, <1>4, <1>5, <1>6, <1>7

(* and about what the parser reads.                                         *)
LEMMA SampleParse ==
  ASSUME ControlInv, TokenInv, ParseInv, NEW r, NEW a, Reads(r, a), SampleStep(r),
         pc' = "done" => (reason' = "model_answer" <=> r.kind = "answer"),
         pc' # "done" => r.kind = "search"
  PROVE  ParseInv'
<1>1. /\ turn \in Nat /\ Len(actions') = turn + 1 /\ actions'[turn + 1] = r.text
      /\ (\A k \in 1 .. turn : actions'[k] = actions[k]) /\ actions' \in Seq(Seq(STRING))
  BY SampleShape
<1>2. Parse(actions'[turn + 1]).kind = r.kind
  BY <1>1 DEF Reads
<1>3. \A k \in 1 .. turn : Parse(actions[k]).kind = "search"
  BY DEF ControlInv, SampleStep, ParseInv
<1>4. ASSUME NEW k \in 1 .. Len(actions'), k < Len(actions') \/ pc' # "done"
      PROVE  Parse(actions'[k]).kind = "search"
  <2>1. CASE k \in 1 .. turn
    BY <1>1, <1>3, <2>1
  <2>2. CASE k = turn + 1
    BY <1>1, <1>2, <1>4, <2>2
  <2>3. k \in 1 .. turn \/ k = turn + 1
    BY <1>1
  <2> QED
    BY <2>1, <2>2, <2>3
<1>5. actions' # <<>>
  BY <1>1
<1>6. pc' = "done" =>
        (reason' = "model_answer" <=>
           actions' # <<>> /\ Parse(actions'[Len(actions')]).kind = "answer")
  BY <1>1, <1>2, <1>5
<1> QED
  BY <1>4, <1>6 DEF ParseInv

(* The spans of the action that was just sampled.                           *)
LEMMA SampledSpans ==
  ASSUME ControlInv, TokenInv, NEW r, NEW a, Reads(r, a), SampleStep(r), r.search
  PROVE  LET spans == Absolute(r.spans, Len(tokens), r.size) IN
         /\ spans \in SpanSets /\ RolesApart(spans, OwnedBy(tokens', turn))
         /\ spans.think # NoThink => r.spans.think # NoThink
         /\ SpansApart(r.spans, r.size)
<1>1. /\ turn \in Nat /\ r.size \in Nat \ {0} /\ Samples(tokens, tokens', turn, r.size)
      /\ Len(tokens) \in Nat
  BY SampleShape
<1>2. SpansApart(r.spans, r.size)
  BY <1>1 DEF Reads
<1>3. PICK s, n, base : s = r.spans /\ n = r.size /\ base = Len(tokens)
  OBVIOUS
<1>4. OwnedBy(tokens', turn) = base + 1 .. base + n
  BY <1>1, <1>3 DEF Samples, IsRun
<1>5. /\ RolesApart(Absolute(s, base, n), base + 1 .. base + n)
      /\ Absolute(s, base, n) \in SpanSets
  BY <1>1, <1>2, <1>3, AbsoluteRoles
<1>6. Absolute(s, base, n).think # NoThink => s.think # NoThink
  BY DEF Absolute
<1> QED
  BY <1>2, <1>3, <1>4, <1>5, <1>6

(* An answer keeps the invariant.                                           *)
LEMMA AnswerKeeps ==
  ASSUME LoopInv, NEW r, NEW a, Reads(r, a), SampleStep(r), Answer(r)
  PROVE  LoopInv'
<1>0. ControlInv /\ TokenInv /\ ObservedInv /\ ParseInv
  BY DEF LoopInv
<1>1. /\ r.kind = "answer" /\ turns' = Append(turns, Turn("answer")) /\ pc' = "done"
      /\ reason' = "model_answer" /\ UNCHANGED <<searchCount, seenQueries, preEnds>>
  BY DEF Answer, End
<1>2. turn \in Nat /\ searchCount = turn
  BY <1>0, SampleShape DEF ControlInv, SampleStep
<1>3. Turn("answer") \in TurnRecords /\ IsTerminal(Turn("answer"), turn + 1, "answer")
  BY <1>2, TerminalTurn
<1>4. reason' \in Endings
  BY <1>1 DEF Endings
<1>5. /\ ControlInv' /\ ObservedInv'
      /\ turn' = turn /\ systemValid' = TRUE /\ Len(turns') = turn + 1
      /\ turns'[turn + 1] = Turn("answer") /\ Len(actions') = turn + 1
  <2>1. PICK t : t = Turn("answer")
    OBVIOUS
  <2>2. t \in TurnRecords /\ turns' = Append(turns, t)
    BY <1>1, <1>3, <2>1
  <2>3. /\ ControlInv' /\ ObservedInv'
        /\ turn' = turn /\ systemValid' = TRUE /\ Len(turns') = turn + 1
        /\ turns'[turn + 1] = t /\ Len(actions') = turn + 1
    BY <1>0, <1>1, <1>4, <2>2, SampleControl
  <2> QED
    BY <2>1, <2>3
<1>6. TokenInv'
  BY <1>0, <1>1, SampleTokenInv
<1>7. ParseInv'
  BY <1>0, <1>1, SampleParse
<1>8. DoneInv'
  BY <1>1, <1>2, <1>3, <1>5 DEF DoneInv, Final
<1> QED
  BY <1>5, <1>6, <1>7, <1>8 DEF LoopInv

(* So does an action that is neither.                                       *)
LEMMA MalformedActionKeeps ==
  ASSUME LoopInv, NEW r, NEW a, Reads(r, a), SampleStep(r), MalformedAction(r),
         r.kind = "none" \/ ProtocolError(r)
  PROVE  LoopInv'
<1>0. ControlInv /\ TokenInv /\ ObservedInv /\ ParseInv
  BY DEF LoopInv
<1>1. /\ turns' = Append(turns, Turn("fallback")) /\ pc' = "done" /\ ~ WantsSpans(r)
      /\ reason' = "model_generated_malformed_fallback"
      /\ UNCHANGED <<searchCount, seenQueries, preEnds>>
  BY DEF MalformedAction, End
<1>2. turn \in Nat /\ searchCount = turn
  BY <1>0, SampleShape DEF ControlInv, SampleStep
<1>3. Turn("fallback") \in TurnRecords /\ IsTerminal(Turn("fallback"), turn + 1, "fallback")
  BY <1>2, TerminalTurn
<1>4. reason' \in Endings
  BY <1>1 DEF Endings
<1>5. /\ ControlInv' /\ ObservedInv'
      /\ turn' = turn /\ systemValid' = TRUE /\ Len(turns') = turn + 1
      /\ turns'[turn + 1] = Turn("fallback") /\ Len(actions') = turn + 1
  <2>1. PICK t : t = Turn("fallback")
    OBVIOUS
  <2>2. t \in TurnRecords /\ turns' = Append(turns, t)
    BY <1>1, <1>3, <2>1
  <2>3. /\ ControlInv' /\ ObservedInv'
        /\ turn' = turn /\ systemValid' = TRUE /\ Len(turns') = turn + 1
        /\ turns'[turn + 1] = t /\ Len(actions') = turn + 1
    BY <1>0, <1>1, <1>4, <2>2, SampleControl
  <2> QED
    BY <2>1, <2>3
<1>6. TokenInv'
  BY <1>0, <1>1, SampleTokenInv
<1>7. ParseInv'
  <2>1. r.kind = "none"
    BY <1>1 DEF ProtocolError
  <2> QED
    BY <1>0, <1>1, <2>1, SampleParse
<1>8. DoneInv'
  BY <1>1, <1>2, <1>3, <1>5 DEF DoneInv, Final
<1> QED
  BY <1>5, <1>6, <1>7, <1>8 DEF LoopInv

(* A new search, and what was asked and found before it.                    *)
LEMMA SearchStart ==
  ASSUME ControlInv, TokenInv, ObservedInv, NEW r, SampleStep(r)
  PROVE  /\ turn \in Nat /\ searchCount = turn /\ localized \in BOOLEAN
         /\ seenQueries = Asked(turns, turn + 1) /\ seenPassages \in Keys
         /\ Turn("search") \in TurnRecords /\ IsBlank(Turn("search"), turn)
<1>1. /\ turn \in Nat /\ searchCount = turn /\ localized \in BOOLEAN /\ pc = "generate"
  BY SampleShape DEF ControlInv, SampleStep
<1>2. seenQueries = Asked(turns, turn + 1) /\ seenPassages \in Keys
  BY <1>1 DEF ObservedInv, Keys
<1> QED
  BY <1>1, <1>2, BlankTurn

(* A malformed search keeps the invariant.                                  *)
LEMMA MalformedSearchKeeps ==
  ASSUME LoopInv, NEW r, NEW a, Reads(r, a), SampleStep(r), MalformedSearch(r),
         r.kind = "none" \/ ProtocolError(r), ~ GenerationRaises(r)
  PROVE  LoopInv'
<1>0. ControlInv /\ TokenInv /\ ObservedInv /\ ParseInv
  BY DEF LoopInv
<1>1. PICK query, spans, repeated, t :
        /\ query = r.payload /\ spans = Absolute(r.spans, Len(tokens), r.size)
        /\ repeated = (query # <<>> /\ query \in seenQueries)
        /\ t = MalformedTurn(Turn("search"), searchCount, query, repeated,
                             seenPassages, spans)
  OBVIOUS
<1>2. /\ r.search /\ spans = SpansOf(r) /\ localized
      /\ searchCount' = searchCount + 1 /\ preEnds' = Append(preEnds, Len(tokens))
      /\ pc' = "done" /\ reason' = "model_generated_malformed_search"
  BY <1>1 DEF MalformedSearch, WantsSpans, SpansOf, RecordQuery, End
<1>3. turns' = Append(turns, t)
  BY <1>1, <1>2 DEF MalformedSearch, MalformedTurn
<1>4. /\ turn \in Nat /\ searchCount = turn
      /\ seenQueries = Asked(turns, turn + 1) /\ seenPassages \in Keys
      /\ Turn("search") \in TurnRecords /\ IsBlank(Turn("search"), turn)
  BY <1>0, SearchStart
<1>5. query \in Queries /\ repeated \in BOOLEAN
  BY <1>1, <1>2 DEF Reads
<1>6. spans \in SpanSets /\ RolesApart(spans, OwnedBy(tokens', turn))
  BY <1>0, <1>1, <1>2, SampledSpans
<1>7. /\ t \in TurnRecords
      /\ IsMalformed(t, turn + 1, Asked(turns, turn + 1), OwnedBy(tokens', turn))
  <2>1. t = MalformedTurn(Turn("search"), turn, query, repeated, seenPassages, spans)
    BY <1>1, <1>4
  <2>2. repeated <=> query # <<>> /\ query \in Asked(turns, turn + 1)
    BY <1>1, <1>4
  <2> QED
    BY <1>4, <1>5, <1>6, <2>1, <2>2, MalformedRecord
<1>8. reason' \in Endings
  BY <1>2 DEF Endings
<1>9. /\ ControlInv' /\ ObservedInv' /\ turn' = turn /\ systemValid' = TRUE
      /\ localized' = localized
      /\ Len(turns') = turn + 1 /\ turns'[turn + 1] = t /\ Len(actions') = turn + 1
      /\ Asked(turns', turn + 1) = Asked(turns, turn + 1)
  BY <1>0, <1>2, <1>3, <1>7, <1>8, SampleControl
<1>10. TokenInv'
  BY <1>0, <1>2, SampleTokenInv
<1>11. ParseInv'
  <2>1. r.kind # "answer"
    BY <1>2 DEF Reads, ProtocolError, GenerationRaises
  <2> QED
    BY <1>0, <1>2, <2>1, SampleParse
<1>12. DoneInv'
  BY <1>2, <1>4, <1>7, <1>9 DEF DoneInv, Final
<1> QED
  BY <1>9, <1>10, <1>11, <1>12 DEF LoopInv

(* A search over the budget keeps the invariant.                            *)
LEMMA OverBudgetKeeps ==
  ASSUME LoopInv, NEW r, NEW a, Reads(r, a), SampleStep(r), Search(r), BudgetExhausted,
         ~ ProtocolError(r)
  PROVE  LoopInv'
<1>0. ControlInv /\ TokenInv /\ ObservedInv /\ ParseInv
  BY DEF LoopInv
<1>a. PICK query, repeated, different :
        /\ query = r.query
        /\ repeated = (query \in seenQueries) /\ different = (query \notin seenQueries)
  OBVIOUS
<1>b. repeated \in BOOLEAN /\ different \in BOOLEAN
  <2>1. (query \in seenQueries) \in BOOLEAN /\ (query \notin seenQueries) \in BOOLEAN
    OBVIOUS
  <2>2. repeated \in BOOLEAN
    BY <1>a, <2>1, Zenon
  <2>3. different \in BOOLEAN
    BY <1>a, <2>1, Zenon
  <2> QED
    BY <2>2, <2>3
<1>1. PICK spans, keys, branch, t :
        /\ spans = SpansOf(r)
        /\ keys = (IF localized THEN seenPassages ELSE {})
        /\ branch = (IF localized THEN "n_budget" ELSE "none")
        /\ t = OverBudgetTurn(Turn("search"), searchCount, query, repeated, different,
                              localized, branch, keys, spans)
  OBVIOUS
<1>2. /\ r.kind = "search" /\ r.search
      /\ searchCount' = searchCount + 1 /\ preEnds' = Append(preEnds, Len(tokens))
      /\ pc' = "done" /\ reason' = "maximum_search_turns_reached"
  BY DEF Search, RecordQuery, End, Reads
<1>3. turns' = Append(turns, t)
  BY <1>a, <1>1, <1>2 DEF Search, OverBudgetTurn
<1>4. /\ turn \in Nat /\ searchCount = turn /\ localized \in BOOLEAN
      /\ seenQueries = Asked(turns, turn + 1) /\ seenPassages \in Keys
      /\ Turn("search") \in TurnRecords /\ IsBlank(Turn("search"), turn)
  BY <1>0, SearchStart
<1>5. /\ query \in Queries /\ query # <<>>
      /\ repeated \in BOOLEAN /\ different \in BOOLEAN /\ (different <=> ~ repeated)
  <2>1. r.query \in Queries /\ r.query # <<>>
    BY <1>2 DEF Reads
  <2>2. different <=> ~ repeated
    BY <1>a, Zenon
  <2> QED
    BY <1>a, <1>b, <2>1, <2>2
<1>6. keys \in Keys /\ branch \in Branches
  BY <1>1, <1>4 DEF Keys, Branches
<1>7. /\ spans \in SpanSets
      /\ localized => RolesApart(spans, OwnedBy(tokens', turn)) /\ spans.think # NoThink
  <2>1. CASE localized
    <3>1. spans = Absolute(r.spans, Len(tokens), r.size) /\ spans.think # NoThink
      BY <1>1, <1>2, <2>1 DEF SpansOf, WantsSpans, ProtocolError
    <3> QED
      BY <1>0, <1>2, <3>1, SampledSpans
  <2>2. CASE ~ localized
    BY <1>1, <2>2 DEF SpansOf, WantsSpans, NoSpans, SpanSets, Positions, NoThink
  <2> QED
    BY <2>1, <2>2
<1>8. /\ t \in TurnRecords
      /\ IsOverBudget(t, turn + 1, Asked(turns, turn + 1), localized,
                      OwnedBy(tokens', turn))
  <2>1. t = OverBudgetTurn(Turn("search"), turn, query, repeated, different, localized,
                           branch, keys, spans)
    BY <1>1, <1>4
  <2>2. repeated <=> query # <<>> /\ query \in Asked(turns, turn + 1)
    BY <1>a, <1>4, <1>5
  <2>3. localized => branch = "n_budget"
    BY <1>1
  <2> QED
    <3>1. RefusalIs(Turn("search"), turn, query, repeated, different, localized, branch,
                    keys, spans, Asked(turns, turn + 1), OwnedBy(tokens', turn))
      BY <1>4, <1>5, <1>6, <1>7, <2>2, <2>3, Zenon DEF RefusalIs
    <3> QED
      BY <2>1, <3>1, OverBudgetRecord
<1>9. reason' \in Endings
  BY <1>2 DEF Endings
<1>10. /\ ControlInv' /\ ObservedInv' /\ turn' = turn /\ systemValid' = TRUE
       /\ localized' = localized /\ Len(turns') = turn + 1 /\ turns'[turn + 1] = t
       /\ Len(actions') = turn + 1 /\ Asked(turns', turn + 1) = Asked(turns, turn + 1)
  BY <1>0, <1>2, <1>3, <1>8, <1>9, SampleControl
<1>11. TokenInv'
  BY <1>0, <1>2, SampleTokenInv
<1>12. ParseInv'
  BY <1>0, <1>2, SampleParse
<1>13. IsRun(OwnedBy(tokens', turn), preEnds'[turn + 1], Len(tokens'))
  <2>1. IsRun(OwnedBy(tokens', turn), Len(tokens), Len(tokens')) /\ Len(tokens) \in Nat
    BY <1>0, SampleShape DEF Samples
  <2>2. preEnds'[turn + 1] = Len(tokens)
    <3>1. preEnds \in Seq(Nat \ {0}) /\ Len(preEnds) = turn
      BY <1>0, <1>4 DEF TokenInv, EndsWithin
    <3>2. Len(tokens) \in Nat \ {0}
      BY <1>0, SampleShape
    <3> QED
      BY <1>2, <3>1, <3>2, AppendElements
  <2> QED
    BY <2>1, <2>2
<1>14. DoneInv'
  BY <1>2, <1>4, <1>8, <1>10, <1>13 DEF DoneInv, Final
<1> QED
  BY <1>10, <1>11, <1>12, <1>14 DEF LoopInv

(* A search sent to the retriever keeps the invariant.                      *)
LEMMA RetrieveKeeps ==
  ASSUME LoopInv, NEW r, NEW a, Reads(r, a), SampleStep(r), Search(r), ~ BudgetExhausted,
         ~ ProtocolError(r), ~ GenerationRaises(r)
  PROVE  LoopInv'
<1>0. ControlInv /\ TokenInv /\ ObservedInv /\ ParseInv
  BY DEF LoopInv
<1>1. /\ r.kind = "search" /\ r.search /\ r.query # <<>> /\ r.query \in Queries
      /\ searchCount' = searchCount + 1 /\ preEnds' = Append(preEnds, Len(tokens))
      /\ pc' = "retrieve" /\ action' = r /\ turns' = turns /\ reason' = reason
      /\ seenQueries' = seenQueries \cup {r.query}
  BY DEF Search, RecordQuery, Reads
<1>2. /\ turn \in Nat /\ searchCount = turn /\ localized \in BOOLEAN
  BY <1>0, SearchStart
<1>3. /\ turn' = turn /\ localized' = localized /\ systemValid' = systemValid
      /\ systemValid = TRUE /\ reason = Unfinished /\ Len(turns) = turn
      /\ turns \in Seq(TurnRecords) /\ turn \in 0 .. MaxSearchTurns
  BY <1>0 DEF ControlInv, SampleStep
<1>4. /\ actions' \in Seq(Seq(STRING)) /\ Len(actions') = turn + 1
      /\ r.size \in Nat \ {0}
  BY <1>0, SampleShape
<1>5. turn < MaxSearchTurns
  BY <1>2, LoopConstants DEF BudgetExhausted
<1>6. localized => /\ SpansApart(r.spans, r.size) /\ r.spans.think # NoThink
                   /\ r.spans.query # {}
  <2>1. ASSUME localized
        PROVE  /\ SpansApart(r.spans, r.size) /\ r.spans.think # NoThink
               /\ r.spans.query # {}
    <3>2. ~ r.raises /\ ~ r.payloadRaises
      BY <1>1, <2>1 DEF GenerationRaises, WantsSpans
    <3>3. r.spans.query # {}
      BY <1>1, <3>2 DEF Reads
    <3>1. Absolute(r.spans, Len(tokens), r.size).think # NoThink
      BY <1>1, <2>1 DEF SpansOf, WantsSpans, ProtocolError
    <3> QED
      BY <1>0, <1>1, <3>1, <3>3, SampledSpans
  <2> QED
    BY <2>1
<1>7. Searching'
  BY <1>1, <1>2, <1>3, <1>4, <1>5, <1>6 DEF Searching
<1>8. ControlInv'
  <2>1. /\ pc' = "retrieve" /\ localized' \in BOOLEAN /\ systemValid' = TRUE
        /\ turn' \in 0 .. MaxSearchTurns /\ reason' = Unfinished
        /\ turns' \in Seq(TurnRecords) /\ Len(turns') = turn'
    BY <1>1, <1>2, <1>3
  <2> QED
    BY <1>4, <1>7, <2>1 DEF ControlInv
<1>9. TokenInv'
  BY <1>0, <1>1, SampleTokenInv
<1>10. ObservedInv'
  BY <1>0, <1>1, SampleObserved
<1>11. ParseInv'
  BY <1>0, <1>1, SampleParse
<1> QED
  BY <1>1, <1>8, <1>9, <1>10, <1>11 DEF LoopInv, DoneInv

(* The four cases of a generated action together.                           *)
LEMMA GenerateKeeps ==
  ASSUME LoopInv, Generate
  PROVE  LoopInv'
<1>1. PICK r \in Readings :
        /\ r.size \in 1 .. Min({MaxNewTokens, ResponseLength - Response})
        /\ ~ GenerationRaises(r)
        /\ Sample(r)
        /\ IF r.kind # "none" /\ ~ ProtocolError(r)
             THEN \/ Answer(r) /\ UNCHANGED action
                  \/ Search(r)
             ELSE (MalformedSearch(r) \/ MalformedAction(r)) /\ UNCHANGED action
  BY DEF Generate
<1>2. PICK a \in Actions : r = Reading(a)
  BY DEF Readings
<1>3. Reads(r, a)
  BY <1>2, ReadingReads
<1>4. SampleStep(r)
  <2>1. r.text \in Seq(STRING)
    BY <1>3 DEF Reads
  <2> QED
    BY <1>1, <2>1 DEF SampleStep, Generate
<1>5. CASE r.kind # "none" /\ ~ ProtocolError(r) /\ Answer(r)
  BY <1>3, <1>4, <1>5, AnswerKeeps
<1>6. CASE r.kind # "none" /\ ~ ProtocolError(r) /\ Search(r)
  <2>1. CASE BudgetExhausted
    BY <1>3, <1>4, <1>6, <2>1, OverBudgetKeeps
  <2>2. CASE ~ BudgetExhausted
    BY <1>1, <1>3, <1>4, <1>6, <2>2, RetrieveKeeps
  <2> QED
    BY <2>1, <2>2
<1>7. CASE (r.kind = "none" \/ ProtocolError(r)) /\ MalformedSearch(r)
  BY <1>1, <1>3, <1>4, <1>7, MalformedSearchKeeps
<1>8. CASE (r.kind = "none" \/ ProtocolError(r)) /\ MalformedAction(r)
  BY <1>3, <1>4, <1>8, MalformedActionKeeps
<1> QED
  BY <1>1, <1>5, <1>6, <1>7, <1>8

(* run() raises: the invariant says why.                                    *)
LEMMA GenerateRaisesKeeps ==
  ASSUME LoopInv, GenerateRaises
  PROVE  LoopInv'
<1>0. ControlInv /\ TokenInv /\ ObservedInv /\ ParseInv
  BY DEF LoopInv
<1>1. PICK r \in Readings : GenerationRaises(r) /\ action' = r
  BY DEF GenerateRaises
<1>2. PICK a \in Actions : r = Reading(a)
  BY DEF Readings
<1>3. Reads(r, a)
  BY <1>2, ReadingReads
<1>4. /\ pc = "generate" /\ pc' = "raised"
      /\ UNCHANGED <<localized, turn, history, seen, reason, systemValid>>
  BY DEF GenerateRaises
<1>5. Aborted'
  <2>1. localized /\ r.search /\ r.kind # "none" /\ (r.raises \/ r.payloadRaises)
    BY <1>1 DEF GenerationRaises, WantsSpans
  <2>2. r.kind \in {"search", "answer"} /\ r.kind = Parse(Text(a)).kind
    BY <1>3, <2>1 DEF Reads
  <2>3. \/ Parse(Text(a)).kind = "answer" /\ SearchIntent(Text(a))
        \/ Parse(Text(a)).kind = "search" /\ NestedSearch(a)
    BY <1>3, <2>1, <2>2 DEF Reads
  <2>4. action'.sample = a /\ action'.text = Text(a) /\ localized'
    BY <1>1, <1>3, <1>4, <2>1 DEF Reads
  <2> QED
    BY <2>3, <2>4 DEF Aborted
<1>6. ControlInv'
  BY <1>0, <1>4, <1>5 DEF ControlInv, history, seen
<1>7. TokenInv'
  BY <1>0, <1>4 DEF TokenInv, history, seen
<1>8. ObservedInv'
  BY <1>0, <1>4 DEF ObservedInv, history, seen
<1>9. ParseInv'
  BY <1>0, <1>4 DEF ParseInv, history, seen
<1> QED
  BY <1>4, <1>6, <1>7, <1>8, <1>9 DEF LoopInv, DoneInv

(* No token is left, or none came.                                          *)
LEMMA OutOfTokensKeeps ==
  ASSUME LoopInv, ResponseExhausted \/ EmptyAction
  PROVE  LoopInv'
<1>0. ControlInv /\ TokenInv /\ ObservedInv /\ ParseInv
  BY DEF LoopInv
<1>1. /\ pc = "generate" /\ pc' = "done"
      /\ reason' \in {"response_length_exhausted", "empty_model_fallback"}
      /\ UNCHANGED <<localized, turn, history, action, seen, systemValid>>
  BY DEF ResponseExhausted, EmptyAction, End
<1>2. reason' \in Endings /\ reason' # "model_answer"
  BY <1>1 DEF Endings
<1>3. ControlInv'
  BY <1>0, <1>1, <1>2 DEF ControlInv, history, seen
<1>4. TokenInv'
  BY <1>0, <1>1 DEF TokenInv, history, seen
<1>5. ObservedInv'
  BY <1>0, <1>1 DEF ObservedInv, history, seen
<1>6. ParseInv'
  <2>1. \A k \in 1 .. Len(actions) : Parse(actions[k]).kind = "search"
    BY <1>0, <1>1 DEF ParseInv
  <2>2. actions # <<>> => Parse(actions[Len(actions)]).kind # "answer"
    <3>1. ASSUME actions # <<>> PROVE Len(actions) \in 1 .. Len(actions)
      BY <1>0, <3>1 DEF ControlInv
    <3> QED
      BY <2>1, <3>1
  <2>3. actions' = actions
    BY <1>1 DEF history
  <2> QED
    BY <1>1, <1>2, <2>1, <2>2, <2>3 DEF ParseInv
<1>7. DoneInv'
  BY <1>0, <1>1 DEF DoneInv, OutOfTokens, ControlInv, history, seen
<1> QED
  BY <1>3, <1>4, <1>5, <1>6, <1>7 DEF LoopInv
-----------------------------------------------------------------------------
(* The retriever                                                           *)

(* A search under way.                                                      *)
LEMMA SearchUnderWay ==
  ASSUME ControlInv, TokenInv, ObservedInv, pc = "retrieve"
  PROVE  /\ turn \in Nat /\ turn < MaxSearchTurns
         /\ searchCount = turn + 1 /\ searchCount - 1 = turn
         /\ Len(turns) = turn /\ turns \in Seq(TurnRecords) /\ systemValid = TRUE
         /\ reason = Unfinished /\ Len(actions) = turn + 1 /\ localized \in BOOLEAN
         /\ action.query # <<>> /\ action.query \in Queries /\ action.size \in Nat \ {0}
         /\ Turn("search") \in TurnRecords /\ IsBlank(Turn("search"), turn)
         /\ EarlierQueries = Asked(turns, turn + 1) /\ seenPassages = Found(turns, turn + 1)
         /\ seenPassages \in Keys
<1>1. /\ turn \in Nat /\ turn < MaxSearchTurns /\ searchCount = turn + 1
      /\ Len(turns) = turn /\ turns \in Seq(TurnRecords) /\ systemValid = TRUE
      /\ reason = Unfinished /\ Len(actions) = turn + 1 /\ localized \in BOOLEAN
      /\ action.query # <<>> /\ action.query \in Queries /\ action.size \in Nat \ {0}
  BY DEF ControlInv, Searching
<1>2. Turn("search") \in TurnRecords /\ IsBlank(Turn("search"), turn)
  BY <1>1, BlankTurn
<1>3. EarlierQueries = Asked(turns, turn + 1)
  <2>1. DOMAIN turns = 1 .. (turn + 1) - 1
    BY <1>1
  <2>2. Asked(turns, turn + 1) = {turns[j].text : j \in 1 .. (turn + 1) - 1}
    BY DEF Asked
  <2> QED
    BY <2>1, <2>2, Zenon DEF EarlierQueries
<1>4. seenPassages = Found(turns, turn + 1) /\ seenPassages \in Keys
  BY DEF ObservedInv, Keys
<1>5. searchCount - 1 = turn
  BY <1>1
<1> QED
  BY <1>1, <1>2, <1>3, <1>4, <1>5

(* An observation holds the two tags of the protocol at least.              *)
LEMMA InformationFits ==
  ASSUME NEW documents \in SUBSET Passages, MaxInformation >= 2
  PROVE  InformationTokens(documents) \in Nat \ {0}
<1>1. IsFiniteSet(documents) /\ Cardinality(documents) \in Nat
  BY LoopConstants, FS_Subset, FS_CardinalityType
<1>2. PICK a, b : a = MaxInformation /\ b = 2 + Cardinality(documents)
  OBVIOUS
<1>3. a \in Nat \ {0} /\ b \in Nat \ {0}
  BY <1>1, <1>2, LoopConstants
<1>4. IsFiniteSet({a, b})
  <2>1. IsFiniteSet({a}) /\ IsFiniteSet({b})
    BY FS_Singleton
  <2>2. {a, b} = {a} \cup {b}
    OBVIOUS
  <2> QED
    BY <2>1, <2>2, FS_Union
<1>5. PICK m : m = Min({a, b})
  OBVIOUS
<1>6. m \in {a, b}
  <2>1. {a, b} \in SUBSET Int /\ {a, b} # {}
    BY <1>3
  <2> QED
    BY <1>4, <1>5, <2>1, MinOfFinite
<1> QED
  BY <1>2, <1>3, <1>5, <1>6 DEF InformationTokens

(* An observation keeps the invariant.                                      *)
LEMMA ObserveKeeps ==
  ASSUME LoopInv, pc = "retrieve", MaxInformation >= 2,
         NEW documents \in SUBSET Passages, Fits(documents), Observe(documents),
         UNCHANGED <<localized, actions, searchCount, seenQueries, preEnds>>
  PROVE  LoopInv'
<1>0. ControlInv /\ TokenInv /\ ObservedInv /\ ParseInv
  BY DEF LoopInv
<1>1. /\ turn \in Nat /\ turn < MaxSearchTurns
      /\ searchCount = turn + 1 /\ searchCount - 1 = turn
      /\ Len(turns) = turn /\ turns \in Seq(TurnRecords) /\ systemValid = TRUE
      /\ reason = Unfinished /\ Len(actions) = turn + 1 /\ localized \in BOOLEAN
      /\ action.query # <<>> /\ action.query \in Queries /\ action.size \in Nat \ {0}
      /\ Turn("search") \in TurnRecords /\ IsBlank(Turn("search"), turn)
      /\ EarlierQueries = Asked(turns, turn + 1) /\ seenPassages = Found(turns, turn + 1)
      /\ seenPassages \in Keys
  BY <1>0, SearchUnderWay
<1>2. PICK size \in Nat \ {0} : size = InformationTokens(documents)
  BY InformationFits
<1>3. /\ tokens' = tokens \o Repeat(size, Token("environment", -1))
      /\ prefixEnds' = Append(prefixEnds, Len(tokens'))
      /\ seenPassages' = seenPassages \cup documents
      /\ turn' = turn + 1 /\ reason' = reason /\ systemValid' = systemValid
      /\ pc' = IF turn = MaxSearchTurns THEN "done" ELSE "generate"
  BY <1>2 DEF Observe
<1>4. pc' = "generate"
  BY <1>1, <1>3, LoopConstants
\* tokens
<1>5. TokensKnown(tokens, turn + 1)
  BY <1>0, <1>1 DEF TokenInv
<1>6. Len(tokens) \in Nat /\ Len(tokens) + size <= PromptLength + ResponseLength
  <2>1. PICK l \in Nat : l = Len(tokens)
    BY <1>5 DEF TokensKnown
  <2>2. l - PromptLength + size <= ResponseLength
    BY <1>2, <2>1 DEF Fits, Response
  <2>3. PromptLength \in Int /\ ResponseLength \in Int
    BY LoopConstants
  <2> QED
    BY <2>1, <2>2, <2>3
<1>7. Inserts(tokens, tokens', turn + 1, size)
  <2>1. PICK k \in Nat : k = turn + 1
    BY <1>1
  <2>2. tokens \in Seq(TokenSet) /\ OwnerKnown(tokens, k) /\ size \in Nat
    BY <1>5, <2>1 DEF TokensKnown
  <2> QED
    BY <1>3, <2>1, <2>2, InsertedTokens
<1>8. TokensKnown(tokens', turn + 1) /\ Len(tokens') \in Nat /\ Len(tokens) <= Len(tokens')
  <2>1. PICK k \in Nat : k = turn + 1
    BY <1>1
  <2> QED
    BY <1>5, <1>6, <1>7, <2>1, KnownAfterInsert
<1>9. /\ Len(tokens') = Len(tokens) + size
      /\ \A j \in Int : OwnedBy(tokens', j) = OwnedBy(tokens, j)
      /\ Environment(tokens') = Environment(tokens) \cup (Len(tokens) + 1 .. Len(tokens'))
  BY <1>7 DEF Inserts
<1>10. TokenInv'
  <2>1. EndsWithin(preEnds', searchCount', Len(tokens'))
    BY <1>0, <1>1, <1>6, <1>8, EndsRaised DEF TokenInv
  <2>2. SearchRuns(tokens', preEnds', searchCount')
    <3>1. SearchRuns(tokens, preEnds, searchCount) /\ searchCount \in Nat
      BY <1>0, <1>1 DEF TokenInv
    <3> QED
      BY <1>1, <1>5, <1>7, <3>1, RunsAfterInsert
  <2>3. EndsWithin(prefixEnds', turn' + 1, Len(tokens'))
    <3>1. PICK l \in Nat, m \in Nat \ {0} : l = Len(tokens) /\ m = Len(tokens')
      BY <1>6, <1>9
    <3>2. l <= m /\ m <= m /\ m \in Nat /\ EndsWithin(prefixEnds, turn + 1, l)
      BY <1>0, <1>8, <3>1 DEF TokenInv
    <3>3. OneEndMore(prefixEnds, Append(prefixEnds, m), turn + 1, m, m)
      BY <1>1, <3>2, EndsExtended
    <3> QED
      BY <1>3, <3>1, <3>3 DEF OneEndMore
  <2>4. searchCount' \in 0 .. Len(actions') /\ Len(actions') = turn + 1
    BY <1>0, <1>1 DEF TokenInv
  <2> QED
    BY <1>4, <1>8, <2>1, <2>2, <2>3, <2>4 DEF TokenInv
\* the record of the search
<1>11. PICK query, new, none :
         /\ query = action.query /\ new = documents \ seenPassages
         /\ none = (IF new = {} THEN "none" ELSE "some")
  OBVIOUS
<1>24. PICK repeated : repeated = (query \in EarlierQueries)
  OBVIOUS
<1>25. PICK different : different = (new = {} /\ ~ (query \in EarlierQueries))
  OBVIOUS
<1>12. PICK branch, old, all :
         /\ branch = (IF ~ localized THEN "none" ELSE IF new = {} THEN "n_soft" ELSE "normal")
         /\ old = (IF localized THEN seenPassages ELSE {})
         /\ all = (IF localized THEN seenPassages' ELSE {})
  OBVIOUS
<1>26. PICK spans, observation :
         /\ spans = (IF localized THEN Absolute(action.spans, PreEnd, action.size)
                     ELSE NoSpans)
         /\ observation = (IF localized THEN Len(tokens) + 1 .. Len(tokens') ELSE {})
  OBVIOUS
<1>27. PICK blank : blank = Turn("search")
  OBVIOUS
<1>13. PICK t : t = ObservedTurn(blank, turn, query, none, repeated, different,
                                 documents, new, localized, branch, old, all, spans,
                                 observation)
  OBVIOUS
<1>14. turns' = Append(turns, t)
  <2>1. turns' = Append(turns,
          ObservedTurn(Turn("search"), searchCount - 1, action.query,
            IF documents \ seenPassages = {} THEN "none" ELSE "some",
            action.query \in EarlierQueries,
            documents \ seenPassages = {} /\ ~ (action.query \in EarlierQueries),
            documents, documents \ seenPassages, localized,
            IF ~ localized THEN "none"
            ELSE IF documents \ seenPassages = {} THEN "n_soft" ELSE "normal",
            IF localized THEN seenPassages ELSE {},
            IF localized THEN seenPassages' ELSE {},
            IF localized THEN Absolute(action.spans, PreEnd, action.size) ELSE NoSpans,
            IF localized THEN Len(tokens) + 1 .. Len(tokens') ELSE {}))
    BY DEF Observe, ObservedTurn, LastQuery, NewPassages
  <2> QED
    BY <1>1, <1>11, <1>12, <1>13, <1>24, <1>25, <1>26, <1>27, <2>1
<1>15. PICK base \in Nat :
         /\ base = PreEnd /\ OwnedBy(tokens, turn) = base + 1 .. base + action.size
  <2>1. /\ preEnds[turn + 1] + action.size = Len(tokens)
        /\ OwnedBy(tokens, turn) = preEnds[turn + 1] + 1 .. Len(tokens)
    BY <1>0 DEF TokenInv, IsRun
  <2>2. preEnds \in Seq(Nat \ {0}) /\ Len(preEnds) = turn + 1
    BY <1>0, <1>1 DEF TokenInv, EndsWithin
  <2>3. preEnds[turn + 1] \in Nat
    BY <1>1, <2>2
  <2> QED
    BY <2>1, <2>2, <2>3 DEF PreEnd
<1>16. /\ spans \in SpanSets
       /\ localized => /\ spans.think # NoThink /\ spans.query # {}
                       /\ RolesApart(spans, OwnedBy(tokens', turn))
  <2>1. CASE localized
    <3>1. /\ SpansApart(action.spans, action.size) /\ action.spans.think # NoThink
          /\ action.spans.query # {}
      BY <1>0, <2>1 DEF ControlInv, Searching
    <3>2. PICK s, n : s = action.spans /\ n = action.size
      OBVIOUS
    <3>3. spans = Absolute(s, base, n) /\ n \in Nat
      BY <1>1, <1>26, <1>15, <2>1, <3>2
    <3>4. /\ RolesApart(Absolute(s, base, n), base + 1 .. base + n)
          /\ Absolute(s, base, n).think # NoThink /\ Absolute(s, base, n) \in SpanSets
          /\ Absolute(s, base, n).query # {}
      BY <3>1, <3>2, <3>3, AbsoluteRoles
    <3>5. OwnedBy(tokens', turn) = base + 1 .. base + n
      BY <1>1, <1>9, <1>15, <3>2
    <3> QED
      BY <3>3, <3>4, <3>5
  <2>2. CASE ~ localized
    BY <1>26, <2>2 DEF NoSpans, SpanSets, Positions, NoThink
  <2> QED
    BY <2>1, <2>2
<1>17. /\ t \in TurnRecords /\ t.text = query /\ t.current = documents
       /\ IsObserved(t, turn + 1, Asked(turns, turn + 1), Found(turns, turn + 1))
       /\ IsGated(t, localized, OwnedBy(tokens', turn), Environment(tokens'))
       /\ IsCredited(t, TRUE)
  <2>1. /\ query \in Queries /\ none \in News /\ new \in Keys /\ documents \in Keys
        /\ branch \in Branches /\ old \in Keys /\ all \in Keys
    BY <1>1, <1>3, <1>11, <1>12 DEF News, Keys, Branches
  <2>8. (query \in EarlierQueries) \in BOOLEAN
    OBVIOUS
  <2>2. repeated \in BOOLEAN /\ (repeated <=> query \in Asked(turns, turn + 1))
    BY <1>1, <1>24, <2>8, Zenon
  <2>9. (new = {} /\ ~ (query \in EarlierQueries)) \in BOOLEAN
    OBVIOUS
  <2>3. different \in BOOLEAN /\ (different <=> new = {} /\ ~ repeated)
    BY <1>24, <1>25, <2>9, Zenon
  <2>4. observation \in Positions
    BY <1>6, <1>8, <1>26 DEF Positions
  <2>5. /\ query # <<>> /\ new = documents \ Found(turns, turn + 1)
        /\ none = (IF new = {} THEN "none" ELSE "some")
    BY <1>1, <1>11
  <2>6. ASSUME localized
        PROVE  /\ branch = (IF new = {} THEN "n_soft" ELSE "normal")
               /\ old \subseteq all /\ new = all \ old
               /\ observation # {} /\ observation \subseteq Environment(tokens')
    <3>1. branch = (IF new = {} THEN "n_soft" ELSE "normal")
      BY <1>12, <2>6
    <3>2. old \subseteq all /\ new = all \ old
      BY <1>3, <1>11, <1>12, <2>6
    <3>3. observation = Len(tokens) + 1 .. Len(tokens')
      BY <1>26, <2>6
    <3>4. Len(tokens) + 1 \in Len(tokens) + 1 .. Len(tokens')
      BY <1>6, <1>9
    <3> QED
      BY <1>9, <3>1, <3>2, <3>3, <3>4
  <2>7. ObservationIs(blank, turn, query, none, repeated, different, documents,
                      new, localized, branch, old, all, spans, observation,
                      Asked(turns, turn + 1), Found(turns, turn + 1),
                      OwnedBy(tokens', turn), Environment(tokens'))
    BY <1>1, <1>16, <1>27, <2>1, <2>2, <2>3, <2>4, <2>5, <2>6, Zenon DEF ObservationIs
  <2>10. PICK asked, found, mine, environment :
           /\ asked = Asked(turns, turn + 1) /\ found = Found(turns, turn + 1)
           /\ mine = OwnedBy(tokens', turn) /\ environment = Environment(tokens')
    OBVIOUS
  <2>11. ObservationIs(blank, turn, query, none, repeated, different, documents,
                       new, localized, branch, old, all, spans, observation,
                       asked, found, mine, environment)
    BY <2>7, <2>10
  <2>12. Observes(t, turn, query, documents, asked, found, localized, mine, environment)
    BY <1>13, <2>11, ObservedRecord, Zenon
  <2> QED
    BY <2>10, <2>12 DEF Observes
<1>18. OneTurnMore(turns, turns', turn, t)
  BY <1>1, <1>14, <1>17, PastExtended
<1>19. /\ turns' \in Seq(TurnRecords) /\ Len(turns') = turn + 1 /\ turns'[turn + 1] = t
       /\ \A i \in 1 .. turn : turns'[i] = turns[i]
       /\ \A i \in 1 .. turn + 1 :
            Asked(turns', i) = Asked(turns, i) /\ Found(turns', i) = Found(turns, i)
       /\ Asked(turns', turn + 1 + 1) = Asked(turns, turn + 1) \cup {action.query}
       /\ Found(turns', turn + 1 + 1) = Found(turns, turn + 1) \cup documents
  BY <1>11, <1>17, <1>18 DEF OneTurnMore
<1>20. ControlInv'
  <2>1. turn' \in 0 .. MaxSearchTurns
    BY <1>1, <1>3, LoopConstants
  <2>2. /\ localized' \in BOOLEAN /\ systemValid' = TRUE
        /\ reason' = Unfinished /\ Len(turns') = turn' /\ searchCount' = turn'
        /\ Len(actions') = turn'
    BY <1>1, <1>3, <1>19
  <2>3. actions' \in Seq(Seq(STRING))
    BY <1>0 DEF ControlInv
  <2> QED
    BY <1>4, <1>19, <2>1, <2>2, <2>3 DEF ControlInv
<1>21. ObservedInv'
  <2>1. ASSUME NEW i \in 1 .. turn + 1
        PROVE  /\ IsObserved(turns'[i], i, Asked(turns', i), Found(turns', i))
               /\ IsGated(turns'[i], localized', OwnedBy(tokens', i - 1),
                          Environment(tokens'))
               /\ IsCredited(turns'[i], systemValid')
    <3>1. /\ Asked(turns', i) = Asked(turns, i) /\ Found(turns', i) = Found(turns, i)
          /\ localized' = localized /\ systemValid' = TRUE /\ systemValid = TRUE
      BY <1>1, <1>3, <1>19
    <3>2. CASE i = turn + 1
      <4>1. turns'[i] = t /\ i - 1 = turn
        BY <1>1, <1>19, <3>2
      <4> QED
        BY <1>17, <3>1, <3>2, <4>1
    <3>3. CASE i \in 1 .. turn
      <4>1. turns'[i] = turns[i] /\ i - 1 \in Int
        BY <1>19, <3>3
      <4>2. OwnedBy(tokens', i - 1) = OwnedBy(tokens, i - 1)
        BY <1>9, <4>1
      <4>3. /\ IsObserved(turns[i], i, Asked(turns, i), Found(turns, i))
            /\ IsGated(turns[i], localized, OwnedBy(tokens, i - 1), Environment(tokens))
            /\ IsCredited(turns[i], TRUE)
        BY <1>0, <3>1, <3>3 DEF ObservedInv
      <4>4. IsGated(turns[i], localized, OwnedBy(tokens, i - 1), Environment(tokens'))
        BY <1>9, <4>3 DEF IsGated
      <4> QED
        BY <3>1, <4>1, <4>2, <4>3, <4>4, Zenon
    <3>4. i = turn + 1 \/ i \in 1 .. turn
      BY <1>1
    <3> QED
      BY <3>2, <3>3, <3>4
  <2>2. seenPassages' = Found(turns', turn' + 1) /\ seenPassages' \subseteq Passages
    BY <1>1, <1>3, <1>19 DEF Keys
  <2>3. seenQueries' = Asked(turns', turn' + 1)
    <3>1. seenQueries = Asked(turns, turn + 1) \cup {action.query}
      BY <1>0 DEF ObservedInv
    <3> QED
      BY <1>3, <1>19, <3>1
  <2>4. turn' = turn + 1
    BY <1>3
  <2> QED
    BY <1>4, <2>1, <2>2, <2>3, <2>4 DEF ObservedInv
<1>22. ParseInv'
  BY <1>0, <1>4 DEF ParseInv
<1>23. DoneInv'
  BY <1>4 DEF DoneInv
<1> QED
  BY <1>10, <1>20, <1>21, <1>22, <1>23 DEF LoopInv

(* A search that fails keeps the invariant: all turns lose their credit.    *)
LEMMA SearchFailsKeeps ==
  ASSUME LoopInv, pc = "retrieve", NEW documents \in SUBSET Passages,
         SearchFails(documents),
         UNCHANGED <<localized, actions, searchCount, seenQueries, preEnds>>
  PROVE  LoopInv'
<1>0. ControlInv /\ TokenInv /\ ObservedInv /\ ParseInv
  BY DEF LoopInv
<1>1. /\ turn \in Nat /\ turn < MaxSearchTurns
      /\ searchCount = turn + 1 /\ searchCount - 1 = turn
      /\ Len(turns) = turn /\ turns \in Seq(TurnRecords)
      /\ Len(actions) = turn + 1 /\ localized \in BOOLEAN /\ action.query \in Queries
      /\ Turn("search") \in TurnRecords /\ IsBlank(Turn("search"), turn)
      /\ seenPassages \in Keys
  BY <1>0, SearchUnderWay
<1>2. /\ systemValid' = FALSE /\ seenPassages' = seenPassages \cup documents
      /\ pc' = "done" /\ reason' = "retriever_system_failure"
      /\ UNCHANGED <<tokens, prefixEnds, turn>>
  BY DEF SearchFails, End
<1>3. PICK f : f = FailedTurn(Turn("search"), turn, action.query)
  OBVIOUS
<1>4. f \in TurnRecords /\ IsFailed(Withdrawn(f), turn + 1)
  BY <1>1, <1>3, FailedRecord
<1>5. PICK ts : ts = Append(turns, f)
  OBVIOUS
<1>6. turns' = WithdrawCredit(ts)
  <2>1. turns' = WithdrawCredit(Append(turns,
                   FailedTurn(Turn("search"), searchCount - 1, action.query)))
    BY DEF SearchFails, FailedTurn, LastQuery
  <2> QED
    BY <1>1, <1>3, <1>5, <2>1
<1>7. /\ ts \in Seq(TurnRecords) /\ Len(ts) = turn + 1 /\ ts[turn + 1] = f
      /\ \A i \in 1 .. turn : ts[i] = turns[i]
      /\ \A i \in 1 .. turn + 1 :
           Asked(ts, i) = Asked(turns, i) /\ Found(ts, i) = Found(turns, i)
  <2>1. OneTurnMore(turns, ts, turn, f)
    BY <1>1, <1>4, <1>5, PastExtended
  <2> QED
    BY <2>1 DEF OneTurnMore
<1>8. /\ turns' \in Seq(TurnRecords) /\ Len(turns') = turn + 1
      /\ \A i \in 1 .. turn + 1 : turns'[i] = Withdrawn(ts[i])
  <2>1. PICK n \in Nat : n = turn + 1
    BY <1>1
  <2>2. DOMAIN ts = 1 .. n /\ \A i \in 1 .. n : ts[i] \in TurnRecords
    BY <1>7, <2>1
  <2>3. turns' = [i \in 1 .. n |-> Withdrawn(ts[i])]
    BY <1>6, <2>2 DEF WithdrawCredit, Withdrawn
  <2>4. \A i \in 1 .. n : Withdrawn(ts[i]) \in TurnRecords
    BY <2>2, WithdrawnKeeps
  <2>5. turns' \in [1 .. n -> TurnRecords]
    BY <2>3, <2>4
  <2>6. turns' \in Seq(TurnRecords) /\ Len(turns') = n
    BY <2>5
  <2> QED
    BY <2>1, <2>3, <2>6
<1>9. \A i \in 1 .. turn + 1 :
        Asked(turns', i) = Asked(turns, i) /\ Found(turns', i) = Found(turns, i)
  <2>1. \A j \in 1 .. turn : /\ turns'[j].text = turns[j].text
                             /\ turns'[j].current = turns[j].current
    <3>1. SUFFICES ASSUME NEW j \in 1 .. turn
                   PROVE  /\ turns'[j].text = turns[j].text
                          /\ turns'[j].current = turns[j].current
      OBVIOUS
    <3>2. turns'[j] = Withdrawn(turns[j]) /\ turns[j] \in TurnRecords
      BY <1>1, <1>7, <1>8
    <3> QED
      BY <3>2, WithdrawnKeeps
  <2> QED
    BY <1>1, <2>1, PastSame
<1>10. ControlInv'
  <2>1. reason' \in Endings
    BY <1>2 DEF Endings
  <2>2. actions' \in Seq(Seq(STRING)) /\ turn' \in 0 .. MaxSearchTurns
    BY <1>0, <1>2 DEF ControlInv
  <2>3. localized' \in BOOLEAN /\ systemValid' \in BOOLEAN
    BY <1>1, <1>2
  <2> QED
    BY <1>2, <1>8, <2>1, <2>2, <2>3 DEF ControlInv
<1>11. TokenInv'
  BY <1>0, <1>2 DEF TokenInv
<1>12. ObservedInv'
  <2>1. ASSUME NEW i \in 1 .. turn
        PROVE  /\ IsObserved(turns'[i], i, Asked(turns', i), Found(turns', i))
               /\ IsGated(turns'[i], localized', OwnedBy(tokens', i - 1),
                          Environment(tokens'))
               /\ IsCredited(turns'[i], systemValid')
    <3>1. /\ Asked(turns', i) = Asked(turns, i) /\ Found(turns', i) = Found(turns, i)
          /\ turns'[i] = Withdrawn(turns[i]) /\ turns[i] \in TurnRecords
      BY <1>1, <1>7, <1>8, <1>9
    <3>2. /\ IsObserved(turns[i], i, Asked(turns, i), Found(turns, i))
          /\ IsGated(turns[i], localized, OwnedBy(tokens, i - 1), Environment(tokens))
      BY <1>0 DEF ObservedInv
    <3>3. PICK rec, asked, found, mine, env :
            /\ rec = turns[i] /\ asked = Asked(turns, i) /\ found = Found(turns, i)
            /\ mine = OwnedBy(tokens, i - 1) /\ env = Environment(tokens)
      OBVIOUS
    <3>4. /\ IsObserved(Withdrawn(rec), i, asked, found)
          /\ IsGated(Withdrawn(rec), localized, mine, env)
          /\ IsCredited(Withdrawn(rec), FALSE)
      BY <3>1, <3>2, <3>3, WithdrawnKeeps
    <3> QED
      BY <1>2, <3>1, <3>3, <3>4
  <2>2. seenPassages' \subseteq Passages
    BY <1>1, <1>2 DEF Keys
  <2> QED
    BY <1>2, <2>1, <2>2 DEF ObservedInv
<1>13. ParseInv'
  <2>1. \A k \in 1 .. Len(actions) : Parse(actions[k]).kind = "search"
    BY <1>0 DEF ParseInv
  <2>2. actions # <<>> => Parse(actions[Len(actions)]).kind # "answer"
    <3>1. Len(actions) \in 1 .. Len(actions)
      BY <1>1
    <3> QED
      BY <2>1, <3>1
  <2> QED
    BY <1>2, <2>1, <2>2 DEF ParseInv
<1>14. DoneInv'
  <2>1. turns'[turn' + 1] = Withdrawn(f) /\ turn + 1 \in 1 .. turn + 1
    BY <1>1, <1>2, <1>7, <1>8
  <2> QED
    BY <1>1, <1>2, <1>4, <1>8, <2>1 DEF DoneInv, Final
<1> QED
  BY <1>10, <1>11, <1>12, <1>13, <1>14 DEF LoopInv

(* The loop starts within the invariant.                                    *)
LEMMA LoopInvInit ==
  ASSUME Init
  PROVE  LoopInv
<1>1. /\ localized \in BOOLEAN /\ pc = "generate" /\ turn = 0 /\ turns = <<>>
      /\ actions = <<>> /\ searchCount = 0 /\ seenQueries = {} /\ seenPassages = {}
      /\ prefixEnds = <<PromptLength>> /\ preEnds = <<>>
      /\ reason = Unfinished /\ systemValid = TRUE
      /\ tokens = Repeat(PromptLength, Token("prompt", -1))
  BY LoopConstants DEF Init, Unfinished
<1>2. PICK n \in Nat \ {0} : n = PromptLength
  BY LoopConstants
<1>3. /\ tokens \in Seq(TokenSet) /\ Len(tokens) = n
      /\ \A p \in 1 .. n : tokens[p] = Token("prompt", -1)
  <2>1. PICK token : token = Token("prompt", -1)
    OBVIOUS
  <2>2. token \in TokenSet
    BY <2>1, TokensTold
  <2>3. tokens = [i \in 1 .. n |-> token]
    BY <1>1, <1>2, <2>1 DEF Repeat
  <2>4. tokens \in [1 .. n -> TokenSet]
    BY <2>2, <2>3
  <2> QED
    BY <2>1, <2>3, <2>4
<1>4. ControlInv
  <2>1. turns \in Seq(TurnRecords) /\ actions \in Seq(Seq(STRING))
    BY <1>1
  <2>2. turn \in 0 .. MaxSearchTurns
    BY <1>1, LoopConstants
  <2> QED
    BY <1>1, <2>1, <2>2 DEF ControlInv
<1>5. TokenInv
  <2>1. TokensKnown(tokens, 0)
    <3>1. PromptLength <= Len(tokens) /\ Len(tokens) <= PromptLength + ResponseLength
      BY <1>2, <1>3, LoopConstants
    <3>2. OwnerKnown(tokens, 0)
      BY <1>3 DEF OwnerKnown
    <3> QED
      BY <1>3, <3>1, <3>2 DEF TokensKnown
  <2>2. EndsWithin(preEnds, 0, Len(tokens))
    BY <1>1 DEF EndsWithin
  <2>3. EndsWithin(prefixEnds, 1, Len(tokens))
    <3>1. prefixEnds = <<n>>
      BY <1>1, <1>2
    <3>2. prefixEnds \in Seq(Nat \ {0}) /\ Len(prefixEnds) = 1 /\ prefixEnds[1] = n
      BY <3>1
    <3> QED
      BY <1>3, <3>2 DEF EndsWithin
  <2>4. SearchRuns(tokens, preEnds, 0)
    BY DEF SearchRuns
  <2>5. Len(actions) = 0 /\ 0 \in 0 .. 0 /\ turn + 1 = 1
    BY <1>1
  <2> QED
    BY <1>1, <2>1, <2>2, <2>3, <2>4, <2>5 DEF TokenInv
<1>6. ObservedInv
  <2>1. Found(turns, 1) = {} /\ Asked(turns, 1) = {}
    BY DEF Found, Asked
  <2> QED
    BY <1>1, <2>1 DEF ObservedInv
<1>7. ParseInv
  BY <1>1 DEF ParseInv
<1> QED
  BY <1>1, <1>4, <1>5, <1>6, <1>7 DEF LoopInv, DoneInv

(* Every step keeps it.                                                     *)
LEMMA LoopInvNext ==
  ASSUME LoopInv, [Next]_vars
  PROVE  LoopInv'
<1>1. CASE ResponseExhausted \/ EmptyAction
  BY <1>1, OutOfTokensKeeps
<1>2. CASE Generate
  BY <1>2, GenerateKeeps
<1>3. CASE GenerateRaises
  BY <1>3, GenerateRaisesKeeps
<1>4. CASE RetrieverAnswers
  <2>1. PICK documents \in SUBSET Passages :
          IF Fits(documents) THEN Observe(documents) ELSE SearchFails(documents)
    BY <1>4 DEF RetrieverAnswers
  <2>2. /\ pc = "retrieve" /\ MaxInformation >= 2
        /\ UNCHANGED <<localized, actions, searchCount, seenQueries, preEnds>>
    BY <1>4 DEF RetrieverAnswers
  <2>3. CASE Fits(documents)
    BY <2>1, <2>2, <2>3, ObserveKeeps
  <2>4. CASE ~ Fits(documents)
    BY <2>1, <2>2, <2>4, SearchFailsKeeps
  <2> QED
    BY <2>3, <2>4
<1>5. CASE RetrieverFails
  <2>1. /\ pc = "retrieve" /\ SearchFails({})
        /\ UNCHANGED <<localized, actions, searchCount, seenQueries, preEnds>>
    BY <1>5 DEF RetrieverFails
  <2> QED
    BY <2>1, SearchFailsKeeps
<1>6. CASE UNCHANGED vars
  BY <1>6 DEF LoopInv, ControlInv, Searching, Aborted, TokenInv, ObservedInv, DoneInv,
              OutOfTokens, Final, ParseInv, vars, history, seen
<1> QED
  BY <1>1, <1>2, <1>3, <1>4, <1>5, <1>6 DEF Next

(* What the loop keeps true of its turns, tokens and positions, always.     *)
THEOREM LoopInvariant == Spec => []LoopInv
<1>1. Init => LoopInv
  BY LoopInvInit
<1>2. LoopInv /\ [Next]_vars => LoopInv'
  BY LoopInvNext
<1> QED
  BY <1>1, <1>2, PTL DEF Spec
-----------------------------------------------------------------------------
(* Finished loops                                                          *)

(* The searches of a record are its first turns.                            *)
LEMMA SubsequencePrefix ==
  ASSUME NEW s, NEW m \in Nat
  PROVE  Subsequence(s, 1 .. m) = [i \in 1 .. m |-> s[i]]
<1>1. PICK S : S = 1 .. m
  OBVIOUS
<1>2. PICK rank : rank = [a \in S |-> Cardinality({b \in S : b < a})]
  OBVIOUS
<1>3. \A a \in S : rank[a] = a - 1
  <2>1. SUFFICES ASSUME NEW a \in S PROVE rank[a] = a - 1
    OBVIOUS
  <2>2. {b \in S : b < a} = 1 .. a - 1
    BY <1>1
  <2>3. Cardinality(1 .. a - 1) = a - 1
    BY <1>1, FS_Interval
  <2> QED
    BY <1>2, <2>2, <2>3
<1>4. Cardinality(S) = m
  BY <1>1, FS_Interval
<1>5. PICK at : at = [i \in 1 .. m |-> CHOOSE a \in S : rank[a] = i - 1]
  OBVIOUS
<1>6. \A i \in 1 .. m : at[i] = i
  <2>1. SUFFICES ASSUME NEW i \in 1 .. m PROVE at[i] = i
    OBVIOUS
  <2>2. at[i] = CHOOSE a \in S : rank[a] = i - 1
    BY <1>5
  <2>3. i \in S /\ rank[i] = i - 1
    BY <1>1, <1>3
  <2>4. at[i] \in S /\ rank[at[i]] = i - 1
    BY <2>2, <2>3
  <2> QED
    BY <1>1, <1>3, <2>4
<1>7. Subsequence(s, S) = [n \in DOMAIN at |-> s[at[n]]]
  BY <1>2, <1>4, <1>5 DEF Subsequence, SetInOrder
<1> QED
  BY <1>1, <1>5, <1>6, <1>7

(* What all records of a finished loop share.                               *)
Shape(r, i, n, valid) ==
  /\ r.index = i - 1 /\ (r.credit <=> valid)
  /\ r.kind = "search" <=> i <= n
  /\ r.kind = "search" => r.search = i - 1
(* The turns of a finished loop.                                            *)
LEMMA DoneShape ==
  ASSUME LoopInv, pc = "done"
  PROVE  /\ turn \in 0 .. MaxSearchTurns /\ searchCount \in {turn, turn + 1}
         /\ Len(turns) \in {turn, turn + 1} /\ searchCount <= Len(turns)
         /\ Len(actions) = Len(turns) /\ turns \in Seq(TurnRecords)
         /\ localized \in BOOLEAN /\ systemValid \in BOOLEAN
         /\ systemValid <=> reason # "retriever_system_failure"
         /\ \A i \in 1 .. turn : turns[i].prefixValid
         /\ Len(turns) = turn + 1 => ~ turns[turn + 1].prefixValid
         /\ \A i \in 1 .. Len(turns) : Shape(turns[i], i, searchCount, systemValid)
<1>1. /\ turn \in 0 .. MaxSearchTurns /\ turn \in Nat /\ turns \in Seq(TurnRecords)
      /\ localized \in BOOLEAN /\ systemValid \in BOOLEAN
  BY LoopConstants DEF LoopInv, ControlInv
<1>2. ASSUME NEW n, NEW i \in 1 .. turn, n \in {turn, turn + 1}
      PROVE  turns[i].prefixValid /\ Shape(turns[i], i, n, systemValid)
  <2>1. /\ turns[i].index = i - 1 /\ turns[i].kind = "search"
        /\ turns[i].search = i - 1 /\ turns[i].prefixValid
    BY DEF LoopInv, ObservedInv, IsObserved, IsSearch
  <2>2. turns[i].credit <=> systemValid
    BY <1>1 DEF LoopInv, ObservedInv, IsCredited
  <2>3. i <= n
    BY <1>1, <1>2
  <2> QED
    BY <2>1, <2>2, <2>3 DEF Shape
<1>3. CASE OutOfTokens
  <2>1. /\ Len(turns) = turn /\ Len(actions) = turn /\ searchCount = turn
        /\ systemValid /\ reason # "retriever_system_failure"
    BY <1>3 DEF OutOfTokens
  <2>2. searchCount <= Len(turns) /\ Len(turns) # turn + 1
    BY <1>1, <2>1
  <2>3. \A i \in 1 .. turn : turns[i].prefixValid /\ Shape(turns[i], i, searchCount, systemValid)
    BY <1>2, <2>1
  <2> QED
    BY <1>1, <2>1, <2>2, <2>3
<1>4. CASE Len(turns) = turn + 1 /\ Len(actions) = turn + 1 /\ Final
  <2>1. PICK r : r = turns[turn + 1]
    OBVIOUS
  <2>2. /\ searchCount \in {turn, turn + 1} /\ ~ r.prefixValid
        /\ systemValid <=> reason # "retriever_system_failure"
        /\ Shape(r, turn + 1, searchCount, systemValid)
    <3>0. turn + 1 <= turn + 1 /\ ~ (turn + 1 <= turn)
      BY <1>1
    <3>1. CASE /\ reason = "retriever_system_failure" /\ ~ systemValid
               /\ searchCount = turn + 1 /\ IsFailed(r, turn + 1)
      BY <3>0, <3>1 DEF IsFailed, FindsNothing, Shape
    <3>2. CASE /\ reason = "model_generated_malformed_search" /\ systemValid
               /\ searchCount = turn + 1
               /\ IsMalformed(r, turn + 1, Asked(turns, turn + 1), OwnedBy(tokens, turn))
      BY <3>0, <3>2 DEF IsMalformed, IsSearch, FindsNothing, Shape
    <3>3. CASE /\ reason = "maximum_search_turns_reached" /\ systemValid
               /\ searchCount = turn + 1
               /\ IsOverBudget(r, turn + 1, Asked(turns, turn + 1), localized,
                               OwnedBy(tokens, turn))
      BY <3>0, <3>3 DEF IsOverBudget, IsSearch, FindsNothing, Shape
    <3>4. CASE /\ reason = "model_answer" /\ systemValid /\ searchCount = turn
               /\ IsTerminal(r, turn + 1, "answer")
      BY <3>0, <3>4 DEF IsTerminal, FindsNothing, Shape
    <3>5. CASE /\ reason = "model_generated_malformed_fallback" /\ systemValid
               /\ searchCount = turn /\ IsTerminal(r, turn + 1, "fallback")
      BY <3>0, <3>5 DEF IsTerminal, FindsNothing, Shape
    <3> QED
      BY <1>4, <2>1, <3>1, <3>2, <3>3, <3>4, <3>5 DEF Final
  <2>3. \A i \in 1 .. Len(turns) : i \in 1 .. turn \/ i = turn + 1
    BY <1>1, <1>4
  <2>4. searchCount <= Len(turns)
    BY <1>1, <1>4, <2>2
  <2> QED
    BY <1>1, <1>2, <1>4, <2>1, <2>2, <2>3, <2>4
<1> QED
  BY <1>3, <1>4 DEF LoopInv, DoneInv

(* The searches of a finished loop are its first turns.                     *)
LEMMA DoneSearches ==
  ASSUME LoopInv, pc = "done"
  PROVE  /\ SearchTurns = [i \in 1 .. searchCount |-> turns[i]]
         /\ Len(SearchTurns) = searchCount /\ DOMAIN SearchTurns = 1 .. searchCount
<1>1. PICK n, m \in Nat : n = Len(turns) /\ m = searchCount
  BY DoneShape
<1>2. m <= n /\ DOMAIN turns = 1 .. n
  BY <1>1, DoneShape
<1>3. \A i \in 1 .. n : turns[i].kind = "search" <=> i <= m
  BY <1>1, DoneShape DEF Shape
<1>4. {i \in DOMAIN turns : turns[i].kind = "search"} = 1 .. m
  BY <1>2, <1>3
<1>5. SearchTurns = [i \in 1 .. m |-> turns[i]]
  BY <1>4, SubsequencePrefix DEF SearchTurns
<1> QED
  BY <1>1, <1>5

(* The types and budgets.                                                   *)
LEMMA LoopTypes ==
  ASSUME LoopInv
  PROVE  TypeOK
<1>1. /\ turn \in 0 .. MaxSearchTurns /\ turn \in Nat
      /\ pc \in {"generate", "retrieve", "done", "raised"}
      /\ localized \in BOOLEAN /\ systemValid \in BOOLEAN
      /\ reason \in Endings \cup {"no_terminal_model_span"}
  BY LoopConstants DEF LoopInv, ControlInv, Unfinished
<1>2. searchCount \in 0 .. MaxSearchTurns + 1
  <2>1. CASE pc = "done"
    <3>1. searchCount \in {turn, turn + 1}
      BY <2>1, DoneShape
    <3> QED
      BY <1>1, <3>1, LoopConstants
  <2>2. CASE pc # "done"
    <3>1. searchCount \in {turn, turn + 1}
      BY <1>1, <2>2 DEF LoopInv, ControlInv, Searching
    <3> QED
      BY <1>1, <3>1, LoopConstants
  <2> QED
    BY <2>1, <2>2
<1>3. Response \in 0 .. ResponseLength
  <2>1. PICK l \in Nat : l = Len(tokens)
    BY DEF LoopInv, TokenInv, TokensKnown
  <2>2. PromptLength <= l /\ l <= PromptLength + ResponseLength
    BY <2>1 DEF LoopInv, TokenInv, TokensKnown
  <2> QED
    BY <2>1, <2>2, LoopConstants DEF Response
<1>4. \A p \in DOMAIN tokens : tokens[p].source \in {"prompt", "model", "environment"}
  <2>1. tokens \in Seq(TokenSet)
    BY DEF LoopInv, TokenInv, TokensKnown
  <2>2. \A p \in DOMAIN tokens : tokens[p] \in TokenSet
    BY <2>1
  <2> QED
    BY <2>2 DEF TokenSet
<1>5. seenPassages \subseteq Passages
  BY DEF LoopInv, ObservedInv
<1> QED
  BY <1>1, <1>2, <1>3, <1>4, <1>5 DEF TypeOK

(* One answer ends the actions exactly when the last one is an answer, as   *)
(* those before it are searches.                                            *)
LEMMA OnlyTheLastAnswers ==
  ASSUME NEW texts \in Seq(Seq(STRING)),
         \A k \in 1 .. Len(texts) : k < Len(texts) => Parse(texts[k]).kind = "search"
  PROVE  TerminalAnswer(texts) <=>
           texts # <<>> /\ Parse(texts[Len(texts)]).kind = "answer"
<1>1. SUFFICES ASSUME texts # <<>>, Parse(texts[Len(texts)]).kind = "answer"
               PROVE  AnswerCount(texts) = 1
  BY DEF TerminalAnswer
<1>2. PICK n \in Nat : n = Len(texts) /\ DOMAIN texts = 1 .. n
  OBVIOUS
<1>3. n \in 1 .. n
  BY <1>1, <1>2
<1>4. {i \in DOMAIN texts : Parse(texts[i]).kind = "answer"} = {n}
  BY <1>1, <1>2, <1>3
<1>5. Cardinality({n}) = 1
  BY FS_Singleton
<1> QED
  BY <1>4, <1>5 DEF AnswerCount

(* The reason of a loop agrees with its actions.                            *)
LEMMA LoopExplains ==
  ASSUME LoopInv
  PROVE  EndIsExplained
<1>1. ASSUME pc = "done"
      PROVE  /\ reason \in Endings
             /\ TerminalAnswer(actions) <=> reason = "model_answer"
             /\ systemValid <=> reason # "retriever_system_failure"
  <2>1. reason \in Endings
    BY <1>1 DEF LoopInv, DoneInv, OutOfTokens, Final, Endings
  <2>2. actions \in Seq(Seq(STRING))
    BY DEF LoopInv, ControlInv
  <2>3. \A k \in 1 .. Len(actions) :
          k < Len(actions) => Parse(actions[k]).kind = "search"
    BY DEF LoopInv, ParseInv
  <2>4. reason = "model_answer" <=>
          actions # <<>> /\ Parse(actions[Len(actions)]).kind = "answer"
    BY <1>1 DEF LoopInv, ParseInv
  <2>5. TerminalAnswer(actions) <=>
          actions # <<>> /\ Parse(actions[Len(actions)]).kind = "answer"
    BY <2>2, <2>3, OnlyTheLastAnswers
  <2>6. systemValid <=> reason # "retriever_system_failure"
    BY <1>1, DoneShape
  <2> QED
    BY <2>1, <2>4, <2>5, <2>6
<1>2. Cardinality({i \in DOMAIN turns : turns[i].prefixValid}) <= MaxSearchTurns
  <2>1. PICK n \in Nat : n = turn
    BY LoopConstants DEF LoopInv, ControlInv
  <2>2. n <= MaxSearchTurns
    BY <2>1, LoopConstants DEF LoopInv, ControlInv
  <2>3. {i \in DOMAIN turns : turns[i].prefixValid} \subseteq 1 .. n
    <3>1. turns \in Seq(TurnRecords)
      BY DEF LoopInv, ControlInv
    <3>2. CASE pc = "done"
      <4>1. /\ Len(turns) \in {turn, turn + 1}
            /\ Len(turns) = turn + 1 => ~ turns[turn + 1].prefixValid
        BY <3>2, DoneShape
      <4> QED
        BY <2>1, <3>1, <4>1
    <3>3. CASE pc # "done"
      <4>1. Len(turns) = turn
        BY <3>3 DEF LoopInv, ControlInv
      <4> QED
        BY <2>1, <3>1, <4>1
    <3> QED
      BY <3>2, <3>3
  <2>4. PICK S : S = {i \in DOMAIN turns : turns[i].prefixValid}
    OBVIOUS
  <2>5. IsFiniteSet(1 .. n) /\ Cardinality(1 .. n) = n
    BY FS_Interval
  <2>6. Cardinality(S) <= Cardinality(1 .. n) /\ Cardinality(S) \in Nat
    BY <2>3, <2>4, <2>5, FS_Subset, FS_CardinalityType
  <2> QED
    BY <2>2, <2>4, <2>5, <2>6, LoopConstants
<1> QED
  BY <1>1, <1>2 DEF EndIsExplained

(* What makes run() raise.                                                  *)
LEMMA LoopAborts ==
  ASSUME LoopInv
  PROVE  AbortsOnlyOnNesting
<1>1. SUFFICES ASSUME pc = "raised" PROVE AbortsOnlyOnNesting
  BY DEF AbortsOnlyOnNesting
<1>2. PICK a \in Actions :
        /\ localized /\ action.sample = a /\ action.text = Text(a)
        /\ \/ Parse(Text(a)).kind = "answer" /\ SearchIntent(Text(a))
           \/ Parse(Text(a)).kind = "search" /\ NestedSearch(a)
  BY <1>1 DEF LoopInv, ControlInv, Aborted
<1> QED
  BY <1>2 DEF AbortsOnlyOnNesting, NestedSearch

(* Every turn of a loop the system did not break has tokens and earns, and  *)
(* every token of the model is of a turn.                                   *)
EachTurnEarns(n) ==
  /\ n \in Nat /\ DOMAIN turns = 1 .. n /\ searchCount \in Nat
  /\ \A i \in 1 .. n : /\ turns[i].index = i - 1 /\ turns[i].credit
                       /\ ModelTokens(i - 1) # {}
                       /\ turns[i].kind = "search" <=> i <= searchCount
                       /\ turns[i].kind = "search" \/ (Terminal # {} /\ i = Max(Terminal))
  /\ \A p \in DOMAIN tokens : tokens[p].source = "model" <=>
                             \E i \in 1 .. n : tokens[p] = Token("model", i - 1)
(* In a finished loop each turn earns what its action sampled.              *)
LEMMA TurnsEarn ==
  ASSUME LoopInv, pc = "done", systemValid
  PROVE  EachTurnEarns(Len(turns))
<1>1. pc = "done" /\ systemValid
  OBVIOUS
<1>2. PICK n, m \in Nat : n = Len(turns) /\ m = searchCount
  BY <1>1, DoneShape
<1>3. /\ m <= n /\ n <= m + 1 /\ Len(actions) = n /\ DOMAIN turns = 1 .. n
      /\ \A i \in 1 .. n : Shape(turns[i], i, m, TRUE)
  <2>1. PICK k \in Nat : k = turn
    BY <1>1, DoneShape
  <2>2. /\ m \in {k, k + 1} /\ n \in {k, k + 1} /\ m <= n
        /\ Len(actions) = n /\ turns \in Seq(TurnRecords)
    BY <1>1, <1>2, <2>1, DoneShape
  <2>3. m <= n /\ n <= m + 1 /\ Len(actions) = n /\ DOMAIN turns = 1 .. n
    BY <1>2, <2>1, <2>2
  <2>4. systemValid = TRUE
    BY <1>1, DoneShape
  <2>5. \A i \in 1 .. n : Shape(turns[i], i, m, systemValid)
    BY <1>1, <1>2, DoneShape
  <2> QED
    BY <2>3, <2>4, <2>5
<1>4. PICK d \in Nat : d = Len(tokens) /\ DOMAIN tokens = 1 .. d
  BY DEF LoopInv, TokenInv, TokensKnown
<1>5. \A k : ModelTokens(k) = OwnedBy(tokens, k)
  BY <1>4 DEF ModelTokens, OwnedBy
<1>6. \A i \in 1 .. n : /\ turns[i].index = i - 1 /\ turns[i].credit
                        /\ ModelTokens(i - 1) # {}
                        /\ turns[i].kind = "search" <=> i <= m
  BY <1>3, <1>5 DEF Shape, LoopInv, TokenInv, TokensKnown
<1>7. \A i \in 1 .. n : turns[i].kind = "search" \/ (Terminal # {} /\ i = Max(Terminal))
  <2>1. SUFFICES ASSUME NEW i \in 1 .. n, turns[i].kind # "search"
                 PROVE  Terminal # {} /\ i = Max(Terminal)
    OBVIOUS
  <2>2. i = m + 1 /\ n = m + 1
    BY <1>3, <1>6, <2>1
  <2>3. Terminal = {i}
    BY <1>3, <1>6, <2>1, <2>2 DEF Terminal
  <2>4. Max({i}) = i
    <3>1. {i} \in SUBSET Int /\ {i} # {}
      BY <1>2
    <3>3. IsFiniteSet({i})
      BY FS_Singleton
    <3>2. Max({i}) \in {i}
      BY <3>1, <3>3, MaxOfFinite
    <3> QED
      BY <3>2
  <2> QED
    BY <2>3, <2>4
<1>8. \A p \in 1 .. d : tokens[p].source = "model" <=>
                          \E i \in 1 .. n : tokens[p] = Token("model", i - 1)
  <2>1. SUFFICES ASSUME NEW p \in 1 .. d
                 PROVE  tokens[p].source = "model" <=>
                          \E i \in 1 .. n : tokens[p] = Token("model", i - 1)
    OBVIOUS
  <2>2. \/ tokens[p] \in {Token("prompt", -1), Token("environment", -1)}
        \/ \E k \in 0 .. n - 1 : tokens[p] = Token("model", k)
    BY <1>3, <1>4 DEF LoopInv, TokenInv, TokensKnown, OwnerKnown
  <2>3. CASE tokens[p] \in {Token("prompt", -1), Token("environment", -1)}
    <3>1. tokens[p].source # "model"
      BY <2>3 DEF Token
    <3>2. \A k : Token("model", k).source = "model"
      BY DEF Token
    <3> QED
      BY <3>1, <3>2
  <2>4. CASE \E k \in 0 .. n - 1 : tokens[p] = Token("model", k)
    <3>1. PICK k \in 0 .. n - 1 : tokens[p] = Token("model", k)
      BY <2>4
    <3>2. tokens[p].source = "model"
      BY <3>1 DEF Token
    <3>3. k + 1 \in 1 .. n /\ k = k + 1 - 1
      OBVIOUS
    <3>4. tokens[p] = Token("model", k + 1 - 1)
      BY <3>1, <3>3
    <3> QED
      BY <3>2, <3>3, <3>4
  <2> QED
    BY <2>2, <2>3, <2>4
<1> QED
  BY <1>2, <1>3, <1>4, <1>6, <1>7, <1>8 DEF EachTurnEarns

(* The credit of a record.                                                  *)
LEMMA LoopCredits ==
  ASSUME LoopInv
  PROVE  CreditIsTheModels
<1>1. SUFFICES ASSUME pc = "done", systemValid
               PROVE  PolicyCredit = {p \in DOMAIN tokens : tokens[p].source = "model"}
  BY DEF CreditIsTheModels, PolicyCredit
<1>2. PICK n : n = Len(turns)
  OBVIOUS
<1>3. EachTurnEarns(n)
  BY <1>1, <1>2, TurnsEarn
<1>4. PolicyCredit = UNION {ModelTokens(turns[i].index) : i \in 1 .. n}
  <2>1. {j \in DOMAIN turns : /\ turns[j].credit
                              /\ \/ turns[j].kind = "search"
                                 \/ Terminal # {} /\ j = Max(Terminal)} = 1 .. n
    BY <1>3 DEF EachTurnEarns
  <2> QED
    BY <1>1, <2>1 DEF PolicyCredit
<1>5. \A i \in 1 .. n : ModelTokens(turns[i].index) =
                          {p \in DOMAIN tokens : tokens[p] = Token("model", i - 1)}
  BY <1>3 DEF ModelTokens, EachTurnEarns
<1>6. UNION {ModelTokens(turns[i].index) : i \in 1 .. n} =
        {p \in DOMAIN tokens : \E i \in 1 .. n : tokens[p] = Token("model", i - 1)}
  BY <1>5
<1> QED
  BY <1>3, <1>4, <1>6 DEF EachTurnEarns

(* The search a loop without a failure of the system may end with.          *)
LEMMA FinalSearch ==
  ASSUME LoopInv, pc = "done", systemValid, searchCount = turn + 1
  PROVE  /\ Len(turns) = turn + 1
         /\ \/ /\ reason # "maximum_search_turns_reached" /\ localized
               /\ IsMalformed(turns[turn + 1], turn + 1, Asked(turns, turn + 1),
                              OwnedBy(tokens, turn))
            \/ /\ reason = "maximum_search_turns_reached"
               /\ IsOverBudget(turns[turn + 1], turn + 1, Asked(turns, turn + 1),
                               localized, OwnedBy(tokens, turn))
               /\ IsRun(OwnedBy(tokens, turn), preEnds[turn + 1], Len(tokens))
<1>1. turn \in Nat /\ turn + 1 # turn
  BY LoopConstants DEF LoopInv, ControlInv
<1>2. Len(turns) = turn + 1 /\ Final
  BY <1>1 DEF LoopInv, DoneInv, OutOfTokens
<1>3. searchCount # turn
  BY <1>1
<1>4. "maximum_search_turns_reached" # "model_generated_malformed_search"
  OBVIOUS
<1> QED
  BY <1>2, <1>3, <1>4, Zenon DEF Final

(* The novelty of a record.                                                 *)
LEMMA LoopNovelty ==
  ASSUME LoopInv
  PROVE  NoveltyMatchesHistory
<1>1. SUFFICES ASSUME pc = "done", systemValid PROVE NoveltyMatchesHistory
  BY DEF NoveltyMatchesHistory
<1>2. PICK n, m \in Nat : n = turn /\ m = searchCount
  BY <1>1, DoneShape
<1>3. m \in {n, n + 1} /\ SearchTurns = [i \in 1 .. m |-> turns[i]]
  BY <1>1, <1>2, DoneShape, DoneSearches
<1> DEFINE Told(r, asked, found) ==
             /\ r.new = r.current \ found
             /\ r.prefixValid => (r.noNew = "none" <=> r.new = {})
             /\ r.repeated <=> r.text # <<>> /\ r.text \in asked
<1>4. ASSUME NEW i \in 1 .. n PROVE Told(turns[i], Asked(turns, i), Found(turns, i))
  <2>1. IsObserved(turns[i], i, Asked(turns, i), Found(turns, i))
    BY <1>2 DEF LoopInv, ObservedInv
  <2> QED
    BY <2>1 DEF IsObserved, IsSearch
<1>5. ASSUME m = n + 1
      PROVE  Told(turns[n + 1], Asked(turns, n + 1), Found(turns, n + 1))
  <2>1. PICK r : r = turns[n + 1]
    OBVIOUS
  <2>2. IsSearch(r, n + 1, Asked(turns, n + 1)) /\ FindsNothing(r)
    BY <1>1, <1>2, <1>5, <2>1, FinalSearch DEF IsMalformed, IsOverBudget
  <2> QED
    BY <2>1, <2>2 DEF IsSearch, FindsNothing
<1>6. ASSUME NEW i \in 1 .. m PROVE Told(turns[i], Asked(turns, i), Found(turns, i))
  <2>1. i \in 1 .. n \/ (m = n + 1 /\ i = n + 1)
    BY <1>3
  <2> HIDE DEF Told
  <2> QED
    BY <1>4, <1>5, <2>1
<1>7. ASSUME NEW i \in 1 .. m
      PROVE  LET earlier == {SearchTurns[j] : j \in 1 .. i - 1}
             IN  /\ UNION {e.current : e \in earlier} = Found(turns, i)
                 /\ \A t : (\E e \in earlier : e.text = t) <=> t \in Asked(turns, i)
  <2>1. \A j \in 1 .. i - 1 : SearchTurns[j] = turns[j]
    BY <1>3
  <2>2. PICK earlier : earlier = {SearchTurns[j] : j \in 1 .. i - 1}
    OBVIOUS
  <2>3. {e.current : e \in earlier} = {turns[j].current : j \in 1 .. i - 1}
    BY <2>1, <2>2
  <2>4. \A t : (\E e \in earlier : e.text = t) <=> t \in Asked(turns, i)
    BY <2>1, <2>2 DEF Asked
  <2> QED
    BY <2>2, <2>3, <2>4 DEF Found
<1>8. ASSUME NEW i \in 1 .. m
      PROVE  LET r == SearchTurns[i]
                 earlier == {SearchTurns[j] : j \in 1 .. i - 1}
             IN  /\ r.new = r.current \ UNION {e.current : e \in earlier}
                 /\ r.prefixValid => (r.noNew = "none" <=> r.new = {})
                 /\ r.repeated <=> r.text # <<>> /\ \E e \in earlier : e.text = r.text
  <2>1. SearchTurns[i] = turns[i]
    BY <1>3
  <2>2. Told(turns[i], Asked(turns, i), Found(turns, i))
    BY <1>6
  <2>3. PICK earlier : earlier = {SearchTurns[j] : j \in 1 .. i - 1}
    OBVIOUS
  <2>4. /\ UNION {e.current : e \in earlier} = Found(turns, i)
        /\ (\E e \in earlier : e.text = turns[i].text) <=> turns[i].text \in Asked(turns, i)
    BY <1>7, <2>3
  <2> QED
    BY <2>1, <2>2, <2>3, <2>4
<1>9. DOMAIN SearchTurns = 1 .. m
  BY <1>3
<1> QED
  BY <1>8, <1>9 DEF NoveltyMatchesHistory

(* TurnRecord.validate passes each turn of a finished loop.                 *)
LEMMA EachTurnValidates ==
  ASSUME LoopInv, pc = "done", NEW i \in 1 .. Len(turns)
  PROVE  TurnValidates(turns[i])
<1>1. PICK n \in Nat : n = turn
  BY DoneShape, LoopConstants
<1>2. PICK r : r = turns[i]
  OBVIOUS
<1>3. r \in TurnRecords
  <2>1. turns \in Seq(TurnRecords)
    BY DoneShape
  <2> QED
    BY <1>2, <2>1
<1>4. /\ r.ig \in BOOLEAN /\ r.spanValid \in BOOLEAN /\ r.prefixValid \in BOOLEAN
      /\ r.different \in BOOLEAN /\ r.repeated \in BOOLEAN /\ systemValid \in BOOLEAN
  BY <1>3, DoneShape DEF TurnRecords
<1>5. i \in 1 .. n \/ (i = n + 1 /\ Len(turns) = n + 1)
  BY <1>1, DoneShape
<1>6. CASE i \in 1 .. n
  <2>1. /\ IsObserved(r, i, Asked(turns, i), Found(turns, i))
        /\ IsCredited(r, systemValid)
    BY <1>1, <1>2, <1>6 DEF LoopInv, ObservedInv
  <2>2. r.kind = "search" /\ r.search >= 0
    BY <2>1 DEF IsObserved, IsSearch
  <2>3. r.ig = (r.spanValid /\ r.prefixValid /\ systemValid) /\ (r.credit => systemValid)
    BY <1>4, <2>1 DEF IsObserved, IsCredited
  <2>4. /\ r.noNew = "some" => r.new # {}
        /\ r.noNew = "none" => r.new = {}
    BY <2>1 DEF IsObserved
  <2>5. r.different => ~ r.repeated /\ r.noNew = "none"
    BY <1>4, <2>1 DEF IsObserved
  <2> QED
    BY <1>2, <2>2, <2>3, <2>4, <2>5 DEF TurnValidates
<1>7. CASE i = n + 1 /\ Len(turns) = n + 1
  <2>1. Final
    BY <1>1, <1>7 DEF LoopInv, DoneInv, OutOfTokens
  <2>2. /\ FindsNothing(r)
        /\ r.different => ~ r.repeated /\ r.noNew = "none"
        /\ r.credit => systemValid
        /\ \/ r.kind = "search" /\ r.search = i - 1 /\ r.noNew \in {"none", "unknown"}
           \/ /\ r.kind # "search" /\ r.search = -1 /\ ~ r.spanValid
              /\ r.noNew = "unknown" /\ ~ r.repeated /\ ~ r.different
    BY <1>1, <1>2, <1>4, <1>7, <2>1
       DEF Final, IsFailed, IsMalformed, IsOverBudget, IsTerminal, IsSearch
  <2>3. /\ ~ r.prefixValid /\ ~ r.ig /\ r.current = {} /\ r.new = {}
    BY <2>2 DEF FindsNothing
  <2>4. r.ig = (r.spanValid /\ r.prefixValid /\ systemValid)
    BY <1>4, <2>3
  <2>5. r.kind = "search" => r.search >= 0
    BY <2>2
  <2> QED
    BY <1>2, <2>2, <2>3, <2>4, <2>5 DEF TurnValidates
<1> QED
  BY <1>5, <1>6, <1>7

(* The roles of a gated search, as its record is checked.                   *)
Roled(r, mine) ==
  /\ r.kind = "search" /\ RolesApart(r.spans, mine) /\ ModelTokens(r.index) = mine
  /\ r.observation \subseteq Environment(tokens)
  /\ r.observation \cap PolicyCredit = {}
  /\ r.spans.think # NoThink \/ r.branch = "n_invalid"
  /\ r.executed = (r.observation # {})
  /\ r.before \subseteq r.after /\ r.new = r.after \ r.before /\ BranchFacts(r)

(* A record with its roles passes.                                          *)
LEMMA RolesValidate ==
  ASSUME LoopInv, NEW r, NEW mine, Roled(r, mine)
  PROVE  RoleValidates(r)
<1>1. DOMAIN tokens = 1 .. Len(tokens)
  <2>1. tokens \in Seq(TokenSet)
    BY DEF LoopInv, TokenInv, TokensKnown
  <2> QED
    BY <2>1
<1>2. PICK think, decision, query :
        /\ think = r.spans.think \ NoThink /\ decision = r.spans.decision
        /\ query = r.spans.query
  OBVIOUS
<1>3. /\ r.spans.think # {} /\ decision # {} /\ think \subseteq mine
      /\ decision \subseteq mine /\ query \subseteq mine /\ think \cap decision = {}
      /\ think \cap query = {} /\ decision \cap query = {} /\ r.spans.action = mine
  BY <1>2 DEF Roled, RolesApart
<1>4. think # {} \/ r.branch = "n_invalid"
  <2>1. ASSUME r.spans.think # NoThink PROVE think # {}
    BY <1>2, <1>3, <2>1 DEF NoThink
  <2> QED
    BY <2>1 DEF Roled
<1>5. think \cup decision \cup query \subseteq r.spans.action /\ r.spans.action # {}
  BY <1>3
<1>6. \A p \in r.observation : p \in DOMAIN tokens /\ tokens[p] = Token("environment", -1)
  BY <1>1 DEF Roled, Environment
<1> QED
  BY <1>2, <1>3, <1>4, <1>5, <1>6 DEF Roled, RoleValidates

(* No token of an observation earns credit.                                 *)
LEMMA ObservationsEarnNothing ==
  ASSUME LoopInv, pc = "done"
  PROVE  Environment(tokens) \cap PolicyCredit = {}
<1>1. PolicyCredit \subseteq {p \in DOMAIN tokens : tokens[p].source = "model"}
  BY LoopCredits DEF CreditIsTheModels
<1>2. \A p \in Environment(tokens) : tokens[p].source = "environment"
  BY DEF Environment, Token
<1> QED
  BY <1>1, <1>2

(* TurnRecord.validate_role_localized_provenance passes each turn.          *)
LEMMA EachRoleValidates ==
  ASSUME LoopInv, pc = "done", NEW i \in 1 .. Len(turns),
         systemValid \/ \A j \in DOMAIN turns : ~ turns[j].executed
  PROVE  RoleValidates(turns[i])
<1>1. PICK n \in Nat : n = turn
  BY DoneShape, LoopConstants
<1>2. PICK r : r = turns[i]
  OBVIOUS
<1>3. i \in 1 .. n \/ (i = n + 1 /\ Len(turns) = n + 1)
  BY <1>1, DoneShape
<1>4. r \in TurnRecords /\ i \in DOMAIN turns
  <2>1. turns \in Seq(TurnRecords)
    BY DoneShape
  <2> QED
    BY <1>2, <2>1
<1>5. /\ r.localized \in BOOLEAN /\ r.executed \in BOOLEAN /\ r.ig \in BOOLEAN
      /\ r.credit \in BOOLEAN /\ r.main \in BOOLEAN /\ localized \in BOOLEAN
      /\ systemValid \in BOOLEAN /\ r.budget \in BOOLEAN /\ r.invalid \in BOOLEAN
  BY <1>4, DoneShape DEF TurnRecords
<1>6. SUFFICES ASSUME r.localized
               PROVE  Roled(r, OwnedBy(tokens, i - 1))
  BY <1>2, RolesValidate DEF RoleValidates
<1>7. PICK mine : mine = OwnedBy(tokens, i - 1)
  OBVIOUS
<1>8. ModelTokens(i - 1) = mine
  <2>1. tokens \in Seq(TokenSet)
    BY DEF LoopInv, TokenInv, TokensKnown
  <2> QED
    BY <1>7, <2>1 DEF ModelTokens, OwnedBy
<1>9. CASE i \in 1 .. n
  <2>1. /\ IsObserved(r, i, Asked(turns, i), Found(turns, i))
        /\ IsGated(r, localized, mine, Environment(tokens))
        /\ IsCredited(r, systemValid)
    BY <1>1, <1>2, <1>7, <1>9 DEF LoopInv, ObservedInv
  <2>2. r.executed /\ localized /\ systemValid
    BY <1>2, <1>4, <1>5, <1>6, <2>1 DEF IsGated
  <2>3. r.kind = "search" /\ ModelTokens(r.index) = mine
    BY <1>8, <2>1 DEF IsObserved, IsSearch
  <2>4. /\ Judged(r)
        /\ r.before \subseteq r.after /\ r.new = r.after \ r.before
        /\ r.observation # {} /\ r.observation \subseteq Environment(tokens)
        /\ r.spans.think # NoThink /\ RolesApart(r.spans, mine)
    BY <2>1, <2>2 DEF IsGated
  <2>5. r.observation \cap PolicyCredit = {}
    BY <2>4, ObservationsEarnNothing
  <2>6. r.executed = (r.observation # {})
    BY <1>5, <2>2, <2>4
  <2>7. r.ig /\ r.credit
    BY <1>5, <2>1, <2>2 DEF IsCredited
  <2>8. BranchFacts(r)
    <3>1. r.noNew = (IF r.new = {} THEN "none" ELSE "some")
      BY <2>1 DEF IsObserved
    <3> QED
      BY <2>2, <2>4, <2>7, <3>1 DEF BranchFacts, Judged
  <2> QED
    BY <1>7, <2>3, <2>4, <2>5, <2>6, <2>8 DEF Roled
<1>10. CASE i = n + 1 /\ Len(turns) = n + 1
  <2>1. Final /\ mine = OwnedBy(tokens, turn)
    <3>1. n + 1 - 1 = n
      OBVIOUS
    <3> QED
      BY <1>1, <1>7, <1>10, <3>1 DEF LoopInv, DoneInv, OutOfTokens
  <2>2. /\ r.index = i - 1 /\ r.kind = "search" /\ FindsNothing(r)
        /\ RolesApart(r.spans, mine) /\ r.before = r.after
        /\ \/ r.branch = "n_invalid" /\ r.invalid /\ ~ r.main
           \/ /\ r.branch = "n_budget" /\ r.budget /\ ~ r.invalid /\ ~ r.main
              /\ r.noNew = "none" /\ r.spans.think # NoThink
    BY <1>1, <1>2, <1>5, <1>6, <1>10, <2>1
       DEF Final, IsFailed, IsMalformed, IsOverBudget, IsTerminal, IsSearch
  <2>3. ModelTokens(r.index) = mine
    BY <1>8, <2>2
  <2>4. ~ r.executed /\ r.new = {} /\ r.observation = {}
    BY <2>2 DEF FindsNothing
  <2>5. r.executed = (r.observation # {})
    BY <1>5, <2>4
  <2>6. BranchFacts(r)
    BY <2>2, <2>4 DEF BranchFacts
  <2>7. r.before \subseteq r.after /\ r.new = r.after \ r.before
    BY <2>2, <2>4
  <2> QED
    BY <1>7, <2>2, <2>3, <2>4, <2>5, <2>6, <2>7 DEF Roled
<1> QED
  BY <1>3, <1>9, <1>10

(* Where a run of tokens begins and ends.                                   *)
LEMMA RunEnds ==
  ASSUME NEW S, NEW from \in Nat, NEW to \in Nat, IsRun(S, from, to)
  PROVE  S # {} /\ Min(S) = from + 1 /\ Max(S) = to
<1>1. S \in SUBSET Int /\ from + 1 \in S /\ to \in S
  BY DEF IsRun
<1>2. IsFiniteSet(S)
  <2>1. from + 1 \in Int /\ to \in Int
    OBVIOUS
  <2>2. IsFiniteSet(from + 1 .. to)
    BY <2>1, FS_Interval
  <2> QED
    BY <2>2 DEF IsRun
<1>3. /\ Min(S) \in S /\ \A y \in S : Min(S) <= y
      /\ Max(S) \in S /\ \A y \in S : Max(S) >= y
  BY <1>1, <1>2, MinOfFinite, MaxOfFinite
<1>4. Min(S) <= from + 1 /\ from + 1 <= Min(S) /\ Min(S) \in Int
  BY <1>1, <1>3 DEF IsRun
<1>5. Max(S) >= to /\ Max(S) <= to /\ Max(S) \in Int
  BY <1>1, <1>3 DEF IsRun
<1> QED
  BY <1>1, <1>4, <1>5

(* The clauses of TrajectoryRecord.validate about searches and tokens.      *)
LEMMA EndsValidate ==
  ASSUME NEW ends, NEW n \in Nat, NEW top \in Nat, EndsWithin(ends, n, top)
  PROVE  /\ DOMAIN ends = 1 .. n /\ Len(ends) = n /\ Ascending(ends)
         /\ \A i \in 1 .. n : ends[i] \in 1 .. top
<1>1. /\ ends \in Seq(Nat \ {0}) /\ Len(ends) = n /\ (\A i \in 1 .. n : ends[i] <= top)
      /\ \A i \in 1 .. n - 1 : ends[i] <= ends[i + 1]
  BY DEF EndsWithin
<1>2. DOMAIN ends = 1 .. n /\ \A i \in 1 .. n : ends[i] \in Nat \ {0}
  BY <1>1
<1> QED
  BY <1>1, <1>2 DEF Ascending

(* Every token of the model has a turn.                                     *)
LEMMA TokensValidate ==
  ASSUME LoopInv, pc = "done"
  PROVE  \A p \in DOMAIN tokens :
           IF tokens[p].source = "model"
             THEN \E i \in DOMAIN turns : turns[i].index = tokens[p].turn
             ELSE tokens[p].turn = -1
<1>1. PICK d, n \in Nat : d = Len(tokens) /\ n = Len(turns)
  <2>1. tokens \in Seq(TokenSet) /\ turns \in Seq(TurnRecords)
    BY DEF LoopInv, TokenInv, TokensKnown, ControlInv
  <2> QED
    BY <2>1
<1>2. DOMAIN tokens = 1 .. d /\ DOMAIN turns = 1 .. n
  <2>1. tokens \in Seq(TokenSet) /\ turns \in Seq(TurnRecords)
    BY DEF LoopInv, TokenInv, TokensKnown, ControlInv
  <2> QED
    BY <1>1, <2>1
<1>3. OwnerKnown(tokens, n)
  BY <1>1, DoneShape DEF LoopInv, TokenInv, TokensKnown
<1>4. \A i \in 1 .. n : turns[i].index = i - 1
  BY <1>1, DoneShape DEF Shape
<1>5. SUFFICES ASSUME NEW p \in 1 .. d
               PROVE  IF tokens[p].source = "model"
                        THEN \E i \in 1 .. n : turns[i].index = tokens[p].turn
                        ELSE tokens[p].turn = -1
  BY <1>2
<1>6. \/ tokens[p] \in {Token("prompt", -1), Token("environment", -1)}
      \/ \E k \in 0 .. n - 1 : tokens[p] = Token("model", k)
  BY <1>1, <1>3 DEF OwnerKnown
<1>7. CASE tokens[p] \in {Token("prompt", -1), Token("environment", -1)}
  BY <1>7 DEF Token
<1>8. CASE \E k \in 0 .. n - 1 : tokens[p] = Token("model", k)
  <2>1. PICK k \in 0 .. n - 1 : tokens[p] = Token("model", k)
    BY <1>8
  <2>2. tokens[p].source = "model" /\ tokens[p].turn = k
    BY <2>1 DEF Token
  <2>3. k + 1 \in 1 .. n /\ turns[k + 1].index = k
    BY <1>4
  <2> QED
    BY <2>2, <2>3
<1> QED
  BY <1>6, <1>7, <1>8

(* Searches are numbered, begin where their prefix ends, and fail last.     *)
LEMMA SearchesValidate ==
  ASSUME LoopInv, pc = "done"
  PROVE  /\ \A i \in DOMAIN SearchTurns : SearchTurns[i].search = i - 1
         /\ \A i \in DOMAIN SearchTurns :
              LET mine == ModelTokens(SearchTurns[i].index)
              IN  preEnds[i] > 0 /\ mine # {} /\ Min(mine) = preEnds[i] + 1
         /\ \A i, j \in DOMAIN SearchTurns :
              i < j /\ SearchTurns[j].prefixValid => SearchTurns[i].prefixValid
<1>1. PICK n, m \in Nat : n = turn /\ m = searchCount
  BY DoneShape
<1>2. /\ m \in {n, n + 1} /\ DOMAIN SearchTurns = 1 .. m
      /\ \A i \in 1 .. m : SearchTurns[i] = turns[i]
  BY <1>1, DoneShape, DoneSearches
<1>3. \A i \in 1 .. m : i \in 1 .. Len(turns)
  <2>1. PICK l \in Nat : l = Len(turns)
    BY DoneShape
  <2>2. m <= l
    BY <1>1, <2>1, DoneShape
  <2> QED
    BY <2>1, <2>2
<1>4. \A i \in 1 .. m : turns[i].index = i - 1 /\ turns[i].search = i - 1
  BY <1>1, <1>3, DoneShape DEF Shape
<1>5. ASSUME NEW i \in 1 .. m
      PROVE  LET mine == ModelTokens(i - 1)
             IN  preEnds[i] > 0 /\ mine # {} /\ Min(mine) = preEnds[i] + 1
  <2>1. PICK d \in Nat : d = Len(tokens) /\ DOMAIN tokens = 1 .. d
    <3>1. tokens \in Seq(TokenSet)
      BY DEF LoopInv, TokenInv, TokensKnown
    <3> QED
      BY <3>1
  <2>2. PICK mine : mine = ModelTokens(i - 1)
    OBVIOUS
  <2>3. mine = OwnedBy(tokens, i - 1)
    BY <2>1, <2>2 DEF ModelTokens, OwnedBy
  <2>4. PICK to \in 1 .. d : IsRun(mine, preEnds[i], to)
    BY <1>1, <2>1, <2>3 DEF LoopInv, TokenInv, SearchRuns
  <2>5. EndsWithin(preEnds, m, d)
    BY <1>1, <2>1 DEF LoopInv, TokenInv
  <2>6. preEnds[i] \in 1 .. d
    BY <2>5, EndsValidate
  <2>7. preEnds[i] \in Nat /\ to \in Nat /\ preEnds[i] > 0
    BY <2>6
  <2>8. mine # {} /\ Min(mine) = preEnds[i] + 1
    BY <2>4, <2>7, RunEnds
  <2> QED
    BY <2>2, <2>7, <2>8
<1>6. \A i \in 1 .. n : turns[i].prefixValid
  BY <1>1, DoneShape
<1>7. \A i, j \in 1 .. m : i < j => i \in 1 .. n
  BY <1>2
<1> QED
  BY <1>2, <1>4, <1>5, <1>6, <1>7

(* Only a last turn exceeds the budget.                                     *)
LEMMA BudgetValidates ==
  ASSUME LoopInv, pc = "done", reason = "maximum_search_turns_reached"
  PROVE  /\ SearchTurns # <<>>
         /\ {i \in DOMAIN turns : BudgetTerminal(i)} = {Len(turns)}
<1>1. PICK n, d \in Nat : n = turn /\ d = Len(tokens) /\ DOMAIN tokens = 1 .. d
  <2>1. tokens \in Seq(TokenSet)
    BY DEF LoopInv, TokenInv, TokensKnown
  <2> QED
    BY <2>1, DoneShape, LoopConstants
<1>2. /\ systemValid /\ turns \in Seq(TurnRecords)
  BY DoneShape
<1>3. Final
  <2>1. ~ OutOfTokens
    BY DEF OutOfTokens
  <2> QED
    BY <2>1 DEF LoopInv, DoneInv
<1>4. searchCount = n + 1
  <2>1. /\ "maximum_search_turns_reached" # "model_answer"
        /\ "maximum_search_turns_reached" # "model_generated_malformed_fallback"
    OBVIOUS
  <2> QED
    BY <1>1, <1>3, <2>1 DEF Final
<1>5. PICK r : r = turns[n + 1]
  OBVIOUS
<1>6. PICK mine : mine = OwnedBy(tokens, n)
  OBVIOUS
<1>7. /\ Len(turns) = n + 1
      /\ IsOverBudget(r, n + 1, Asked(turns, n + 1), localized, mine)
      /\ IsRun(mine, preEnds[n + 1], d)
  BY <1>1, <1>2, <1>4, <1>5, <1>6, FinalSearch
<1>8. /\ r.index = n /\ r.kind = "search" /\ r.search = n
      /\ r.spanValid /\ r.credit /\ r.noNew = "none"
      /\ ~ r.prefixValid /\ ~ r.ig /\ r.current = {} /\ r.new = {}
  <2>1. n + 1 - 1 = n
    OBVIOUS
  <2> QED
    BY <1>7, <2>1 DEF IsOverBudget, IsSearch, FindsNothing
<1>9. ModelTokens(r.index) = mine
  BY <1>1, <1>6, <1>8 DEF ModelTokens, OwnedBy
<1>10. EndsWithin(preEnds, n + 1, d) /\ EndsWithin(prefixEnds, n + 1, d)
  BY <1>1, <1>4 DEF LoopInv, TokenInv
<1>11. preEnds[n + 1] \in Nat
  <2>1. n + 1 \in 1 .. n + 1 /\ n + 1 \in Nat
    OBVIOUS
  <2>2. preEnds[n + 1] \in 1 .. d
    BY <1>10, <2>1, EndsValidate
  <2> QED
    BY <2>2
<1>12. mine # {} /\ Min(mine) = preEnds[n + 1] + 1 /\ Max(mine) = d
  BY <1>7, <1>11, RunEnds
<1>13. r.search + 2 > Len(prefixEnds)
  BY <1>8, <1>10 DEF EndsWithin
<1>14. BudgetTerminal(n + 1)
  BY <1>1, <1>5, <1>7, <1>8, <1>9, <1>12, <1>13 DEF BudgetTerminal
<1>15. \A i : BudgetTerminal(i) => i = n + 1
  BY <1>7 DEF BudgetTerminal
<1>16. n + 1 \in DOMAIN turns
  BY <1>2, <1>7
<1>17. SearchTurns # <<>>
  <2>1. DOMAIN SearchTurns = 1 .. n + 1 /\ 1 \in 1 .. n + 1
    BY <1>4, DoneSearches
  <2> QED
    BY <2>1, EmptyDomain
<1> QED
  BY <1>7, <1>14, <1>15, <1>16, <1>17

(* The record of a loop the system did not break passes validation.         *)
LEMMA LoopValidates ==
  ASSUME LoopInv
  PROVE  OtherRecordsValidate
<1>1. SUFFICES ASSUME pc = "done",
                      systemValid \/ \A i \in DOMAIN turns : ~ turns[i].executed
               PROVE  RecordValidates
  BY DEF OtherRecordsValidate
<1>2. PICK n, m, l \in Nat : n = turn /\ m = searchCount /\ l = Len(turns)
  BY <1>1, DoneShape
<1>3. PICK d \in Nat : d = Len(tokens)
  <2>1. tokens \in Seq(TokenSet)
    BY DEF LoopInv, TokenInv, TokensKnown
  <2> QED
    BY <2>1
<1>4. DOMAIN turns = 1 .. l
  <2>1. turns \in Seq(TurnRecords)
    BY <1>1, DoneShape
  <2> QED
    BY <1>2, <2>1
<1>5. \A i \in 1 .. l : turns[i].index = i - 1
  BY <1>1, <1>2, DoneShape DEF Shape
<1>6. \A i, j \in DOMAIN turns : i < j => turns[i].index < turns[j].index
  BY <1>4, <1>5
<1>7. \A i \in DOMAIN turns : TurnValidates(turns[i]) /\ RoleValidates(turns[i])
  BY <1>1, <1>2, <1>4, EachTurnValidates, EachRoleValidates
<1>8. /\ prefixEnds # <<>> /\ Ascending(prefixEnds)
      /\ \A i \in DOMAIN prefixEnds : prefixEnds[i] \in 1 .. Len(tokens)
  <2>1. EndsWithin(prefixEnds, n + 1, d)
    BY <1>2, <1>3 DEF LoopInv, TokenInv
  <2>2. n + 1 \in Nat /\ 1 \in 1 .. n + 1
    OBVIOUS
  <2>3. /\ DOMAIN prefixEnds = 1 .. n + 1 /\ Ascending(prefixEnds)
        /\ \A i \in 1 .. n + 1 : prefixEnds[i] \in 1 .. d
    BY <2>1, <2>2, EndsValidate
  <2> QED
    BY <1>3, <2>2, <2>3, EmptyDomain
<1>9. Len(preEnds) = Len(SearchTurns) /\ Ascending(preEnds)
  <2>1. EndsWithin(preEnds, m, d)
    BY <1>2, <1>3 DEF LoopInv, TokenInv
  <2> QED
    BY <1>1, <1>2, <2>1, EndsValidate, DoneSearches
<1> QED
  BY <1>1, <1>6, <1>7, <1>8, <1>9, TokensValidate, SearchesValidate, BudgetValidates
     DEF RecordValidates
-----------------------------------------------------------------------------
(* What run() promises, for any actions and documents                       *)

(* Types, and the budgets of run(): the response never grows beyond         *)
(* response_length, whatever is sampled or inserted, and no more searches   *)
(* are counted than the budget and the one that exceeds it.                 *)
THEOREM LoopTypeCorrect == Spec => []TypeOK
BY LoopInvariant, LoopTypes, PTL

(* TrajectoryRecord.validate and the checks of the turns pass the record of *)
(* any finished loop, but for a failure of the system after a search of a   *)
(* gated trajectory was observed.                                           *)
THEOREM RecordsPassValidation == Spec => []OtherRecordsValidate
BY LoopInvariant, LoopValidates, PTL

(* A finished loop has a reason, the outcome scorer parses an answer        *)
(* exactly when that reason is an answer, and no more searches were         *)
(* observed than the budget allows.                                         *)
THEOREM EndsAreExplained == Spec => []EndIsExplained
BY LoopInvariant, LoopExplains, PTL

(* policy_credit_mask covers the tokens the model sampled and no other; a   *)
(* failure of the system leaves none.                                       *)
THEOREM CreditGoesToTheModel == Spec => []CreditIsTheModels
BY LoopInvariant, LoopCredits, PTL

(* The novelty and repetition flags of every search agree with the searches *)
(* before it: compute_and_commit_passage_novelty and the seen queries lose  *)
(* nothing and count nothing twice.                                         *)
THEOREM NoveltyIsTrue == Spec => []NoveltyMatchesHistory
BY LoopInvariant, LoopNovelty, PTL

(* The model's text makes run() raise in the listed cases alone.            *)
THEOREM AbortsAreExplained == Spec => []AbortsOnlyOnNesting
BY LoopInvariant, LoopAborts, PTL
-----------------------------------------------------------------------------
(* From a finished trajectory to its credit                                 *)

(* The trajectories that selection lets through.                            *)
Scorable == LoopInv /\ pc = "done" /\ systemValid

Exhausted == reason = "maximum_search_turns_reached"

(* A search that was observed, and the one that ends a loop unanswered.     *)
WasObserved(r) ==
  /\ r.ig /\ r.prefixValid /\ r.executed = localized
  /\ r.noNew = (IF r.new = {} THEN "none" ELSE "some")
  /\ localized => Judged(r) /\ r.spans.query # {}
WasRefused(r) ==
  /\ ~ r.ig /\ ~ r.prefixValid /\ ~ r.executed
  /\ \/ /\ Exhausted /\ r.noNew = "none"
        /\ localized => r.budget /\ r.branch = "n_budget" /\ ~ r.main
     \/ /\ ~ Exhausted /\ localized
        /\ ~ r.budget /\ r.invalid /\ r.branch = "n_invalid" /\ ~ r.main

(* What the credit of a search depends on.                                  *)
Scored(i) ==
  LET r == turns[i]
  IN  /\ r \in TurnRecords
      /\ r.kind = "search" /\ r.credit /\ r.index = i - 1 /\ r.localized = localized
      /\ i \in 1 .. turn => WasObserved(r) /\ ~ OverBudget(i)
      /\ i \notin 1 .. turn => WasRefused(r) /\ i = turn + 1 /\ (OverBudget(i) <=> Exhausted)
      /\ localized => RolesApart(r.spans, OwnedBy(tokens, i - 1))
      /\ localized => r.observation \subseteq Environment(tokens)

(* The searches are the first turns, and all but perhaps the last have a    *)
(* gain.                                                                    *)
LEMMA ScoredSearches ==
  ASSUME Scorable
  PROVE  /\ turn \in Nat /\ turn <= MaxSearchTurns /\ searchCount \in {turn, turn + 1}
         /\ All = 1 .. searchCount /\ LastSearch = searchCount
         /\ searchCount \in Nat /\ 1 .. searchCount \subseteq DOMAIN turns
<1>1. /\ turn \in 0 .. MaxSearchTurns /\ searchCount \in {turn, turn + 1}
      /\ searchCount <= Len(turns) /\ turns \in Seq(TurnRecords)
      /\ \A i \in 1 .. Len(turns) : Shape(turns[i], i, searchCount, systemValid)
  BY DoneShape DEF Scorable
<1>2. PICK n, m \in Nat : n = Len(turns) /\ m = searchCount /\ m <= n
  BY <1>1
<1>3. DOMAIN turns = 1 .. n
  BY <1>1, <1>2
<1>4. All = 1 .. m
  BY <1>1, <1>2, <1>3 DEF All, Shape
<1>5. Cardinality(1 .. m) = m
  BY FS_Interval
<1> QED
  BY <1>1, <1>2, <1>3, <1>4, <1>5, LoopConstants DEF LastSearch

(* The budget-exhausted terminal search is the last one.                    *)
LEMMA OverBudgetSearch ==
  ASSUME Scorable, NEW i
  PROVE  OverBudget(i) <=> Exhausted /\ i = turn + 1
<1>1. LastSearch = searchCount
  BY ScoredSearches
<1>2. CASE Exhausted
  <2>1. {j \in DOMAIN turns : BudgetTerminal(j)} = {Len(turns)}
    BY <1>2, BudgetValidates DEF Scorable, Exhausted
  <2>2. BudgetTerminal(Len(turns))
    BY <2>1
  <2>3. ~ OutOfTokens
    BY <1>2 DEF OutOfTokens, Exhausted
  <2>4. Final
    BY <2>3 DEF Scorable, LoopInv, DoneInv
  <2>5. searchCount = turn + 1
    BY <1>2, <2>4 DEF Final, Exhausted
  <2> QED
    BY <1>1, <1>2, <2>2, <2>5 DEF OverBudget, Exhausted
<1>3. CASE ~ Exhausted
  BY <1>3 DEF OverBudget, Exhausted
<1> QED
  BY <1>2, <1>3

(* What is known of each search.                                            *)
LEMMA ScoredTurns ==
  ASSUME Scorable, NEW i \in 1 .. searchCount
  PROVE  Scored(i)
<1>1. PICK k, n \in Nat : k = turn /\ n = searchCount
  BY ScoredSearches
<1>2. n \in {k, k + 1} /\ i \in DOMAIN turns
  BY <1>1, ScoredSearches
<1>3. PICK r : r = turns[i]
  OBVIOUS
<1>4. r \in TurnRecords /\ localized \in BOOLEAN
  <2>1. turns \in Seq(TurnRecords) /\ localized \in BOOLEAN
    BY DoneShape DEF Scorable
  <2> QED
    BY <1>2, <1>3, <2>1
<1>5. /\ r.executed \in BOOLEAN /\ r.localized \in BOOLEAN /\ r.ig \in BOOLEAN
      /\ r.credit \in BOOLEAN
  BY <1>4 DEF TurnRecords
<1>6. CASE i \in 1 .. k
  <2>1. /\ IsObserved(r, i, Asked(turns, i), Found(turns, i))
        /\ IsGated(r, localized, OwnedBy(tokens, i - 1), Environment(tokens))
        /\ IsCredited(r, systemValid)
    BY <1>1, <1>3, <1>6 DEF Scorable, LoopInv, ObservedInv
  <2>2. r.ig /\ r.credit
    BY <1>5, <2>1 DEF Scorable, IsCredited
  <2>3. WasObserved(r)
    BY <2>1, <2>2 DEF WasObserved, IsObserved, IsGated
  <2>4. ~ OverBudget(i)
    BY <1>1, <1>6, OverBudgetSearch
  <2>5. r.kind = "search" /\ r.index = i - 1 /\ r.localized = localized
    BY <2>1 DEF IsObserved, IsSearch, IsGated
  <2>6. localized => /\ RolesApart(r.spans, OwnedBy(tokens, i - 1))
                     /\ r.observation \subseteq Environment(tokens)
    BY <2>1 DEF IsGated
  <2> QED
    BY <1>1, <1>3, <1>4, <1>6, <2>2, <2>3, <2>4, <2>5, <2>6 DEF Scored
<1>7. CASE i \notin 1 .. k
  <2>1. i = k + 1 /\ n = k + 1
    BY <1>1, <1>2, <1>7
  <2>2. /\ OwnedBy(tokens, i - 1) = OwnedBy(tokens, turn)
        /\ i = turn + 1 /\ searchCount = turn + 1
    BY <1>1, <2>1
  <2>3. \/ /\ ~ Exhausted /\ localized
           /\ IsMalformed(r, i, Asked(turns, i), OwnedBy(tokens, i - 1))
        \/ /\ Exhausted
           /\ IsOverBudget(r, i, Asked(turns, i), localized, OwnedBy(tokens, i - 1))
    BY <1>3, <2>2, FinalSearch DEF Scorable, Exhausted
  <2>4. /\ r.kind = "search" /\ r.index = i - 1 /\ FindsNothing(r) /\ r.credit
        /\ r.localized = localized
    BY <1>4, <1>5, <2>3 DEF IsMalformed, IsOverBudget, IsSearch
  <2>5. WasRefused(r)
    BY <2>3, <2>4 DEF IsMalformed, IsOverBudget, WasRefused, FindsNothing
  <2>6. OverBudget(i) <=> Exhausted
    BY <2>2, OverBudgetSearch
  <2>7. localized => RolesApart(r.spans, OwnedBy(tokens, i - 1))
    BY <2>3 DEF IsMalformed, IsOverBudget
  <2>8. r.observation \subseteq Environment(tokens)
    BY <2>4 DEF FindsNothing
  <2> QED
    BY <1>1, <1>3, <1>4, <1>7, <2>2, <2>4, <2>5, <2>6, <2>7, <2>8 DEF Scored
<1> QED
  BY <1>6, <1>7

(* Those that have a gain.                                                  *)
LEMMA GainedSearches ==
  ASSUME Scorable
  PROVE  IgSearches = 1 .. turn /\ CreditInputValidates
<1>1. PICK k, n \in Nat : k = turn /\ n = searchCount /\ n \in {k, k + 1} /\ All = 1 .. n
  BY ScoredSearches
<1>2. \A i \in 1 .. n : turns[i].ig <=> i \in 1 .. k
  BY <1>1, ScoredTurns DEF Scored, WasObserved, WasRefused
<1>3. IgSearches = 1 .. k
  BY <1>1, <1>2 DEF IgSearches
<1>4. \A i \in 1 .. k : 1 .. i \subseteq 1 .. k
  OBVIOUS
<1> QED
  BY <1>1, <1>3, <1>4 DEF CreditInputValidates

(* No plan of probes is refused: the record passes, and a prefix has room   *)
(* for its probe.                                                           *)
LEMMA PlansAccept ==
  ASSUME Scorable
  PROVE  /\ ~ PlanRefuses /\ DOMAIN prefixEnds = 1 .. turn + 1
         /\ \A i \in 1 .. turn + 1 : ProbeFits(prefixEnds[i])
<1>1. PICK k, n \in Nat : k = turn /\ n = searchCount /\ All = 1 .. n
  BY ScoredSearches
<1>2. PICK d \in Nat : d = Len(tokens) /\ d <= PromptLength + ResponseLength
  BY LoopConstants DEF Scorable, LoopInv, TokenInv, TokensKnown
<1>3. ASSUME NEW e \in 1 .. d PROVE ProbeFits(e)
  <2>1. PromptLength \in Nat /\ ResponseLength \in Nat /\ ProbeLength \in Nat
        /\ ModelLength \in Nat /\ PromptLength + ResponseLength + ProbeLength <= ModelLength
    BY LoopConstants, CreditConstants
  <2> QED
    BY <1>2, <2>1 DEF ProbeFits
<1>4. EndsWithin(preEnds, n, d) /\ EndsWithin(prefixEnds, k + 1, d)
  BY <1>1, <1>2 DEF Scorable, LoopInv, TokenInv
<1>5. \A i \in 1 .. n : preEnds[i] \in 1 .. d
  BY <1>4, EndsValidate
<1>6. DOMAIN prefixEnds = 1 .. k + 1 /\ \A i \in 1 .. k + 1 : prefixEnds[i] \in 1 .. d
  BY <1>4, EndsValidate
<1>7. RecordValidates
  BY LoopValidates DEF Scorable, OtherRecordsValidate
<1> QED
  BY <1>1, <1>3, <1>5, <1>6, <1>7 DEF PlanRefuses

(* What a probe makes of the branch of a gated search.                      *)
LEMMA BranchJudged ==
  ASSUME Scorable, localized, NEW i \in 1 .. searchCount, NEW s \in BOOLEAN
  PROVE  LET r == turns[i]
         IN  BranchAfter(r, s) =
               IF i \in 1 .. turn
                 THEN IF s THEN "s_before" ELSE IF r.new = {} THEN "n_soft" ELSE "normal"
                 ELSE IF Exhausted THEN "n_budget" ELSE "n_invalid"
<1>1. PICK r : r = turns[i]
  OBVIOUS
<1>2. Scored(i)
  BY ScoredTurns
<1>3. CASE i \in 1 .. turn
  <2>1. /\ r.executed = TRUE /\ ~ r.budget /\ ~ r.invalid
        /\ r.noNew = (IF r.new = {} THEN "none" ELSE "some")
    BY <1>1, <1>2, <1>3 DEF Scored, WasObserved, Judged
  <2> QED
    BY <1>1, <1>3, <2>1 DEF BranchAfter, Branch
<1>4. CASE i \notin 1 .. turn
  <2>1. \/ Exhausted /\ r.budget
        \/ ~ Exhausted /\ ~ r.budget /\ r.invalid
    BY <1>1, <1>2, <1>4 DEF Scored, WasRefused
  <2> QED
    BY <1>1, <1>4, <2>1 DEF BranchAfter, Branch
<1> QED
  BY <1>3, <1>4

(* A record of which a probe changes the branch alone.                      *)
SameRecord(r, q) ==
  /\ q \in TurnRecords
  /\ q.index = r.index /\ q.kind = r.kind /\ q.search = r.search /\ q.text = r.text
  /\ q.spanValid = r.spanValid /\ q.prefixValid = r.prefixValid /\ q.ig = r.ig
  /\ q.credit = r.credit /\ q.noNew = r.noNew /\ q.repeated = r.repeated
  /\ q.different = r.different /\ q.current = r.current /\ q.new = r.new
  /\ q.localized = r.localized /\ q.executed = r.executed /\ q.budget = r.budget
  /\ q.invalid = r.invalid /\ q.before = r.before /\ q.after = r.after
  /\ q.spans = r.spans /\ q.observation = r.observation
(* The record of a reclassified turn.                                       *)
LEMMA ReclassifiedRecord ==
  ASSUME NEW r \in TurnRecords, NEW s, BranchAfter(r, s) \in Branches \/ ~ r.localized
  PROVE  LET q == Reclassified(r, s)
         IN  /\ SameRecord(r, q)
             /\ r.localized => /\ q.branch = BranchAfter(r, s)
                               /\ q.main = (BranchAfter(r, s) \in MainBranches)
             /\ ~ r.localized => q = r
<1>1. PICK q, b : q = Reclassified(r, s) /\ b = BranchAfter(r, s)
  OBVIOUS
<1>2. CASE ~ r.localized
  <2>1. q = r
    BY <1>1, <1>2 DEF Reclassified
  <2> QED
    BY <1>1, <1>2, <2>1 DEF SameRecord
<1>3. CASE r.localized
  <2>1. PICK main \in BOOLEAN : main = (b \in MainBranches)
    <3>1. (b \in MainBranches) \in BOOLEAN
      OBVIOUS
    <3> QED
      BY <3>1, Zenon
  <2>2. q = [r EXCEPT !.branch = b, !.main = main]
    BY <1>1, <1>3, <2>1 DEF Reclassified, MainBranches
  <2>3. b \in Branches
    BY <1>1, <1>3
  <2>4. q \in TurnRecords
    BY <2>2, <2>3 DEF TurnRecords
  <2>5. q.branch = b /\ q.main = main
    BY <2>2 DEF TurnRecords
  <2>6. SameRecord(r, q)
    BY <2>2, <2>4 DEF SameRecord, TurnRecords
  <2> QED
    BY <1>1, <1>3, <2>1, <2>5, <2>6, Zenon
<1> QED
  BY <1>2, <1>3

(* Each of them stays what it was.                                          *)
LEMMA SameRecordKeeps ==
  ASSUME NEW r, NEW q, SameRecord(r, q), NEW i, NEW asked, NEW found, NEW mine, NEW env,
         NEW loc, NEW valid
  PROVE  /\ IsObserved(r, i, asked, found) => IsObserved(q, i, asked, found)
         /\ IsCredited(r, valid) => IsCredited(q, valid)
         /\ IsGated(r, loc, mine, env) /\ (loc => Judged(q)) => IsGated(q, loc, mine, env)
         /\ IsMalformed(r, i, asked, mine) /\ q.branch = "n_invalid" /\ ~ q.main
              => IsMalformed(q, i, asked, mine)
         /\ IsOverBudget(r, i, asked, loc, mine)
              /\ (loc => q.branch = "n_budget" /\ ~ q.main)
              => IsOverBudget(q, i, asked, loc, mine)
<1>1. IsObserved(r, i, asked, found) => IsObserved(q, i, asked, found)
  BY DEF SameRecord, IsObserved, IsSearch
<1>2. IsCredited(r, valid) => IsCredited(q, valid)
  BY DEF SameRecord, IsCredited
<1>3. IsGated(r, loc, mine, env) /\ (loc => Judged(q)) => IsGated(q, loc, mine, env)
  BY DEF SameRecord, IsGated
<1>4. FindsNothing(r) => FindsNothing(q)
  BY DEF SameRecord, FindsNothing
<1>5. IsSearch(r, i, asked) => IsSearch(q, i, asked)
  BY DEF SameRecord, IsSearch
<1>6. IsMalformed(r, i, asked, mine) /\ q.branch = "n_invalid" /\ ~ q.main
        => IsMalformed(q, i, asked, mine)
  BY <1>4, <1>5 DEF SameRecord, IsMalformed
<1>7. IsOverBudget(r, i, asked, loc, mine) /\ (loc => q.branch = "n_budget" /\ ~ q.main)
        => IsOverBudget(q, i, asked, loc, mine)
  BY <1>4, <1>5 DEF SameRecord, IsOverBudget
<1> QED
  BY <1>1, <1>2, <1>3, <1>6, <1>7

(* The answers of the probes before each search.                            *)
AnsweredBefore(b, n) ==
  /\ DOMAIN b = 1 .. n
  /\ \A i \in 1 .. n : b[i].sufficient \in BOOLEAN /\ b[i].reward \in Int
Rejudged(ts, b, n) ==
  \A i \in 1 .. n : /\ ts[i].branch = BranchAfter(ts[i], b[i].sufficient)
                    /\ ts[i].main <=> ts[i].branch \in MainBranches

(* The answers of the probes of a set of searches.                          *)
LEMMA AnswersTyped ==
  ASSUME NEW S, NEW b \in [S -> Probes]
  PROVE  /\ DOMAIN b = S
         /\ \A i \in S : b[i].sufficient \in BOOLEAN /\ b[i].reward \in Int
<1>1. \A p \in Probes : p.sufficient \in BOOLEAN /\ p.reward \in Int
  BY CreditConstants
<1> QED
  BY <1>1

(* The probes before each search: every gated turn is classified again.     *)
LEMMA ReclassifiedTurns ==
  ASSUME Scorable, PreProbe
  PROVE  /\ turns' \in Seq(TurnRecords) /\ Len(turns') = Len(turns)
         /\ AnsweredBefore(before', searchCount)
         /\ \A i \in 1 .. Len(turns) :
              /\ SameRecord(turns[i], turns'[i])
              /\ i \in 1 .. searchCount =>
                   LET s == before'[i].sufficient
                   IN  /\ s \in BOOLEAN
                       /\ localized => /\ turns'[i].branch = BranchAfter(turns[i], s)
                                       /\ turns'[i].main =
                                            (BranchAfter(turns[i], s) \in MainBranches)
                       /\ ~ localized => turns'[i] = turns[i]
              /\ i \notin 1 .. searchCount => turns'[i] = turns[i]
<1>1. PICK n, m \in Nat : n = searchCount /\ m = Len(turns)
  BY ScoredSearches, DoneShape DEF Scorable
<1>2. turns \in Seq(TurnRecords) /\ All = 1 .. n /\ 1 .. n \subseteq 1 .. m
      /\ localized \in BOOLEAN
  <2>1. turns \in Seq(TurnRecords) /\ localized \in BOOLEAN
    BY DoneShape DEF Scorable
  <2>2. DOMAIN turns = 1 .. m
    BY <1>1, <2>1
  <2> QED
    BY <1>1, <2>1, <2>2, ScoredSearches
<1>3. before' \in [1 .. n -> Probes]
  BY <1>2 DEF PreProbe, Answered
<1>4. DOMAIN before' = 1 .. n
      /\ \A i \in 1 .. n : before'[i].sufficient \in BOOLEAN /\ before'[i].reward \in Int
  BY <1>3, AnswersTyped
<1>5. turns' = [i \in 1 .. m |-> IF i \in 1 .. n
                                   THEN Reclassified(turns[i], before'[i].sufficient)
                                   ELSE turns[i]]
  BY <1>1, <1>2 DEF PreProbe
<1>6. ASSUME NEW i \in 1 .. n
      PROVE  LET s == before'[i].sufficient
             IN  /\ SameRecord(turns[i], turns'[i])
                 /\ localized => /\ turns'[i].branch = BranchAfter(turns[i], s)
                                 /\ turns'[i].main =
                                      (BranchAfter(turns[i], s) \in MainBranches)
                 /\ ~ localized => turns'[i] = turns[i]
  <2>1. PICK r, s, q : r = turns[i] /\ s = before'[i].sufficient /\ q = turns'[i]
    OBVIOUS
  <2>2. q = Reclassified(r, s) /\ s \in BOOLEAN
    BY <1>2, <1>4, <1>5, <2>1
  <2>3. r \in TurnRecords /\ r.localized = localized
    BY <1>1, <2>1, ScoredTurns DEF Scored
  <2>4. localized => BranchAfter(r, s) \in Branches
    BY <1>1, <2>1, <2>2, BranchJudged DEF Branches
  <2>5. BranchAfter(r, s) \in Branches \/ ~ r.localized
    BY <2>3, <2>4
  <2>6. /\ SameRecord(r, q)
        /\ r.localized => /\ q.branch = BranchAfter(r, s)
                          /\ q.main = (BranchAfter(r, s) \in MainBranches)
        /\ ~ r.localized => q = r
    BY <2>2, <2>3, <2>5, ReclassifiedRecord, Zenon
  <2> QED
    BY <2>1, <2>3, <2>6, Zenon
<1>7. ASSUME NEW i \in 1 .. m, i \notin 1 .. n
      PROVE  turns'[i] = turns[i] /\ SameRecord(turns[i], turns'[i])
  <2>1. turns'[i] = turns[i]
    BY <1>5, <1>7
  <2>2. turns[i] \in TurnRecords
    BY <1>1, <1>2
  <2> QED
    BY <2>1, <2>2 DEF SameRecord
<1>8. \A i \in 1 .. m : turns'[i] \in TurnRecords
  BY <1>6, <1>7 DEF SameRecord
<1>9. turns' \in Seq(TurnRecords) /\ Len(turns') = m
  BY <1>5, <1>8
<1> QED
  BY <1>1, <1>4, <1>6, <1>7, <1>9 DEF AnsweredBefore

(* The record passes again after a step that keeps the invariant.           *)
LEMMA ValidatesNext == LoopInv' => OtherRecordsValidate'
<1>1. LoopInv => OtherRecordsValidate
  BY LoopValidates
<1> QED
  BY <1>1, PTL

(* The probes before each search keep the invariant of the loop.            *)
LEMMA PreProbeKeepsLoop ==
  ASSUME Scorable, PreProbe
  PROVE  Scorable' /\ RecordValidates'
<1>0. /\ UNCHANGED <<localized, pc, turn, tokens, actions, prefixEnds, preEnds, action,
                     searchCount, seenQueries, seenPassages, reason, systemValid>>
      /\ pc = "done" /\ systemValid
  BY DEF PreProbe, seen, Scorable
<1>1. PICK k, n, m \in Nat : k = turn /\ n = searchCount /\ m = Len(turns)
                            /\ n \in {k, k + 1} /\ n <= m
  BY ScoredSearches, DoneShape DEF Scorable
<1>2. /\ turns' \in Seq(TurnRecords) /\ Len(turns') = m
      /\ AnsweredBefore(before', n)
      /\ \A i \in 1 .. m :
           /\ SameRecord(turns[i], turns'[i])
           /\ i \in 1 .. n =>
                LET s == before'[i].sufficient
                IN  /\ s \in BOOLEAN
                    /\ localized => /\ turns'[i].branch = BranchAfter(turns[i], s)
                                    /\ turns'[i].main =
                                         (BranchAfter(turns[i], s) \in MainBranches)
                    /\ ~ localized => turns'[i] = turns[i]
           /\ i \notin 1 .. n => turns'[i] = turns[i]
  BY <1>1, ReclassifiedTurns
<1>3. \A i \in 1 .. n : i \in 1 .. m
  BY <1>1
<1>4. ASSUME NEW i \in 1 .. k + 1
      PROVE  Asked(turns', i) = Asked(turns, i) /\ Found(turns', i) = Found(turns, i)
  <2>1. \A j \in 1 .. i - 1 : j \in 1 .. n
    BY <1>1
  <2>2. \A j \in 1 .. i - 1 : turns'[j].text = turns[j].text
                              /\ turns'[j].current = turns[j].current
    BY <1>2, <1>3, <2>1 DEF SameRecord
  <2> QED
    BY <2>2 DEF Asked, Found
<1>5. ASSUME localized, NEW i \in 1 .. n
      PROVE  /\ i \in 1 .. k => Judged(turns'[i])
             /\ i \notin 1 .. k =>
                  turns'[i].branch = (IF Exhausted THEN "n_budget" ELSE "n_invalid")
                  /\ ~ turns'[i].main
  <2>0. PICK s \in BOOLEAN : s = before'[i].sufficient
    BY <1>2, <1>3
  <2>1. PICK r, q, b : r = turns[i] /\ q = turns'[i] /\ b = BranchAfter(r, s)
    OBVIOUS
  <2>2. q.branch = b /\ q.main = (b \in MainBranches) /\ SameRecord(r, q)
    BY <1>2, <1>3, <1>5, <2>0, <2>1
  <2>3. b = IF i \in 1 .. k
              THEN IF s THEN "s_before" ELSE IF r.new = {} THEN "n_soft" ELSE "normal"
              ELSE IF Exhausted THEN "n_budget" ELSE "n_invalid"
    BY <1>1, <1>5, <2>0, <2>1, BranchJudged
  <2>4. CASE i \in 1 .. k
    <3>1. WasObserved(r)
      BY <1>1, <2>1, <2>4, ScoredTurns DEF Scored
    <3>2. ~ q.budget /\ ~ q.invalid /\ q.new = r.new
      BY <1>5, <2>2, <3>1 DEF WasObserved, Judged, SameRecord
    <3>3. CASE s
      BY <2>1, <2>2, <2>3, <2>4, <3>2, <3>3 DEF Judged, MainBranches
    <3>4. CASE ~ s
      BY <2>1, <2>2, <2>3, <2>4, <3>2, <3>4 DEF Judged, MainBranches
    <3> QED
      BY <3>3, <3>4
  <2>5. CASE i \notin 1 .. k
    BY <2>1, <2>2, <2>3, <2>5 DEF MainBranches
  <2> QED
    BY <2>4, <2>5
<1>6. ControlInv'
  BY <1>0, <1>2 DEF Scorable, LoopInv, ControlInv
<1>7. TokenInv'
  BY <1>0 DEF Scorable, LoopInv, TokenInv
<1>8. ParseInv'
  BY <1>0 DEF Scorable, LoopInv, ParseInv
<1>9. ObservedInv'
  <2>1. ASSUME NEW i \in 1 .. k
        PROVE  /\ IsObserved(turns'[i], i, Asked(turns', i), Found(turns', i))
               /\ IsGated(turns'[i], localized, OwnedBy(tokens, i - 1), Environment(tokens))
               /\ IsCredited(turns'[i], systemValid)
    <3>1. PICK r, q, asked, found, mine, env :
            /\ r = turns[i] /\ q = turns'[i] /\ asked = Asked(turns, i)
            /\ found = Found(turns, i) /\ mine = OwnedBy(tokens, i - 1)
            /\ env = Environment(tokens)
      OBVIOUS
    <3>2. /\ IsObserved(r, i, asked, found) /\ IsGated(r, localized, mine, env)
          /\ IsCredited(r, systemValid)
      BY <1>1, <3>1 DEF Scorable, LoopInv, ObservedInv
    <3>3. i \in 1 .. n /\ i \in 1 .. k + 1
      BY <1>1
    <3>4. SameRecord(r, q) /\ (localized => Judged(q))
      BY <1>2, <1>3, <1>5, <3>1, <3>3
    <3>5. /\ IsObserved(q, i, asked, found) /\ IsGated(q, localized, mine, env)
          /\ IsCredited(q, systemValid)
      BY <3>2, <3>4, SameRecordKeeps
    <3> QED
      BY <1>4, <3>1, <3>3, <3>5
  <2> QED
    BY <1>0, <1>1, <2>1 DEF Scorable, LoopInv, ObservedInv
<1>10. DoneInv'
  <2>1. CASE OutOfTokens
    BY <1>0, <1>1, <1>2, <2>1 DEF DoneInv, OutOfTokens
  <2>2. CASE Len(turns) = turn + 1 /\ Len(actions) = turn + 1 /\ Final
    <3>1. PICK r, q, asked, mine :
            /\ r = turns[k + 1] /\ q = turns'[k + 1] /\ asked = Asked(turns, k + 1)
            /\ mine = OwnedBy(tokens, k)
      OBVIOUS
    <3>2. k + 1 \in 1 .. m /\ k + 1 \notin 1 .. k /\ k + 1 \in 1 .. k + 1
      BY <1>1, <2>2
    <3>3. SameRecord(r, q) /\ Asked(turns', k + 1) = asked
      BY <1>2, <1>4, <3>1, <3>2
    <3>4. CASE n = k
      <4>1. q = r
        BY <1>2, <3>1, <3>2, <3>4
      <4> QED
        BY <1>0, <1>1, <1>2, <2>2, <3>1, <3>3, <3>4, <4>1 DEF DoneInv, Final
    <3>5. CASE n = k + 1
      <4>1. searchCount = turn + 1 /\ k + 1 \in 1 .. n
        BY <1>1, <3>5
      <4>2. \/ ~ Exhausted /\ localized /\ IsMalformed(r, k + 1, asked, mine)
            \/ /\ Exhausted /\ IsOverBudget(r, k + 1, asked, localized, mine)
               /\ IsRun(mine, preEnds[k + 1], Len(tokens))
        BY <1>1, <3>1, <4>1, FinalSearch DEF Scorable, Exhausted
      <4>3. localized => /\ q.branch = (IF Exhausted THEN "n_budget" ELSE "n_invalid")
                         /\ ~ q.main
        BY <1>5, <3>1, <3>2, <4>1
      <4>4. \/ ~ Exhausted /\ localized /\ IsMalformed(q, k + 1, asked, mine)
            \/ /\ Exhausted /\ IsOverBudget(q, k + 1, asked, localized, mine)
               /\ IsRun(mine, preEnds[k + 1], Len(tokens))
        BY <3>3, <4>2, <4>3, SameRecordKeeps
      <4>5. ~ Exhausted => reason = "model_generated_malformed_search"
        BY <1>0, <1>1, <2>2, <4>1 DEF Final, Exhausted
      <4> QED
        BY <1>0, <1>1, <1>2, <2>2, <3>1, <3>3, <4>1, <4>4, <4>5 DEF DoneInv, Final, Exhausted
    <3> QED
      BY <1>1, <3>4, <3>5
  <2> QED
    BY <1>0, <2>1, <2>2 DEF Scorable, LoopInv, DoneInv
<1>11. LoopInv'
  BY <1>6, <1>7, <1>8, <1>9, <1>10 DEF LoopInv
<1>12. RecordValidates'
  BY <1>0, <1>11, ValidatesNext DEF OtherRecordsValidate
<1> QED
  BY <1>0, <1>11, <1>12 DEF Scorable

(* What was answered before each search agrees with the branches.           *)
LEMMA PreProbeJudges ==
  ASSUME Scorable, PreProbe
  PROVE  /\ AnsweredBefore(before', searchCount)
         /\ localized => Rejudged(turns', before', searchCount)
<1>1. PICK n, m \in Nat : n = searchCount /\ m = Len(turns) /\ n <= m
  BY ScoredSearches, DoneShape DEF Scorable
<1>2. /\ AnsweredBefore(before', n)
      /\ \A i \in 1 .. m :
           /\ SameRecord(turns[i], turns'[i])
           /\ i \in 1 .. n =>
                LET s == before'[i].sufficient
                IN  /\ s \in BOOLEAN
                    /\ localized => /\ turns'[i].branch = BranchAfter(turns[i], s)
                                    /\ turns'[i].main =
                                         (BranchAfter(turns[i], s) \in MainBranches)
                    /\ ~ localized => turns'[i] = turns[i]
  BY <1>1, ReclassifiedTurns
<1>3. ASSUME localized, NEW i \in 1 .. n
      PROVE  /\ turns'[i].branch = BranchAfter(turns'[i], before'[i].sufficient)
             /\ turns'[i].main <=> turns'[i].branch \in MainBranches
  <2>1. PICK r, q, s : r = turns[i] /\ q = turns'[i] /\ s = before'[i].sufficient
    OBVIOUS
  <2>2. i \in 1 .. m
    BY <1>1
  <2>3. /\ SameRecord(r, q) /\ q.branch = BranchAfter(r, s)
        /\ q.main = (BranchAfter(r, s) \in MainBranches)
    BY <1>2, <1>3, <2>1, <2>2
  <2>4. BranchAfter(q, s) = BranchAfter(r, s)
    BY <2>3 DEF SameRecord, BranchAfter
  <2> QED
    BY <2>1, <2>3, <2>4
<1> QED
  BY <1>1, <1>2, <1>3 DEF Rejudged
-----------------------------------------------------------------------------
(* What the credit of a finished trajectory is calculated from              *)

ModeKnown ==
  /\ mode \in {"novelty", "routed", "mica", "consensus", "gate"}
  /\ mode = "gate" <=> localized
Gained ==
  /\ gain \in [1 .. turn -> Gains]
  /\ \E l \in 0 .. MaxSearchTurns : peer \in [1 .. l -> PeerGains]
  /\ outcome \in {-1, 0, 1}
Unprobed == before = NoResults /\ after = NoResults
ProbedBefore ==
  /\ AnsweredBefore(before, searchCount)
  /\ localized => Rejudged(turns, before, searchCount)
ProbedAfter ==
  /\ DOMAIN after = {i \in 1 .. turn : ~ before[i].sufficient}
  /\ \A i \in DOMAIN after : after[i].sufficient \in BOOLEAN /\ after[i].reward \in Int
Stopped ==
  /\ DOMAIN before = 1 .. searchCount
  /\ \A i \in 1 .. searchCount :
       {before[i].first, before[i].second, before[i].continued} \subseteq {0, 1}
Probed ==
  /\ mode = "novelty" => AnsweredBefore(before, searchCount) /\ after = NoResults
  /\ mode \in {"routed", "gate"} => ProbedBefore /\ ProbedAfter
  /\ mode = "mica" => Unprobed
  /\ mode = "consensus" => Stopped /\ after = NoResults
Assignable == Scorable /\ PolicyCredit # {} /\ ModeKnown /\ Gained /\ Probed

(* A search has a gain when it was observed.                                *)
LEMMA GainKnown ==
  ASSUME Gained
  PROVE  DOMAIN gain = 1 .. turn /\ \A i \in 1 .. turn : gain[i] \in Int
<1>1. \A g \in Gains : g \in Int
  BY CreditConstants
<1> QED
  BY <1>1 DEF Gained

(* The peer's gains are those of its first searches.                        *)
LEMMA PeerKnown ==
  ASSUME Gained
  PROVE  \E l \in 0 .. MaxSearchTurns :
           DOMAIN peer = 1 .. l /\ \A i \in 1 .. l : peer[i] \in Int
<1>1. \A g \in PeerGains : g \in Int
  BY CreditConstants
<1> QED
  BY <1>1 DEF Gained

(* Nothing is known of what was never asked.                                *)
LEMMA NothingKnown == DOMAIN NoResults = {}
BY EmptyDomain DEF NoResults

(* The searches with a post probe are those that were observed and that no  *)
(* answer before them made needless.                                        *)
LEMMA PostSearchesKnown ==
  ASSUME Scorable, AnsweredBefore(before, searchCount)
  PROVE  PostSearches = {i \in 1 .. turn : ~ before[i].sufficient}
<1>1. PICK k, n \in Nat : k = turn /\ n = searchCount /\ n \in {k, k + 1} /\ All = 1 .. n
  BY ScoredSearches
<1>2. \A i \in 1 .. n : Scored(i)
  BY <1>1, ScoredTurns
<1>3. ASSUME NEW i \in 1 .. k
      PROVE  i \in 1 .. n /\ ~ OverBudget(i) /\ ~ (turns[i].localized /\ turns[i].invalid)
  <2>1. i \in 1 .. n
    BY <1>1
  <2>2. Scored(i)
    BY <1>2, <2>1
  <2> QED
    BY <1>1, <2>1, <2>2 DEF Scored, WasObserved, Judged
<1>4. ASSUME NEW i \in 1 .. n, i \notin 1 .. k
      PROVE  OverBudget(i) \/ (turns[i].localized /\ turns[i].invalid)
  <2>1. Scored(i) /\ i \notin 1 .. turn
    BY <1>1, <1>2, <1>4
  <2>2. WasRefused(turns[i]) /\ (OverBudget(i) <=> Exhausted)
        /\ turns[i].localized = localized
    BY <2>1 DEF Scored
  <2> QED
    BY <2>2 DEF WasRefused
<1> QED
  BY <1>1, <1>3, <1>4 DEF PostSearches

(* Walking forward to the last search that counts finds what the credit of  *)
(* a search reaches.                                                        *)
LEMMA CountedReaches ==
  ASSUME NEW n \in Nat, n = LastSearch, NEW i \in 1 .. n, NEW stops, NEW j
  PROVE  j \in i .. LastCounted(i, stops) <=> j \in i .. n /\ Reaches(i, j, stops)
<1> DEFINE starts == {k - 1 : k \in stops \cap i .. n}
           ends == {k \in i .. n : SufficientAfter(k)}
           S == {n} \cup starts \cup ends
<1>1. LastCounted(i, stops) = Min(S)
  BY DEF LastCounted
<1>2. \A s \in S : s \in i - 1 .. n
  OBVIOUS
<1>3. IsFiniteSet(S) /\ S # {} /\ S \in SUBSET Int
  <2>1. i - 1 \in Int /\ n \in Int
    OBVIOUS
  <2>2. IsFiniteSet(i - 1 .. n)
    BY <2>1, FS_Interval
  <2>3. S \subseteq i - 1 .. n /\ n \in S
    BY <1>2
  <2>4. \A s \in i - 1 .. n : s \in Int
    OBVIOUS
  <2> HIDE DEF S
  <2> QED
    BY <2>2, <2>3, <2>4, FS_Subset
<1>4. PICK least : least = Min(S)
  OBVIOUS
<1>5. least \in S /\ \A s \in S : least <= s
  <2> HIDE DEF S
  <2> QED
    BY <1>3, <1>4, MinOfFinite
<1>6. least \in Int /\ least <= n
  BY <1>2, <1>5
<1>7. ASSUME j \in i .. least PROVE j \in i .. n /\ Reaches(i, j, stops)
  <2>1. j \in i .. n
    BY <1>6, <1>7
  <2>2. ASSUME NEW k \in stops \cap i .. j PROVE FALSE
    <3>1. k \in i .. n /\ k \in Int
      BY <2>1
    <3>2. k - 1 \in S
      BY <3>1
    <3>3. least <= k - 1
      BY <1>5, <3>2
    <3> QED
      BY <1>6, <1>7, <3>1, <3>3
  <2>3. ASSUME NEW k \in i .. j - 1, SufficientAfter(k) PROVE FALSE
    <3>1. k \in i .. n /\ k < j
      BY <2>1
    <3>2. k \in S
      BY <2>3, <3>1
    <3> QED
      BY <1>5, <1>6, <1>7, <3>1, <3>2
  <2> QED
    BY <2>1, <2>2, <2>3 DEF Reaches
<1>8. ASSUME j \in i .. n, Reaches(i, j, stops) PROVE j \in i .. least
  <2>1. stops \cap i .. j = {} /\ \A k \in i .. j - 1 : ~ SufficientAfter(k)
    BY <1>8 DEF Reaches
  <2>2. ASSUME NEW k \in stops \cap i .. n PROVE j <= k - 1
    <3>1. k \notin i .. j
      BY <2>1, <2>2
    <3> QED
      BY <1>8, <3>1
  <2>3. ASSUME NEW k \in i .. n, SufficientAfter(k) PROVE j <= k
    <3>1. k \notin i .. j - 1
      BY <2>1, <2>3
    <3> QED
      BY <1>8, <3>1
  <2>4. j <= n
    BY <1>8
  <2>5. \A s \in S : j <= s
    BY <2>2, <2>3, <2>4
  <2>6. j <= least
    <3> HIDE DEF S
    <3> QED
      BY <1>5, <2>5
  <2> QED
    BY <1>6, <1>8, <2>6
<1> QED
  BY <1>1, <1>4, <1>7, <1>8

(* A search reaches itself unless it stops the walk.                        *)
LEMMA ReachesItself ==
  ASSUME NEW i \in Nat, NEW stops, i \notin stops
  PROVE  Reaches(i, i, stops)
<1>1. i .. i = {i} /\ i .. i - 1 = {}
  OBVIOUS
<1> QED
  BY <1>1 DEF Reaches

(* What is not credited has no sign.                                        *)
LEMMA NothingHasNoSign == SignOf(Nothing) = 0 /\ SignOf(Penalty) = -1
<1>1. Nothing.sum = 0 /\ Nothing.count = 1 /\ Nothing.route = 0
      /\ Penalty.sum = -1 /\ Penalty.count = 1 /\ Penalty.route = 0
  BY DEF Nothing, Penalty, Credit
<1>2. Sign(0) = 0 /\ Sign(-1) = -1
  BY DEF Sign
<1>3. \A t \in Int : t * 0 = 0 /\ t + 0 = t
  OBVIOUS
<1>4. PICK t \in Int : t = -1
  OBVIOUS
<1>5. PICK c, d : c = Nothing /\ d = Penalty
  OBVIOUS
<1>6. c.sum = 0 /\ c.route = 0 /\ d.sum = t /\ d.route = 0 /\ Sign(t) = t /\ 0 >= 0
  BY <1>1, <1>2, <1>4, <1>5
<1>7. SignOf(c) = Sign(0) /\ SignOf(d) = Sign(t)
  BY <1>2, <1>3, <1>6 DEF SignOf
<1> QED
  BY <1>2, <1>4, <1>5, <1>6, <1>7
-----------------------------------------------------------------------------
(* Both calculations agree, and the first refuses nothing                   *)

ReviewOf(i) ==
  CASE mode = "novelty" -> NoveltyReview(i)
    [] mode = "routed" -> RoutedReview(i)
    [] mode = "gate" -> GateReview(i)
    [] mode = "mica" -> MicaReview(i)
    [] mode = "consensus" -> ConsensusReview(i)
Agreed == ~ CreditRefuses /\ \A i \in All : ReviewOf(i) = CreditOf(i)

(* Without gates, a search without a gain is the budget-exhausted one.      *)
LEMMA PlainSearches ==
  ASSUME Scorable, ~ localized, NEW i \in 1 .. searchCount
  PROVE  /\ turns[i].noNew \in {"none", "some"} /\ turns[i].credit
         /\ OverBudget(i) <=> i \notin 1 .. turn
         /\ turns[i].ig <=> i \in 1 .. turn
         /\ i \notin 1 .. turn => turns[i].noNew = "none"
<1>1. Scored(i)
  BY ScoredTurns
<1>2. CASE i \in 1 .. turn
  BY <1>1, <1>2 DEF Scored, WasObserved
<1>3. CASE i \notin 1 .. turn
  BY <1>1, <1>3 DEF Scored, WasRefused
<1> QED
  BY <1>2, <1>3

(* The two calculations of the novelty mode.                                *)
LEMMA NoveltyAgrees ==
  ASSUME Assignable, mode = "novelty"
  PROVE  Agreed
<1>1. Scorable /\ ~ localized
  BY DEF Assignable, ModeKnown
<1>2. All = 1 .. searchCount
  BY <1>1, ScoredSearches
<1>3. \A i \in All : turns[i].noNew # "unknown"
  BY <1>1, <1>2, PlainSearches
<1>4. ~ CreditRefuses
  BY <1>3 DEF CreditRefuses
<1>5. ASSUME NEW i \in All PROVE ReviewOf(i) = CreditOf(i)
  <2>1. ReviewOf(i) = NoveltyReview(i) /\ CreditOf(i) = NoveltyCredit(i)
    BY DEF ReviewOf, CreditOf
  <2>2. NoveltyReview(i) = NoveltyCredit(i)
    BY DEF NoveltyReview, NoveltyCredit
  <2> QED
    BY <2>1, <2>2
<1> QED
  BY <1>4, <1>5 DEF Agreed

(* The two calculations of the consensus mode.                              *)
LEMMA ConsensusAgrees ==
  ASSUME Assignable, mode = "consensus"
  PROVE  Agreed
<1>1. ~ CreditRefuses
  BY DEF CreditRefuses
<1>2. ASSUME NEW i \in All PROVE ReviewOf(i) = CreditOf(i)
  BY DEF ReviewOf, CreditOf, ConsensusReview
<1> QED
  BY <1>1, <1>2 DEF Agreed

(* What the probes of an ungated trajectory found.                          *)
LEMMA RoutedAgrees ==
  ASSUME Assignable, mode = "routed"
  PROVE  Agreed
<1>1. /\ Scorable /\ ~ localized /\ Gained /\ ProbedBefore /\ ProbedAfter
  BY DEF Assignable, ModeKnown, Probed
<1>2. PICK k, n \in Nat : /\ k = turn /\ n = searchCount /\ n \in {k, k + 1} /\ n = LastSearch
                          /\ All = 1 .. n
  BY <1>1, ScoredSearches
<1>3. DOMAIN gain = 1 .. k /\ DOMAIN after = {i \in 1 .. k : ~ before[i].sufficient}
      /\ \A i \in 1 .. n : before[i].sufficient \in BOOLEAN
  BY <1>1, <1>2, GainKnown DEF ProbedAfter, ProbedBefore, AnsweredBefore
<1>4. ASSUME NEW i \in 1 .. n
      PROVE  /\ turns[i].noNew \in {"none", "some"} /\ turns[i].credit
             /\ OverBudget(i) <=> i \notin 1 .. k
             /\ turns[i].ig <=> i \in 1 .. k
             /\ i \notin 1 .. k => turns[i].noNew = "none"
  BY <1>1, <1>2, PlainSearches
<1>5. ASSUME NEW i \in 1 .. n, RoutedNormal(i)
      PROVE  i \in 1 .. k /\ RoutedValues(i) # {}
  <2>1. i \in 1 .. k /\ ~ before[i].sufficient /\ turns[i].noNew # "none"
    BY <1>4, <1>5 DEF RoutedNormal
  <2>2. i \notin SufficientBefore
    BY <2>1 DEF SufficientBefore
  <2>3. Reaches(i, i, SufficientBefore)
    BY <2>1, <2>2, ReachesItself
  <2>4. i \in i .. LastSearch
    BY <1>2
  <2>5. i \in RoutedValues(i)
    BY <1>4, <2>1, <2>3, <2>4 DEF RoutedValues
  <2> QED
    BY <2>1, <2>5
<1>6. ~ RoutedRefuses
  <2>1. SUFFICES ASSUME NEW i \in 1 .. n
        PROVE  /\ turns[i].noNew # "unknown"
               /\ OverBudget(i) =>
                    i \notin DOMAIN after /\ turns[i].noNew = "none" /\ i \notin DOMAIN gain
               /\ ~ OverBudget(i) => before[i].sufficient # (i \in DOMAIN after)
               /\ RoutedNormal(i) =>
                    i \in DOMAIN gain /\ turns[i].credit /\ RoutedValues(i) # {}
    BY <1>2 DEF RoutedRefuses
  <2>2. OverBudget(i) =>
          i \notin DOMAIN after /\ turns[i].noNew = "none" /\ i \notin DOMAIN gain
    BY <1>3, <1>4
  <2>3. ~ OverBudget(i) => before[i].sufficient # (i \in DOMAIN after)
    BY <1>3, <1>4
  <2>4. RoutedNormal(i) => i \in DOMAIN gain /\ turns[i].credit /\ RoutedValues(i) # {}
    BY <1>3, <1>4, <1>5
  <2> QED
    BY <1>4, <2>2, <2>3, <2>4
<1>7. ~ CreditRefuses
  BY <1>6 DEF CreditRefuses
<1>8. ASSUME NEW i \in 1 .. n PROVE ReviewOf(i) = CreditOf(i)
  <2>1. ReviewOf(i) = RoutedReview(i) /\ CreditOf(i) = RoutedCredit(i)
    BY DEF ReviewOf, CreditOf
  <2>2. PICK counted : counted = {j \in i .. LastCounted(i, SufficientBefore) :
                                    turns[j].ig /\ turns[j].noNew # "none"}
    OBVIOUS
  <2>3. PICK values : values = RoutedValues(i)
    OBVIOUS
  <2>4. ASSUME NEW j PROVE j \in counted <=> j \in values
    <3>1. j \in i .. LastCounted(i, SufficientBefore) <=>
            j \in i .. n /\ Reaches(i, j, SufficientBefore)
      BY <1>2, CountedReaches
    <3>2. j \in i .. n => turns[j].credit
      <4>1. j \in i .. n => j \in 1 .. n
        OBVIOUS
      <4> QED
        BY <1>4, <4>1
    <3> QED
      BY <1>2, <2>2, <2>3, <3>1, <3>2 DEF RoutedValues
  <2>5. counted = values
    BY <2>4
  <2>6. RoutedNormal(i) <=> ~ (before[i].sufficient \/ turns[i].noNew = "none")
    BY DEF RoutedNormal
  <2> QED
    BY <2>1, <2>2, <2>3, <2>5, <2>6 DEF RoutedReview, RoutedCredit
<1> QED
  BY <1>2, <1>7, <1>8 DEF Agreed
-----------------------------------------------------------------------------
(* The facts a trajectory of the mica mode is reviewed by.                  *)
LEMMA PeersKnown ==
  ASSUME NEW i \in DOMAIN gain
  PROVE  /\ Peers(i) # {} /\ Cardinality(Peers(i)) \in Nat
         /\ i \in DOMAIN peer => Peers(i) = {"this", "peer"} /\ Peers(i) # {"this"}
         /\ i \notin DOMAIN peer => Peers(i) = {"this"}
         /\ Peers(i) = {"this"} <=> Cardinality(Peers(i)) = 1
<1>1. "this" # "peer"
  OBVIOUS
<1>2. PICK a, b : a = "this" /\ b = "peer" /\ a # b
  BY <1>1
<1>3. Peers(i) = {t \in {a, b} : i \in DOMAIN (IF t = a THEN gain ELSE peer)}
  BY <1>2 DEF Peers
<1>4. i \in DOMAIN peer => Peers(i) = {a, b}
  BY <1>2, <1>3
<1>5. i \notin DOMAIN peer => Peers(i) = {a}
  BY <1>2, <1>3
<1>6. Cardinality({a}) = 1 /\ Cardinality({a, b}) = 2
  <2>1. IsFiniteSet({a}) /\ Cardinality({a}) = 1
    BY FS_Singleton
  <2>2. {a} \cup {b} = {a, b} /\ b \notin {a}
    BY <1>2
  <2>3. Cardinality({a} \cup {b}) = Cardinality({a}) + 1
    BY <2>1, <2>2, FS_AddElement
  <2> QED
    BY <2>1, <2>2, <2>3
<1> QED
  BY <1>2, <1>4, <1>5, <1>6

(* The two calculations of the mode that compares depth by depth.           *)
LEMMA MicaAgrees ==
  ASSUME Assignable, mode = "mica"
  PROVE  Agreed /\ IgSearches = DOMAIN gain
<1>1. /\ Scorable /\ Gained /\ ~ localized
  BY DEF Assignable, ModeKnown
<1>2. PICK k, n \in Nat : /\ k = turn /\ n = searchCount /\ n \in {k, k + 1}
                          /\ All = 1 .. n
  BY <1>1, ScoredSearches
<1>3. DOMAIN gain = 1 .. k /\ IgSearches = 1 .. k
  BY <1>1, <1>2, GainKnown, GainedSearches
<1>4. ASSUME NEW i \in DOMAIN gain, i \in DOMAIN peer PROVE MicaLocal(i) = Normalized[i]
  BY <1>4 DEF MicaLocal, Normalized
<1>5. ASSUME NEW i \in DOMAIN gain, Cardinality(Peers(i)) > 1 PROVE i \in DOMAIN peer
  <2>1. Cardinality(Peers(i)) # 1
    BY <1>5
  <2> QED
    BY <2>1, PeersKnown
<1>6. ~ MicaRefuses
  BY <1>3, <1>4, <1>5 DEF MicaRefuses
<1>7. ~ CreditRefuses
  BY <1>6 DEF CreditRefuses
<1>8. ASSUME NEW i \in 1 .. n PROVE ReviewOf(i) = CreditOf(i)
  <2>1. ReviewOf(i) = MicaReview(i) /\ CreditOf(i) = MicaCredit(i)
    BY DEF ReviewOf, CreditOf
  <2>2. turns[i].ig <=> i \in DOMAIN gain
    BY <1>1, <1>2, <1>3, PlainSearches
  <2>3. CASE i \notin DOMAIN gain
    BY <2>1, <2>2, <2>3 DEF MicaReview, MicaCredit
  <2>4. CASE i \in DOMAIN gain /\ i \in DOMAIN peer
    <3>1. Peers(i) # {"this"} /\ MicaLocal(i) = Normalized[i]
      BY <1>4, <2>4, PeersKnown
    <3> QED
      BY <2>1, <2>2, <2>4, <3>1 DEF MicaReview, MicaCredit
  <2>5. CASE i \in DOMAIN gain /\ i \notin DOMAIN peer
    <3>1. Peers(i) = {"this"}
      BY <2>5, PeersKnown
    <3> QED
      BY <2>1, <2>2, <2>5, <3>1 DEF MicaReview, MicaCredit
  <2> QED
    BY <2>3, <2>4, <2>5
<1> QED
  BY <1>2, <1>3, <1>7, <1>8 DEF Agreed
-----------------------------------------------------------------------------
(* The gates                                                                *)

(* A gated search by its branch, once the probes are back.                  *)
Branched(i) ==
  LET r == turns[i]
      s == before[i].sufficient
  IN  /\ s \in BOOLEAN /\ r.branch = BranchAfter(r, s) /\ r.main = (r.branch \in MainBranches)
      /\ i \in 1 .. turn =>
           r.branch = (IF s THEN "s_before" ELSE IF r.new = {} THEN "n_soft" ELSE "normal")
      /\ i \notin 1 .. turn => r.branch = (IF Exhausted THEN "n_budget" ELSE "n_invalid")
      /\ r.branch \in MainBranches <=> i \in DOMAIN after
      /\ r.branch \in MainBranches <=> i \in 1 .. turn /\ ~ s

(* The branch of each search of a gated trajectory.                         *)
LEMMA BranchesKnown ==
  ASSUME Assignable, localized, NEW i \in 1 .. searchCount
  PROVE  Branched(i)
<1>1. /\ Scorable /\ ProbedBefore /\ ProbedAfter
  BY DEF Assignable, ModeKnown, Probed
<1>2. PICK k, n \in Nat : k = turn /\ n = searchCount
  BY <1>1, ScoredSearches
<1>3. PICK r, s : r = turns[i] /\ s = before[i].sufficient
  OBVIOUS
<1>4. /\ s \in BOOLEAN /\ r.branch = BranchAfter(r, s)
      /\ r.main <=> r.branch \in MainBranches
  BY <1>1, <1>2, <1>3 DEF ProbedBefore, AnsweredBefore, Rejudged
<1>5. r.main = (r.branch \in MainBranches)
  <2>1. Scored(i)
    BY <1>1, ScoredTurns
  <2>2. r.main \in BOOLEAN
    BY <1>3, <2>1 DEF Scored, TurnRecords
  <2>3. (r.branch \in MainBranches) \in BOOLEAN
    OBVIOUS
  <2> QED
    BY <1>4, <2>2, <2>3, Zenon
<1>6. BranchAfter(r, s) =
        IF i \in 1 .. k
          THEN IF s THEN "s_before" ELSE IF r.new = {} THEN "n_soft" ELSE "normal"
          ELSE IF Exhausted THEN "n_budget" ELSE "n_invalid"
  BY <1>1, <1>2, <1>3, <1>4, BranchJudged
<1>7. r.branch \in MainBranches <=> i \in 1 .. k /\ ~ s
  BY <1>4, <1>6 DEF MainBranches
<1>8. i \in DOMAIN after <=> i \in 1 .. k /\ ~ s
  BY <1>1, <1>2, <1>3 DEF ProbedAfter
<1> QED
  BY <1>2, <1>3, <1>4, <1>5, <1>6, <1>7, <1>8 DEF Branched

(* What a gate is opened for, and on whose tokens.                          *)
GateFacts(i) ==
  LET r == turns[i]
      c == GateCredit(i)
  IN  /\ c.decision # 0 => ~ (r.branch \in MainBranches) /\ r.spans.decision # {}
      /\ c.query # 0 => /\ r.spans.query # {}
                        /\ \/ r.branch = "n_invalid"
                           \/ c.query = -1 /\ SoftDuplicate(i)
      /\ SignOf(c.main) # 0 => r.branch \in MainBranches
      /\ c.main = (IF r.branch \in MainBranches THEN Accumulated(GateValues(i), i)
                   ELSE Nothing)
      /\ RolesApart(r.spans, OwnedBy(tokens, i - 1))

(* What the gates of a search rest on.                                      *)
LEMMA GateFactsKnown ==
  ASSUME Assignable, localized, NEW i \in 1 .. searchCount
  PROVE  GateFacts(i)
<1>1. Scorable /\ Scored(i) /\ Branched(i)
  BY ScoredTurns, BranchesKnown DEF Assignable
<1>2. PICK r, c : r = turns[i] /\ c = GateCredit(i)
  OBVIOUS
<1>3. /\ c.decision = DecisionGate(i) /\ c.query = QueryGate(i)
      /\ c.main = (IF r.branch \in MainBranches THEN Accumulated(GateValues(i), i)
                   ELSE Nothing)
  BY <1>2 DEF GateCredit
<1>4. RolesApart(r.spans, OwnedBy(tokens, i - 1))
  BY <1>1, <1>2 DEF Scored
<1>5. c.decision # 0 => ~ (r.branch \in MainBranches) /\ r.spans.decision # {}
  BY <1>2, <1>3, <1>4 DEF DecisionGate, MainBranches, RolesApart
<1>6. c.query # 0 => /\ r.spans.query # {}
                     /\ \/ r.branch = "n_invalid"
                        \/ c.query = -1 /\ SoftDuplicate(i)
  <2>1. CASE r.branch = "n_invalid" /\ r.spans.query # {}
    BY <2>1
  <2>2. CASE ~ (r.branch = "n_invalid" /\ r.spans.query # {}) /\ SoftDuplicate(i)
    <3>1. c.query = -1
      BY <1>2, <1>3, <2>2 DEF QueryGate
    <3>2. r.branch = "n_soft"
      BY <1>2, <2>2 DEF SoftDuplicate
    <3>3. i \in 1 .. turn
      BY <1>1, <1>2, <3>2 DEF Branched
    <3>4. r.spans.query # {}
      BY <1>1, <1>2, <3>3 DEF Scored, WasObserved
    <3> QED
      BY <2>2, <3>1, <3>4
  <2>3. CASE ~ (r.branch = "n_invalid" /\ r.spans.query # {}) /\ ~ SoftDuplicate(i)
    BY <1>2, <1>3, <2>3 DEF QueryGate
  <2> QED
    BY <2>1, <2>2, <2>3
<1>7. SignOf(c.main) # 0 => r.branch \in MainBranches
  BY <1>3, NothingHasNoSign
<1> QED
  BY <1>2, <1>3, <1>4, <1>5, <1>6, <1>7 DEF GateFacts

(* Reaching is the same for stops that agree where it looks.                *)
LEMMA SameStops ==
  ASSUME NEW n \in Nat, NEW i \in 1 .. n, NEW a, NEW b, a \cap i .. n = b \cap i .. n,
         NEW j \in i .. n
  PROVE  Reaches(i, j, a) <=> Reaches(i, j, b)
<1>1. i .. j \subseteq i .. n
  OBVIOUS
<1>2. a \cap i .. j = b \cap i .. j
  BY <1>1
<1> QED
  BY <1>2 DEF Reaches

(* The two calculations of the gate mode.                                   *)
LEMMA GateAgrees ==
  ASSUME Assignable, mode = "gate"
  PROVE  Agreed /\ ~ GateReviewRefuses
<1>1. /\ Scorable /\ localized /\ Gained
  BY DEF Assignable, ModeKnown
<1>2. PICK k, n \in Nat : /\ k = turn /\ n = searchCount /\ n \in {k, k + 1} /\ n = LastSearch
                          /\ All = 1 .. n /\ 1 .. n \subseteq DOMAIN turns
  BY <1>1, ScoredSearches
<1>3. \A i \in 1 .. n : Scored(i) /\ Branched(i) /\ GateFacts(i)
  BY <1>1, <1>2, ScoredTurns, BranchesKnown, GateFactsKnown
<1>4. DOMAIN gain = 1 .. k /\ IgSearches = 1 .. k
  BY <1>1, <1>2, GainKnown, GainedSearches
<1> DEFINE stops == {j \in DOMAIN turns : turns[j].branch = "s_before"}
<1>5. ASSUME NEW i \in 1 .. n, turns[i].branch \in MainBranches
      PROVE  GateValues(i) # {}
  <2>1. turns[i].branch # "s_before"
    BY <1>5 DEF MainBranches
  <2>2. i \notin stops /\ i \in Nat /\ i \in i .. LastSearch
    BY <1>2, <2>1
  <2>3. Reaches(i, i, stops)
    BY <2>2, ReachesItself
  <2>4. i \in GateValues(i)
    BY <1>5, <2>2, <2>3 DEF GateValues
  <2> QED
    BY <2>4
<1>6. ASSUME NEW i \in 1 .. n, NEW j \in GateValues(i)
      PROVE  turns[j].credit /\ turns[j].ig /\ turns[j].main /\ j \in DOMAIN gain
  <2>1. j \in 1 .. n /\ turns[j].branch \in MainBranches
    BY <1>2 DEF GateValues
  <2>2. Scored(j) /\ Branched(j)
    BY <1>3, <2>1
  <2>3. j \in 1 .. k /\ turns[j].main = TRUE
    BY <1>2, <2>1, <2>2 DEF Branched
  <2>4. turns[j].credit
    BY <2>2 DEF Scored
  <2>5. turns[j].ig
    BY <1>4, <2>3 DEF IgSearches
  <2> QED
    BY <1>4, <2>3, <2>4, <2>5
<1>7. ASSUME NEW i \in 1 .. n
      PROVE  /\ turns[i].localized /\ turns[i].branch = BranchAfter(turns[i], before[i].sufficient)
             /\ turns[i].main = (turns[i].branch \in MainBranches)
             /\ (turns[i].branch \in MainBranches) = (i \in DOMAIN after)
  <2>1. PICK a, b \in BOOLEAN : /\ a = (turns[i].branch \in MainBranches)
                                /\ b = (i \in DOMAIN after)
    <3>1. (turns[i].branch \in MainBranches) \in BOOLEAN /\ (i \in DOMAIN after) \in BOOLEAN
      OBVIOUS
    <3> QED
      BY <3>1, Zenon
  <2>2. a <=> b
    BY <1>3, <2>1 DEF Branched
  <2>3. turns[i].localized /\ turns[i].branch = BranchAfter(turns[i], before[i].sufficient)
        /\ turns[i].main = (turns[i].branch \in MainBranches)
    BY <1>1, <1>3 DEF Branched, Scored
  <2> QED
    BY <2>1, <2>2, <2>3, Zenon
<1>8. ASSUME NEW i \in 1 .. n
      PROVE  LET c == GateCredit(i)
             IN  /\ Overlaps(c) => turns[i].branch = "n_soft" /\ c.decision = 0 /\ c.query = -1
                 /\ c.query # 0 => turns[i].spans.query # {}
  <2>1. PICK c : c = GateCredit(i)
    OBVIOUS
  <2>2. GateFacts(i)
    BY <1>3
  <2>3. ASSUME Overlaps(c)
        PROVE  turns[i].branch = "n_soft" /\ c.decision = 0 /\ c.query = -1
    <3>1. turns[i].branch \in MainBranches /\ (c.decision # 0 \/ c.query # 0)
      BY <2>1, <2>2, <2>3 DEF Overlaps, GateFacts
    <3>2. c.decision = 0
      BY <2>1, <2>2, <3>1 DEF GateFacts
    <3>3. c.query # 0 /\ turns[i].branch # "n_invalid"
      BY <3>1, <3>2 DEF MainBranches
    <3>4. c.query = -1 /\ SoftDuplicate(i)
      BY <2>1, <2>2, <3>3 DEF GateFacts
    <3> QED
      BY <3>2, <3>4 DEF SoftDuplicate
  <2>4. c.query # 0 => turns[i].spans.query # {}
    BY <2>1, <2>2 DEF GateFacts
  <2> QED
    BY <2>1, <2>3, <2>4
<1>9. ~ GateRefuses
  BY <1>2, <1>5, <1>6, <1>7, <1>8 DEF GateRefuses
<1>10. ~ CreditRefuses
  BY <1>9 DEF CreditRefuses
<1>11. ASSUME NEW i \in 1 .. n
       PROVE  ReviewOf(i) = CreditOf(i) /\ GateCounted(i) = GateValues(i)
  <2>1. ReviewOf(i) = GateReview(i) /\ CreditOf(i) = GateCredit(i)
    BY DEF ReviewOf, CreditOf
  <2>2. \A j \in 1 .. n : ReviewedBranch(j) = turns[j].branch
    BY <1>7 DEF ReviewedBranch
  <2>3. PICK seen2 : seen2 = {j \in i .. LastSearch : ReviewedBranch(j) = "s_before"}
    OBVIOUS
  <2>4. PICK counted, values :
          /\ counted = {j \in i .. LastCounted(i, seen2) : ReviewedBranch(j) \in MainBranches}
          /\ values = GateValues(i)
    OBVIOUS
  <2>12. counted = GateCounted(i)
    BY <2>3, <2>4 DEF GateCounted
  <2>5. seen2 \cap i .. n = stops \cap i .. n
    <3>1. \A j \in i .. n : j \in 1 .. n
      OBVIOUS
    <3> QED
      BY <1>2, <2>2, <2>3, <3>1
  <2>6. ASSUME NEW j PROVE j \in counted <=> j \in values
    <3>1. j \in i .. LastCounted(i, seen2) <=> j \in i .. n /\ Reaches(i, j, seen2)
      BY <1>2, CountedReaches
    <3>2. j \in i .. n => (Reaches(i, j, seen2) <=> Reaches(i, j, stops))
      <4> HIDE DEF stops
      <4> QED
        BY <2>5, SameStops
    <3>3. j \in i .. n => j \in 1 .. n
      OBVIOUS
    <3>4. j \in values <=> j \in i .. n /\ Reaches(i, j, stops)
                             /\ turns[j].branch \in MainBranches
      BY <1>2, <2>4 DEF GateValues
    <3>5. j \in counted <=> j \in i .. LastCounted(i, seen2)
                              /\ ReviewedBranch(j) \in MainBranches
      BY <2>4
    <3> HIDE DEF stops
    <3> QED
      BY <2>2, <3>1, <3>2, <3>3, <3>4, <3>5
  <2>7. counted = values
    BY <2>6
  <2>8. PICK main, decision, query :
          /\ main = GateCredit(i).main /\ decision = DecisionGate(i) /\ query = QueryGate(i)
    OBVIOUS
  <2>9. GateCredit(i) = [main |-> main, decision |-> decision, query |-> query]
        /\ main = (IF turns[i].branch \in MainBranches THEN Accumulated(values, i)
                   ELSE Nothing)
    BY <2>4, <2>8 DEF GateCredit
  <2>10. query = IF turns[i].branch = "n_invalid" /\ turns[i].spans.query # {} THEN -2
                 ELSE IF SoftDuplicate(i) THEN -1 ELSE 0
    <3>1. SoftDuplicate(i) => turns[i].branch # "n_invalid"
      BY DEF SoftDuplicate
    <3> QED
      BY <2>8, <3>1 DEF QueryGate
  <2>11. GateReview(i) =
           [main |-> IF turns[i].branch \in MainBranches THEN Accumulated(counted, i)
                     ELSE Nothing,
            decision |-> decision, query |-> query]
    BY <2>2, <2>8, <2>10, <2>12 DEF GateReview, DecisionGate, SoftDuplicate
  <2> QED
    BY <2>1, <2>4, <2>7, <2>9, <2>11, <2>12
<1>12. ASSUME NEW i \in 1 .. n, i \in DOMAIN gain PROVE turns[i].branch # "n_budget"
  BY <1>2, <1>3, <1>4, <1>12 DEF Branched
<1>13. \A i \in 1 .. n : ReviewedBranch(i) = turns[i].branch
  BY <1>7 DEF ReviewedBranch
<1>14. ~ GateReviewRefuses
  BY <1>2, <1>5, <1>6, <1>7, <1>11, <1>12, <1>13 DEF GateReviewRefuses
<1> QED
  BY <1>2, <1>10, <1>11, <1>14 DEF Agreed
-----------------------------------------------------------------------------
(* The learner batch and the worker                                         *)

(* A calculated credit, and the parts of it that pull down.                 *)
Calculated == [i \in All |-> CreditOf(i)]

(* Only the gates have parts beside the main one.                           *)
LEMMA PartsOfCredit ==
  ASSUME Assignable, NEW i \in 1 .. searchCount
  PROVE  LET c == CreditOf(i)
         IN  /\ ~ localized => c.decision = 0 /\ c.query = 0
             /\ localized => c = GateCredit(i) /\ GateFacts(i)
<1>1. mode \in {"novelty", "routed", "mica", "consensus", "gate"}
      /\ (mode = "gate" <=> localized)
  BY DEF Assignable, ModeKnown
<1>2. \A m : MainOnly(m).decision = 0 /\ MainOnly(m).query = 0
  BY DEF MainOnly
<1>3. CASE localized
  BY <1>1, <1>3, GateFactsKnown DEF CreditOf
<1>4. CASE mode = "novelty"
  <2>1. \E m : CreditOf(i) = MainOnly(m)
    BY <1>4 DEF CreditOf, NoveltyCredit
  <2> QED
    BY <1>1, <1>2, <1>4, <2>1
<1>5. CASE mode = "routed"
  <2>1. \E m : CreditOf(i) = MainOnly(m)
    BY <1>5 DEF CreditOf, RoutedCredit
  <2> QED
    BY <1>1, <1>2, <1>5, <2>1
<1>6. CASE mode = "mica"
  <2>1. \E m : CreditOf(i) = MainOnly(m)
    BY <1>6 DEF CreditOf, MicaCredit
  <2> QED
    BY <1>1, <1>2, <1>6, <2>1
<1>7. CASE mode = "consensus"
  <2>1. \E m : CreditOf(i) = MainOnly(m)
    BY <1>7 DEF CreditOf, ConsensusCredit
  <2> QED
    BY <1>1, <1>2, <1>7, <2>1
<1> QED
  BY <1>1, <1>3, <1>4, <1>5, <1>6, <1>7

(* No token has two owners.                                                 *)
LEMMA OneOwner ==
  ASSUME NEW toks, NEW i \in Int, NEW j \in Int,
         OwnedBy(toks, i - 1) \cap OwnedBy(toks, j - 1) # {}
  PROVE  i = j
<1>1. PICK p : p \in OwnedBy(toks, i - 1) \cap OwnedBy(toks, j - 1)
  OBVIOUS
<1>2. Token("model", i - 1).turn = Token("model", j - 1).turn
  BY <1>1 DEF OwnedBy
<1>3. i - 1 = j - 1
  BY <1>2 DEF Token
<1> QED
  BY <1>3

(* The parts that pull down are on tokens of the model, each of one search  *)
(* and of one role.                                                         *)
MasksApart(c) ==
  /\ \A p \in DecisionMask(c) :
       \E i \in 1 .. searchCount : /\ localized /\ c[i].decision # 0
                                   /\ p \in turns[i].spans.decision
  /\ \A p \in QueryMask(c) :
       \E i \in 1 .. searchCount : /\ localized /\ c[i].query # 0
                                   /\ p \in turns[i].spans.query
(* The masks of a calculated credit cover the spans of its gates.           *)
LEMMA MasksKnown ==
  ASSUME Assignable
  PROVE  /\ DOMAIN Calculated = 1 .. searchCount
         /\ \A i \in 1 .. searchCount : Calculated[i] = CreditOf(i)
         /\ MasksApart(Calculated)
<1>1. All = 1 .. searchCount
  BY ScoredSearches DEF Assignable
<1>2. PICK c : c = Calculated
  OBVIOUS
<1>3. DOMAIN c = 1 .. searchCount /\ \A i \in 1 .. searchCount : c[i] = CreditOf(i)
  BY <1>1, <1>2 DEF Calculated
<1>4. \A i \in 1 .. searchCount : ~ localized => c[i].decision = 0 /\ c[i].query = 0
  BY <1>3, PartsOfCredit
<1>5. MasksApart(c)
  BY <1>3, <1>4 DEF MasksApart, DecisionMask, QueryMask
<1> QED
  BY <1>2, <1>3, <1>5

(* The learner batch accepts the masks.                                     *)
LEMMA BatchAccepts ==
  ASSUME Assignable
  PROVE  ~ BatchRefuses(Calculated)
<1>1. PICK c : c = Calculated
  OBVIOUS
<1>2. PICK n : n = searchCount
  OBVIOUS
<1>3. DOMAIN c = 1 .. n /\ (\A i \in 1 .. n : c[i] = CreditOf(i)) /\ MasksApart(c)
  BY <1>1, <1>2, MasksKnown
<1>4. \A i \in 1 .. n : /\ ~ localized => c[i].decision = 0 /\ c[i].query = 0
                        /\ localized => c[i] = GateCredit(i) /\ GateFacts(i)
  BY <1>2, <1>3, PartsOfCredit
<1>5. ASSUME NEW i \in 1 .. n
      PROVE  /\ c[i].decision # 0 => turns[i].spans.decision # {}
             /\ c[i].query # 0 => turns[i].spans.query # {}
  BY <1>4 DEF GateFacts
<1>6. ASSUME NEW i \in 1 .. n, localized
      PROVE  /\ turns[i].spans.decision \subseteq OwnedBy(tokens, i - 1)
             /\ turns[i].spans.query \subseteq OwnedBy(tokens, i - 1)
             /\ turns[i].spans.decision \cap turns[i].spans.query = {}
  BY <1>4, <1>6 DEF GateFacts, RolesApart
<1>7. DOMAIN tokens = 1 .. Len(tokens)
  <2>1. tokens \in Seq(TokenSet)
    BY DEF Assignable, Scorable, LoopInv, TokenInv, TokensKnown
  <2> QED
    BY <2>1
<1>8. \A k : OwnedBy(tokens, k) \subseteq ModelPositions
  BY <1>7 DEF OwnedBy, ModelPositions, Token
<1>9. DecisionMask(c) \subseteq ModelPositions /\ QueryMask(c) \subseteq ModelPositions
  BY <1>2, <1>3, <1>6, <1>8 DEF MasksApart
<1>10. ASSUME NEW p \in DecisionMask(c), p \in QueryMask(c) PROVE FALSE
  <2>1. PICK i \in 1 .. n : localized /\ p \in turns[i].spans.decision
    BY <1>2, <1>3, <1>10 DEF MasksApart
  <2>2. PICK j \in 1 .. n : p \in turns[j].spans.query
    BY <1>2, <1>3, <1>10 DEF MasksApart
  <2>3. p \in OwnedBy(tokens, i - 1) /\ p \in OwnedBy(tokens, j - 1)
    BY <1>6, <2>1, <2>2
  <2>4. i = j
    BY <2>3, OneOwner
  <2> QED
    BY <1>6, <2>1, <2>2, <2>4
<1> QED
  BY <1>1, <1>3, <1>5, <1>9, <1>10 DEF BatchRefuses

(* The policy loss is over the tokens of the turns that are optimized.      *)
LEMMA WorkerAccepts ==
  ASSUME Assignable
  PROVE  /\ ~ WorkerRefuses(Calculated) /\ PolicyCredit = ModelPositions
<1>1. LoopInv /\ pc = "done" /\ systemValid /\ PolicyCredit # {} /\ Scorable
  BY DEF Assignable, Scorable
<1>2. PolicyCredit = ModelPositions
  BY <1>1, LoopCredits DEF CreditIsTheModels, ModelPositions
<1>3. PICK n, m : n = Len(turns) /\ m = searchCount
  OBVIOUS
<1>4. EachTurnEarns(n)
  BY <1>1, <1>3, TurnsEarn
<1>5. n \in Nat /\ DOMAIN turns = 1 .. n /\ m \in Nat /\ All = 1 .. m /\ 1 .. m \subseteq 1 .. n
  BY <1>1, <1>3, <1>4, ScoredSearches DEF EachTurnEarns
<1>6. OptimizedTurns = {i - 1 : i \in 1 .. n}
  <2>1. Terminal \subseteq DOMAIN turns
    BY DEF Terminal
  <2>2. Terminal # {} => Max(Terminal) \in 1 .. n
    <3>1. Terminal \in SUBSET (1 .. n)
      BY <1>5, <2>1
    <3> QED
      BY <1>5, <2>1, <3>1, PositionEnds
  <2>3. \A i \in 1 .. n : /\ turns[i].index = i - 1
                          /\ i \in 1 .. m \/ (Terminal # {} /\ i = Max(Terminal))
    BY <1>3, <1>4, <1>5 DEF EachTurnEarns
  <2>4. ASSUME NEW x PROVE x \in OptimizedTurns <=> x \in {i - 1 : i \in 1 .. n}
    <3>1. ASSUME x \in OptimizedTurns PROVE x \in {i - 1 : i \in 1 .. n}
      <4>1. \E i \in 1 .. n : x = turns[i].index
        BY <1>5, <2>2, <3>1 DEF OptimizedTurns
      <4> QED
        BY <2>3, <4>1
    <3>2. ASSUME NEW i \in 1 .. n, x = i - 1 PROVE x \in OptimizedTurns
      <4>1. x = turns[i].index
        BY <2>3, <3>2
      <4>2. CASE i \in 1 .. m
        BY <1>5, <4>1, <4>2 DEF OptimizedTurns
      <4>3. CASE Terminal # {} /\ i = Max(Terminal)
        BY <4>1, <4>3 DEF OptimizedTurns
      <4> QED
        BY <2>3, <4>2, <4>3
    <3> QED
      BY <3>1, <3>2
  <2> QED
    BY <2>4
<1>7. {tokens[p].turn : p \in ModelPositions} = {i - 1 : i \in 1 .. n}
  <2>1. ASSUME NEW p \in ModelPositions
        PROVE  tokens[p].turn \in {i - 1 : i \in 1 .. n}
    <3>1. PICK i \in 1 .. n : tokens[p] = Token("model", i - 1)
      BY <1>4 DEF EachTurnEarns, ModelPositions
    <3> QED
      BY <3>1 DEF Token
  <2>2. ASSUME NEW i \in 1 .. n
        PROVE  \E p \in ModelPositions : tokens[p].turn = i - 1
    <3>1. PICK p : p \in ModelTokens(i - 1)
      BY <1>4 DEF EachTurnEarns
    <3>2. p \in DOMAIN tokens /\ tokens[p] = Token("model", i - 1)
      BY <3>1 DEF ModelTokens
    <3> QED
      BY <3>2 DEF ModelPositions, Token
  <2> QED
    BY <2>1, <2>2
<1>8. PICK c : c = Calculated
  OBVIOUS
<1>9. DOMAIN c = 1 .. m /\ \A i \in 1 .. m : c[i] = CreditOf(i)
  BY <1>3, <1>8, MasksKnown
<1>10. ASSUME NEW i \in 1 .. m, SignOf(c[i].main) # 0
       PROVE  c[i].decision = 0 /\ c[i].query \in {0, -1}
  <2>1. CASE ~ localized
    BY <1>3, <1>9, <2>1, PartsOfCredit
  <2>2. CASE localized
    <3>1. c[i] = GateCredit(i) /\ GateFacts(i)
      BY <1>3, <1>9, <2>2, PartsOfCredit
    <3>2. turns[i].branch \in MainBranches
      BY <1>10, <3>1 DEF GateFacts
    <3>3. turns[i].branch # "n_invalid"
      BY <3>2 DEF MainBranches
    <3>4. c[i].decision = 0 /\ (c[i].query # 0 => c[i].query = -1)
      BY <3>1, <3>2, <3>3 DEF GateFacts
    <3> QED
      BY <3>4
  <2> QED
    BY <2>1, <2>2
<1> QED
  BY <1>1, <1>2, <1>6, <1>7, <1>8, <1>9, <1>10 DEF WorkerRefuses

(* The review of the adapter.                                               *)
LEMMA ReviewAccepts ==
  ASSUME Assignable
  PROVE  ~ CreditRefuses /\ ~ ReviewRefuses(Calculated)
<1>1. mode \in {"novelty", "routed", "mica", "consensus", "gate"}
  BY DEF Assignable, ModeKnown
<1>2. Agreed
  BY <1>1, NoveltyAgrees, RoutedAgrees, MicaAgrees, ConsensusAgrees, GateAgrees
<1>3. ASSUME mode = "mica" PROVE ~ MicaReviewRefuses(Calculated)
  <2>1. /\ Scorable /\ ~ localized /\ Unprobed /\ IgSearches = DOMAIN gain
    BY <1>3, MicaAgrees DEF Assignable, ModeKnown, Probed
  <2>2. PICK c : c = Calculated
    OBVIOUS
  <2>3. DOMAIN c = 1 .. searchCount /\ MasksApart(c) /\ All = 1 .. searchCount
    BY <2>1, <2>2, MasksKnown, ScoredSearches
  <2>4. DecisionMask(c) \cup QueryMask(c) = {}
    BY <2>1, <2>3 DEF MasksApart
  <2>5. {i \in All : turns[i].credit} = All
    BY <2>1, <2>3, PlainSearches
  <2>6. ASSUME NEW i \in All, turns[i].ig
        PROVE  /\ Peers(i) # {} /\ MicaFacts(i).peers = Cardinality(Peers(i))
               /\ MicaFacts(i).singleton = (Cardinality(Peers(i)) = 1)
    <3>1. i \in DOMAIN gain
      BY <2>1, <2>6 DEF IgSearches
    <3>2. /\ Peers(i) # {}
          /\ Peers(i) = {"this"} <=> Cardinality(Peers(i)) = 1
      BY <3>1, PeersKnown
    <3>3. MicaFacts(i).peers = Cardinality(Peers(i))
          /\ MicaFacts(i).singleton = (turns[i].ig /\ Peers(i) = {"this"})
      BY <2>6 DEF MicaFacts
    <3>4. /\ (turns[i].ig /\ Peers(i) = {"this"}) \in BOOLEAN
          /\ (Cardinality(Peers(i)) = 1) \in BOOLEAN
          /\ (turns[i].ig /\ Peers(i) = {"this"}) <=> (Cardinality(Peers(i)) = 1)
      BY <2>6, <3>2
    <3>5. (turns[i].ig /\ Peers(i) = {"this"}) = (Cardinality(Peers(i)) = 1)
      BY <3>4, Zenon
    <3> QED
      BY <3>2, <3>3, <3>5
  <2>7. ASSUME NEW i \in All, ~ turns[i].ig
        PROVE  i \notin DOMAIN gain /\ MicaFacts(i).peers = 0 /\ MicaFacts(i).missing # "none"
    <3>1. i \notin DOMAIN gain
      BY <2>1, <2>7 DEF IgSearches
    <3>2. MissingReason(i) # "none"
      BY <2>7 DEF MissingReason
    <3> QED
      BY <2>7, <3>1, <3>2 DEF MicaFacts
  <2>8. PolicyCredit \subseteq ModelPositions
    BY WorkerAccepts
  <2> QED
    BY <2>1, <2>2, <2>3, <2>4, <2>5, <2>6, <2>7, <2>8 DEF MicaReviewRefuses, Unprobed
<1>4. ASSUME NEW i \in All PROVE Calculated[i] = ReviewOf(i)
  BY <1>2 DEF Calculated, Agreed
<1> QED
  BY <1>1, <1>2, <1>3, <1>4, GateAgrees DEF Agreed, ReviewRefuses, ReviewOf

(* Nothing that is calculated is refused.                                   *)
LEMMA NothingIsRefused ==
  ASSUME Assignable
  PROVE  ~ (CreditRefuses \/ BatchRefuses(Calculated) \/ ReviewRefuses(Calculated)
            \/ WorkerRefuses(Calculated))
BY BatchAccepts, WorkerAccepts, ReviewAccepts
-----------------------------------------------------------------------------
(* What a credit was earned by                                              *)

(* The sign of a credit is that of its sum, or of its route.                *)
LEMMA SignKnown ==
  ASSUME NEW x \in Int
  PROVE  /\ Sign(x) \in {-1, 0, 1}
         /\ Sign(x) = 1 <=> x > 0
         /\ Sign(x) = -1 <=> x < 0
         /\ x \in {-1, 0, 1} => Sign(x) = x
BY DEF Sign

(* The sign of a credit is that of its sum or of its route.                 *)
LEMMA SignOfCredit ==
  ASSUME NEW sum \in Int, NEW count \in Int, NEW route \in {-1, 0, 1},
         NEW s \in {-1, 1}, SignOf(Credit(sum, count, route)) = s
  PROVE  Sign(sum) = s \/ route = s
<1>1. PICK c : c = Credit(sum, count, route) /\ SignOf(c) = s
  OBVIOUS
<1>2. c.sum = sum /\ c.count = count /\ c.route = route
  BY <1>1 DEF Credit
<1>3. PICK a : a = Sign(sum)
  OBVIOUS
<1>4. PICK square \in Int : square = sum * sum - count
  OBVIOUS
<1>5. PICK b : b = Sign(square)
  OBVIOUS
<1>6. a \in {-1, 0, 1} /\ b \in {-1, 0, 1} /\ (a = 1 <=> sum > 0) /\ (a = -1 <=> sum < 0)
  BY <1>3, <1>4, <1>5, SignKnown
<1>7. s = IF a * route >= 0 THEN Sign(sum + route) ELSE b * a
  BY <1>1, <1>2, <1>3, <1>4, <1>5 DEF SignOf
<1>8. CASE a * route >= 0
  <2>1. sum + route \in Int /\ s = Sign(sum + route)
    BY <1>7, <1>8
  <2>2. (s = 1 => sum + route > 0) /\ (s = -1 => sum + route < 0)
    BY <2>1, SignKnown
  <2>3. CASE s = 1
    BY <1>3, <1>6, <2>2, <2>3
  <2>4. CASE s = -1
    BY <1>3, <1>6, <2>2, <2>4
  <2> QED
    BY <2>3, <2>4
<1>9. CASE ~ (a * route >= 0)
  <2>1. a \in {-1, 1} /\ route \in {-1, 1}
    <3>1. a = 0 \/ route = 0 => a * route = 0
      BY <1>6
    <3> QED
      BY <1>6, <1>9, <3>1
  <2>2. a # route
    BY <1>9, <2>1
  <2> QED
    BY <1>3, <2>1, <2>2
<1> QED
  BY <1>8, <1>9

(* A sum with a sign has a summand with that sign.                          *)
Exceeds(S, f, h, s) ==
  /\ IsFiniteSet(S) /\ Ints(S, f) /\ Ints(S, h)
  /\ s \in {-1, 1} /\ Sign(SumOn(S, f) - SumOn(S, h)) = s
Differs(S, f, h, s) == \E j \in S : Sign(f[j] - h[j]) = s
(* When two sums differ, two summands differ in that direction.             *)
LEMMA SummandOfSum ==
  ASSUME NEW S, NEW f, NEW h, NEW s, Exceeds(S, f, h, s)
  PROVE  Differs(S, f, h, s)
<1>0. /\ IsFiniteSet(S) /\ Ints(S, f) /\ Ints(S, h)
      /\ s \in {-1, 1} /\ Sign(SumOn(S, f) - SumOn(S, h)) = s
  BY DEF Exceeds
<1>1. PICK x, y \in Int : x = SumOn(S, f) /\ y = SumOn(S, h)
  BY <1>0, SumType
<1>2. SUFFICES ASSUME \A j \in S : Sign(f[j] - h[j]) # s PROVE FALSE
  BY DEF Differs
<1>3. \A j \in S : f[j] \in Int /\ h[j] \in Int
  BY <1>0 DEF Ints
<1>4. CASE s = 1
  <2>1. \A j \in S : f[j] <= h[j]
    BY <1>2, <1>3, <1>4, SignKnown
  <2>2. x <= y
    BY <1>0, <1>1, <2>1, SumAtMost
  <2> QED
    BY <1>0, <1>1, <1>4, <2>2, SignKnown
<1>5. CASE s = -1
  <2>1. \A j \in S : h[j] <= f[j]
    BY <1>2, <1>3, <1>5, SignKnown
  <2>2. y <= x
    BY <1>0, <1>1, <2>1, SumAtMost
  <2> QED
    BY <1>0, <1>1, <1>5, <2>2, SignKnown
<1> QED
  BY <1>0, <1>4, <1>5

(* Of the normalized gains, such a summand is a difference to the peer.     *)
LEMMA NormalizedKnown ==
  ASSUME Gained, NEW j \in 1 .. turn
  PROVE  /\ Normalized[j] \in {-1, 0, 1}
         /\ Normalized[j] # 0 => /\ j \in DOMAIN peer
                                 /\ Normalized[j] = Sign(gain[j] - peer[j])
<1>1. j \in DOMAIN gain /\ gain[j] \in Int
  BY GainKnown
<1>2. j \in DOMAIN peer => peer[j] \in Int
  BY PeerKnown
<1>3. Normalized[j] = IF j \in DOMAIN peer THEN Sign(gain[j] - peer[j]) ELSE 0
  BY <1>1 DEF Normalized
<1>4. j \in DOMAIN peer => Sign(gain[j] - peer[j]) \in {-1, 0, 1}
  BY <1>1, <1>2, SignKnown
<1> QED
  BY <1>3, <1>4

(* A sum of normalized gains has the sign of one of them.                   *)
LEMMA SumOfNormalized ==
  ASSUME Scorable, Gained, NEW values \in SUBSET (1 .. turn)
  PROVE  /\ SumNormalized(values) \in Int /\ Cardinality(values) \in Nat
         /\ \A s \in {-1, 1} : Sign(SumNormalized(values)) = s =>
              \E j \in values : j \in DOMAIN peer /\ Sign(gain[j] - peer[j]) = s
<1>1. PICK k \in Nat : k = turn
  BY ScoredSearches
<1>2. IsFiniteSet(values) /\ Cardinality(values) \in Nat
  BY <1>1, PositionEnds
<1>3. PICK f : f = Normalized
  OBVIOUS
<1>4. SumNormalized(values) = SumOn(values, f)
  BY <1>3 DEF SumNormalized, SumOn
<1>5. PICK zero : zero = [j \in values |-> 0]
  OBVIOUS
<1>6. Ints(values, f) /\ Ints(values, zero) /\ \A j \in values : zero[j] = 0
  BY <1>3, <1>5, NormalizedKnown DEF Ints
<1>7. SumOn(values, f) \in Int /\ SumOn(values, zero) = 0
  BY <1>2, <1>6, SumType, SumZero
<1>8. ASSUME NEW s \in {-1, 1}, Sign(SumNormalized(values)) = s
      PROVE  \E j \in values : j \in DOMAIN peer /\ Sign(gain[j] - peer[j]) = s
  <2>1. PICK x \in Int : x = SumOn(values, f)
    BY <1>7
  <2>2. x - 0 = x
    OBVIOUS
  <2>3. Sign(SumOn(values, f) - SumOn(values, zero)) = s
    BY <1>4, <1>7, <1>8, <2>1, <2>2
  <2>4. PICK j \in values : Sign(f[j] - zero[j]) = s
    <3>1. Exceeds(values, f, zero, s)
      BY <1>2, <1>6, <1>8, <2>3 DEF Exceeds
    <3>2. Differs(values, f, zero, s)
      BY <3>1, SummandOfSum, Zenon
    <3> QED
      BY <3>2 DEF Differs
  <2>5. f[j] \in {-1, 0, 1} /\ zero[j] = 0
    BY <1>3, <1>6, NormalizedKnown
  <2>6. f[j] - zero[j] = f[j] /\ f[j] = s /\ s # 0
    BY <2>4, <2>5, SignKnown
  <2>7. j \in DOMAIN peer /\ f[j] = Sign(gain[j] - peer[j])
    BY <1>3, <2>6, NormalizedKnown
  <2> QED
    BY <2>6, <2>7
<1> QED
  BY <1>2, <1>4, <1>7, <1>8

(* The outcome counts in the direction of the probe's reward.               *)
LEMMA OfTwo ==
  ASSUME NEW a \in Int, NEW b \in Int
  PROVE  /\ Max({a, b}) = IF a >= b THEN a ELSE b
         /\ Min({a, b}) = IF a <= b THEN a ELSE b
<1>1. IsFiniteSet({a, b})
  <2>1. IsFiniteSet({a}) /\ {a} \cup {b} = {a, b}
    BY FS_Singleton
  <2> QED
    BY <2>1, FS_AddElement
<1>2. PICK x, y : x = Max({a, b}) /\ y = Min({a, b})
  OBVIOUS
<1>3. {a, b} \in SUBSET Int /\ {a, b} # {}
  OBVIOUS
<1>4. x \in {a, b} /\ (\A t \in {a, b} : x >= t)
  BY <1>1, <1>2, <1>3, MaxOfFinite
<1>5. y \in {a, b} /\ (\A t \in {a, b} : y <= t)
  BY <1>1, <1>2, <1>3, MinOfFinite
<1> QED
  BY <1>2, <1>4, <1>5

(* The outcome counts where the reward of the probe moved with it.          *)
LEMMA RouteKnown ==
  ASSUME Gained, ProbedAfter, ProbedBefore, NEW i \in DOMAIN after, i \in 1 .. searchCount
  PROVE  /\ Route(i) \in {-1, 0, 1}
         /\ \A s \in {-1, 1} : Route(i) = s =>
              Sign(outcome) = s /\ Sign(after[i].reward - before[i].reward) = s
<1>1. PICK delta \in Int : delta = after[i].reward - before[i].reward
  BY DEF ProbedAfter, ProbedBefore, AnsweredBefore
<1>2. PICK o \in {-1, 0, 1} : o = outcome
  BY DEF Gained
<1>3. PICK up, down : up = Max({o, 0}) /\ down = Min({o, 0})
  OBVIOUS
<1>4. up = (IF o >= 0 THEN o ELSE 0) /\ down = (IF o <= 0 THEN o ELSE 0)
  BY <1>3, OfTwo
<1>5. Route(i) = IF delta > 0 THEN up ELSE IF delta < 0 THEN down ELSE 0
  BY <1>1, <1>2, <1>3 DEF Route
<1>6. Sign(o) = o /\ (Sign(delta) = 1 <=> delta > 0) /\ (Sign(delta) = -1 <=> delta < 0)
  BY <1>2, SignKnown
<1> QED
  BY <1>1, <1>2, <1>4, <1>5, <1>6

(* A search whose gain may count for the i-th one.                          *)
MayCount(i, j) ==
  /\ j \in i .. LastSearch /\ j \in 1 .. turn
  /\ \A k \in i .. j : ~ KnownBefore(k)
  /\ \A k \in i .. j - 1 : ~ SufficientAfter(k)
EarnedFor(i, sign) ==
  LET wasted == KnownBefore(i) \/ turns[i].noNew = "none"
  IN  IF mode = "mica"
      THEN sign # 0 => turns[i].prefixValid /\ EarnedAgainstPeer(i, sign)
      ELSE /\ sign = 1 => EarnedAt(i, 1) /\ (mode # "consensus" => turns[i].prefixValid)
           /\ sign = -1 => EarnedAt(i, -1) \/ (mode # "gate" /\ wasted)
Earned(c) == \A i \in All : EarnedFor(i, SignOf(c[i].main))

(* Of what may count, a sum with a sign is earned by a summand.             *)
LEMMA EarnedByGain ==
  ASSUME Scorable, NEW i, NEW j, MayCount(i, j), j \in DOMAIN peer,
         NEW s, Sign(gain[j] - peer[j]) = s
  PROVE  EarnedAt(i, s)
<1>1. turns[j].prefixValid
  <2>1. j \in 1 .. turn /\ 1 .. turn \subseteq 1 .. searchCount
    <3>1. PICK k, n \in Nat : k = turn /\ n = searchCount /\ n \in {k, k + 1}
      BY ScoredSearches
    <3> QED
      BY <3>1 DEF MayCount
  <2>2. Scored(j)
    BY <2>1, ScoredTurns
  <2> QED
    BY <2>1, <2>2 DEF Scored, WasObserved
<1> QED
  BY <1>1 DEF MayCount, EarnedAt

(* And so it is for a sum of them.                                          *)
LEMMA EarnedBySum ==
  ASSUME Scorable, Gained, NEW i, NEW values,
         \A j \in values : MayCount(i, j),
         NEW s \in {-1, 1}, Sign(SumNormalized(values)) = s
  PROVE  EarnedAt(i, s)
<1>1. values \in SUBSET (1 .. turn)
  BY DEF MayCount
<1>2. PICK j \in values : j \in DOMAIN peer /\ Sign(gain[j] - peer[j]) = s
  BY <1>1, SumOfNormalized
<1>3. MayCount(i, j) /\ j \in DOMAIN peer
  BY <1>2
<1> QED
  BY <1>2, <1>3, EarnedByGain

(* A positive credit of a search that was observed, and a negative one.     *)
LEMMA EarnedSign ==
  ASSUME NEW i, mode # "mica", turns[i].prefixValid \/ mode = "consensus", NEW sign,
         sign \in {-1, 1} => EarnedAt(i, sign)
  PROVE  EarnedFor(i, sign)
BY DEF EarnedFor

(* The novelty mode credits what was earned.                                *)
LEMMA NoveltyEarned ==
  ASSUME Assignable, mode = "novelty", NEW i \in 1 .. searchCount
  PROVE  EarnedFor(i, SignOf(CreditOf(i).main))
<1>1. /\ Scorable /\ ~ localized /\ Gained /\ AnsweredBefore(before, searchCount)
      /\ after = NoResults
  BY DEF Assignable, ModeKnown, Probed
<1>2. PICK k, n \in Nat : k = turn /\ n = searchCount /\ n = LastSearch
  BY <1>1, ScoredSearches
<1>3. PICK m : m = CreditOf(i).main
  OBVIOUS
<1>4. CASE before[i].sufficient \/ turns[i].noNew = "none"
  <2>1. m = Penalty
    BY <1>3, <1>4 DEF CreditOf, NoveltyCredit, MainOnly
  <2>2. SignOf(m) = -1 /\ -1 # 1
    BY <2>1, NothingHasNoSign
  <2> QED
    BY <1>3, <1>4, <2>2 DEF EarnedFor, KnownBefore
<1>5. CASE ~ (before[i].sufficient \/ turns[i].noNew = "none")
  <2>1. i \in 1 .. k /\ Scored(i)
    BY <1>1, <1>2, <1>5, PlainSearches, ScoredTurns
  <2>2. turns[i].prefixValid
    BY <1>2, <2>1 DEF Scored, WasObserved
  <2>3. i \in DOMAIN gain
    BY <1>1, <1>2, <2>1, GainKnown
  <2>4. m = Credit(Normalized[i], 1, 0)
    BY <1>3, <1>5, <2>3 DEF CreditOf, NoveltyCredit, MainOnly
  <2>5. PICK hat \in {-1, 0, 1} : hat = Normalized[i]
    BY <1>1, <1>2, <2>1, NormalizedKnown
  <2>6. ASSUME NEW s \in {-1, 1}, SignOf(m) = s PROVE EarnedAt(i, s)
    <3>1. hat \in Int /\ 1 \in Int /\ 0 \in {-1, 0, 1} /\ SignOf(Credit(hat, 1, 0)) = s
      BY <2>4, <2>5, <2>6
    <3>2. Sign(hat) = s \/ 0 = s
      BY <3>1, SignOfCredit
    <3>3. hat = s /\ hat # 0
      BY <2>5, <3>2, SignKnown
    <3>4. i \in DOMAIN peer /\ Sign(gain[i] - peer[i]) = s
      BY <1>1, <1>2, <2>1, <2>5, <3>3, NormalizedKnown
    <3>5. MayCount(i, i)
      <4>1. i .. i = {i} /\ i .. i - 1 = {} /\ i \in i .. LastSearch
        BY <1>2, <2>1
      <4>2. ~ KnownBefore(i)
        BY <1>5 DEF KnownBefore
      <4> QED
        BY <1>2, <2>1, <4>1, <4>2 DEF MayCount
    <3> QED
      BY <1>1, <3>4, <3>5, EarnedByGain
  <2>7. SignOf(m) \in {-1, 1} => EarnedAt(i, SignOf(m))
    BY <2>6
  <2> QED
    BY <1>3, <2>2, <2>7, EarnedSign
<1> QED
  BY <1>4, <1>5

(* What both modes with post probes accumulate.                             *)
LEMMA AccumulatedEarned ==
  ASSUME Scorable, Gained, ProbedBefore, ProbedAfter, NEW i \in 1 .. searchCount,
         i \in DOMAIN after, NEW values, \A j \in values : MayCount(i, j),
         NEW s \in {-1, 1}, SignOf(Accumulated(values, i)) = s
  PROVE  EarnedAt(i, s)
<1>1. values \in SUBSET (1 .. turn)
  BY DEF MayCount
<1>2. PICK sum \in Int, count \in Nat :
        sum = SumNormalized(values) /\ count = Cardinality(values)
  BY <1>1, SumOfNormalized
<1>3. PICK route \in {-1, 0, 1} : route = Route(i)
  BY RouteKnown
<1>4. count \in Int /\ SignOf(Credit(sum, count, route)) = s
  BY <1>2, <1>3 DEF Accumulated
<1>5. Sign(sum) = s \/ route = s
  BY <1>4, SignOfCredit
<1>6. CASE Sign(sum) = s
  BY <1>2, <1>6, EarnedBySum
<1>7. CASE route = s
  <2>1. Sign(outcome) = s /\ Sign(after[i].reward - before[i].reward) = s
    BY <1>3, <1>7, RouteKnown
  <2> QED
    BY <2>1 DEF EarnedAt
<1> QED
  BY <1>5, <1>6, <1>7

(* The routed mode credits what was earned.                                 *)
LEMMA RoutedEarned ==
  ASSUME Assignable, mode = "routed", NEW i \in 1 .. searchCount
  PROVE  EarnedFor(i, SignOf(CreditOf(i).main))
<1>1. /\ Scorable /\ ~ localized /\ Gained /\ ProbedBefore /\ ProbedAfter
  BY DEF Assignable, ModeKnown, Probed
<1>2. PICK k, n \in Nat : k = turn /\ n = searchCount /\ n = LastSearch /\ n \in {k, k + 1}
  BY <1>1, ScoredSearches
<1>3. PICK m : m = CreditOf(i).main
  OBVIOUS
<1>4. CASE ~ RoutedNormal(i)
  <2>1. m = Penalty
    BY <1>3, <1>4 DEF CreditOf, RoutedCredit, MainOnly
  <2>2. SignOf(m) = -1 /\ -1 # 1
    BY <2>1, NothingHasNoSign
  <2> QED
    BY <1>3, <1>4, <2>2 DEF EarnedFor, KnownBefore, RoutedNormal
<1>5. CASE RoutedNormal(i)
  <2>1. i \in 1 .. k /\ Scored(i) /\ ~ before[i].sufficient
    BY <1>1, <1>2, <1>5, PlainSearches, ScoredTurns DEF RoutedNormal
  <2>2. turns[i].prefixValid /\ i \in DOMAIN after
    BY <1>1, <1>2, <2>1 DEF Scored, WasObserved, ProbedAfter
  <2>3. m = Accumulated(RoutedValues(i), i)
    BY <1>3, <1>5 DEF CreditOf, RoutedCredit, MainOnly
  <2>4. ASSUME NEW j \in RoutedValues(i) PROVE MayCount(i, j)
    <3>1. j \in i .. n /\ Reaches(i, j, SufficientBefore) /\ turns[j].noNew # "none"
      BY <1>2 DEF RoutedValues
    <3>2. j \in 1 .. n
      BY <3>1
    <3>3. j \in 1 .. k
      BY <1>1, <1>2, <3>1, <3>2, PlainSearches
    <3>4. ASSUME NEW x \in i .. j PROVE ~ KnownBefore(x)
      <4>1. x \in 1 .. n
        BY <3>2
      <4>2. x \notin SufficientBefore
        BY <3>1 DEF Reaches
      <4>3. x \in DOMAIN before
        BY <1>1, <1>2, <4>1 DEF ProbedBefore, AnsweredBefore
      <4> QED
        BY <4>2, <4>3 DEF SufficientBefore, KnownBefore
    <3> QED
      BY <1>2, <3>1, <3>3, <3>4 DEF MayCount, Reaches
  <2>5. ASSUME NEW s \in {-1, 1}, SignOf(m) = s PROVE EarnedAt(i, s)
    BY <1>1, <2>2, <2>3, <2>4, <2>5, AccumulatedEarned
  <2>6. SignOf(m) \in {-1, 1} => EarnedAt(i, SignOf(m))
    BY <2>5
  <2> QED
    BY <1>3, <2>2, <2>6, EarnedSign
<1> QED
  BY <1>4, <1>5

(* The gate mode credits what was earned.                                   *)
LEMMA GateEarned ==
  ASSUME Assignable, mode = "gate", NEW i \in 1 .. searchCount
  PROVE  EarnedFor(i, SignOf(CreditOf(i).main))
<1>1. /\ Scorable /\ localized /\ Gained /\ ProbedBefore /\ ProbedAfter
  BY DEF Assignable, ModeKnown, Probed
<1>2. PICK k, n \in Nat : /\ k = turn /\ n = searchCount /\ n = LastSearch /\ n \in {k, k + 1}
                          /\ 1 .. n \subseteq DOMAIN turns
  BY <1>1, ScoredSearches
<1>3. PICK m : m = CreditOf(i).main
  OBVIOUS
<1>4. m = GateCredit(i).main
  BY <1>3 DEF CreditOf
<1>5. \A j \in 1 .. n : Branched(j) /\ GateFacts(j) /\ Scored(j)
  BY <1>1, <1>2, BranchesKnown, GateFactsKnown, ScoredTurns
<1>6. CASE ~ (turns[i].branch \in MainBranches)
  <2>1. SignOf(m) = 0
    BY <1>2, <1>4, <1>5, <1>6 DEF GateFacts
  <2> QED
    BY <1>3, <2>1 DEF EarnedFor
<1>7. CASE turns[i].branch \in MainBranches
  <2>1. i \in 1 .. k /\ i \in DOMAIN after
    BY <1>2, <1>5, <1>7 DEF Branched
  <2>2. turns[i].prefixValid
    BY <1>2, <1>5, <2>1 DEF Scored, WasObserved
  <2>3. m = Accumulated(GateValues(i), i)
    BY <1>2, <1>4, <1>5, <1>7 DEF GateFacts
  <2>4. ASSUME NEW j \in GateValues(i) PROVE MayCount(i, j)
    <3>1. /\ j \in i .. n /\ turns[j].branch \in MainBranches
          /\ Reaches(i, j, {x \in DOMAIN turns : turns[x].branch = "s_before"})
      BY <1>2 DEF GateValues
    <3>2. j \in 1 .. n
      BY <3>1
    <3>3. j \in 1 .. k
      BY <1>2, <1>5, <3>1, <3>2 DEF Branched
    <3>4. ASSUME NEW x \in i .. j PROVE ~ KnownBefore(x)
      <4>1. x \in 1 .. n /\ x \in 1 .. k
        BY <3>2, <3>3
      <4>2. turns[x].branch # "s_before"
        BY <1>2, <3>1, <4>1 DEF Reaches
      <4>3. Branched(x)
        BY <1>5, <4>1
      <4>4. ~ before[x].sufficient
        BY <1>2, <4>1, <4>2, <4>3 DEF Branched
      <4> QED
        BY <4>4 DEF KnownBefore
    <3> QED
      BY <1>2, <3>1, <3>3, <3>4 DEF MayCount, Reaches
  <2>5. ASSUME NEW s \in {-1, 1}, SignOf(m) = s PROVE EarnedAt(i, s)
    BY <1>1, <2>1, <2>3, <2>4, <2>5, AccumulatedEarned
  <2>6. SignOf(m) \in {-1, 1} => EarnedAt(i, SignOf(m))
    BY <2>5
  <2> QED
    BY <1>3, <2>2, <2>6, EarnedSign
<1> QED
  BY <1>6, <1>7

(* The consensus mode credits what was earned.                              *)
LEMMA ConsensusEarned ==
  ASSUME Assignable, mode = "consensus", NEW i \in 1 .. searchCount
  PROVE  EarnedFor(i, SignOf(CreditOf(i).main))
<1>1. /\ Scorable /\ Gained /\ after = NoResults
  BY DEF Assignable, Probed
<1>2. PICK k, n \in Nat : k = turn /\ n = searchCount /\ n = LastSearch /\ n \in {k, k + 1}
  BY <1>1, ScoredSearches
<1>3. PICK m, route : m = CreditOf(i).main /\ route = StopContinue(i)
  OBVIOUS
<1>4. PICK values : values = {j \in IgSearches : j >= i}
  OBVIOUS
<1>5. values \in SUBSET (1 .. turn) /\ \A j \in values : j \in 1 .. k /\ j >= i
  BY <1>1, <1>2, <1>4, GainedSearches
<1>6. ASSUME NEW j \in values PROVE MayCount(i, j)
  <2>1. j \in i .. LastSearch /\ j \in 1 .. turn
    BY <1>2, <1>5
  <2>2. \A x : ~ KnownBefore(x)
    BY DEF KnownBefore
  <2>3. \A x : ~ SufficientAfter(x)
    BY <1>1, NothingKnown DEF SufficientAfter
  <2> QED
    BY <2>1, <2>2, <2>3 DEF MayCount
<1>7. PICK sum \in Int, size \in Nat :
        sum = SumNormalized(values) /\ size = Cardinality(values)
  BY <1>1, <1>5, SumOfNormalized
<1>8. PICK count \in Int : count = 100 * Max({size, 1})
  <2>1. Max({size, 1}) \in Int
    BY OfTwo
  <2> QED
    BY <2>1
<1>9. m = Credit(3 * sum, count, route)
  <2>1. FutureIG(values).sum = 3 * sum /\ FutureIG(values).count = count
    BY <1>7, <1>8 DEF FutureIG
  <2> QED
    BY <1>3, <1>4, <2>1 DEF CreditOf, ConsensusCredit, MainOnly
<1>10. route \in {-1, 0, 1}
  BY <1>3 DEF StopContinue
<1>11. ASSUME NEW s \in {-1, 1}, SignOf(m) = s PROVE EarnedAt(i, s)
  <2>1. 3 * sum \in Int /\ SignOf(Credit(3 * sum, count, route)) = s
    BY <1>9, <1>11
  <2>2. Sign(3 * sum) = s \/ route = s
    BY <1>10, <2>1, SignOfCredit
  <2>3. CASE Sign(3 * sum) = s
    <3>1. Sign(sum) = s
      BY <2>3, SignKnown
    <3> QED
      BY <1>1, <1>6, <1>7, <3>1, EarnedBySum
  <2>4. CASE route = s
    BY <1>3, <2>4 DEF EarnedAt
  <2> QED
    BY <2>2, <2>3, <2>4
<1>12. SignOf(m) \in {-1, 1} => EarnedAt(i, SignOf(m))
  BY <1>11
<1> QED
  BY <1>3, <1>12, EarnedSign
-----------------------------------------------------------------------------
(* The return from a depth on, as a sum over all depths there may be.       *)
LEMMA ReturnIsSum ==
  ASSUME NEW l \in 0 .. MaxSearchTurns, NEW g, DOMAIN g = 1 .. l,
         \A j \in 1 .. l : g[j] \in Int, NEW i \in Nat \ {0}, NEW f,
         f = [j \in i .. MaxSearchTurns |-> GainAt(g, j)]
  PROVE  /\ IsFiniteSet(i .. MaxSearchTurns) /\ Ints(i .. MaxSearchTurns, f)
         /\ Return(g, i) = SumOn(i .. MaxSearchTurns, f)
         /\ SumOn(i .. MaxSearchTurns, f) \in Int
<1> DEFINE S == i .. MaxSearchTurns
           U == {j \in DOMAIN g : j >= i}
           R == S \ U
<1>1. MaxSearchTurns \in Nat
  BY LoopConstants
<1>2. IsFiniteSet(S)
  <2>1. i \in Int /\ MaxSearchTurns \in Int
    BY <1>1
  <2> QED
    BY <2>1, FS_Interval
<1>3. /\ \A j \in U : j \in S /\ f[j] = g[j] /\ g[j] \in Int
      /\ \A j \in R : f[j] = 0
  <2>1. \A j \in U : j \in S /\ f[j] = g[j] /\ g[j] \in Int
    BY <1>1 DEF GainAt
  <2>2. ASSUME NEW j \in R PROVE f[j] = 0
    <3>1. j \notin DOMAIN g /\ j \in S
      OBVIOUS
    <3> QED
      BY <3>1 DEF GainAt
  <2> QED
    BY <2>1, <2>2
<1>4. U \subseteq S /\ R \subseteq S /\ U \cup R = S /\ U \cap R = {}
  BY <1>3
<1>5. Return(g, i) = SumOn(U, g)
  BY DEF Return, SumOn
<1> HIDE DEF S, U, R
<1>6. IsFiniteSet(U) /\ IsFiniteSet(R)
  BY <1>2, <1>4, FS_Subset
<1>7. Ints(U \cup R, f) /\ Ints(U, g) /\ Ints(S, f)
  <2>1. ASSUME NEW j \in U \cup R PROVE f[j] \in Int
    <3>1. CASE j \in U
      <4>1. f[j] = g[j] /\ g[j] \in Int
        BY <1>3, <3>1
      <4> QED
        BY <4>1, Zenon
    <3>2. CASE j \in R
      <4>1. f[j] = 0
        BY <1>3, <3>2, Zenon
      <4>2. 0 \in Int
        OBVIOUS
      <4> QED
        BY <4>1, <4>2, Zenon
    <3> QED
      BY <3>1, <3>2
  <2> QED
    BY <1>3, <1>4, <2>1 DEF Ints
<1>8. SumOn(U \cup R, f) = SumOn(U, f) + SumOn(R, f)
  BY <1>4, <1>6, <1>7, SumSplit
<1>9. SumOn(R, f) = 0
  BY <1>3, <1>6, SumZero
<1>10. SumOn(U, f) = SumOn(U, g) /\ SumOn(U, g) \in Int
  BY <1>3, <1>6, <1>7, SumSame, SumType
<1>11. SumOn(S, f) = SumOn(U, g)
  <2>1. PICK x \in Int : x = SumOn(U, f)
    BY <1>10
  <2>2. SumOn(S, f) = x + 0
    BY <1>4, <1>8, <1>9, <2>1
  <2> QED
    BY <1>10, <2>1, <2>2
<1> QED
  BY <1>2, <1>5, <1>7, <1>10, <1>11 DEF S

(* A credit has a sign.                                                     *)
LEMMA SignTyped ==
  ASSUME NEW sum \in Int, NEW count \in Int, NEW route \in {-1, 0, 1}
  PROVE  SignOf(Credit(sum, count, route)) \in {-1, 0, 1}
<1>1. PICK c : c = Credit(sum, count, route)
  OBVIOUS
<1>2. c.sum = sum /\ c.count = count /\ c.route = route
  BY <1>1 DEF Credit
<1>3. PICK square \in Int : square = sum * sum - count
  OBVIOUS
<1>4. PICK a, b, both : a = Sign(sum) /\ b = Sign(square) /\ both = Sign(sum + route)
  OBVIOUS
<1>5. a \in {-1, 0, 1} /\ b \in {-1, 0, 1} /\ both \in {-1, 0, 1}
  BY <1>3, <1>4, SignKnown
<1>6. b * a \in {-1, 0, 1}
  BY <1>5
<1>7. SignOf(c) = IF a * route >= 0 THEN both ELSE b * a
  BY <1>2, <1>3, <1>4 DEF SignOf
<1> QED
  BY <1>1, <1>5, <1>6, <1>7

(* The mode that compares depth by depth credits what was earned.           *)
LEMMA MicaEarned ==
  ASSUME Assignable, mode = "mica", NEW i \in 1 .. searchCount
  PROVE  EarnedFor(i, SignOf(CreditOf(i).main))
<1>1. /\ Scorable /\ ~ localized /\ Gained
  BY DEF Assignable, ModeKnown
<1>2. PICK k, n \in Nat : /\ k = turn /\ n = searchCount /\ n \in {k, k + 1}
                          /\ k <= MaxSearchTurns
  BY <1>1, ScoredSearches
<1>3. PICK m : m = CreditOf(i).main
  OBVIOUS
<1>4. DOMAIN gain = 1 .. k /\ \A j \in 1 .. k : gain[j] \in Int
  BY <1>1, <1>2, GainKnown
<1>5. PICK l \in 0 .. MaxSearchTurns : DOMAIN peer = 1 .. l /\ \A j \in 1 .. l : peer[j] \in Int
  BY <1>1, PeerKnown
<1>6. CASE i \notin 1 .. k
  <2>1. m = Nothing
    BY <1>3, <1>4, <1>6 DEF CreditOf, MicaCredit, MainOnly
  <2> QED
    BY <1>3, <2>1, NothingHasNoSign DEF EarnedFor
<1>7. CASE i \in 1 .. k
  <2>0. turns[i].prefixValid
    <3>1. Scored(i)
      BY <1>1, ScoredTurns
    <3> QED
      BY <1>2, <1>7, <3>1 DEF Scored, WasObserved
  <2>1. PICK s : s = SignOf(m)
    OBVIOUS
  <2>2. CASE i \notin DOMAIN peer
    <3>1. Peers(i) = {"this"}
      BY <1>4, <1>7, <2>2, PeersKnown
    <3>2. m = Credit(0, 1, outcome)
      BY <1>3, <1>4, <1>7, <3>1 DEF CreditOf, MicaCredit, MainOnly
    <3>3. outcome \in {-1, 0, 1} /\ 0 \in Int /\ 1 \in Int
      BY <1>1 DEF Gained
    <3>4. s \in {-1, 0, 1}
      BY <2>1, <3>2, <3>3, SignTyped
    <3>5. ASSUME s # 0 PROVE Sign(outcome) = s
      <4>1. s \in {-1, 1}
        BY <3>4, <3>5
      <4>2. Sign(0) = s \/ outcome = s
        BY <2>1, <3>2, <3>3, <4>1, SignOfCredit
      <4>3. outcome = s
        BY <4>1, <4>2, SignKnown
      <4> QED
        BY <3>3, <4>3, SignKnown
    <3> QED
      BY <1>3, <2>0, <2>1, <2>2, <3>5 DEF EarnedFor, EarnedAgainstPeer
  <2>3. CASE i \in DOMAIN peer
    <3>1. Peers(i) # {"this"}
      BY <1>4, <1>7, <2>3, PeersKnown
    <3>2. PICK f, h : /\ f = [j \in i .. MaxSearchTurns |-> GainAt(gain, j)]
                      /\ h = [j \in i .. MaxSearchTurns |-> GainAt(peer, j)]
      OBVIOUS
    <3>3. i \in Nat \ {0} /\ k \in 0 .. MaxSearchTurns
      BY <1>2, LoopConstants
    <3>4. /\ IsFiniteSet(i .. MaxSearchTurns) /\ Ints(i .. MaxSearchTurns, f)
          /\ Return(gain, i) = SumOn(i .. MaxSearchTurns, f)
          /\ SumOn(i .. MaxSearchTurns, f) \in Int
      BY <1>4, <3>2, <3>3, ReturnIsSum
    <3>5. /\ Ints(i .. MaxSearchTurns, h)
          /\ Return(peer, i) = SumOn(i .. MaxSearchTurns, h)
          /\ SumOn(i .. MaxSearchTurns, h) \in Int
      BY <1>5, <3>2, <3>3, ReturnIsSum
    <3>6. PICK a, b : a = MicaLocal(i) /\ b = Sign(Return(gain, i) - Return(peer, i))
      OBVIOUS
    <3>7. a = Sign(gain[i] - peer[i]) /\ a \in {-1, 0, 1} /\ b \in {-1, 0, 1}
      <4>1. gain[i] - peer[i] \in Int
        BY <1>4, <1>5, <1>7, <2>3
      <4>2. Return(gain, i) - Return(peer, i) \in Int
        BY <3>4, <3>5
      <4> QED
        BY <3>6, <4>1, <4>2, SignKnown DEF MicaLocal
    <3>8. m = Credit(a + b, 4, 0)
      BY <1>3, <1>4, <1>7, <3>1, <3>6 DEF CreditOf, MicaCredit, MainOnly
    <3>9. a + b \in Int /\ 4 \in Int /\ 0 \in {-1, 0, 1}
      BY <3>7
    <3>10. s \in {-1, 0, 1}
      BY <2>1, <3>8, <3>9, SignTyped
    <3>11. ASSUME s # 0
           PROVE  \E j \in i .. MaxSearchTurns : Sign(GainAt(gain, j) - GainAt(peer, j)) = s
      <4>1. s \in {-1, 1}
        BY <3>10, <3>11
      <4>2. Sign(a + b) = s \/ 0 = s
        BY <2>1, <3>8, <3>9, <4>1, SignOfCredit
      <4>3. a = s \/ b = s
        BY <3>7, <4>1, <4>2, SignKnown
      <4>4. CASE a = s
        <5>1. GainAt(gain, i) = gain[i] /\ GainAt(peer, i) = peer[i]
          BY <1>4, <1>7, <2>3 DEF GainAt
        <5>2. i \in i .. MaxSearchTurns
          BY <1>2, <1>7, LoopConstants
        <5> QED
          BY <3>7, <4>4, <5>1, <5>2
      <4>5. CASE b = s
        <5>1. Exceeds(i .. MaxSearchTurns, f, h, s)
          BY <3>4, <3>5, <3>6, <4>1, <4>5 DEF Exceeds
        <5>2. Differs(i .. MaxSearchTurns, f, h, s)
          BY <5>1, SummandOfSum
        <5>3. PICK j \in i .. MaxSearchTurns : Sign(f[j] - h[j]) = s
          BY <5>2 DEF Differs
        <5>4. f[j] = GainAt(gain, j) /\ h[j] = GainAt(peer, j)
          BY <3>2
        <5> QED
          BY <5>3, <5>4
      <4> QED
        BY <4>3, <4>4, <4>5
    <3> QED
      BY <1>3, <2>0, <2>1, <2>3, <3>11 DEF EarnedFor, EarnedAgainstPeer
  <2> QED
    BY <2>2, <2>3
<1> QED
  BY <1>2, <1>6, <1>7

(* Whatever the mode, a calculated credit was earned.                       *)
LEMMA CalculatedIsEarned ==
  ASSUME Assignable
  PROVE  Earned(Calculated)
<1>1. mode \in {"novelty", "routed", "mica", "consensus", "gate"}
  BY DEF Assignable, ModeKnown
<1>2. All = 1 .. searchCount
  BY ScoredSearches DEF Assignable
<1>3. \A i \in 1 .. searchCount : Calculated[i] = CreditOf(i)
  BY MasksKnown
<1>4. ASSUME NEW i \in 1 .. searchCount PROVE EarnedFor(i, SignOf(CreditOf(i).main))
  BY <1>1, NoveltyEarned, RoutedEarned, MicaEarned, ConsensusEarned, GateEarned
<1> QED
  BY <1>2, <1>3, <1>4 DEF Earned

(* The gates of a credit, as GatesKeepToTheirRole tells them.               *)
GatesApart(c) ==
  /\ \A i \in All :
       (turns[i].observation \cup (turns[i].spans.think \ NoThink))
         \cap (DecisionMask(c) \cup QueryMask(c)) = {}
  /\ \A i \in All :
       LET r == turns[i]
       IN  /\ r.spans.decision \cap DecisionMask(c) # {} =>
                r.budget \/ r.invalid \/ before[i].sufficient
           /\ r.executed /\ r.spans.query \cap QueryMask(c) # {} =>
                /\ \E j \in 1..i - 1 : turns[j].text = r.text
                /\ r.current \subseteq UNION {turns[j].current : j \in 1..i - 1}
                /\ gain[i] <= 0
(* The gates of a calculated credit keep to their role.                     *)
LEMMA CalculatedGatesApart ==
  ASSUME Assignable, mode = "gate"
  PROVE  GatesApart(Calculated)
<1>1. /\ Scorable /\ localized /\ Gained
  BY DEF Assignable, ModeKnown
<1>2. PICK k, n \in Nat : k = turn /\ n = searchCount /\ n \in {k, k + 1} /\ All = 1 .. n
  BY <1>1, ScoredSearches
<1>3. PICK c : c = Calculated
  OBVIOUS
<1>4. /\ MasksApart(c) /\ \A i \in 1 .. n : c[i] = CreditOf(i)
  BY <1>2, <1>3, MasksKnown
<1>5. ASSUME NEW i \in 1 .. n
      PROVE  c[i] = GateCredit(i) /\ GateFacts(i) /\ Branched(i) /\ Scored(i)
  BY <1>1, <1>2, <1>4, PartsOfCredit, BranchesKnown, ScoredTurns
<1>6. ASSUME NEW i \in 1 .. n
      PROVE  LET spans == turns[i].spans
                 mine == OwnedBy(tokens, i - 1)
             IN  /\ (spans.think \ NoThink) \subseteq mine
                 /\ spans.decision \subseteq mine /\ spans.query \subseteq mine
                 /\ (spans.think \ NoThink) \cap spans.decision = {}
                 /\ (spans.think \ NoThink) \cap spans.query = {}
                 /\ turns[i].observation \subseteq Environment(tokens)
  BY <1>1, <1>5 DEF GateFacts, RolesApart, Scored
<1>7. \A j : Environment(tokens) \cap OwnedBy(tokens, j) = {}
  BY DEF Environment, OwnedBy, Token
<1>8. ASSUME NEW i \in 1 .. n, NEW p,
             p \in turns[i].observation \cup (turns[i].spans.think \ NoThink),
             p \in DecisionMask(c) \cup QueryMask(c)
      PROVE  FALSE
  <2>1. PICK j \in 1 .. n : p \in turns[j].spans.decision \/ p \in turns[j].spans.query
    BY <1>2, <1>4, <1>8 DEF MasksApart
  <2>2. p \in OwnedBy(tokens, j - 1)
    BY <1>6, <2>1
  <2>3. CASE p \in turns[i].observation
    BY <1>6, <1>7, <2>2, <2>3
  <2>4. CASE p \in turns[i].spans.think \ NoThink
    <3>1. p \in OwnedBy(tokens, i - 1)
      BY <1>6, <2>4
    <3>2. i = j
      BY <2>2, <3>1, OneOwner
    <3> QED
      BY <1>6, <2>1, <2>4, <3>2
  <2> QED
    BY <1>8, <2>3, <2>4
<1>9. ASSUME NEW i \in 1 .. n, turns[i].spans.decision \cap DecisionMask(c) # {}
      PROVE  turns[i].budget \/ turns[i].invalid \/ before[i].sufficient
  <2>0. PICK p : p \in turns[i].spans.decision /\ p \in DecisionMask(c)
    BY <1>9
  <2>1. PICK j \in 1 .. n : c[j].decision # 0 /\ p \in turns[j].spans.decision
    BY <1>2, <1>4, <2>0 DEF MasksApart
  <2>2. p \in OwnedBy(tokens, i - 1) /\ p \in OwnedBy(tokens, j - 1)
    BY <1>6, <2>0, <2>1
  <2>3. i = j
    BY <2>2, OneOwner
  <2>4. ~ (turns[i].branch \in MainBranches)
    BY <1>5, <2>1, <2>3 DEF GateFacts
  <2>5. CASE i \in 1 .. k
    BY <1>2, <1>5, <2>4, <2>5 DEF Branched
  <2>6. CASE i \notin 1 .. k
    BY <1>1, <1>2, <1>5, <2>6 DEF Scored, WasRefused
  <2> QED
    BY <2>5, <2>6
<1>10. ASSUME NEW i \in 1 .. n, turns[i].executed, turns[i].spans.query \cap QueryMask(c) # {}
       PROVE  /\ \E j \in 1 .. i - 1 : turns[j].text = turns[i].text
              /\ turns[i].current \subseteq UNION {turns[j].current : j \in 1 .. i - 1}
              /\ gain[i] <= 0
  <2>0. PICK p : p \in turns[i].spans.query /\ p \in QueryMask(c)
    BY <1>10
  <2>1. PICK j \in 1 .. n : c[j].query # 0 /\ p \in turns[j].spans.query
    BY <1>2, <1>4, <2>0 DEF MasksApart
  <2>2. p \in OwnedBy(tokens, i - 1) /\ p \in OwnedBy(tokens, j - 1)
    BY <1>6, <2>0, <2>1
  <2>3. i = j
    BY <2>2, OneOwner
  <2>4. i \in 1 .. k
    BY <1>2, <1>5, <1>10 DEF Scored, WasRefused
  <2>5. turns[i].branch # "n_invalid"
    BY <1>2, <1>5, <2>4 DEF Branched
  <2>6. SoftDuplicate(i)
    BY <1>5, <2>1, <2>3, <2>5 DEF GateFacts
  <2>7. turns[i].repeated /\ turns[i].new = {} /\ gain[i] <= 0
    BY <2>6 DEF SoftDuplicate
  <2>8. IsObserved(turns[i], i, Asked(turns, i), Found(turns, i))
    BY <1>1, <1>2, <2>4 DEF Scorable, LoopInv, ObservedInv
  <2>9. turns[i].text \in Asked(turns, i) /\ turns[i].new = turns[i].current \ Found(turns, i)
    BY <2>7, <2>8 DEF IsObserved, IsSearch
  <2>10. turns[i].current \subseteq Found(turns, i)
    BY <2>7, <2>9
  <2> QED
    BY <2>7, <2>9, <2>10 DEF Asked, Found
<1> QED
  BY <1>2, <1>3, <1>8, <1>9, <1>10 DEF GatesApart
-----------------------------------------------------------------------------
(* The credit of every trajectory that selection lets through               *)

Modelled == {"novelty", "routed", "mica", "consensus", "gate"}

(* What a stage knows: the trajectory can be scored once it was selected,   *)
(* and a stage has the gains and the answers of the stages before it.       *)
StageInv ==
  /\ stage \in {"rollout", "selected", "scored", "probed", "assign", "trained"}
  /\ stage # "rollout" => Scorable /\ PolicyCredit # {}
  /\ stage \in {"rollout", "selected", "scored"} => Unprobed
  /\ stage = "scored" => mode # "mica"
  /\ stage \in {"scored", "probed", "assign", "trained"} => Gained
  /\ stage = "probed" => mode \in {"routed", "gate"} /\ ProbedBefore /\ after = NoResults
  /\ stage = "assign" => Probed
CreditKept ==
  stage = "trained" =>
    /\ DOMAIN credit = All /\ Earned(credit)
    /\ mode = "gate" => GatesApart(credit)
CreditInv == LoopInv /\ ModeKnown /\ StageInv /\ CreditKept

(* What depends on the finished loop alone stays while it stands.           *)
LEMMA CreditIsOfModelsNext == LoopInv' => CreditIsTheModels'
<1>1. LoopInv => CreditIsTheModels
  BY LoopCredits
<1> QED
  BY <1>1, PTL

(* Tokens that earn credit stay while the loop stands.                      *)
LEMMA PolicyCreditStays ==
  ASSUME Scorable, PolicyCredit # {}, Scorable', tokens' = tokens
  PROVE  PolicyCredit' # {}
<1>1. PolicyCredit = {p \in DOMAIN tokens : tokens[p].source = "model"}
  BY LoopCredits DEF Scorable, CreditIsTheModels
<1>2. CreditIsTheModels' /\ pc' = "done" /\ systemValid'
  BY CreditIsOfModelsNext DEF Scorable
<1>3. PolicyCredit' = {p \in DOMAIN tokens : tokens[p].source = "model"}
  BY <1>2 DEF CreditIsTheModels
<1> QED
  BY <1>1, <1>3

(* A trajectory that can be scored stays so.                                *)
LEMMA ScorableStays ==
  ASSUME Scorable, PolicyCredit # {}, UNCHANGED vars
  PROVE  Scorable' /\ PolicyCredit' # {}
<1>1. LoopInv'
  BY LoopInvNext DEF Scorable
<1>2. pc' = pc /\ systemValid' = systemValid /\ tokens' = tokens
  BY DEF vars, history
<1>3. Scorable'
  BY <1>1, <1>2 DEF Scorable
<1> QED
  BY <1>2, <1>3, PolicyCreditStays

(* A credit that was earned stays so.                                       *)
Inputs == <<vars, mode, gain, peer, outcome, before, after>>
(* What was earned for a search stays so while nothing it rests on moves.   *)
LEMMA EarnedStays ==
  ASSUME NEW c, UNCHANGED Inputs, Earned(c)
  PROVE  \A i \in All : EarnedFor(i, SignOf(c[i].main))'
<1>1. /\ turns' = turns /\ mode' = mode /\ gain' = gain /\ peer' = peer
      /\ outcome' = outcome /\ before' = before /\ after' = after
  BY DEF Inputs, vars, history
<1>2. LastSearch' = LastSearch
  BY <1>1 DEF LastSearch, All
<1>3. \A i : KnownBefore(i)' <=> KnownBefore(i)
  BY <1>1 DEF KnownBefore
<1>4. \A i : SufficientAfter(i)' <=> SufficientAfter(i)
  BY <1>1 DEF SufficientAfter
<1>5. \A i : StopContinue(i)' = StopContinue(i)
  BY <1>1 DEF StopContinue
<1>6. ASSUME NEW i, NEW sign PROVE EarnedAt(i, sign)' <=> EarnedAt(i, sign)
  BY <1>1, <1>2, <1>3, <1>4, <1>5 DEF EarnedAt
<1>7. ASSUME NEW i, NEW sign PROVE EarnedAgainstPeer(i, sign)' <=> EarnedAgainstPeer(i, sign)
  BY <1>1 DEF EarnedAgainstPeer, GainAt
<1>8. ASSUME NEW i, NEW sign PROVE EarnedFor(i, sign)' <=> EarnedFor(i, sign)
  BY <1>1, <1>3, <1>6, <1>7 DEF EarnedFor
<1> QED
  BY <1>8 DEF Earned

(* What is assigned to the searches was earned, and stays so.               *)
LEMMA EarnedNext ==
  ASSUME UNCHANGED Inputs, NEW c, c = credit', Earned(c)
  PROVE  Earned(credit)'
<1>1. All' = All
  BY DEF Inputs, vars, history, All
<1>2. \A i \in All : EarnedFor(i, SignOf(c[i].main))'
  BY EarnedStays
<1> QED
  BY <1>1, <1>2 DEF Earned

(* Gates that keep to their role go on doing so.                            *)
LEMMA GatesApartNext ==
  ASSUME UNCHANGED Inputs, NEW c, c = credit', GatesApart(c)
  PROVE  GatesApart(credit)'
<1>1. turns' = turns /\ gain' = gain /\ before' = before
  BY DEF Inputs, vars, history
<1>2. All' = All
  BY <1>1 DEF All
<1>3. DecisionMask(credit)' = DecisionMask(c) /\ QueryMask(credit)' = QueryMask(c)
  BY <1>1 DEF DecisionMask, QueryMask
<1> QED
  BY <1>1, <1>2, <1>3 DEF GatesApart

(* Nothing is known of a trajectory before its rollout.                     *)
LEMMA CreditInvInit ==
  ASSUME CreditInit
  PROVE  CreditInv
<1>1. LoopInv
  BY LoopInvInit DEF CreditInit
<1>2. localized \in BOOLEAN
  BY LoopConstants DEF CreditInit, Init
<1>3. ModeKnown
  BY <1>2, CreditConstants DEF CreditInit, ModeKnown
<1>4. StageInv /\ CreditKept
  BY DEF CreditInit, StageInv, CreditKept, Unprobed
<1> QED
  BY <1>1, <1>3, <1>4 DEF CreditInv

(* A step of the loop, before the trajectory is selected.                   *)
LEMMA RolloutKeepsCredit ==
  ASSUME CreditInv, Rollout
  PROVE  CreditInv'
<1>1. /\ stage = "rollout" /\ Next
      /\ UNCHANGED <<mode, stage, gain, peer, outcome, before, after, credit>>
  BY DEF Rollout, creditVars
<1>2. LoopInv'
  BY <1>1, LoopInvNext DEF CreditInv
<1>3. localized' = localized
  BY <1>1 DEF Next, ResponseExhausted, EmptyAction, Generate, GenerateRaises,
              RetrieverAnswers, RetrieverFails
<1>4. ModeKnown'
  BY <1>1, <1>3 DEF CreditInv, ModeKnown
<1>5. StageInv' /\ CreditKept'
  BY <1>1 DEF CreditInv, StageInv, CreditKept, Unprobed, NoResults
<1> QED
  BY <1>2, <1>4, <1>5 DEF CreditInv

(* The steps that leave the loop and the mode as they are.                  *)
LEMMA LoopAndModeStay ==
  ASSUME CreditInv, UNCHANGED <<vars, mode>>
  PROVE  /\ LoopInv' /\ ModeKnown'
         /\ stage # "rollout" => Scorable' /\ PolicyCredit' # {}
<1>1. LoopInv'
  BY LoopInvNext DEF CreditInv
<1>2. ModeKnown'
  BY DEF CreditInv, ModeKnown, vars
<1>3. stage # "rollout" => Scorable' /\ PolicyCredit' # {}
  BY ScorableStays DEF CreditInv, StageInv
<1> QED
  BY <1>1, <1>2, <1>3

(* Selection lets a trajectory through that can be scored.                  *)
LEMMA SelectKeepsCredit ==
  ASSUME CreditInv, Select
  PROVE  CreditInv'
<1>1. /\ stage = "rollout" /\ stage' = "selected" /\ pc = "done"
      /\ systemValid /\ PolicyCredit # {} /\ UNCHANGED vars
      /\ UNCHANGED <<mode, gain, peer, outcome, before, after, credit>>
  BY DEF Select, OptimizationReady, creditVars
<1>2. LoopInv' /\ ModeKnown'
  BY <1>1, LoopAndModeStay
<1>3. Scorable' /\ PolicyCredit' # {}
  BY <1>1, ScorableStays DEF CreditInv, Scorable
<1>4. StageInv' /\ CreditKept'
  BY <1>1, <1>3 DEF CreditInv, StageInv, CreditKept, Unprobed, NoResults
<1> QED
  BY <1>2, <1>4 DEF CreditInv

(* Every observed search gets its gain.                                     *)
LEMMA ScoreGainsKeepsCredit ==
  ASSUME CreditInv, ScoreGains
  PROVE  CreditInv'
<1>1. /\ stage = "selected" /\ UNCHANGED vars /\ UNCHANGED <<mode, before, after, credit>>
      /\ gain' \in [IgSearches -> Gains]
      /\ peer' \in UNION {[1 .. k -> PeerGains] : k \in 0 .. MaxSearchTurns}
      /\ outcome' \in (IF TerminalAnswer(actions) THEN Outcomes ELSE {0})
      /\ stage' = IF ~ CreditInputValidates THEN "refused"
                  ELSE IF mode = "mica" THEN "assign" ELSE "scored"
  BY DEF ScoreGains
<1>2. Scorable /\ PolicyCredit # {} /\ Unprobed
  BY <1>1 DEF CreditInv, StageInv
<1>3. IgSearches = 1 .. turn /\ CreditInputValidates
  BY <1>2, GainedSearches
<1>4. LoopInv' /\ ModeKnown' /\ Scorable' /\ PolicyCredit' # {}
  BY <1>1, LoopAndModeStay
<1>5. turn' = turn
  BY <1>1 DEF vars
<1>6. Gained'
  <2>1. gain' \in [1 .. turn -> Gains]
    BY <1>1, <1>3
  <2>2. \E l \in 0 .. MaxSearchTurns : peer' \in [1 .. l -> PeerGains]
    BY <1>1
  <2>3. outcome' \in {-1, 0, 1}
    BY <1>1, CreditConstants
  <2> QED
    BY <1>5, <2>1, <2>2, <2>3 DEF Gained
<1>7. Unprobed'
  BY <1>1, <1>2 DEF Unprobed, NoResults
<1>8. stage' = IF mode = "mica" THEN "assign" ELSE "scored"
  BY <1>1, <1>3
<1>9. mode = "mica" => Probed'
  BY <1>1, <1>7 DEF Probed
<1>10. StageInv'
  BY <1>1, <1>4, <1>6, <1>7, <1>8, <1>9 DEF StageInv
<1>11. CreditKept'
  BY <1>8 DEF CreditKept
<1> QED
  BY <1>4, <1>10, <1>11 DEF CreditInv

(* The gains stay when they are not written.                                *)
LEMMA GainedStays ==
  ASSUME Gained, UNCHANGED <<turn, gain, peer, outcome>>
  PROVE  Gained'
BY DEF Gained

(* The probes of the novelty mode.                                          *)
LEMMA SufficiencyProbeKeepsCredit ==
  ASSUME CreditInv, SufficiencyProbe
  PROVE  CreditInv'
<1>1. /\ stage = "scored" /\ mode = "novelty" /\ UNCHANGED vars
      /\ UNCHANGED <<mode, gain, peer, outcome, after, credit>>
      /\ before' \in [All -> Probes]
      /\ stage' = IF PlanRefuses THEN "refused" ELSE "assign"
  BY DEF SufficiencyProbe, Answered
<1>2. Scorable /\ Gained /\ Unprobed
  BY <1>1 DEF CreditInv, StageInv
<1>3. All = 1 .. searchCount /\ ~ PlanRefuses
  BY <1>2, ScoredSearches, PlansAccept
<1>4. LoopInv' /\ ModeKnown' /\ Scorable' /\ PolicyCredit' # {}
  BY <1>1, LoopAndModeStay
<1>5. turn' = turn /\ searchCount' = searchCount
  BY <1>1 DEF vars, seen
<1>6. AnsweredBefore(before', searchCount)
  BY <1>1, <1>3, AnswersTyped DEF AnsweredBefore
<1>7. after' = NoResults
  BY <1>1, <1>2 DEF Unprobed
<1>8. Probed'
  BY <1>1, <1>5, <1>6, <1>7 DEF Probed, AnsweredBefore, NoResults
<1>9. Gained'
  BY <1>1, <1>2, <1>5, GainedStays
<1>10. StageInv' /\ CreditKept'
  BY <1>1, <1>3, <1>4, <1>8, <1>9 DEF StageInv, CreditKept
<1> QED
  BY <1>4, <1>10 DEF CreditInv

(* The probes of the consensus mode.                                        *)
LEMMA StopProbeKeepsCredit ==
  ASSUME CreditInv, StopProbe
  PROVE  CreditInv'
<1>1. /\ stage = "scored" /\ mode = "consensus" /\ UNCHANGED vars
      /\ UNCHANGED <<mode, gain, peer, outcome, after, credit>>
      /\ before' \in StopRewards
      /\ stage' = IF PlanRefuses THEN "refused" ELSE "assign"
  BY DEF StopProbe
<1>2. Scorable /\ Gained /\ Unprobed
  BY <1>1 DEF CreditInv, StageInv
<1>3. All = 1 .. searchCount /\ ~ PlanRefuses
  BY <1>2, ScoredSearches, PlansAccept
<1>4. LoopInv' /\ ModeKnown' /\ Scorable' /\ PolicyCredit' # {}
  BY <1>1, LoopAndModeStay
<1>5. turn' = turn /\ searchCount' = searchCount
  BY <1>1 DEF vars, seen
<1>6. PICK reward \in {0, 1} :
        before' \in [1 .. searchCount -> [first : {0, 1}, second : {0, 1}, continued : {reward}]]
  BY <1>1, <1>3 DEF StopRewards
<1>7. /\ DOMAIN before' = 1 .. searchCount
      /\ \A i \in 1 .. searchCount :
           {before'[i].first, before'[i].second, before'[i].continued} \subseteq {0, 1}
  BY <1>6
<1>8. after' = NoResults
  BY <1>1, <1>2 DEF Unprobed
<1>9. Probed'
  BY <1>1, <1>5, <1>7, <1>8 DEF Probed, Stopped, NoResults
<1>10. Gained'
  BY <1>1, <1>2, <1>5, GainedStays
<1>11. StageInv' /\ CreditKept'
  BY <1>1, <1>3, <1>4, <1>9, <1>10 DEF StageInv, CreditKept
<1> QED
  BY <1>4, <1>11 DEF CreditInv

(* The probes before each search, which reclassify the turns.               *)
LEMMA PreProbeKeepsCredit ==
  ASSUME CreditInv, PreProbe
  PROVE  CreditInv'
<1>1. /\ stage = "scored" /\ mode \in {"routed", "gate"}
      /\ UNCHANGED <<localized, pc, turn, tokens, searchCount, systemValid>>
      /\ UNCHANGED <<mode, gain, peer, outcome, after, credit>>
      /\ stage' = IF PlanRefuses \/ ~ RecordValidates' THEN "refused" ELSE "probed"
  BY DEF PreProbe, seen
<1>2. Scorable /\ PolicyCredit # {} /\ Gained /\ Unprobed /\ ModeKnown
  BY <1>1 DEF CreditInv, StageInv
<1>3. Scorable' /\ RecordValidates' /\ ~ PlanRefuses
  BY <1>2, PreProbeKeepsLoop, PlansAccept
<1>4. stage' = "probed"
  BY <1>1, <1>3
<1>5. PolicyCredit' # {}
  BY <1>1, <1>2, <1>3, PolicyCreditStays
<1>6. /\ AnsweredBefore(before', searchCount)
      /\ localized => Rejudged(turns', before', searchCount)
  BY <1>2, PreProbeJudges
<1>7. ProbedBefore'
  BY <1>1, <1>6 DEF ProbedBefore, AnsweredBefore, Rejudged, BranchAfter
<1>8. after' = NoResults
  BY <1>1, <1>2 DEF Unprobed
<1>9. ModeKnown'
  BY <1>1, <1>2 DEF ModeKnown
<1>10. Gained'
  BY <1>1, <1>2, GainedStays
<1>11. StageInv' /\ CreditKept'
  BY <1>1, <1>3, <1>4, <1>5, <1>7, <1>8, <1>10 DEF StageInv, CreditKept, NoResults
<1> QED
  BY <1>3, <1>9, <1>11 DEF CreditInv, Scorable

(* The probes after the searches that were not answered before.             *)
LEMMA PostProbeKeepsCredit ==
  ASSUME CreditInv, PostProbe
  PROVE  CreditInv'
<1>1. /\ stage = "probed" /\ UNCHANGED vars
      /\ UNCHANGED <<mode, gain, peer, outcome, before, credit>>
      /\ after' \in [PostSearches -> Probes]
      /\ stage' = IF \E i \in PostSearches :
                       i + 1 \notin DOMAIN prefixEnds \/ ~ ProbeFits(prefixEnds[i + 1])
                    THEN "refused" ELSE "assign"
  BY DEF PostProbe
<1>2. Scorable /\ Gained /\ mode \in {"routed", "gate"} /\ ProbedBefore
  BY <1>1 DEF CreditInv, StageInv
<1>3. PostSearches = {i \in 1 .. turn : ~ before[i].sufficient}
  BY <1>2, PostSearchesKnown DEF ProbedBefore
<1>4. turn \in Nat
  BY <1>2, ScoredSearches
<1>5. stage' = "assign"
  <2>1. \A i \in PostSearches : i + 1 \in 1 .. turn + 1
    BY <1>3, <1>4
  <2>2. DOMAIN prefixEnds = 1 .. turn + 1 /\ \A i \in 1 .. turn + 1 : ProbeFits(prefixEnds[i])
    BY <1>2, PlansAccept
  <2> QED
    BY <1>1, <2>1, <2>2
<1>6. LoopInv' /\ ModeKnown' /\ Scorable' /\ PolicyCredit' # {}
  BY <1>1, LoopAndModeStay
<1>7. /\ turn' = turn /\ searchCount' = searchCount /\ turns' = turns
      /\ localized' = localized
  BY <1>1 DEF vars, seen, history
<1>8. ProbedBefore'
  BY <1>1, <1>2, <1>7 DEF ProbedBefore, AnsweredBefore, Rejudged, BranchAfter
<1>9. ProbedAfter'
  BY <1>1, <1>3, <1>7, AnswersTyped DEF ProbedAfter
<1>10. Probed'
  BY <1>1, <1>2, <1>8, <1>9 DEF Probed
<1>11. Gained'
  BY <1>1, <1>2, <1>7, GainedStays
<1>12. StageInv' /\ CreditKept'
  BY <1>5, <1>6, <1>10, <1>11 DEF StageInv, CreditKept
<1> QED
  BY <1>6, <1>12 DEF CreditInv

(* The credit that is calculated is accepted, earned and kept apart.        *)
LEMMA AssignCreditKeepsCredit ==
  ASSUME CreditInv, AssignCredit
  PROVE  CreditInv'
<1>1. /\ stage = "assign" /\ UNCHANGED vars
      /\ UNCHANGED <<mode, gain, peer, outcome, before, after>>
      /\ credit' = Calculated
      /\ stage' = IF \/ CreditRefuses \/ BatchRefuses(Calculated)
                     \/ ReviewRefuses(Calculated) \/ WorkerRefuses(Calculated)
                    THEN "refused" ELSE "trained"
  BY DEF AssignCredit, Calculated
<1>2. Assignable /\ Gained
  BY <1>1 DEF CreditInv, StageInv, Assignable
<1>3. stage' = "trained"
  BY <1>1, <1>2, NothingIsRefused
<1>4. LoopInv' /\ ModeKnown' /\ Scorable' /\ PolicyCredit' # {}
  BY <1>1, LoopAndModeStay
<1>5. turn' = turn /\ All' = All
  BY <1>1 DEF vars, history, All
<1>6. PICK c : c = Calculated
  OBVIOUS
<1>7. c = credit' /\ DOMAIN c = All
  BY <1>1, <1>6 DEF Calculated
<1>8. Earned(c) /\ (mode = "gate" => GatesApart(c))
  BY <1>2, <1>6, CalculatedIsEarned, CalculatedGatesApart
<1>9. UNCHANGED Inputs
  BY <1>1 DEF Inputs
<1>10. DOMAIN credit' = All' /\ Earned(credit)' /\ (mode' = "gate" => GatesApart(credit)')
  BY <1>1, <1>5, <1>7, <1>8, <1>9, EarnedNext, GatesApartNext
<1>11. Gained'
  BY <1>1, <1>2, <1>5, GainedStays
<1>12. StageInv' /\ CreditKept'
  BY <1>3, <1>4, <1>10, <1>11 DEF StageInv, CreditKept
<1> QED
  BY <1>4, <1>12 DEF CreditInv

(* Nothing happens.                                                         *)
LEMMA StutterKeepsCredit ==
  ASSUME CreditInv, UNCHANGED allVars
  PROVE  CreditInv'
<1>1. /\ UNCHANGED vars /\ UNCHANGED <<mode, stage>>
      /\ UNCHANGED <<gain, peer, outcome, before, after, credit>>
  BY DEF allVars, creditVars
<1>2. LoopInv' /\ ModeKnown' /\ (stage # "rollout" => Scorable' /\ PolicyCredit' # {})
  BY <1>1, LoopAndModeStay
<1>3. /\ turn' = turn /\ searchCount' = searchCount /\ turns' = turns
      /\ localized' = localized
  BY <1>1 DEF vars, seen, history
<1>4. Gained => Gained'
  BY <1>1, <1>3, GainedStays
<1>5. ProbedBefore => ProbedBefore'
  BY <1>1, <1>3 DEF ProbedBefore, AnsweredBefore, Rejudged, BranchAfter
<1>6. Unprobed' = Unprobed
  BY <1>1 DEF Unprobed, NoResults
<1>7. Probed => Probed'
  BY <1>1, <1>3, <1>5, <1>6
     DEF Probed, ProbedAfter, Stopped, AnsweredBefore, Unprobed, NoResults
<1>8. StageInv'
  BY <1>1, <1>2, <1>4, <1>5, <1>6, <1>7 DEF CreditInv, StageInv, NoResults
<1>9. CreditKept'
  <2>1. SUFFICES ASSUME stage = "trained"
                 PROVE  /\ DOMAIN credit' = All' /\ Earned(credit)'
                        /\ mode' = "gate" => GatesApart(credit)'
    BY <1>1 DEF CreditKept
  <2>2. PICK c : c = credit
    OBVIOUS
  <2>3. c = credit' /\ DOMAIN c = All /\ Earned(c) /\ (mode = "gate" => GatesApart(c))
    BY <1>1, <2>1, <2>2 DEF CreditInv, CreditKept
  <2>4. All' = All
    BY <1>3 DEF All
  <2>5. UNCHANGED Inputs
    BY <1>1 DEF Inputs
  <2> QED
    BY <1>1, <2>3, <2>4, <2>5, EarnedNext, GatesApartNext
<1> QED
  BY <1>2, <1>8, <1>9 DEF CreditInv

(* The loop, selection, the probes of a mode and the assignment of credit   *)
(* keep each other's promises: a stage finds what it needs.                 *)
THEOREM CreditInvariant == CreditSpec => []CreditInv
<1>1. CreditInit => CreditInv
  BY CreditInvInit
<1>2. CreditInv /\ [CreditNext]_allVars => CreditInv'
  <2>1. SUFFICES ASSUME CreditInv, [CreditNext]_allVars PROVE CreditInv'
    OBVIOUS
  <2>2. CASE Rollout
    BY <2>1, <2>2, RolloutKeepsCredit
  <2>3. CASE Select
    BY <2>1, <2>3, SelectKeepsCredit
  <2>4. CASE ScoreGains
    BY <2>1, <2>4, ScoreGainsKeepsCredit
  <2>5. CASE SufficiencyProbe
    BY <2>1, <2>5, SufficiencyProbeKeepsCredit
  <2>6. CASE PreProbe
    BY <2>1, <2>6, PreProbeKeepsCredit
  <2>7. CASE PostProbe
    BY <2>1, <2>7, PostProbeKeepsCredit
  <2>8. CASE StopProbe
    BY <2>1, <2>8, StopProbeKeepsCredit
  <2>9. CASE AssignCredit
    BY <2>1, <2>9, AssignCreditKeepsCredit
  <2>10. CASE UNCHANGED allVars
    BY <2>1, <2>10, StutterKeepsCredit
  <2> QED
    BY <2>1, <2>2, <2>3, <2>4, <2>5, <2>6, <2>7, <2>8, <2>9, <2>10 DEF CreditNext
<1> QED
  BY <1>1, <1>2, PTL DEF CreditSpec

(* None of the checks of the probe plans, the credit, the learner batch,    *)
(* the adapter's second calculation and the worker ever raises on a         *)
(* trajectory that rollout and selection let through.                       *)
THEOREM NothingEverRaises == CreditSpec => []CreditIsNeverRefused
<1>1. CreditInv => CreditIsNeverRefused
  BY DEF CreditInv, StageInv, CreditIsNeverRefused
<1> QED
  BY <1>1, CreditInvariant, PTL

(* In every mode the sign of a credit was earned: by a gain, an outcome or  *)
(* a comparison that the search could have caused.                          *)
THEOREM CreditWasEarned == CreditSpec => []CreditIsEarned
<1>1. CreditInv => CreditIsEarned
  <2>1. SUFFICES ASSUME CreditInv, Credited PROVE Earned(credit)
    BY DEF CreditIsEarned, Earned, EarnedFor
  <2> QED
    BY <2>1 DEF CreditInv, StageInv, CreditKept, Credited
<1> QED
  BY <1>1, CreditInvariant, PTL

(* The decision and query gates touch no thought and no observation, the    *)
(* decision of a search only when it could not help, and the query of an    *)
(* executed one only when it was asked before and gained nothing.           *)
THEOREM GatesKeptToTheirRole == CreditSpec => []GatesKeepToTheirRole
<1>1. CreditInv => GatesKeepToTheirRole
  <2>1. SUFFICES ASSUME CreditInv, Credited, mode = "gate" PROVE GatesApart(credit)
    BY DEF GatesKeepToTheirRole, GatesApart
  <2> QED
    BY <2>1 DEF CreditInv, StageInv, CreditKept, Credited
<1> QED
  BY <1>1, CreditInvariant, PTL
================================================================================
