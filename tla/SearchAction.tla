------------------------------ MODULE SearchAction ------------------------------
(***************************************************************************)
(* What one generated action means: the protocol parser and the spans of   *)
(* tokens that own its thought, its decision to search and its query.      *)
(*                                                                         *)
(* A text is a sequence of symbols: the six protocol tags, "I" for either  *)
(* information tag, " " for white space and letters for anything else.  A  *)
(* generated token covers symbols, or none when it is special; "X" is another spelling of  *)
(* "x" that Unicode normalization and case folding make the same.          *)
(***************************************************************************)
EXTENDS Integers, Sequences, SequencesExt, FiniteSetsExt

Opening == [think |-> "T", search |-> "S", answer |-> "A"]
Closing == [think |-> "/T", search |-> "/S", answer |-> "/A"]
Tags == DOMAIN Opening

Text(sample) == FlattenSeq(sample.tokens)

At(text, symbol) == {i \in DOMAIN text : text[i] = symbol}
After(text, symbol, i) == {j \in At(text, symbol) : j > i}
Blank(text, a, b) == \A i \in a..b : text[i] = " "

(* The first <tag>...</tag> and whether another follows it.                 *)
HasSpan(text, tag) ==
  \E i \in At(text, Opening[tag]) : After(text, Closing[tag], i) # {}
SpanOpen(text, tag) == Min(At(text, Opening[tag]))
SpanClose(text, tag) == Min(After(text, Closing[tag], SpanOpen(text, tag)))
HasTwoSpans(text, tag) ==
  /\ HasSpan(text, tag)
  /\ \E i \in After(text, Opening[tag], SpanClose(text, tag)) :
       After(text, Closing[tag], i) # {}

Balanced(text, tag) ==
  Cardinality(At(text, Opening[tag])) = Cardinality(At(text, Closing[tag]))

Trimmed(text, a, b) ==
  LET seen == {i \in a..b : text[i] # " "}
  IN  IF seen = {} THEN <<>> ELSE SubSeq(text, Min(seen), Max(seen))

(* _ACTION_RE: one optional thought, then one block that reaches the end.   *)
(* Where its block opens; 0 when the text does not match.                   *)
BlockOpen(text, tag) ==
  LET visible == {i \in DOMAIN text : text[i] # " "}
      opens == {k \in At(text, Opening[tag]) :
                  /\ k < Max(visible)
                  /\ \/ k = Min(visible)
                     \/ /\ text[Min(visible)] = Opening["think"]
                        /\ \E j \in At(text, Closing["think"]) :
                             j < k /\ Blank(text, j + 1, k - 1)}
  IN  IF visible = {} \/ text[Max(visible)] # Closing[tag] \/ opens = {} THEN 0
      ELSE Min(opens)

BlockValue(text, tag) ==
  Trimmed(text, BlockOpen(text, tag) + 1,
          Max({i \in DOMAIN text : text[i] # " "}) - 1)

(* parse_model_action                                                       *)
Parse(text) ==
  LET malformed ==
        \/ At(text, "I") # {}
        \/ \E tag \in Tags : ~Balanced(text, tag) \/ HasTwoSpans(text, tag)
        \/ HasSpan(text, "search") = HasSpan(text, "answer")
      kind == CHOOSE tag \in {"search", "answer"} : BlockOpen(text, tag) # 0
  IN  IF \/ malformed
         \/ \A tag \in {"search", "answer"} : BlockOpen(text, tag) = 0
         \/ BlockValue(text, kind) = <<>>
      THEN [valid |-> FALSE, kind |-> "none", value |-> <<>>]
      ELSE [valid |-> TRUE, kind |-> kind, value |-> BlockValue(text, kind)]

(* parse_model_trajectory: terminal_answer_valid                            *)
AnswerCount(texts) ==
  Cardinality({i \in DOMAIN texts : Parse(texts[i]).kind = "answer"})
TerminalAnswer(texts) ==
  /\ texts # <<>>
  /\ Parse(texts[Len(texts)]).kind = "answer"
  /\ AnswerCount(texts) = 1

(* normalize_query_for_exact_repeat                                         *)
NormalizedQuery(text) ==
  LET shown == Trimmed(text, 1, Len(text))
  IN  [i \in DOMAIN shown |-> IF shown[i] = "X" THEN "x" ELSE shown[i]]

(* action_has_search_intent                                                 *)
SearchIntent(text) == At(text, "S") # {}
-----------------------------------------------------------------------------
(* Token spans, as sets of token indices of the action.                     *)

Symbols(sample, i) ==
  Len(FlattenSeq(SubSeq(sample.tokens, 1, i - 1))) + 1
    .. Len(FlattenSeq(SubSeq(sample.tokens, 1, i)))
Covering(sample, a, b) ==
  {i \in DOMAIN sample.tokens : Symbols(sample, i) \cap (a..b) # {}}
Contained(sample, a, b) ==
  {i \in DOMAIN sample.tokens :
     Symbols(sample, i) # {} /\ Symbols(sample, i) \subseteq a..b}

NoThink == {0}      \* None, as opposed to an empty span

QueryEnd(text) ==
  LET closes == After(text, "/S", Min(At(text, "S")))
  IN  IF closes = {} THEN Len(text) ELSE Min(closes) - 1

ThinkTokens(sample) ==
  LET text == Text(sample)
  IN  IF ~HasSpan(text, "think") \/ HasTwoSpans(text, "think") THEN NoThink
      ELSE Contained(sample, SpanOpen(text, "think"), SpanClose(text, "think"))

(* Of the tokenizer: tags are words, and no token holds a whole thought     *)
(* without being a part of it, so one that is there owns a token.           *)
IsSample(a) ==
  /\ a.tokens \in Seq(Seq(STRING)) /\ a.reversible \in BOOLEAN
  /\ ThinkTokens(a) # {}

Shared(A, B) == (A \cap B) \ NoThink # {}

(* Defect: the query takes every token that touches it.                     *)
RoleSpansCovering(sample) ==
  LET text == Text(sample)
      open == Min(At(text, "S"))
  IN  [think |-> ThinkTokens(sample),
       decision |-> Covering(sample, open, open),
       query |-> Covering(sample, open + 1, QueryEnd(text))]

(* build_generation_time_search_role_spans: the opening tag takes every     *)
(* token that touches it, thought and query only what is wholly theirs.     *)
RoleSpans(sample) ==
  LET text == Text(sample)
      open == Min(At(text, "S"))
  IN  [think |-> ThinkTokens(sample),
       decision |-> Covering(sample, open, open),
       query |-> Contained(sample, open + 1, QueryEnd(text))]

(* It raises when the tokens do not reproduce the text, or an owner is      *)
(* missing or shared.                                                       *)
RoleSpansRaise(sample) ==
  LET text == Text(sample)
      spans == RoleSpans(sample)
  IN  \/ ~sample.reversible
      \/ QueryEnd(text) > Min(At(text, "S")) /\ spans.query = {}
      \/ Shared(spans.think, spans.decision)
      \/ Shared(spans.think, spans.query)
      \/ Shared(spans.decision, spans.query)

Whole(sample) == DOMAIN sample.tokens

Contiguous(S) == S = {} \/ S = Min(S)..Max(S)

(* build_invalid_search_role_spans: never raises; what is not clearly owned *)
(* is dropped.                                                              *)
InvalidRoleSpans(sample) ==
  LET spans == RoleSpans(sample)
      query == spans.query \ spans.decision
      kept == IF Contiguous(query) THEN query ELSE {}
      think == ThinkTokens(sample)
  IN  IF ~SearchIntent(Text(sample)) \/ ~sample.reversible
      THEN [think |-> NoThink, decision |-> Whole(sample), query |-> {}]
      ELSE [think |-> IF Shared(think, spans.decision) \/ Shared(think, kept)
                        THEN NoThink ELSE think,
            decision |-> spans.decision, query |-> kept]

(* exact_search_payload_text; it raises for a complete search that holds    *)
(* another opening or a second closing tag.                                 *)
Payload(text) == SubSeq(text, Min(At(text, "S")) + 1, QueryEnd(text))
PayloadRaises(text) ==
  \/ Cardinality(At(text, "S")) # 1
  \/ Cardinality(After(text, "/S", Min(At(text, "S")))) # 1

(* classify_role_localized_search_branch                                    *)
Branch(budget, invalid, sufficient, executed, noNew) ==
  CASE budget -> "n_budget"
    [] ~budget /\ invalid -> "n_invalid"
    [] ~budget /\ ~invalid /\ sufficient -> "s_before"
    [] ~budget /\ ~invalid /\ ~sufficient /\ executed /\ noNew -> "n_soft"
    [] ~budget /\ ~invalid /\ ~sufficient /\ executed /\ ~noNew -> "normal"
=============================================================================
