------------------------------ MODULE MCSearchLoop ------------------------------
(* The actions of the run: each thought with a block, tokenized symbol by    *)
(* symbol; answers that end in an end-of-sequence token; and tokens that     *)
(* reach over the border between thought, opening tag and query.             *)
EXTENDS SearchLoop

Searches == <<<<"S", "x", "/S">>, <<"S", " ", "X", "/S">>, <<"S", "y", "/S">>>>
Nested == <<<<"S", "S", "x", "/S", "/S">>, <<"S", "T", "x", "/T", "/S">>>>
Broken == <<<<"S", "x">>, <<"S", " ", "/S">>, <<"A", "/A">>, <<"x">>,
            <<"S", "I", "/S">>, <<"S", "x", "/S", "A", "x", "/A">>,
            <<"A", "/S", "S", "/A">>>>
Answers == <<<<"A", "x", "/A">>>>

Thinking(thought, blocks) == [i \in DOMAIN blocks |-> thought \o blocks[i]]
Texts == Thinking(<<"T", "/T">>, Searches \o Nested \o Broken \o Answers)
         \o Thinking(<<"T", "x", "/T", " ">>, <<<<"S", "x", "/S">>>> \o Answers)
         \o Thinking(<<"T", "x">>, <<<<"S", "x", "/S">>, <<"S", "y">>>>)
         \o Nested \o Broken \o Answers \o <<<<"S", "x", "/S">>>>

Single(text) == [i \in DOMAIN text |-> <<text[i]>>]
Sampled(tokenization) == [tokens |-> tokenization, reversible |-> TRUE]

(* The first symbol a that stands before a symbol b shares its token.        *)
Adjacent(text, a, b) ==
  {i \in 1..Len(text) - 1 : text[i] = a /\ text[i + 1] = b}
Merged(text, a, b) ==
  LET i == Min(Adjacent(text, a, b))
  IN  Single(SubSeq(text, 1, i - 1)) \o <<<<a, b>>>>
        \o Single(SubSeq(text, i + 2, Len(text)))
AllMerged(a, b) ==
  {Sampled(Merged(Texts[i], a, b)) :
     i \in {j \in 1..15 : Adjacent(Texts[j], a, b) # {}}}

MCActions ==
  {Sampled(Single(Texts[i])) : i \in DOMAIN Texts}
  \cup {Sampled(Append(Single(Answers[i]), <<>>)) : i \in DOMAIN Answers}
  \cup AllMerged("/T", "S") \cup AllMerged("S", "x") \cup AllMerged("x", "/S")
  \cup {[tokens |-> Single(Texts[i]), reversible |-> FALSE] : i \in {1, 6}}
MCPassages == {"p", "q"}
MCLocalized == BOOLEAN
=============================================================================
