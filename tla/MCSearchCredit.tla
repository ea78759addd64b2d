----------------------------- MODULE MCSearchCredit -----------------------------
(* Two searches that parse, one whose opening tag shares a token with its    *)
(* thought, an open search and an answer.                                    *)
EXTENDS SearchCredit

Sampled(tokenization) == [tokens |-> tokenization, reversible |-> TRUE]

MCActions ==
  {Sampled(<<<<"T">>, <<"/T">>, <<"S">>, <<"x">>, <<"/S">>>>),
   Sampled(<<<<"T">>, <<"x">>, <<"/T", "S">>, <<"y">>, <<"/S">>>>),
   Sampled(<<<<"T">>, <<"/T">>, <<"S">>, <<"x">>>>),
   Sampled(<<<<"A">>, <<"x">>, <<"/A">>>>)}
MCPassages == {"p"}
MCLocalized == BOOLEAN
MCModes == {"novelty", "routed", "mica", "consensus"}
MCGains == {-1, 0, 1}
MCPeerGains == {0}
MCOutcomes == {-1, 1}
MCProbes == {[sufficient |-> TRUE, reward |-> 1],
             [sufficient |-> FALSE, reward |-> 1],
             [sufficient |-> FALSE, reward |-> 0]}
=============================================================================
