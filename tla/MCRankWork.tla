------------------------------- MODULE MCRankWork -------------------------------
(* Prompt groups of two; budgets of which one task fits packed, one only     *)
(* prefix by prefix, one not at all, and one that cannot be built.  In the   *)
(* prior target the answer begins and ends inside a token.  In one workload   *)
(* enough gates open in two batches, and its main gradient is zero.          *)
EXTENDS RankWork

Prior == [offsets |-> <<[begin |-> 0, end |-> 2], [begin |-> 2, end |-> 4],
                        [begin |-> 4, end |-> 6]>>, from |-> 3, to |-> 5]
Retrieved == [offsets |-> <<[begin |-> 0, end |-> 1], [begin |-> 1, end |-> 2]>>,
              from |-> 1, to |-> 2]

T(id, tokens, original, endpoints, decision, query) ==
  [id |-> id, tokens |-> tokens, original |-> original, endpoints |-> endpoints,
   prior |-> Prior, retrieved |-> Retrieved, decision |-> decision, query |-> query,
   live |-> {"main"} \cup (IF decision > 0 THEN {"decision"} ELSE {})
                     \cup (IF query > 0 THEN {"query"} ELSE {})]

Plain(id, tokens) == T(id, tokens, 1, <<1>>, 0, 0)
Short(id, tokens) == T(id, tokens, 2, <<1, 2>>, 1, 0)
Long(id, tokens) == T(id, tokens, 3, <<1, 2, 3>>, 0, 1)
Wide(id, tokens) == T(id, tokens, 5, <<1, 3, 5>>, 1, 1)
Unpackable(id, tokens) == T(id, tokens, 7, <<1, 2, 4, 6>>, 0, 1)
Hopeless(id, tokens) == T(id, tokens, 10, <<1, 10>>, 0, 0)
Endless(id, tokens) == T(id, tokens, 12, <<1, 12>>, 0, 0)

Balanced(t) == [t EXCEPT !.live = @ \ {"main"}]

Kept(a, b) == [selected |-> TRUE, trajectories |-> <<a, b>>]
Spare(a, b) == [selected |-> FALSE, trajectories |-> <<a, b>>]

MCWorkloads ==
  {<<Kept(Short(1, 1), Long(2, 2)), Kept(Wide(3, 1), Short(4, 1)),
     Spare(Plain(5, 1), Plain(6, 1))>>,
   <<Kept(Plain(1, 2), Plain(2, 1)), Spare(Plain(3, 1), Plain(4, 1))>>,
   <<Kept(Balanced(Short(1, 1)), Balanced(Long(2, 1))),
     Kept(Balanced(Unpackable(3, 3)), Balanced(Long(4, 1))),
     Kept(Balanced(Short(5, 1)), Balanced(Long(6, 1)))>>,
   <<Kept(Short(1, 1), Plain(2, 1)), Kept(Long(3, 1), Plain(4, 1)),
     Kept(Wide(5, 3), Long(6, 1)), Kept(Short(7, 1), Plain(8, 3))>>,
   <<Kept(Hopeless(1, 1), Short(2, 1))>>,
   <<Kept(Endless(1, 1), Short(2, 1))>>}
MCStages == {"train", "calibrate"}
=============================================================================
