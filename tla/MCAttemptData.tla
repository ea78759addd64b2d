----------------------------- MODULE MCAttemptData -----------------------------
(* A data set of three prompts over three epochs, groups of two.            *)
EXTENDS AttemptData

MCShuffle == [e \in 0..2 |-> IF e = 1 THEN <<3, 1, 2>> ELSE <<1, 2, 3>>]

Traj(outcome, gains) == [eligible |-> TRUE, outcome |-> outcome, gains |-> gains]
MCGroups ==
  { <<Traj(0, <<1>>), Traj(0, <<1>>)>>,          \* no signal
    <<Traj(0, <<1>>), Traj(2, <<1>>)>>,          \* outcome only
    <<Traj(0, <<0>>), Traj(1, <<3>>)>> }         \* both
MCAlpha == [c \in Channels |-> IF c = "ig" THEN 1 ELSE 2]
MCNoise == [c \in Channels |-> IF c = "ig" THEN 1 ELSE 0]
=============================================================================
