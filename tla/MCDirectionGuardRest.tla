------------------------ MODULE MCDirectionGuardRest ------------------------
(* Small instances of DirectionGuardRest for TLC. *)
EXTENDS DirectionGuardRest

CONSTANTS nil, u1

Straight(x) == [x |-> x, turn |-> FALSE, lateral |-> FALSE]
Turning(x)  == [x |-> x, turn |-> TRUE, lateral |-> FALSE]

\* 1 is under the direction threshold, 2 at the recovery cap, 3 above it.
AllCandidates ==
  {Zero, Straight(-3), Straight(-2), Turning(-2), Straight(1), Turning(2),
   [Straight(2) EXCEPT !.lateral = TRUE]}
=============================================================================
