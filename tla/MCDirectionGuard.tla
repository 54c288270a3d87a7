-------------------------- MODULE MCDirectionGuard --------------------------
(* Small instances of DirectionGuard for TLC. *)
EXTENDS DirectionGuard

CONSTANTS nil, u1, u2, u3

FewCandidates == {Zero, [x |-> 2, turn |-> FALSE, lateral |-> FALSE]}
=============================================================================
