---------------------------- MODULE MCSafetyNode ----------------------------
(* Small instances of SafetyNode for TLC. *)
EXTENDS SafetyNode

CONSTANTS odom, depth

\* depth clouds may be twice as old as odometry
MCSensorTimeout == [s \in {odom, depth} |-> IF s = odom THEN 2 ELSE 3]
=============================================================================
