------------------------------ MODULE MCDriveTools ------------------------------
(* Two scenes that share nothing: the Python safety node beside the model of the
   C++ node, and a supervised drive.  One is chosen at the start. *)
EXTENDS SafetyReference, ShortDrive

VARIABLE scene
vars == <<referenceVars, shortDriveVars, scene>>

MCWatched == <<"odom", "depth_points">>
MCSensorTimeout == [s \in Sensors |-> IF s = "odom" THEN 1 ELSE 2]

Init ==
  /\ ReferenceInit /\ ShortDriveInit
  /\ scene \in {"reference", "drive"}
  /\ scene = "reference" =>
       car.estop /\ car.supervised /\ car.capped /\ car.state = "IDLE"

Next ==
  \/ scene = "reference" /\ ReferenceNext /\ UNCHANGED <<shortDriveVars, scene>>
  \/ scene = "drive" /\ ShortDriveNext /\ UNCHANGED <<referenceVars, scene>>

Spec == Init /\ [][Next]_vars
=============================================================================
