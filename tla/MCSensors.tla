------------------------------- MODULE MCSensors -------------------------------
(* Four scenes that share nothing: the preflight of the simulation, the depth
   relay of the car, and its chassis, once for the commands and once for the
   readings.  One is chosen at the start. *)
EXTENDS SimPreflight, DepthRelay, Chassis

VARIABLE scene
vars == <<preflightVars, depthVars, chassisVars, scene>>

Cloud(frame, whole, size, finite) == [frame |-> frame, whole |-> whole, size |-> size, finite |-> finite]
MCClouds == {Cloud("depth", TRUE, 3, {1}), Cloud("depth", TRUE, 7, {0, 5}), Cloud("depth", TRUE, 5, {1}),
             Cloud("depth", FALSE, 3, {1}), Cloud("other", TRUE, 3, {1})}

Init ==
  /\ PreflightInit /\ DepthInit /\ ChassisInit
  /\ scene \in {"preflight", "depth", "wheels", "readings"}
  /\ scene # "preflight" => ~ preflight.requireTf
  /\ scene # "wheels" => chassis.up /\ chassis.rescans /\ chassis.motor = <<>>

Next ==
  \/ /\ scene = "preflight" /\ PreflightNext
     /\ UNCHANGED <<depthVars, chassisVars, scene>>
  \/ /\ scene = "depth" /\ DepthNext
     /\ UNCHANGED <<preflightVars, chassisVars, scene>>
  \/ /\ scene = "wheels" /\ (ChassisCommands \/ ChassisNode)
     /\ UNCHANGED <<preflightVars, depthVars, scene>>
  \/ /\ scene = "readings" /\ (SendsFrame \/ Pass \/ SerialTick)
     /\ UNCHANGED <<preflightVars, depthVars, scene>>

Spec == Init /\ [][Next]_vars
=============================================================================
