------------------------------ MODULE MCVision ------------------------------
(* Two scenes that share nothing: the vision services of the car, and what the
   simulation makes its perception monitor see.  One is chosen at the start. *)
EXTENDS Vision, SimPerception

VARIABLE scene

\* Replies of the scene service: a good one, and one for each way to fail.
Body(status, output_text, output) ==
  [status |-> status, output_text |-> output_text, output |-> output]

Good == [key |-> TRUE, payload |-> TRUE, code |-> 200, whole |-> TRUE,
         body |-> Body("completed", "", "a chair")]

MCReplies == {Good, [Good EXCEPT !.key = FALSE], [Good EXCEPT !.code = 500],
              [Good EXCEPT !.whole = FALSE], [Good EXCEPT !.body = Body("incomplete", "a ch", "")],
              [Good EXCEPT !.body = Body("", "", "")]}
MCPlans == {<<"vlm", "qr">>, <<"qr", "vlm">>}
MCMaxSamples == [t \in {"barcode", "image"} |-> IF t = "barcode" THEN 2 ELSE 1]

Pose(tf, odom) == [tf |-> tf, odom |-> odom]
MCFrames == {Pose(0, 0), Pose(1, 1), Pose(0, 2)}

\* The lidar alone is shown a frame that is wrong as a whole, the clouds one whose odometry
\* is wrong, and both the right one.
Shown(frame, depth) == IF depth THEN frame.tf = 0 ELSE frame.tf = frame.odom

MCInit ==
  /\ Init /\ PerceptionInit
  /\ scene \in {"services", "perception"}
  /\ scene = "services" => world.frame = Pose(0, 0) /\ ~ monitor.requireDepth
  /\ Shown(world.frame, monitor.requireDepth)
  /\ scene = "perception" => client.plan = <<"vlm", "qr">>

MCNext ==
  \/ scene = "services" /\ Next /\ UNCHANGED <<perceptionVars, scene>>
  \/ scene = "perception" /\ PerceptionNext /\ UNCHANGED <<vars, scene>>

MCSpec == MCInit /\ [][MCNext]_<<vars, perceptionVars, scene>>
=============================================================================
