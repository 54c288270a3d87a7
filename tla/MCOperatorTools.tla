---------------------------- MODULE MCOperatorTools ----------------------------
(* Two scenes that share nothing: the route editor, on a field of six points and
   three segments and on variations of its document, and the startup observer.
   One is chosen at the start. *)
EXTENDS RouteEditor, StartupStatus

VARIABLE scene

Point(id, task, profile, pos, heading) ==
  [id |-> id, task |-> task, direction |-> "forward", profile |-> profile, mode |-> "none",
   pos |-> pos, heading |-> heading]

Segment(id, from, ids, to) ==
  [id |-> id, direction |-> "forward", start_id |-> from, through_ids |-> ids, end_id |-> to]

Field ==
  [calibrated |-> TRUE,
   waypoints |->
     <<Point("p_start", "start", "standard", <<0, 0>>, PlusX),
       Point("a_task", "qr", "precise", <<4, 1>>, <<0, 1>>),
       Point("via_1", "via", "standard", <<3, 3>>, Open),
       Point("c1", "vlm", "precise", <<1, 4>>, <<-1, 0>>),
       Point("via_2", "via", "standard", <<1, 3>>, Open),
       Point("p_finish", "return", "standard", <<0, 0>>, Open)>>,
   segments |->
     <<Segment("p_to_qr", "p_start", <<>>, "a_task"),
       Segment("qr_to_vlm", "a_task", <<"via_1">>, "c1"),
       Segment("return_to_p", "c1", <<"via_2">>, "p_finish")>>]

(* Hand edits of one field of one point. *)
Changed ==
  UNION {{[Field EXCEPT !.waypoints[i].task = t] : t \in (AllowedTasks \ {"nav"}) \cup {"park"}} \cup
         {[Field EXCEPT !.waypoints[i].profile = "reverse_handoff"]} \cup
         {[Field EXCEPT !.waypoints[i].heading = h] : h \in {Open, <<2, 0>>}} : i \in 1 .. 6}

Practice ==   \* the route without vision tasks
  [Field EXCEPT !.waypoints[2].task = "nav", !.waypoints[2].mode = "locked",
                !.waypoints[4].task = "nav", !.waypoints[4].mode = "locked"]

MCDocuments == Changed \cup {Field, Practice}
MCViaIds == <<"via_1", "via_2", "via_3", "via_4", "via_5">>
MCSegmentIds == <<"segment_1", "segment_2", "segment_3">>
MCCells == {<<0, 0>>, <<3, 3>>, <<2, 2>>}
MCPrefixTasks == [id \in {"p_to_qr", "qr_to_vlm"} |->
  IF id = "p_to_qr" THEN <<"nav">> ELSE <<"nav", "via", "nav">>]

MCFreshFor == [s \in Inputs |-> 1]

MCInit ==
  /\ Init /\ StartupInit
  /\ scene \in {"editor", "startup"}
  /\ scene = "startup" => file = [Field EXCEPT !.waypoints[1].task = "park"]
  /\ scene = "editor" => observer.phase = "disabled"

MCNext ==
  \/ scene = "editor" /\ Next /\ UNCHANGED <<startupVars, scene>>
  \/ scene = "startup" /\ StartupNext /\ UNCHANGED <<vars, scene>>

MCSpec == MCInit /\ [][MCNext]_<<vars, startupVars, scene>>
=============================================================================
