-------------------------------- MODULE Route --------------------------------
(***************************************************************************)
(* The route document and everything that reads it: the waypoints in       *)
(* mission order, the planning segments over their names, the C-zone       *)
(* variants, and the three places that accept or refuse a route: the       *)
(* loader, the task node, and the mission with its goal factory.           *)
(*                                                                         *)
(* A position is a cell of a grid; a heading is one of eight directions    *)
(* <<dx, dy>> with dx, dy in -1..1 (a unit quaternion), <<0, 0>> the zero   *)
(* quaternion that leaves it open; any other pair is a quaternion that is  *)
(* not of unit length.  Which of several errors is reported is left out.   *)
(***************************************************************************)
EXTENDS Integers, Sequences, SequencesExt

CONSTANTS
  CZoneIds,         \* C_ZONE_MIRROR_WAYPOINT_IDS
  CZoneTerminal,    \* C_ZONE_TERMINAL_ID
  MirrorSum,        \* C_ZONE_MIRROR_X_SUM_M
  PrefixTasks       \* SUPERVISED_PREFIX_TASKS: the tasks of each supervised prefix

ASSUME MirrorAssumption == MirrorSum \in Int /\ CZoneTerminal \in CZoneIds

AllowedTasks == {"start", "qr", "vlm", "return", "nav", "via"}
AllowedProfiles == {"standard", "precise"}
HeadingLockedTasks == {"start", "qr", "vlm"}
Open == <<0, 0>>       \* the zero quaternion
PlusX == <<1, 0>>
Unit == ((-1 .. 1) \X (-1 .. 1)) \ {Open}

IdsOf(wps) == {w.id : w \in ToSet(wps)}
Named(wps, id) == CHOOSE w \in ToSet(wps) : w.id = id
Distinct(ids) == Cardinality(ToSet(ids)) = Len(ids)

-----------------------------------------------------------------------------
(* Waypoints. *)

HeadingLocked(w) == IF w.mode = "none" THEN w.task \in HeadingLockedTasks ELSE w.mode = "locked"

ParsesWaypoint(w) ==
  /\ w.task \in AllowedTasks
  /\ w.direction = "forward"
  /\ w.profile \in AllowedProfiles
  /\ w.mode = "free" => w.task \notin HeadingLockedTasks
  /\ w.heading \in Unit \cup {Open}

MissionOrderStep(state, task) ==
  CASE state = "start" /\ task = "start" -> "before_qr"
    [] state \in {"before_qr", "before_vlm", "before_return"} /\ task = "via" -> state
    [] state = "before_qr" /\ task \in {"qr", "nav"} -> "before_vlm"
    [] state = "before_vlm" /\ task \in {"vlm", "nav"} -> "before_return"
    [] state = "before_return" /\ task = "return" -> "done"
    [] OTHER -> "refused"

TasksInOrder(tasks) ==
  LET state[i \in 0 .. Len(tasks)] ==
        IF i = 0 THEN "start" ELSE MissionOrderStep(state[i-1], tasks[i])
  IN state[Len(tasks)] = "done"

InMissionOrder(wps) == TasksInOrder([i \in DOMAIN wps |-> wps[i].task])

ValidWaypoints(wps) ==
  /\ \A w \in ToSet(wps) : ParsesWaypoint(w) /\ (HeadingLocked(w) => w.heading # Open)
  /\ Distinct([i \in DOMAIN wps |-> wps[i].id])
  /\ InMissionOrder(wps)
  /\ wps[1].pos = <<0, 0>> /\ wps[1].heading = PlusX

-----------------------------------------------------------------------------
(* Planning segments: constant-direction portions that cover the route. *)

RouteIds(segment) == <<segment.start_id>> \o segment.through_ids \o <<segment.end_id>>

ValidSegment(segment, wps) ==
  /\ segment.direction = "forward"
  /\ Distinct(RouteIds(segment))
  /\ ToSet(RouteIds(segment)) \subseteq IdsOf(wps)
  /\ Named(wps, segment.end_id).task # "via"
  /\ \A id \in ToSet(segment.through_ids) : Named(wps, id).task = "via"

ValidSegments(segs, wps) ==
  LET driven == <<segs[1].start_id>> \o FlattenSeq([k \in DOMAIN segs |-> Tail(RouteIds(segs[k]))])
      ends == {s.end_id : s \in ToSet(segs)}
  IN /\ wps # <<>> /\ Distinct([i \in DOMAIN wps |-> wps[i].id])
     /\ segs # <<>> /\ Distinct([k \in DOMAIN segs |-> segs[k].id])
     /\ \A s \in ToSet(segs) : ValidSegment(s, wps)
     /\ \A k \in 2 .. Len(segs) : segs[k].start_id = segs[k-1].end_id
     /\ segs[1].start_id = wps[1].id /\ Last(segs).end_id = Last(wps).id
     /\ Distinct(driven) /\ ToSet(driven) = IdsOf(wps)
     /\ \A w \in ToSet(wps) :
          /\ w.task \in {"qr", "vlm"} => w.id \in ends
          /\ w.task = "start" => w.id = segs[1].start_id
          /\ w.task = "return" => w.id = Last(segs).end_id

Goals(wps, segment) ==
  LET ids == Tail(RouteIds(segment))
  IN [i \in DOMAIN ids |-> [Named(wps, ids[i]) EXCEPT !.direction = segment.direction]]

(* materialize_route: the waypoints in the order of the segments. *)
Ordered(wps, segs) ==
  <<Named(wps, segs[1].start_id)>> \o FlattenSeq([k \in DOMAIN segs |-> Goals(wps, segs[k])])

Forward(goals) == \A g \in ToSet(goals) : g.direction = "forward"
Standard(goals) == \A g \in ToSet(goals) : g.profile = "standard"

PreciseTerminal(goals) ==
  /\ Len(goals) >= 2
  /\ Forward(goals) /\ Standard(Front(goals))
  /\ Last(goals).profile = "precise" /\ HeadingLocked(Last(goals))

Combinable(goals) == Len(goals) > 1 => Standard(goals) \/ PreciseTerminal(goals)

-----------------------------------------------------------------------------
(* Headings of the points that leave theirs open: the tangent of the route. *)

Sign(n) == IF n > 0 THEN 1 ELSE IF n < 0 THEN -1 ELSE 0
Chord(p, q) == <<Sign(q[1] - p[1]), Sign(q[2] - p[2])>>

Elsewhere(route, i, js) == {j \in js : route[j].pos # route[i].pos}

HasTangent(route, i) == Elsewhere(route, i, DOMAIN route) # {}

(* Mistake: the neighbours are taken as they come, in the same place or not. *)
TangentOfNeighbours(route, i) ==
  Chord(route[IF i = Len(route) THEN i - 1 ELSE i].pos, route[IF i = Len(route) THEN i ELSE i + 1].pos)

Tangent(route, i) ==
  LET here == route[i].pos
      before == Elsewhere(route, i, 1 .. i - 1)
      after == Elsewhere(route, i, i + 1 .. Len(route))
      previous == route[Max(before)].pos
      following == route[Min(after)].pos
  IN IF after = {} THEN Chord(previous, here)
     ELSE IF before = {} \/ previous = following THEN Chord(here, following)
     ELSE Chord(previous, following)

HasFreeYaws(route) ==
  /\ Distinct([i \in DOMAIN route |-> route[i].id])
  /\ Forward(route)
  /\ \A i \in DOMAIN route :
       IF HeadingLocked(route[i]) THEN route[i].heading \in Unit ELSE HasTangent(route, i)

FreeYaws(route) ==
  [i \in DOMAIN route |->
     IF HeadingLocked(route[i]) THEN route[i] ELSE [route[i] EXCEPT !.heading = Tangent(route, i)]]

-----------------------------------------------------------------------------
(* The C-zone variants. *)

HasCZone(wps) == CZoneIds \subseteq IdsOf(wps) /\ Distinct([i \in DOMAIN wps |-> wps[i].id])

Mirrored(w) ==
  [w EXCEPT !.pos = <<MirrorSum - @[1], @[2]>>,
            !.heading = IF w.id = CZoneTerminal THEN <<-@[1], @[2]>> ELSE @]

Variant(wps, direction) ==
  IF direction = "counterclockwise" THEN wps
  ELSE [i \in DOMAIN wps |-> IF wps[i].id \in CZoneIds THEN Mirrored(wps[i]) ELSE wps[i]]

DirectionForQr(parity) == IF parity = "odd" THEN "clockwise" ELSE "counterclockwise"

-----------------------------------------------------------------------------
(* load_waypoint_document with load_planning_segments. *)
Loads(doc) == ValidWaypoints(doc.waypoints) /\ ValidSegments(doc.segments, doc.waypoints)

Materializes(wps, segs) ==
  /\ ValidSegments(segs, wps) /\ ValidWaypoints(Ordered(wps, segs)) /\ HasFreeYaws(Ordered(wps, segs))
  /\ \A s \in ToSet(segs) : Combinable(Goals(wps, s))

(* The goals of the first n segments, every heading filled in. *)
NavigationSegments(wps, segs, n) ==
  LET route == FreeYaws(Ordered(wps, segs))
  IN [k \in 1 .. n |-> LET goals == Goals(wps, segs[k])
                       IN [i \in DOMAIN goals |-> Named(route, goals[i].id)]]

PrefixLengths(segs, id) == IF id = "" THEN {Len(segs)} ELSE {k \in DOMAIN segs : segs[k].id = id}

TestModeFits(mode, segs, n, navigation) ==
  LET tasks == [i \in DOMAIN FlattenSeq(navigation) |-> FlattenSeq(navigation)[i].task]
  IN /\ Cardinality(mode.prefixes) + (IF mode.full THEN 1 ELSE 0)
          + (IF mode.competition THEN 1 ELSE 0) <= 1
     /\ \A id \in mode.prefixes : segs[n].id = id /\ tasks = PrefixTasks[id]
     /\ mode.full => n = Len(segs) /\ ToSet(tasks) \subseteq {"start", "nav", "via", "return"}

CompetitionFits(doc, segs, n, navigation) ==
  /\ n = Len(segs)
  /\ [k \in DOMAIN navigation |-> Last(navigation[k]).task] = <<"qr", "vlm", "return">>
  /\ Materializes(Variant(doc.waypoints, "clockwise"), segs)

(* TaskNode._load_route; mode holds the node's parameters. *)
TaskNodeLoads(doc, mode) ==
  LET wps == Variant(doc.waypoints, mode.direction)
      n == CHOOSE k \in PrefixLengths(doc.segments, mode.end_segment) : TRUE
      navigation == NavigationSegments(wps, doc.segments, n)
  IN /\ ValidWaypoints(doc.waypoints) /\ HasCZone(doc.waypoints)
     /\ mode.competition => mode.direction = "counterclockwise"
     /\ PrefixLengths(doc.segments, mode.end_segment) # {}
     /\ Materializes(wps, doc.segments)
     /\ mode.competition => CompetitionFits(doc, doc.segments, n, navigation)
     /\ TestModeFits(mode, doc.segments, n, navigation)

-----------------------------------------------------------------------------
(* The mission: what it asks of a segment, and of the two variants. *)

MissionTakesSegment(goals) ==
  /\ goals # <<>> /\ Forward(goals)
  /\ \A g \in ToSet(goals) : g.task # "start"
  /\ \A g \in ToSet(Front(goals)) : g.task = "via"
  /\ Last(goals).task # "via"
  /\ Combinable(goals)

Signature(navigation) ==
  [k \in DOMAIN navigation |->
     [i \in DOMAIN navigation[k] |->
        LET g == navigation[k][i] IN <<g.id, g.task, g.direction, g.profile, g.mode>>]]

MissionTakesVariants(baseline, clockwise) ==
  baseline # <<>> /\ Signature(clockwise) = Signature(baseline)

(* After the QR code at the end of segment k, the rest is driven in the variant. *)
MissionKeepsCompleted(baseline, clockwise, k) ==
  SubSeq(clockwise, 1, k) = SubSeq(baseline, 1, k)

(* Nav2GoalFactory: the goal of a segment can be built. *)
GoalBuilds(goals) ==
  Forward(goals) /\ Combinable(goals) /\ \A g \in ToSet(goals) : g.heading \in Unit
=============================================================================
