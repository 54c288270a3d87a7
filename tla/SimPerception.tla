---------------------------- MODULE SimPerception ----------------------------
(***************************************************************************)
(* The perception monitor of the simulation (sim_perception_monitor.py)    *)
(* with what it listens to: the lidar, the depth fixture                   *)
(* (sim_depth_pointcloud_adapter.py), odometry and transforms, and the two *)
(* costmaps of Nav2.                                                       *)
(*                                                                         *)
(* The world is a line with cones at known places.  Frame is what is wrong *)
(* with the transforms, and with the odometry, for the whole run; poses    *)
(* between two stamps are taken as exact.  A distance stands for the cells *)
(* that its tolerance covers.                                              *)
(***************************************************************************)
EXTENDS Integers, FiniteSets

CONSTANTS
  Cones, AZone,                \* places of the landmarks; a_zone_probe_bounds
  Frames,                      \* [tf, odom]: by how much each is displaced
  MinRange, MaxRange, DepthRange, ClearRange,
  MinBeams, MinLandmarkIds,
  LocalReach,                  \* half the side of the rolling local costmap
  MaxAge, MaxMapAge, MaxSkew, MaxInterpolationSpan,
  PerceptionHorizon            \* bound: the last instant

ASSUME SimPerceptionAssumption ==
  /\ {MinRange, MaxRange, DepthRange, ClearRange, LocalReach} \subseteq Nat
  /\ {MaxAge, MaxMapAge, MaxSkew, MaxInterpolationSpan} \subseteq Nat
  /\ {MinBeams, MinLandmarkIds, PerceptionHorizon} \subseteq Nat \ {0}
  /\ Cones \subseteq Int /\ IsFiniteSet(Cones)
  /\ \A f \in Frames : f.tf \in Int /\ f.odom \in Int

(* A wrong frame does not map as many cones onto cones as a registration needs. *)
ASSUME FramesAreTold ==
  \A f \in Frames : f.tf # 0 => Cardinality({c \in Cones : c + f.tf \in Cones}) < MinLandmarkIds

VARIABLES
  world,      \* frame; where the car was at every instant so far; the stamps of its odometry
  wired,      \* the static transforms are published, Nav2's costmaps exist
  ears,       \* the newest stamp the monitor heard on each topic, 0 for none
  maps,       \* the last costmap of each name it heard
  monitor,    \* its latches, its last word, and whether it still runs
  marked      \* whether a costmap of the name ever held a true cone of the A zone

perceptionVars == <<world, wired, ears, maps, monitor, marked>>

Names == {"local", "global"}
NoMap == [stamp |-> 0, center |-> 0, marks |-> {}]
Now == Cardinality(DOMAIN world.pose)
Apart(a, b) == IF a < b THEN b - a ELSE a - b

PerceptionInit ==
  /\ \E f \in Frames : world = [frame |-> f, pose |-> [t \in {1} |-> 0], odometry |-> {}]
  /\ wired = [static |-> FALSE, nav2 |-> FALSE]
  /\ ears = [scan |-> 0, odom |-> 0, tf |-> 0, depth |-> 0]
  /\ maps = [n \in Names |-> NoMap]
  /\ \E depth \in BOOLEAN :
       monitor = [alive |-> TRUE, requireDepth |-> depth, ready |-> FALSE,
                  latched |-> {}, zone |-> FALSE, registered |-> FALSE]
  /\ marked = {}

-----------------------------------------------------------------------------
(* What the sensors say at a stamp, in the frame of the car. *)

(* _scan_callback *)
ScanPoints(s) == {d \in {c - world.pose[s] : c \in Cones} : Apart(d, 0) \in MinRange .. MaxRange}

(* world_obstacles_to_depth_point_cloud: the known obstacles ahead of the
   reported pose, and the ends of the clearing rays. *)
DepthPoints(s) ==
  {d \in {c - world.pose[s] - world.frame.odom : c \in Cones} : d \in MinRange .. DepthRange}
    \cup {ClearRange}

(* lookup_transform: between two transforms heard, at most at the last. *)
TransformAt(s) == s <= ears.tf /\ \E t \in world.odometry : t <= s

Placed(points, s) == {d + world.pose[s] + world.frame.tf : d \in points}

-----------------------------------------------------------------------------
(* The world, and what is heard of it; scans and clouds may be lost. *)

Drive(step) ==
  /\ Now < PerceptionHorizon /\ (step # 0 => monitor.ready)
  /\ world' = [world EXCEPT !.pose =
       [t \in 1 .. Now + 1 |-> IF t <= Now THEN world.pose[t] ELSE world.pose[Now] + step]]
  /\ UNCHANGED <<wired, ears, maps, monitor, marked>>

OdometryPublished ==
  /\ Now \notin world.odometry
  /\ world' = [world EXCEPT !.odometry = @ \cup {Now}]
  /\ UNCHANGED <<wired, ears, maps, monitor, marked>>

(* The static transforms come before Nav2 (sim.launch.py). *)
Wire ==
  /\ wired' \in {[static |-> TRUE, nav2 |-> FALSE], [static |-> TRUE, nav2 |-> wired.static]} \ {wired}
  /\ (wired.nav2 => wired'.nav2)
  /\ UNCHANGED <<world, ears, maps, monitor, marked>>

Hear(topic, stamps) ==
  /\ monitor.alive
  /\ \E s \in stamps : s > ears[topic] /\ ears' = [ears EXCEPT ![topic] = s]
  /\ UNCHANGED <<world, wired, maps, monitor, marked>>

HearScan == Hear("scan", 1 .. Now)
HearOdom == Hear("odom", world.odometry)
HearTransform == Hear("tf", world.odometry)

(* _depth_points_callback; the fixture makes a cloud of every odometry. *)
HearDepthPoints == monitor.requireDepth /\ Hear("depth", world.odometry)

(* What an obstacle layer may have marked so far: anything its source placed. *)
Markable ==
  UNION {Placed(IF monitor.requireDepth THEN DepthPoints(s) \ {ClearRange} ELSE ScanPoints(s), s)
         : s \in 1 .. Now}

(* _costmap_callback; Nav2 marks and clears.  The checks only ask whether some
   point is marked: a map with one mark stands for those with more. *)
CostmapCallback(name) ==
  /\ monitor.alive /\ wired.nav2
  /\ \E marks \in {{}} \cup {{m} : m \in Markable} :
       /\ maps' = [maps EXCEPT ![name] =
            [stamp |-> Now, center |-> world.pose[Now] + world.frame.tf, marks |-> marks]]
       /\ maps' # maps
       /\ marked' = IF world.frame.tf = 0 /\ marks \cap Cones \cap AZone # {}
                    THEN marked \cup {name} ELSE marked
  /\ UNCHANGED <<world, wired, ears, monitor>>

-----------------------------------------------------------------------------
(* _evaluate, at an instant of the monitor's clock. *)

ScanOk(now) ==
  /\ ears.scan # 0 /\ now - ears.scan \in 0 .. MaxAge
  /\ Cardinality(ScanPoints(ears.scan)) >= MinBeams

(* While the scan is good the skew to it replaces the age of the odometry. *)
OdomOk(now) ==
  ears.odom # 0 /\ IF ScanOk(now) THEN Apart(ears.scan, ears.odom) <= MaxSkew
                   ELSE now - ears.odom \in 0 .. MaxAge

(* _world_points of the scan *)
TfOk(now) == ScanOk(now) /\ wired.static /\ TransformAt(ears.scan)

(* _interpolate_odom_pose, _tf_odom_alignment *)
Aligned ==
  LET history == {t \in world.odometry : t <= ears.odom}
      after == {t \in history : t >= ears.scan}
      before == history \ after
  IN \E a \in before, b \in after :
       /\ \A t \in before : t <= a
       /\ \A t \in after : t >= b
       /\ b - a <= MaxInterpolationSpan
       /\ world.frame.tf = world.frame.odom

(* _landmark_matches, _landmarks_in_scan_range *)
MatchedIds == Cones \cap Placed(ScanPoints(ears.scan), ears.scan)
ExpectedIds == {c \in Cones : Apart(c, world.pose[ears.scan] + world.frame.tf) <= MaxRange}

(* Mistake: one registered cone does. *)
RegistersAny(now) == monitor.registered \/ (TfOk(now) /\ MatchedIds # {})

Registers(now) ==
  monitor.registered \/ (TfOk(now) /\ Cardinality(MatchedIds) >= MinLandmarkIds)

EnoughOfExpected ==
  LET matched == Cardinality(MatchedIds \cap ExpectedIds)
  IN matched >= MinLandmarkIds \/ matched = Cardinality(ExpectedIds)

LandmarksOk(now) ==
  /\ Registers(now)
  /\ TfOk(now) => EnoughOfExpected \/ monitor.zone

(* The sample that is looked for in the costmaps. *)
Observed ==
  IF monitor.requireDepth /\ ears.depth # 0
  THEN [stamp |-> ears.depth, points |-> DepthPoints(ears.depth), static |-> FALSE]
  ELSE [stamp |-> ears.scan, points |-> ScanPoints(ears.scan), static |-> TRUE]

ObservedFresh(now) == now - Observed.stamp \in 0 .. MaxAge
ObservedPoints(now) ==
  IF ObservedFresh(now) THEN Placed(Observed.points, Observed.stamp) ELSE {}

Recent(name) == maps[name].stamp # 0 /\ Apart(maps[name].stamp, Observed.stamp) <= MaxMapAge

(* _costmap_match_summary, of a well-formed costmap: Nav2 publishes no other. *)
InWindow(name, points) ==
  {p \in points : name = "global" \/ Apart(p, maps[name].center) <= LocalReach}
Matched(name, points) == InWindow(name, points) \cap maps[name].marks

Latches(name, now) ==
  name \in monitor.latched \/ (TfOk(now) /\ Recent(name) /\ Matched(name, ObservedPoints(now)) # {})

MapOk(name, now) ==
  \/ Latches(name, now)
  \/ /\ TfOk(now) /\ Recent(name)
     /\ InWindow(name, ObservedPoints(now)) = {}

(* _a_zone_points and the probe of both maps *)
ZonePasses(now) ==
  \/ monitor.zone
  \/ TfOk(now) /\ \A n \in Names : Recent(n) /\ Matched(n, ObservedPoints(now) \cap AZone) # {}

(* A cloud of the fixture is never empty, because of its clearing rays. *)
DepthOk(now) == monitor.requireDepth => ears.depth # 0 /\ now - ears.depth \in 0 .. MaxAge

AllChecks(now) ==
  /\ ScanOk(now) /\ OdomOk(now) /\ TfOk(now) /\ Aligned /\ LandmarksOk(now)
  /\ \A n \in Names : MapOk(n, now)
  /\ ZonePasses(now) /\ DepthOk(now)

(* A fresh observation that cannot be placed yet is None where a list is
   expected: the exception leaves the timer's callback and ends the node. *)
Raises(now) ==
  /\ TfOk(now) /\ ObservedFresh(now) /\ ~ TransformAt(Observed.stamp)
  /\ ~ monitor.zone \/ \E n \in Names : Recent(n)

Evaluate(now) ==
  /\ monitor.alive
  /\ IF Raises(now) THEN monitor' = [monitor EXCEPT !.alive = FALSE]
     ELSE monitor' = [monitor EXCEPT !.ready = AllChecks(now),
                        !.registered = Registers(now), !.zone = ZonePasses(now),
                        !.latched = {n \in Names : Latches(n, now)}]
  /\ UNCHANGED <<world, wired, ears, maps, marked>>

(* Bound: the world is followed for as long as the monitor runs. *)
PerceptionNext ==
  /\ monitor.alive
  /\ \/ Drive(0) \/ Drive(1) \/ OdometryPublished \/ Wire
     \/ HearScan \/ HearOdom \/ HearTransform \/ HearDepthPoints
     \/ \E n \in Names : CostmapCallback(n)
     \/ \E late \in {0, 1} : Evaluate(Now - late)

PerceptionSpec == PerceptionInit /\ [][PerceptionNext]_perceptionVars

(* The monitor says ready only of the world as it is: in a frame in which the
   cones are where they stand, and after each of the two costmaps has itself
   held a cone of the A zone; no agreement of a scan, a map and a transform
   that are wrong together suffices, nor one map for both
   (parse_track_landmarks, _evaluate). *)
ReadyIsOfThisWorld ==
  monitor.ready => /\ world.frame.tf = 0 /\ world.frame.odom = 0
                   /\ marked = Names

(* What makes it inductive, part by part. *)

PerceptionTyped ==
  /\ Now \in Nat \ {0} /\ DOMAIN world.pose = 1 .. Now
  /\ world.frame \in Frames /\ world.odometry \subseteq 1 .. Now
  /\ \A t \in 1 .. Now : world.pose[t] \in Int
  /\ world = [frame |-> world.frame, pose |-> world.pose, odometry |-> world.odometry]
  /\ ears \in [scan: 0 .. Now, odom: 0 .. Now, tf: 0 .. Now, depth: 0 .. Now]
  /\ DOMAIN maps = Names /\ \A n \in Names : DOMAIN maps[n] = {"stamp", "center", "marks"}
  /\ monitor \in [alive: BOOLEAN, requireDepth: BOOLEAN, ready: BOOLEAN,
                 latched: SUBSET Names, zone: BOOLEAN, registered: BOOLEAN]
  /\ marked \subseteq Names

(* In a frame that is right a mark is a cone, and one in the A zone is remembered. *)
FrameIsRight == world.frame.tf = 0 /\ world.frame.odom = 0
MarksFollow ==
  FrameIsRight =>
    /\ \A n \in Names : maps[n].marks \subseteq Cones
    /\ \A n \in Names : maps[n].marks \cap AZone # {} => n \in marked
LatchesFollow ==
  /\ monitor.registered => world.frame.tf = 0
  /\ FrameIsRight /\ monitor.zone => marked = Names
  /\ monitor.ready => FrameIsRight /\ marked = Names

(* All of the above, the inductive invariant of the monitor. *)
PerceptionInvariant == PerceptionTyped /\ MarksFollow /\ LatchesFollow
=============================================================================
