----------------------------- MODULE SimPreflight -----------------------------
(***************************************************************************)
(* The odometry of the simulation (gazebo_ground_truth_odom_relay.py) and  *)
(* the preflight that watches it with the lidar before Nav2 may start      *)
(* (sim_sensor_preflight.py), without and with the transform of the lidar. *)
(*                                                                         *)
(* Messages are lost and late, and their stamps are in no order: an        *)
(* earlier simulation that survived the cleanup may publish on the same    *)
(* topics of Gazebo, with a clock of its own.                              *)
(***************************************************************************)
EXTENDS Integers, FiniteSets

CONSTANTS
  MinOdomSamples, MinScanSamples, MinStreamSpan, MaxSensorAge, MaxScanOdomSkew,
  MaxTwistInterval,   \* of the relay
  SimHorizon          \* bound: the largest stamp of Gazebo

ASSUME SimPreflightAssumption ==
  /\ {MinOdomSamples, MinScanSamples, MinStreamSpan, MaxTwistInterval} \subseteq Nat \ {0}
  /\ {MaxSensorAge, MaxScanOdomSkew, SimHorizon} \subseteq Nat

VARIABLES
  odomRelay,   \* last and twist; published, the stamps of its odometry and transforms
  preflight,   \* the preflight, a process
  heard        \* the stamps of every good sample it was handed, per stream

preflightVars == <<odomRelay, preflight, heard>>

Nothing == [first |-> 0, last |-> 0, count |-> 0]
Streams == {"odom", "scan"}
Stamps == 1 .. SimHorizon

PreflightInit ==
  /\ odomRelay = [last |-> 0, twist |-> "zero", published |-> {}]
  /\ \E require \in BOOLEAN :
       preflight = [pc |-> "wait", requireTf |-> require, clock |-> 0, advanced |-> FALSE,
                    odom |-> Nothing, scan |-> Nothing, beams |-> FALSE, tf |-> Nothing]
  /\ heard = [s \in Streams |-> {}]

-----------------------------------------------------------------------------
(* _fill_measured_twist: the last measured pose is the last published one. *)
Twist(stamp) ==
  IF odomRelay.last # 0 /\ stamp - odomRelay.last <= MaxTwistInterval THEN "measured" ELSE "zero"

(* _pose_callback, _publish_pose.  A pose is whole when the array has the one
   model, finite; every other message is ignored.  Bound: the relay is followed
   for as long as the preflight waits. *)
PoseCallback(stamp, whole) ==
  /\ preflight.pc = "wait"
  /\ IF whole /\ stamp > odomRelay.last
     THEN odomRelay' = [last |-> stamp, twist |-> Twist(stamp),
                        published |-> odomRelay.published \cup {stamp}]
     ELSE UNCHANGED odomRelay
  /\ UNCHANGED <<preflight, heard>>

-----------------------------------------------------------------------------
(* _scan_time_tf_available: the buffer interpolates, and never beyond its ends. *)
TfAvailable ==
  \/ ~ preflight.requireTf
  \/ preflight.scan.last \in preflight.tf.first .. preflight.tf.last

Distance(a, b) == IF a < b THEN b - a ELSE a - b

(* _status *)
Ready ==
  LET odom == preflight.odom
      scan == preflight.scan
      clock == preflight.clock
  IN /\ preflight.advanced
     /\ odom.count >= MinOdomSamples /\ scan.count >= MinScanSamples
     /\ odom.last - odom.first >= MinStreamSpan /\ scan.last - scan.first >= MinStreamSpan
     /\ preflight.beams
     /\ Distance(scan.last, odom.last) <= MaxScanOdomSkew
     /\ clock - odom.last \in 0 .. MaxSensorAge /\ clock - scan.last \in 0 .. MaxSensorAge
     /\ TfAvailable

(* A message is taken while the preflight still waits: it ends as soon as it is ready. *)
Waits == preflight.pc = "wait"
Hears == Waits /\ ~ Ready /\ UNCHANGED odomRelay

(* _clock_callback *)
ClockCallback(stamp) ==
  /\ Hears
  /\ preflight' = [preflight EXCEPT !.clock = stamp,
                                    !.advanced = @ \/ (preflight.clock # 0 /\ stamp > preflight.clock)]
  /\ UNCHANGED heard

(* Mistake: every sample counts. *)
TakenWhatever(stream, stamp) ==
  [first |-> IF stream.first = 0 THEN stamp ELSE stream.first, last |-> stamp,
   count |-> stream.count + 1]

Taken(stream, stamp) ==
  IF stamp <= stream.last THEN stream
  ELSE [first |-> IF stream.first = 0 THEN stamp ELSE stream.first, last |-> stamp,
        count |-> stream.count + 1]

(* _odom_callback, of a pose that is finite *)
OdomCallback(stamp) ==
  /\ Hears
  /\ preflight' = [preflight EXCEPT !.odom = Taken(@, stamp)]
  /\ heard' = [heard EXCEPT !["odom"] = @ \cup {stamp}]

(* _scan_callback, valid_scan_beam_count *)
ScanCallback(stamp, beams) ==
  /\ Hears
  /\ preflight' = [preflight EXCEPT !.scan = Taken(@, stamp),
                                    !.beams = IF stamp > preflight.scan.last THEN beams ELSE @]
  /\ heard' = [heard EXCEPT !["scan"] = @ \cup {stamp}]

(* The transform listener, started only where it is required. *)
TransformHeard(stamp) ==
  /\ Hears /\ preflight.requireTf
  /\ preflight' = [preflight EXCEPT !.tf = Taken(@, stamp)] /\ UNCHANGED heard

(* wait: the status is asked after every message, until a deadline of the wall clock,
   which may come at any moment. *)
PreflightEnds(code) ==
  /\ Waits /\ code = IF Ready THEN "ok" ELSE "failed"
  /\ preflight' = [preflight EXCEPT !.pc = code]
  /\ UNCHANGED <<odomRelay, heard>>

PreflightNext ==
  \/ \E stamp \in Stamps, whole \in BOOLEAN : PoseCallback(stamp, whole)
  \/ \E stamp \in Stamps : ClockCallback(stamp) \/ \E beams \in BOOLEAN : ScanCallback(stamp, beams)
  \/ \E stamp \in odomRelay.published : OdomCallback(stamp) \/ TransformHeard(stamp)
  \/ \E code \in {"ok", "failed"} : PreflightEnds(code)

PreflightSpec == PreflightInit /\ [][PreflightNext]_preflightVars

(* Enough samples of a stream were different moments in order, far enough
   apart, and lately heard. *)
Sustained(stamps, least, clock) ==
  \E newest \in stamps :
    /\ clock - newest \in 0 .. MaxSensorAge
    /\ Cardinality({s \in stamps : s <= newest}) >= least
    /\ \E s \in stamps : newest - s >= MinStreamSpan

(* A preflight that succeeds has seen two streams, of different moments each,
   that agree with the clock it heard and with each other; no repeated, late
   or foreign message stands for a stream; and where the transform is
   required, the newest scan can be placed (sim_sensor_preflight.py). *)
PreflightSawStreams ==
  preflight.pc = "ok" =>
    /\ Sustained(heard["odom"], MinOdomSamples, preflight.clock)
    /\ Sustained(heard["scan"], MinScanSamples, preflight.clock)
    /\ preflight.requireTf =>
         \E s \in heard["scan"] : \E a, b \in odomRelay.published :
           a <= s /\ s <= b /\ preflight.clock - s \in 0 .. MaxSensorAge

(* What makes it inductive, part by part. *)

Stream == [first: Nat, last: Nat, count: Nat]
PreflightTyped ==
  /\ odomRelay \in [last: Nat, twist: {"zero", "measured"}, published: SUBSET Stamps]
  /\ preflight \in [pc: {"wait", "ok", "failed"}, requireTf: BOOLEAN, clock: Nat,
                   advanced: BOOLEAN, odom: Stream, scan: Stream, beams: BOOLEAN, tf: Stream]
  /\ heard \in [Streams -> SUBSET Stamps]

(* A stream that was taken began and ends with samples that were heard, and counts no
   more of them than are different moments. *)
Begun(stream, stamps) ==
  IF stream.count = 0 THEN stream.first = 0 /\ stream.last = 0
                      ELSE stream.first \in stamps /\ stream.last \in stamps
Counted(stream, stamps) == stream.count <= Cardinality({s \in stamps : s <= stream.last})

StreamsFollow ==
  /\ Begun(preflight.odom, heard["odom"]) /\ Counted(preflight.odom, heard["odom"])
  /\ Begun(preflight.scan, heard["scan"]) /\ Counted(preflight.scan, heard["scan"])
  /\ Begun(preflight.tf, odomRelay.published)
  /\ preflight.pc = "ok" => Ready

(* Both, the inductive invariant of the preflight. *)
PreflightInvariant == PreflightTyped /\ StreamsFollow
=============================================================================
