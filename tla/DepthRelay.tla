------------------------------ MODULE DepthRelay ------------------------------
(***************************************************************************)
(* The relay of the depth camera's clouds (depth_pointcloud_relay.py):     *)
(* clouds that are whole and fresh go on to the obstacle layers, at a      *)
(* bounded rate, and a status topic says how the stream is.                *)
(*                                                                         *)
(* One clock serves as the monotonic clock of the relay and as the ROS     *)
(* clock of the camera, whose stamps are in thousandths: the scale of      *)
(* correct_aurora_timestamp undoes that and is left out.                   *)
(***************************************************************************)
EXTENDS Integers, FiniteSets

CONSTANTS
  StaleTimeout, MinPublishInterval, CheckPeriod,  \* of the relay
  MaxCaptureAge, MaxFutureSkew,                   \* of a cloud's stamp
  ExpectedFrame, SampleLimit, MaxPoints,          \* of a cloud's content
  Clouds,         \* [frame, whole, size, finite]: its points are 0 .. size - 1
  Slack,          \* how late a due timer may run
  RelayHorizon    \* bound: the last instant

ASSUME DepthRelayAssumption ==
  /\ {StaleTimeout, MinPublishInterval, CheckPeriod} \subseteq Nat \ {0}
  /\ {MaxCaptureAge, MaxFutureSkew, Slack, RelayHorizon} \subseteq Nat
  /\ MaxPoints \in Nat \ {0} /\ SampleLimit \in Nat \ {0, 1}
  /\ \A c \in Clouds : c.size \in Nat /\ c.finite \subseteq 0 .. c.size - 1

VARIABLES
  relayTime,   \* the clock
  depthRelay   \* [received, published, status], the points it sent last, the last check of its timer

depthVars == <<relayTime, depthRelay>>

Never == 0 - 1   \* None of _last_received_at, _last_published_at

DepthInit ==
  /\ relayTime = 0
  /\ depthRelay = [received |-> Never, published |-> Never, status |-> "waiting",
                    sent |-> {}, checked |-> 0]

(* The rate limit of _on_point_cloud; the cloud is not even looked at. *)
TooSoon ==
  depthRelay.published # Never /\ relayTime - depthRelay.published < MinPublishInterval

(* validate_capture_timestamp *)
CaptureFits(capture) ==
  relayTime - capture \in 0 - MaxFutureSkew .. MaxCaptureAge

(* Mistake: the step between two points is rounded before it is multiplied. *)
SpreadByStep(size, most) ==
  IF size <= most THEN 0 .. size - 1
  ELSE {p \in 0 .. size - 1 : p % (size \div most) = 0}

(* At most so many of the points, evenly spread from the first to the last. *)
Spread(size, most) ==
  IF size <= most THEN 0 .. size - 1
  ELSE IF most = 1 THEN {0}
  ELSE {(i * (size - 1)) \div (most - 1) : i \in 0 .. most - 1}

(* _has_finite_xyz_sample: some of the points are looked at. *)
HasFiniteSample(cloud) == Spread(cloud.size, SampleLimit) \cap cloud.finite # {}

(* retime_point_cloud *)
IsSound(cloud) ==
  cloud.frame = ExpectedFrame /\ cloud.whole /\ cloud.size > 0 /\ HasFiniteSample(cloud)

Refuses == depthRelay' = [depthRelay EXCEPT !.received = Never, !.status = "invalid"]

(* _on_point_cloud *)
OnPointCloud(capture, cloud) ==
  /\ ~ TooSoon
  /\ IF IsSound(cloud) /\ CaptureFits(capture)
     THEN depthRelay' = [depthRelay EXCEPT !.received = relayTime, !.published = relayTime,
                           !.status = "active", !.sent = Spread(cloud.size, MaxPoints)]
     ELSE Refuses
  /\ UNCHANGED relayTime

(* Mistake: the time since the last refresh of the status decides. *)
IsStaleByCheck == relayTime - depthRelay.checked > StaleTimeout

IsStale == relayTime - depthRelay.received > StaleTimeout

(* _check_freshness *)
CheckFreshness ==
  /\ depthRelay' = [depthRelay EXCEPT !.checked = relayTime,
       !.status = IF depthRelay.received # Never /\ IsStale THEN "stale" ELSE @]
  /\ UNCHANGED relayTime

(* The timer is served, at most Slack too late. *)
RelayTicks ==
  /\ relayTime < RelayHorizon
  /\ relayTime + 1 <= depthRelay.checked + CheckPeriod + Slack
  /\ relayTime' = relayTime + 1 /\ UNCHANGED depthRelay

DepthNext ==
  \/ RelayTicks \/ CheckFreshness
  \/ \E delay \in 0 - MaxFutureSkew - 1 .. MaxCaptureAge + 1, cloud \in Clouds :
       OnPointCloud(relayTime - delay, cloud)

DepthSpec == DepthInit /\ [][DepthNext]_depthVars

(* "active" is said only of a stream that flows: a sound cloud went on within
   the stale timeout and the delay of the timer, and it is the last the relay
   has accepted; a cloud that goes on ends every other status, and is no
   larger than the executor of the board can bear
   (_check_freshness, _on_point_cloud, retime_point_cloud). *)
ActiveMeansFlowing ==
  /\ depthRelay.status = "active" =>
       /\ depthRelay.received = depthRelay.published
       /\ relayTime - depthRelay.published <= StaleTimeout + CheckPeriod + Slack
  /\ depthRelay.published = relayTime /\ depthRelay.received = relayTime
       => depthRelay.status = "active"
  /\ Cardinality(depthRelay.sent) <= MaxPoints

(* What makes it inductive, part by part. *)

Instants == Nat \cup {Never}
DepthTyped ==
  /\ relayTime \in Nat
  /\ depthRelay \in [received: Instants, published: Instants,
                    status: {"waiting", "active", "stale", "invalid"},
                    sent: SUBSET Nat, checked: Nat]

(* A stream that was called active at the last check was not stale then, and the next
   check is not far. *)
FlowFollows ==
  /\ depthRelay.published <= relayTime /\ depthRelay.checked <= relayTime
  /\ relayTime <= depthRelay.checked + CheckPeriod + Slack
  /\ depthRelay.received \in {Never, depthRelay.published}
  /\ depthRelay.status = "active" =>
       /\ depthRelay.received # Never
       /\ depthRelay.checked - depthRelay.received <= StaleTimeout
  /\ depthRelay.received = relayTime => depthRelay.status = "active"
  /\ Cardinality(depthRelay.sent) <= MaxPoints

(* Both, the inductive invariant of the relay. *)
DepthInvariant == DepthTyped /\ FlowFollows
=============================================================================
