------------------------- MODULE DirectionGuardRest -------------------------
(***************************************************************************)
(* The stop barrier of the direction guard, told from outside.  Three      *)
(* history variables record what the guard was shown, without using its    *)
(* own timers: when it last had a reason to think the car moves, when the  *)
(* smoother last asked for motion, and when odometry last arrived.         *)
(***************************************************************************)
EXTENDS DirectionGuard

VARIABLES moved_at, pushed_at, heard_odom_at

history == <<moved_at, pushed_at, heard_odom_at>>

RestInit == Init /\ moved_at = 0 /\ pushed_at = 0 /\ heard_odom_at = None

\* A stop or a restart forgets all earlier evidence of rest.
Forget == moved_at' = now /\ pushed_at' = now /\ UNCHANGED heard_odom_at

\* Standing still counts only while odometry keeps arriving.
HearOdom(still) ==
  /\ moved_at' = IF still /\ Within(heard_odom_at, RawOdomTimeout)
                   THEN moved_at ELSE now
  /\ heard_odom_at' = now
  /\ UNCHANGED pushed_at

HearCandidate(c) ==
  /\ pushed_at' = IF CandidateIsZero(c) THEN pushed_at ELSE now
  /\ UNCHANGED <<moved_at, heard_odom_at>>

RestNext ==
  \/ (Stop \/ Restart) /\ Forget
  \/ \E still \in BOOLEAN : OnRawOdom(still) /\ HearOdom(still)
  \/ \E c \in Candidates : OnCandidate(c) /\ HearCandidate(c)
  \/ /\ \/ \E d \in Directions, g \in Generations, u \in Uuids : Prepare(d, g, u)
        \/ \E id \in issued : Activate(id) \/ Renew(id)
        \/ NonFiniteCandidate \/ OnTimer \/ Tick
     /\ UNCHANGED history

RestSpec == RestInit /\ [][RestNext]_<<vars, history>>

-----------------------------------------------------------------------------

Entering(p) == phase # p /\ phase' = p

\* A lease is prepared, and later activated, only when the odometry heard since
\* the last stop was continuous and still for the whole settling time, and is not
\* older than its timeout (direction_guard.cpp:287-318, 440-446).
CarRestsBeforeMotion ==
  [][Entering("Prepared") \/ Entering("Active") =>
       /\ now - moved_at >= StopSettle
       /\ Within(heard_odom_at, RawOdomTimeout)]_<<vars, history>>

\* A lease is prepared only when no motion was asked for during the settling
\* time (direction_guard.cpp:204-223, 234-243, 355-361).
SmootherQuietBeforeLease ==
  [][Entering("Prepared") => now - pushed_at >= StopSettle]_<<vars, history>>

(* What makes the two properties above inductive, part by part. *)

\* The history is of the past.
HistoryTyped ==
  /\ moved_at \in Nat /\ pushed_at \in Nat /\ heard_odom_at \in Time
  /\ moved_at <= now /\ pushed_at <= now

\* The guard remembers no odometry but the last one heard, and what it takes for the
\* beginning of the rest is not before the last sign of motion (direction_guard.cpp:206-223).
OdometryFollows ==
  /\ last_odom_at # None => heard_odom_at = last_odom_at
  /\ odom_stopped_since # None => last_odom_at # None /\ moved_at <= odom_stopped_since

\* While it is stopped, what the guard takes for the beginning of the quiet is not before
\* the last candidate that asked for motion (direction_guard.cpp:234-243).
QuietFollows ==
  phase = "Stopped" /\ candidate_zero_since # None => pushed_at <= candidate_zero_since

\* All of the above, the inductive invariant of the stop barrier.
RestInvariant == LeaseInvariant /\ HistoryTyped /\ OdometryFollows /\ QuietFollows

=============================================================================
