--------------------------- MODULE DirectionGuard ---------------------------
(***************************************************************************)
(* The motion lease of smartcar_safety: class DirectionGuard               *)
(* (direction_guard.cpp) inside its node (direction_guard_node.cpp).       *)
(*                                                                         *)
(* The node runs on a single-threaded executor, so every callback is one   *)
(* action: the operation it calls on the guard, the evaluation that        *)
(* follows it, and the command it publishes on /cmd_vel.  Service requests *)
(* come from the mission's process and may be delayed, repeated or sent by *)
(* an operation that has already given up, so an Activate or a Renew may   *)
(* carry any identity the node ever handed out (issued).                   *)
(*                                                                         *)
(* Time is a count of ticks.  The node reads a steady clock, so the        *)
(* fault_clock_invalid branches and the "now < earlier stamp" tests never  *)
(* fire and are left out.  A twist is abstracted to its linear speed (an   *)
(* integer), whether it turns, and whether it uses one of the four axes    *)
(* an Ackermann car does not have.                                         *)
(***************************************************************************)
EXTENDS Integers, FiniteSets

CONSTANTS
  Uuids,             \* action uuids the clients send, NilUuid among them or not
  NilUuid,           \* the all-zero uuid
  Generations,       \* operation generations the clients send (0 is invalid)
  LeaseModulus,      \* 2^64 in the code: the lease counter wraps to 0
  Candidates,        \* finite twists the velocity smoother may send
  ZeroEpsilon, DirectionEpsilon, MaxReverseSpeed,
  CandidateTimeout, PermitTimeout, PrepareTimeout, RawOdomTimeout, StopSettle,
  None,              \* an empty std::optional, or "nothing was published"
  MaxTime,           \* bound of the clock
  MaxBoots           \* bound on the number of times the node is started

Zero == [x |-> 0, turn |-> FALSE, lateral |-> FALSE]

Twist == [x: Int, turn: BOOLEAN, lateral: BOOLEAN]

Identity == [boot: 1 .. MaxBoots, lease: 0 .. LeaseModulus - 1,
             generation: Generations, uuid: Uuids]

ASSUME TwistAssumption == Candidates \subseteq Twist

\* The constructor checks each parameter on its own and caps the reverse speed;
\* that the zero threshold is the finer of the two is left to safety.yaml.
ASSUME ThresholdAssumption ==
  /\ ZeroEpsilon \in Nat /\ DirectionEpsilon \in Nat /\ MaxReverseSpeed \in Nat
  /\ ZeroEpsilon <= DirectionEpsilon

ASSUME TimeoutAssumption ==
  /\ CandidateTimeout \in Nat /\ PermitTimeout \in Nat /\ PrepareTimeout \in Nat
  /\ RawOdomTimeout \in Nat /\ StopSettle \in Nat /\ MaxTime \in Nat

ASSUME CounterAssumption == LeaseModulus \in Nat \ {0, 1} /\ MaxBoots \in Nat \ {0}

ASSUME GenerationAssumption == Generations \subseteq Nat

ASSUME NoneAssumption == None \notin Int /\ None \notin Twist /\ None \notin Identity

VARIABLES
  now,
  boot_epoch, next_lease_id, consumed_action_uuids,
  phase, direction, identity, prepared_at, activated_at, last_permit_at,
  active_candidate_seen,
  last_candidate, last_candidate_at, candidate_zero_since,
  last_odom_at, odom_stopped_since,
  issued,            \* identities returned by Prepare: what clients may quote
  out                \* command published by the last step, None if it published none

bootVars  == <<boot_epoch, next_lease_id, consumed_action_uuids, issued>>
leaseVars == <<phase, direction, identity, prepared_at, activated_at,
               last_permit_at, active_candidate_seen>>
candVars  == <<last_candidate, last_candidate_at>>
odomVars  == <<last_odom_at, odom_stopped_since>>

vars == <<now, bootVars, leaseVars, candVars, candidate_zero_since, odomVars, out>>

Directions == {"Stop", "Forward", "Reverse", "ForwardRecovery"}
Phases == {"Stopped", "Prepared", "Active", "Faulted"}
Time == Nat \cup {None}

-----------------------------------------------------------------------------
(* Predicates on one candidate twist. *)

Magnitude(v) == IF v < 0 THEN -v ELSE v

CandidateIsZero(c) == Magnitude(c.x) <= ZeroEpsilon /\ ~c.turn /\ ~c.lateral

MovesCar(c) == Magnitude(c.x) > DirectionEpsilon

DirectionIsAllowed(x) ==
  \/ direction = "Forward" /\ x >= -DirectionEpsilon
  \/ direction = "Reverse" /\ x <= DirectionEpsilon
  \/ direction = "ForwardRecovery" /\ x >= -MaxReverseSpeed

\* Mistake: a recovery may turn while it backs up.
RecoveryWarningWithoutTurn(c) ==
  direction = "ForwardRecovery" /\ c.x < -DirectionEpsilon /\ c.x < -MaxReverseSpeed

\* A BackUp sample that is rejected on its own, without ending the lease.
RecoveryWarning(c) ==
  /\ direction = "ForwardRecovery"
  /\ c.x < -DirectionEpsilon
  /\ c.x < -MaxReverseSpeed \/ c.turn

-----------------------------------------------------------------------------
(* Timeouts. *)

Within(since, limit) == since # None /\ now - since <= limit

SettledSince(since) == since # None /\ now - since >= StopSettle

\* Mistake: one sample at rest is enough.
RawOdomReadyAtOnce == Within(last_odom_at, RawOdomTimeout) /\ odom_stopped_since # None

RawOdomReady == Within(last_odom_at, RawOdomTimeout) /\ SettledSince(odom_stopped_since)

\* Mistake: only the wheels are looked at.
StopReadyByOdom == phase = "Stopped" /\ RawOdomReady

StopReady == phase = "Stopped" /\ SettledSince(candidate_zero_since) /\ RawOdomReady

PreparedExpired == ~Within(prepared_at, PrepareTimeout)

\* Mistake: a renewal feeds the candidate watchdog.
CandidateReferenceRenewed == last_permit_at

\* The later of the activation and the last candidate.
CandidateReference ==
  IF last_candidate_at # None /\ last_candidate_at > activated_at
    THEN last_candidate_at ELSE activated_at

ActiveExpired ==
  active_candidate_seen /\ now - CandidateReference > CandidateTimeout

-----------------------------------------------------------------------------
(* Effects shared by several operations. *)

\* Every lease field is dropped; the candidate and odometry records stay.
DropLease(newPhase) ==
  /\ phase' = newPhase
  /\ direction' = "Stop"
  /\ identity' = None
  /\ prepared_at' = None
  /\ activated_at' = None
  /\ last_permit_at' = None
  /\ active_candidate_seen' = FALSE

LatchFault == DropLease("Faulted")

ResetStopBarrier(quiescent) ==
  /\ candidate_zero_since' = IF quiescent THEN now ELSE None
  /\ odom_stopped_since' = None
  /\ last_odom_at' = None
  /\ last_candidate_at' = None
  /\ last_candidate' = None

CandidateForbidden == last_candidate # None /\ ~DirectionIsAllowed(last_candidate.x)

Quiescent == last_candidate = None \/ CandidateIsZero(last_candidate)

\* What evaluate() latches, and what it returns when it latches nothing.
EvaluateFaults ==
  \/ phase = "Prepared" /\ PreparedExpired
  \/ phase = "Active" /\ ActiveExpired
  \/ phase = "Active" /\ last_candidate # None /\ last_candidate.lateral
  \/ phase = "Active" /\ CandidateForbidden

ForwardedCommand ==
  IF /\ phase = "Active" /\ ~EvaluateFaults /\ last_candidate # None
     /\ ~RecoveryWarning(last_candidate) /\ MovesCar(last_candidate)
    THEN last_candidate ELSE Zero

Evaluate ==
  /\ IF EvaluateFaults THEN LatchFault ELSE UNCHANGED leaseVars
  /\ out' = ForwardedCommand

-----------------------------------------------------------------------------
(* The node. *)

\* Constructor followed by the node's own first stop().
Boot ==
  /\ next_lease_id' = 1
  /\ consumed_action_uuids' = {}
  /\ DropLease("Stopped")
  /\ ResetStopBarrier(TRUE)
  /\ out' = Zero

Init ==
  /\ now = 0
  /\ boot_epoch = 1 /\ next_lease_id = 1 /\ consumed_action_uuids = {}
  /\ phase = "Stopped" /\ direction = "Stop" /\ identity = None
  /\ prepared_at = None /\ activated_at = None /\ last_permit_at = None
  /\ active_candidate_seen = FALSE
  /\ last_candidate = None /\ last_candidate_at = None
  /\ candidate_zero_since = 0
  /\ last_odom_at = None /\ odom_stopped_since = None
  /\ issued = {}
  /\ out = Zero

\* Mistake: a uuid may come back.
PrepareRefusedOnce(d, generation, uuid) ==
  phase # "Stopped" \/ d = "Stop" \/ generation = 0 \/ uuid = NilUuid \/ ~StopReady

PrepareRefused(d, generation, uuid) ==
  \/ phase # "Stopped"
  \/ d = "Stop"
  \/ generation = 0
  \/ uuid = NilUuid
  \/ uuid \in consumed_action_uuids
  \/ ~StopReady

NextLease == (next_lease_id + 1) % LeaseModulus

\* Whatever the outcome, the node answers a prepare request with a zero command.
Prepare(d, generation, uuid) ==
  LET granted == [boot |-> boot_epoch, lease |-> next_lease_id,
                  generation |-> generation, uuid |-> uuid] IN
  /\ \/ PrepareRefused(d, generation, uuid) /\ UNCHANGED <<bootVars, leaseVars>>
     \/ /\ ~PrepareRefused(d, generation, uuid)
        /\ next_lease_id = 0
        /\ LatchFault
        /\ UNCHANGED bootVars
     \/ /\ ~PrepareRefused(d, generation, uuid)
        /\ next_lease_id # 0
        /\ next_lease_id' = NextLease
        /\ consumed_action_uuids' = consumed_action_uuids \cup {uuid}
        /\ issued' = issued \cup {granted}
        /\ identity' = granted
        /\ direction' = d
        /\ phase' = "Prepared"
        /\ prepared_at' = now
        /\ activated_at' = None
        /\ last_permit_at' = None
        /\ active_candidate_seen' = FALSE
        /\ UNCHANGED boot_epoch
  /\ out' = Zero
  /\ UNCHANGED <<now, candVars, candidate_zero_since, odomVars>>

\* A motion sample already received, if it may count as the first motion of the lease.
FirstMotionPending ==
  /\ last_candidate # None
  /\ last_candidate_at >= prepared_at
  /\ now - last_candidate_at <= CandidateTimeout
  /\ MovesCar(last_candidate)

\* A refused activation is still followed by evaluate().
Activate(id) ==
  /\ UNCHANGED <<now, bootVars, candidate_zero_since, odomVars>>
  /\ \/ /\ phase = "Prepared" /\ ~PreparedExpired
        /\ id = identity /\ RawOdomReady
        /\ \/ /\ CandidateForbidden
              /\ LatchFault
              /\ out' = Zero
              /\ UNCHANGED candVars
           \/ /\ ~CandidateForbidden
              /\ phase' = "Active"
              /\ activated_at' = now
              /\ last_permit_at' = now
              /\ active_candidate_seen' = FirstMotionPending
              /\ IF FirstMotionPending
                   THEN UNCHANGED candVars
                   ELSE last_candidate' = None /\ last_candidate_at' = None
              /\ UNCHANGED <<direction, identity, prepared_at>>
              /\ out' = ForwardedCommand'
     \/ /\ \/ phase # "Prepared" \/ PreparedExpired
           \/ id # identity \/ ~RawOdomReady
        /\ Evaluate
        /\ UNCHANGED candVars

\* The permit stamp is all a renewal changes; evaluate() follows in any case.
Renew(id) ==
  /\ \/ /\ phase = "Active" /\ ~EvaluateFaults /\ id = identity
        /\ last_permit_at' = now
        /\ UNCHANGED <<phase, direction, identity, prepared_at, activated_at,
                       active_candidate_seen>>
        /\ out' = ForwardedCommand
     \/ /\ phase # "Active" \/ EvaluateFaults \/ id # identity
        /\ Evaluate
  /\ UNCHANGED <<now, bootVars, candVars, candidate_zero_since, odomVars>>

\* The identity in the request is not looked at.
Stop ==
  /\ DropLease("Stopped")
  /\ ResetStopBarrier(Quiescent)
  /\ out' = Zero
  /\ UNCHANGED <<now, bootVars>>

\* A twist with a NaN or an infinity.
NonFiniteCandidate ==
  /\ LatchFault
  /\ out' = Zero
  /\ UNCHANGED <<now, bootVars, candVars, candidate_zero_since, odomVars>>

\* Stopped or faulted: the sample only feeds the stop barrier.
CandidateWhileHalted(c) ==
  /\ phase \in {"Stopped", "Faulted"}
  /\ last_candidate' = c
  /\ candidate_zero_since' =
       IF phase = "Faulted" THEN candidate_zero_since
       ELSE IF ~CandidateIsZero(c) THEN None
       ELSE IF candidate_zero_since = None THEN now ELSE candidate_zero_since
  /\ out' = Zero
  /\ UNCHANGED leaseVars

\* Prepared or active: the sample is screened, recorded and, if active, forwarded.
CandidateUnderLease(c) ==
  /\ phase \in {"Prepared", "Active"}
  /\ UNCHANGED candidate_zero_since
  /\ \/ /\ ~c.lateral /\ RecoveryWarning(c)
        /\ last_candidate' = Zero
        /\ active_candidate_seen' = FALSE
        /\ UNCHANGED <<phase, direction, identity, prepared_at, activated_at,
                       last_permit_at>>
        /\ out' = Zero
     \/ /\ c.lateral \/ (~RecoveryWarning(c) /\ ~DirectionIsAllowed(c.x))
        /\ last_candidate' = c
        /\ LatchFault
        /\ out' = Zero
     \/ /\ ~c.lateral /\ ~RecoveryWarning(c) /\ DirectionIsAllowed(c.x)
        /\ last_candidate' = c
        /\ active_candidate_seen' =
             IF phase = "Prepared" THEN active_candidate_seen
             ELSE IF CandidateIsZero(c) THEN FALSE
             ELSE active_candidate_seen \/ MovesCar(c)
        /\ UNCHANGED <<phase, direction, identity, prepared_at, activated_at,
                       last_permit_at>>
        /\ out' = IF phase = "Active" /\ MovesCar(c) THEN c ELSE Zero

OnCandidate(c) ==
  /\ CandidateWhileHalted(c) \/ CandidateUnderLease(c)
  /\ last_candidate_at' = now
  /\ UNCHANGED <<now, bootVars, odomVars>>

\* still: every axis of a finite twist is under its stop threshold.
OnRawOdom(still) ==
  /\ last_odom_at' = now
  /\ odom_stopped_since' =
       IF ~still THEN None
       ELSE IF Within(last_odom_at, RawOdomTimeout) /\ odom_stopped_since # None
         THEN odom_stopped_since ELSE now
  /\ out' = None
  /\ UNCHANGED <<now, bootVars, leaseVars, candVars, candidate_zero_since>>

OnTimer ==
  /\ Evaluate
  /\ UNCHANGED <<now, bootVars, candVars, candidate_zero_since, odomVars>>

\* Mistake: the epoch does not tell two lives of the process apart.
RestartInSameEpoch ==
  /\ boot_epoch < MaxBoots
  /\ Boot
  /\ UNCHANGED <<now, boot_epoch, issued>>

\* The process dies and is started again: new epoch, empty memory.
Restart ==
  /\ boot_epoch < MaxBoots
  /\ boot_epoch' = boot_epoch + 1
  /\ Boot
  /\ UNCHANGED <<now, issued>>

Tick ==
  /\ now < MaxTime
  /\ now' = now + 1
  /\ out' = None
  /\ UNCHANGED <<bootVars, leaseVars, candVars, candidate_zero_since, odomVars>>

Next ==
  \/ \E d \in Directions, g \in Generations, u \in Uuids : Prepare(d, g, u)
  \/ \E id \in issued : Activate(id)
  \/ \E id \in issued : Renew(id)
  \/ Stop
  \/ NonFiniteCandidate
  \/ \E c \in Candidates : OnCandidate(c)
  \/ \E still \in BOOLEAN : OnRawOdom(still)
  \/ OnTimer
  \/ Restart
  \/ Tick

Spec == Init /\ [][Next]_vars

-----------------------------------------------------------------------------
(* Properties. *)

\* Every field of the guard and of its node has its type; an optional is None or a value.
TypeOK ==
  /\ now \in Nat
  /\ boot_epoch \in 1 .. MaxBoots /\ next_lease_id \in 0 .. LeaseModulus - 1
  /\ consumed_action_uuids \subseteq Uuids
  /\ phase \in Phases /\ direction \in Directions
  /\ identity \in Identity \cup {None}
  /\ prepared_at \in Time /\ activated_at \in Time /\ last_permit_at \in Time
  /\ active_candidate_seen \in BOOLEAN
  /\ last_candidate \in Twist \cup {None}
  /\ last_candidate_at \in Time /\ candidate_zero_since \in Time
  /\ last_odom_at \in Time /\ odom_stopped_since \in Time
  /\ issued \subseteq Identity
  /\ out \in Twist \cup {None}

Motion == out # None /\ out # Zero

\* A command other than zero leaves the node only under an active lease, in the
\* direction the lease was prepared for: a forward lease never reverses, a reverse
\* lease never advances, and a recovery lease reverses only straight and under its
\* cap.  Holds across refused, repeated and late requests (direction_guard.cpp:225-353).
MotionObeysLease ==
  Motion =>
    /\ phase = "Active" /\ ~out.lateral /\ MovesCar(out)
    /\ direction = "Forward" => out.x > 0
    /\ direction = "Reverse" => out.x < 0
    /\ direction = "ForwardRecovery" =>
         out.x > 0 \/ (out.x >= -MaxReverseSpeed /\ ~out.turn)

\* A forwarded command is the smoother's last sample, received under this very
\* lease, and not older than twice the candidate timeout: a sample that arrived
\* while the lease was prepared may wait one timeout for the activation and then
\* be repeated for another (direction_guard.cpp:166-171, 453-472).
MotionIsFresh ==
  Motion =>
    /\ out = last_candidate
    /\ last_candidate_at >= prepared_at
    /\ now - last_candidate_at <= 2 * CandidateTimeout

(* What makes the two properties above inductive, part by part. *)

\* The lease fields agree with the phase: a held lease has an identity, a direction and its
\* stamps in order (direction_guard.hpp:103-121).
LeaseFields ==
  /\ phase \in {"Prepared", "Active"} =>
       identity # None /\ prepared_at # None /\ direction # "Stop" /\ prepared_at <= now
  /\ phase \in {"Stopped", "Faulted"} => identity = None
  /\ phase = "Active" => activated_at # None /\ prepared_at <= activated_at /\ activated_at <= now

\* The candidate, its stamp and the start of its quiet time agree.
CandidateFields ==
  /\ (last_candidate = None) <=> (last_candidate_at = None)
  /\ last_candidate_at # None => last_candidate_at <= now
  /\ phase = "Stopped" /\ candidate_zero_since # None => Quiescent

\* A candidate held under a lease has passed the screening of that lease, so the
\* checks evaluate() repeats never fire.
HeldCandidateScreened ==
  phase \in {"Prepared", "Active"} /\ last_candidate # None =>
    /\ ~last_candidate.lateral
    /\ DirectionIsAllowed(last_candidate.x) \/ phase = "Prepared"
    /\ ~RecoveryWarning(last_candidate)

\* Held motion is always under the candidate watchdog, and it was received under the
\* lease, at most one timeout before its activation.
WatchdogArmed ==
  /\ phase = "Active" /\ last_candidate # None /\ MovesCar(last_candidate)
       => active_candidate_seen
  /\ active_candidate_seen =>
       /\ phase = "Active" /\ last_candidate_at # None
       /\ last_candidate_at >= prepared_at
       /\ activated_at - last_candidate_at <= CandidateTimeout

\* All of the above, the inductive invariant of the lease (direction_guard.cpp:64-485).
LeaseInvariant ==
  /\ TypeOK /\ LeaseFields /\ CandidateFields /\ HeldCandidateScreened /\ WatchdogArmed
  /\ MotionObeysLease /\ MotionIsFresh

\* Two different leases of one process never share a lease number or an action
\* uuid, even when the counter wraps (direction_guard.cpp:100-117).
LeasesAreUnique ==
  \A a, b \in issued :
    a.boot = b.boot /\ (a.lease = b.lease \/ a.uuid = b.uuid) => a = b

\* The lease in force is the newest one the process handed out, so an older
\* identity quoted by a delayed request matches nothing.
HolderIsNewest ==
  identity # None =>
    /\ identity \in issued /\ identity.boot = boot_epoch
    /\ \A i \in issued : i.boot = boot_epoch => i.lease <= identity.lease

\* What the lease counter and the consumed uuids remember of this process's leases.
LeaseBookkeeping ==
  /\ \A i \in issued : i.boot <= boot_epoch
  /\ \A i \in issued : i.boot = boot_epoch =>
       /\ i.uuid \in consumed_action_uuids
       /\ i.lease # 0 /\ (next_lease_id = 0 \/ i.lease < next_lease_id)

\* Once a lease is no longer in force it never comes back, whatever requests
\* arrive late and however often the process restarts.
RevokedForever == [][\A i \in issued : identity # i => identity' # i]_vars

\* The guard read as the gate it implements.
Gate == INSTANCE MotionGate WITH
  Identities <- Identity, Nobody <- None,
  gate <- phase, holder <- identity, granted <- issued, flowing <- Motion

\* Every step of the guard is a step of the gate or leaves it alone: an identity is
\* granted once, only the granted gate opens, and only an open gate lets motion
\* through, so no late request revives a lease (direction_guard.cpp:64-351).
GateSafety == Gate!Spec

=============================================================================
