------------------------ MODULE DirectionGuardProofs ------------------------
(***************************************************************************)
(* Machine-checked proofs about DirectionGuard and, in the last part, its  *)
(* stop barrier (DirectionGuardRest), for every value of their constants.  *)
(***************************************************************************)
EXTENDS DirectionGuardRest, TLAPS

\* The zero twist is a twist, is quiescent, and does not move the car.
LEMMA ZeroTwist ==
  /\ Zero \in Twist /\ Zero.x = 0 /\ Zero.turn = FALSE /\ Zero.lateral = FALSE
  /\ CandidateIsZero(Zero) /\ ~MovesCar(Zero)
  BY ThresholdAssumption DEF Zero, Twist, CandidateIsZero, MovesCar, Magnitude

\* A twist under the zero threshold does not move the car, does not turn, and is
\* no recovery warning.
LEMMA ZeroCandidate ==
  ASSUME NEW c \in Twist, CandidateIsZero(c)
  PROVE  ~MovesCar(c) /\ ~c.turn /\ ~c.lateral /\ ~RecoveryWarning(c)
  BY ThresholdAssumption DEF Twist, CandidateIsZero, MovesCar, Magnitude, RecoveryWarning

\* An empty optional is not a time stamp.
LEMMA NoneIsNoTime ==
  None \notin Nat /\ None \notin Twist /\ None # Zero /\ None \notin Identity
  BY NoneAssumption, ZeroTwist

\* The lease invariant holds when the node starts.
LEMMA InitLease == Init => LeaseInvariant
<1> SUFFICES ASSUME Init PROVE LeaseInvariant
  OBVIOUS
<1>1. TypeOK
  <2>1. boot_epoch \in 1 .. MaxBoots /\ next_lease_id \in 0 .. LeaseModulus - 1 /\ now \in Nat
    BY CounterAssumption DEF Init
  <2>2. active_candidate_seen \in BOOLEAN
    BY DEF Init
  <2>3. QED
    BY <2>1, <2>2, ZeroTwist DEF Init, TypeOK, Time, Phases, Directions
<1>2. ~Motion
  BY DEF Init, Motion
<1>3. LeaseFields /\ CandidateFields /\ HeldCandidateScreened /\ WatchdogArmed
  BY NoneIsNoTime DEF Init, LeaseFields, CandidateFields, HeldCandidateScreened,
     WatchdogArmed, Quiescent
<1>4. QED
  BY <1>1, <1>2, <1>3 DEF LeaseInvariant, MotionObeysLease, MotionIsFresh

\* When the gate does not fault, what evaluate() forwards obeys the lease.
LEMMA ForwardedIsSafe ==
  ASSUME LeaseInvariant, ForwardedCommand # Zero
  PROVE  /\ phase = "Active" /\ ForwardedCommand = last_candidate
         /\ last_candidate \in Twist
         /\ ~last_candidate.lateral /\ MovesCar(last_candidate)
         /\ direction = "Forward" => last_candidate.x > 0
         /\ direction = "Reverse" => last_candidate.x < 0
         /\ direction = "ForwardRecovery" =>
              last_candidate.x > 0
              \/ (last_candidate.x >= -MaxReverseSpeed /\ ~last_candidate.turn)
         /\ last_candidate_at >= prepared_at
         /\ now - last_candidate_at <= 2 * CandidateTimeout
<1>1. /\ phase = "Active" /\ ~EvaluateFaults /\ last_candidate # None
      /\ ~RecoveryWarning(last_candidate) /\ MovesCar(last_candidate)
      /\ ForwardedCommand = last_candidate
  BY DEF ForwardedCommand
<1>2. last_candidate \in Twist
  BY <1>1 DEF LeaseInvariant, TypeOK
<1>3. ~last_candidate.lateral /\ DirectionIsAllowed(last_candidate.x)
  BY <1>1 DEF EvaluateFaults, CandidateForbidden
<1>4. /\ direction = "Forward" => last_candidate.x > 0
      /\ direction = "Reverse" => last_candidate.x < 0
      /\ direction = "ForwardRecovery" =>
           last_candidate.x > 0
           \/ (last_candidate.x >= -MaxReverseSpeed /\ ~last_candidate.turn)
  BY <1>1, <1>2, <1>3, ThresholdAssumption
     DEF DirectionIsAllowed, MovesCar, Magnitude, RecoveryWarning, Twist
<1>5. /\ last_candidate_at \in Nat /\ activated_at \in Nat /\ prepared_at \in Nat
      /\ now \in Nat /\ last_candidate_at <= now /\ last_candidate_at >= prepared_at
      /\ activated_at - last_candidate_at <= CandidateTimeout
      /\ active_candidate_seen
  BY <1>1, NoneIsNoTime DEF LeaseInvariant, TypeOK, Time, LeaseFields, CandidateFields,
     WatchdogArmed
<1>6. now - last_candidate_at <= 2 * CandidateTimeout
  <2>1. now - CandidateReference <= CandidateTimeout
    BY <1>1, <1>5, TimeoutAssumption DEF EvaluateFaults, ActiveExpired, CandidateReference
  <2>2. QED
    BY <2>1, <1>5, NoneIsNoTime, TimeoutAssumption DEF CandidateReference
<1>7. QED
  BY <1>1, <1>2, <1>3, <1>4, <1>5, <1>6

\* A step that ends the lease without touching the stop barrier keeps the invariant,
\* whatever candidate it recorded.
LEMMA FaultStep ==
  ASSUME LeaseInvariant, LatchFault, out' = Zero,
         UNCHANGED <<now, bootVars, candidate_zero_since, odomVars>>,
         \/ UNCHANGED candVars
         \/ last_candidate' \in Twist /\ last_candidate_at' = now
  PROVE  LeaseInvariant'
<1> USE DEF LatchFault, DropLease
<1>1. TypeOK'
  <2>1. active_candidate_seen' \in BOOLEAN
    OBVIOUS
  <2>2. QED
    BY <2>1, ZeroTwist DEF LeaseInvariant, TypeOK, Time, Phases, Directions, bootVars,
       odomVars, candVars
<1>2. LeaseFields' /\ HeldCandidateScreened' /\ WatchdogArmed'
  BY DEF LeaseFields, HeldCandidateScreened, WatchdogArmed
<1>3. CandidateFields'
  BY NoneIsNoTime DEF LeaseInvariant, TypeOK, CandidateFields, candVars
<1>4. ~Motion'
  BY DEF Motion
<1>5. QED
  BY <1>1, <1>2, <1>3, <1>4 DEF LeaseInvariant, MotionObeysLease, MotionIsFresh

\* A step that changes no more than the permit stamp and publishes nothing but zero
\* or the forwarded command keeps the invariant.
LEMMA ForwardStep ==
  ASSUME LeaseInvariant,
         UNCHANGED <<now, bootVars, candVars, candidate_zero_since, odomVars,
                     phase, direction, identity, prepared_at, activated_at,
                     active_candidate_seen>>,
         last_permit_at' \in Time,
         out' = ForwardedCommand
  PROVE  LeaseInvariant'
<1>1. TypeOK'
  BY ZeroTwist, ForwardedIsSafe DEF LeaseInvariant, TypeOK, bootVars, candVars, odomVars
<1>2. LeaseFields' /\ CandidateFields'
  BY DEF LeaseInvariant, LeaseFields, CandidateFields, Quiescent, CandidateIsZero,
     candVars, odomVars
<1>3. HeldCandidateScreened' /\ WatchdogArmed'
  BY DEF LeaseInvariant, HeldCandidateScreened, WatchdogArmed, DirectionIsAllowed,
     RecoveryWarning, MovesCar, candVars
<1>4. MotionObeysLease' /\ MotionIsFresh'
  BY ForwardedIsSafe DEF MotionObeysLease, MotionIsFresh, Motion, MovesCar, candVars
<1>5. QED
  BY <1>1, <1>2, <1>3, <1>4 DEF LeaseInvariant

\* evaluate() either faults or forwards the held candidate: both keep the invariant.
LEMMA EvaluateStep ==
  ASSUME LeaseInvariant, Evaluate,
         UNCHANGED <<now, bootVars, candVars, candidate_zero_since, odomVars>>
  PROVE  LeaseInvariant'
<1>1. CASE EvaluateFaults
  BY <1>1, FaultStep DEF Evaluate, ForwardedCommand
<1>2. CASE ~EvaluateFaults
  BY <1>2, ForwardStep DEF Evaluate, leaseVars, LeaseInvariant, TypeOK
<1>3. QED
  BY <1>1, <1>2

\* A granted prepare starts from a quiescent smoother, so the candidate it finds is
\* none or zero.
LEMMA PrepareStep ==
  ASSUME LeaseInvariant, NEW d \in Directions, NEW g \in Generations, NEW u \in Uuids,
         Prepare(d, g, u)
  PROVE  LeaseInvariant'
<1>1. CASE UNCHANGED <<bootVars, leaseVars>>
  <2>1. UNCHANGED <<now, candVars, candidate_zero_since, odomVars>> /\ out' = Zero
    BY DEF Prepare, NextLease
  <2>2. TypeOK'
    BY <1>1, <2>1, ZeroTwist DEF LeaseInvariant, TypeOK, bootVars, leaseVars, candVars, odomVars
  <2>3. LeaseFields' /\ CandidateFields'
    BY <1>1, <2>1 DEF LeaseInvariant, LeaseFields, CandidateFields, Quiescent,
       CandidateIsZero, leaseVars, candVars, odomVars
  <2>4. HeldCandidateScreened' /\ WatchdogArmed'
    BY <1>1, <2>1 DEF LeaseInvariant, HeldCandidateScreened, WatchdogArmed,
       DirectionIsAllowed, RecoveryWarning, MovesCar, leaseVars, candVars
  <2>5. ~Motion'
    BY <2>1 DEF Motion
  <2>6. QED
    BY <2>2, <2>3, <2>4, <2>5 DEF LeaseInvariant, MotionObeysLease, MotionIsFresh
<1>2. CASE LatchFault /\ UNCHANGED bootVars
  BY <1>2, FaultStep DEF Prepare, NextLease
<1>3. CASE ~UNCHANGED <<bootVars, leaseVars>> /\ ~(LatchFault /\ UNCHANGED bootVars)
  <2> DEFINE granted == [boot |-> boot_epoch, lease |-> next_lease_id,
                         generation |-> g, uuid |-> u]
  <2>1. /\ ~PrepareRefused(d, g, u) /\ next_lease_id # 0
        /\ next_lease_id' = (next_lease_id + 1) % LeaseModulus
        /\ consumed_action_uuids' = consumed_action_uuids \cup {u}
        /\ issued' = issued \cup {granted} /\ identity' = granted
        /\ direction' = d /\ phase' = "Prepared" /\ prepared_at' = now
        /\ activated_at' = None /\ last_permit_at' = None
        /\ active_candidate_seen' = FALSE
        /\ UNCHANGED boot_epoch
        /\ out' = Zero
        /\ UNCHANGED <<now, candVars, candidate_zero_since, odomVars>>
    BY <1>3 DEF Prepare, NextLease
  <2>2. granted \in Identity
    BY DEF Identity, LeaseInvariant, TypeOK
  <2>3. TypeOK'
    <3>1. next_lease_id' \in 0 .. LeaseModulus - 1
      BY <2>1, CounterAssumption DEF LeaseInvariant, TypeOK
    <3>2. active_candidate_seen' \in BOOLEAN
      BY <2>1
    <3>3. QED
      BY <2>1, <2>2, <3>1, <3>2, ZeroTwist DEF LeaseInvariant, TypeOK, Time, Phases,
         Directions, candVars, odomVars
  <2>4. identity' # None
    BY <2>1, NoneIsNoTime, <2>2
  <2>5. d # "Stop" /\ phase = "Stopped" /\ Quiescent
    BY <2>1 DEF PrepareRefused, StopReady, SettledSince, LeaseInvariant, CandidateFields
  <2>6. LeaseFields' /\ CandidateFields'
    BY <2>1, <2>4, <2>5, NoneIsNoTime DEF LeaseInvariant, TypeOK, LeaseFields,
       CandidateFields, candVars
  <2>7. HeldCandidateScreened' /\ WatchdogArmed'
    <3>1. last_candidate # None =>
            /\ ~last_candidate.lateral /\ ~last_candidate.turn /\ ~MovesCar(last_candidate)
      BY <2>5, ZeroCandidate DEF Quiescent, LeaseInvariant, TypeOK
    <3>2. last_candidate # None => Magnitude(last_candidate.x) <= DirectionEpsilon
      BY <3>1, ThresholdAssumption DEF MovesCar, LeaseInvariant, TypeOK, Twist, Magnitude
    <3>3. last_candidate # None => ~RecoveryWarning(last_candidate)'
      BY <2>1, <3>2, ThresholdAssumption DEF RecoveryWarning, Magnitude, candVars,
         LeaseInvariant, TypeOK, Twist
    <3>4. QED
      BY <2>1, <3>1, <3>3 DEF HeldCandidateScreened, WatchdogArmed, candVars
  <2>8. ~Motion'
    BY <2>1 DEF Motion
  <2>9. QED
    BY <2>3, <2>6, <2>7, <2>8 DEF LeaseInvariant, MotionObeysLease, MotionIsFresh
<1>4. QED
  BY <1>1, <1>2, <1>3

\* An activation keeps or forgets the pending candidate; if it keeps it, the watchdog
\* runs on it from the start.
LEMMA ActivateStep ==
  ASSUME LeaseInvariant, NEW id \in issued, Activate(id)
  PROVE  LeaseInvariant'
<1>1. UNCHANGED <<now, bootVars, candidate_zero_since, odomVars>>
  BY DEF Activate
<1>2. CASE Evaluate /\ UNCHANGED candVars
  BY <1>1, <1>2, EvaluateStep
<1>3. CASE LatchFault /\ out' = Zero /\ UNCHANGED candVars
  BY <1>1, <1>3, FaultStep
<1>4. CASE /\ phase = "Prepared" /\ ~PreparedExpired /\ ~CandidateForbidden
           /\ phase' = "Active" /\ activated_at' = now /\ last_permit_at' = now
           /\ active_candidate_seen' = FirstMotionPending
           /\ IF FirstMotionPending
                THEN UNCHANGED candVars
                ELSE last_candidate' = None /\ last_candidate_at' = None
           /\ UNCHANGED <<direction, identity, prepared_at>>
           /\ out' = ForwardedCommand'
  <2>1. FirstMotionPending \in BOOLEAN
    BY DEF FirstMotionPending
  <2>2. /\ now \in Nat /\ prepared_at \in Nat /\ prepared_at <= now
        /\ identity # None /\ direction # "Stop"
    BY <1>4, NoneIsNoTime DEF LeaseInvariant, TypeOK, Time, LeaseFields
  <2>3. \/ /\ FirstMotionPending /\ UNCHANGED candVars
           /\ last_candidate \in Twist /\ last_candidate_at \in Nat
           /\ last_candidate_at <= now
        \/ /\ ~FirstMotionPending /\ last_candidate' = None /\ last_candidate_at' = None
    BY <1>4, NoneIsNoTime DEF FirstMotionPending, LeaseInvariant, TypeOK, Time,
       CandidateFields
  <2>4. /\ HeldCandidateScreened'
        /\ last_candidate' # None => DirectionIsAllowed(last_candidate.x)
    BY <1>4, <2>3 DEF HeldCandidateScreened, LeaseInvariant, CandidateForbidden,
       DirectionIsAllowed, RecoveryWarning, candVars
  <2>5. WatchdogArmed'
    BY <1>4, <2>2, <2>3, NoneIsNoTime DEF WatchdogArmed, FirstMotionPending, MovesCar, candVars
  <2>6. LeaseFields' /\ CandidateFields'
    BY <1>1, <1>4, <2>2, <2>3, NoneIsNoTime DEF LeaseFields, CandidateFields, candVars
  <2>7. out' = Zero \/ (/\ out' = last_candidate /\ UNCHANGED candVars
                        /\ FirstMotionPending /\ last_candidate \in Twist
                        /\ ~RecoveryWarning(last_candidate)
                        /\ DirectionIsAllowed(last_candidate.x)
                        /\ ~last_candidate.lateral)
    BY <1>4, <2>3, <2>4 DEF ForwardedCommand, HeldCandidateScreened, LeaseInvariant, candVars
  <2>8. TypeOK'
    BY <1>1, <1>4, <2>1, <2>2, <2>3, <2>7, ZeroTwist DEF LeaseInvariant, TypeOK, Time,
       Phases, bootVars, odomVars, candVars
  <2>9. MotionObeysLease' /\ MotionIsFresh'
    <3>1. CASE out' = Zero
      BY <3>1 DEF MotionObeysLease, MotionIsFresh, Motion
    <3>2. CASE /\ out' = last_candidate /\ UNCHANGED candVars
               /\ FirstMotionPending /\ last_candidate \in Twist
               /\ ~RecoveryWarning(last_candidate)
               /\ DirectionIsAllowed(last_candidate.x)
               /\ ~last_candidate.lateral
      <4>1. MovesCar(last_candidate) /\ last_candidate_at >= prepared_at
            /\ now - last_candidate_at <= CandidateTimeout
        BY <3>2 DEF FirstMotionPending
      <4>2. now' - last_candidate_at' <= 2 * CandidateTimeout
        BY <1>1, <2>3, <2>2, <3>2, <4>1, TimeoutAssumption DEF candVars
      <4>3. /\ direction = "Forward" => last_candidate.x > 0
            /\ direction = "Reverse" => last_candidate.x < 0
            /\ direction = "ForwardRecovery" =>
                 last_candidate.x > 0
                 \/ (last_candidate.x >= -MaxReverseSpeed /\ ~last_candidate.turn)
        BY <3>2, <4>1, ThresholdAssumption
           DEF DirectionIsAllowed, MovesCar, Magnitude, RecoveryWarning, Twist
      <4>4. QED
        BY <1>4, <3>2, <4>1, <4>2, <4>3 DEF MotionObeysLease, MotionIsFresh, MovesCar, candVars
    <3>3. QED
      BY <2>7, <3>1, <3>2
  <2>10. QED
    BY <2>4, <2>5, <2>6, <2>8, <2>9 DEF LeaseInvariant
<1>5. QED
  BY <1>2, <1>3, <1>4 DEF Activate

\* A renewal moves the permit stamp only.
LEMMA RenewStep ==
  ASSUME LeaseInvariant, NEW id \in issued, Renew(id)
  PROVE  LeaseInvariant'
<1>1. CASE Evaluate
  BY <1>1, EvaluateStep DEF Renew
<1>2. CASE /\ last_permit_at' = now
           /\ UNCHANGED <<phase, direction, identity, prepared_at, activated_at,
                          active_candidate_seen>>
           /\ out' = ForwardedCommand
  BY <1>2, ForwardStep DEF Renew, LeaseInvariant, TypeOK, Time
<1>3. QED
  BY <1>1, <1>2 DEF Renew

\* A stop or a restart leaves nothing of the lease or of the candidate.
LEMMA ResetStep ==
  ASSUME LeaseInvariant, DropLease("Stopped"), NEW q \in BOOLEAN, ResetStopBarrier(q),
         out' = Zero, now' = now,
         boot_epoch' \in 1 .. MaxBoots, next_lease_id' \in 0 .. LeaseModulus - 1,
         consumed_action_uuids' \subseteq Uuids, issued' = issued
  PROVE  LeaseInvariant'
<1> USE DEF DropLease, ResetStopBarrier
<1>1. TypeOK'
  <2>1. active_candidate_seen' \in BOOLEAN
    OBVIOUS
  <2>2. QED
    BY <2>1, ZeroTwist DEF LeaseInvariant, TypeOK, Time, Phases, Directions
<1>2. LeaseFields' /\ CandidateFields' /\ HeldCandidateScreened' /\ WatchdogArmed'
  BY DEF LeaseFields, CandidateFields, Quiescent, HeldCandidateScreened, WatchdogArmed
<1>3. ~Motion'
  BY DEF Motion
<1>4. QED
  BY <1>1, <1>2, <1>3 DEF LeaseInvariant, MotionObeysLease, MotionIsFresh

\* A candidate is screened before it is recorded, so the recorded one obeys the lease in
\* force and feeds the watchdog.
LEMMA CandidateStep ==
  ASSUME LeaseInvariant, NEW c \in Candidates, OnCandidate(c)
  PROVE  LeaseInvariant'
<1>1. /\ c \in Twist /\ last_candidate_at' = now /\ now \in Nat /\ now' = now
      /\ UNCHANGED <<bootVars, odomVars>>
  BY TwistAssumption DEF OnCandidate, LeaseInvariant, TypeOK
<1>2. CASE CandidateWhileHalted(c)
  <2>1. /\ phase \in {"Stopped", "Faulted"} /\ last_candidate' = c /\ out' = Zero
        /\ UNCHANGED leaseVars
        /\ candidate_zero_since' \in Time
        /\ phase = "Stopped" /\ candidate_zero_since' # None => CandidateIsZero(c)
    BY <1>1, <1>2 DEF CandidateWhileHalted, LeaseInvariant, TypeOK, Time
  <2>2. TypeOK'
    BY <1>1, <2>1, ZeroTwist DEF LeaseInvariant, TypeOK, Time, bootVars, leaseVars, odomVars
  <2>3. LeaseFields'
    BY <1>1, <2>1 DEF LeaseInvariant, LeaseFields, leaseVars
  <2>4. CandidateFields'
    BY <1>1, <2>1, NoneIsNoTime DEF CandidateFields, Quiescent, CandidateIsZero, leaseVars
  <2>5. HeldCandidateScreened' /\ WatchdogArmed'
    BY <2>1 DEF LeaseInvariant, HeldCandidateScreened, WatchdogArmed, leaseVars
  <2>6. ~Motion'
    BY <2>1 DEF Motion
  <2>7. QED
    BY <2>2, <2>3, <2>4, <2>5, <2>6 DEF LeaseInvariant, MotionObeysLease, MotionIsFresh
<1>3. CASE /\ phase \in {"Prepared", "Active"} /\ UNCHANGED candidate_zero_since
           /\ LatchFault /\ out' = Zero /\ last_candidate' = c
  BY <1>1, <1>3, FaultStep
<1>4. CASE /\ phase \in {"Prepared", "Active"} /\ UNCHANGED candidate_zero_since
           /\ last_candidate' = Zero /\ active_candidate_seen' = FALSE
           /\ UNCHANGED <<phase, direction, identity, prepared_at, activated_at,
                          last_permit_at>>
           /\ out' = Zero
  <2>1. TypeOK'
    <3>1. active_candidate_seen' \in BOOLEAN
      BY <1>4
    <3>2. QED
      BY <1>1, <1>4, <3>1, ZeroTwist DEF LeaseInvariant, TypeOK, Time, bootVars, odomVars
  <2>2. LeaseFields' /\ CandidateFields'
    BY <1>1, <1>4, NoneIsNoTime DEF LeaseInvariant, LeaseFields, CandidateFields
  <2>3. HeldCandidateScreened'
    <3>1. phase = "Active" => direction # "Stop"
      BY DEF LeaseInvariant, LeaseFields
    <3>2. DirectionIsAllowed(0) /\ ~RecoveryWarning(Zero)
      BY <1>4, <3>1, ThresholdAssumption, ZeroTwist DEF DirectionIsAllowed, RecoveryWarning,
         LeaseInvariant, TypeOK, LeaseFields, Directions
    <3>3. QED
      BY <1>4, <3>2, ZeroTwist DEF HeldCandidateScreened, DirectionIsAllowed, RecoveryWarning
  <2>4. WatchdogArmed' /\ ~Motion'
    BY <1>4, ZeroTwist DEF WatchdogArmed, MovesCar, Motion
  <2>5. QED
    BY <2>1, <2>2, <2>3, <2>4 DEF LeaseInvariant, MotionObeysLease, MotionIsFresh
<1>5. CASE /\ phase \in {"Prepared", "Active"} /\ UNCHANGED candidate_zero_since
           /\ ~c.lateral /\ ~RecoveryWarning(c) /\ DirectionIsAllowed(c.x)
           /\ last_candidate' = c
           /\ active_candidate_seen' =
                IF phase = "Prepared" THEN active_candidate_seen
                ELSE IF CandidateIsZero(c) THEN FALSE
                ELSE active_candidate_seen \/ MovesCar(c)
           /\ UNCHANGED <<phase, direction, identity, prepared_at, activated_at,
                          last_permit_at>>
           /\ out' = IF phase = "Active" /\ MovesCar(c) THEN c ELSE Zero
  <2>1. active_candidate_seen' \in BOOLEAN
    BY <1>5 DEF LeaseInvariant, TypeOK, MovesCar
  <2>2. TypeOK'
    BY <1>1, <1>5, <2>1, ZeroTwist DEF LeaseInvariant, TypeOK, Time, bootVars, odomVars
  <2>3. LeaseFields' /\ CandidateFields'
    BY <1>1, <1>5, NoneIsNoTime DEF LeaseInvariant, LeaseFields, CandidateFields
  <2>4. HeldCandidateScreened'
    BY <1>5 DEF HeldCandidateScreened, DirectionIsAllowed, RecoveryWarning
  <2>5. /\ prepared_at \in Nat /\ prepared_at <= now
        /\ phase = "Active" => activated_at \in Nat /\ activated_at <= now
    BY <1>5, NoneIsNoTime DEF LeaseInvariant, TypeOK, Time, LeaseFields
  <2>6. WatchdogArmed'
    <3>1. phase' = "Active" /\ MovesCar(c) => active_candidate_seen'
      BY <1>5, <1>1, ZeroCandidate
    <3>2. active_candidate_seen' => phase' = "Active"
      BY <1>5 DEF LeaseInvariant, WatchdogArmed
    <3>3. QED
      BY <1>1, <1>5, <2>5, <3>1, <3>2, NoneIsNoTime, TimeoutAssumption
         DEF WatchdogArmed, MovesCar
  <2>7. MotionObeysLease'
    BY <1>1, <1>5, ThresholdAssumption, ZeroTwist DEF MotionObeysLease, Motion, MovesCar, Magnitude,
       DirectionIsAllowed, RecoveryWarning, Twist
  <2>8. MotionIsFresh'
    BY <1>1, <1>5, <2>5, TimeoutAssumption DEF MotionIsFresh, Motion
  <2>9. QED
    BY <2>2, <2>3, <2>4, <2>6, <2>7, <2>8 DEF LeaseInvariant
<1>6. QED
  BY <1>1, <1>2, <1>3, <1>4, <1>5 DEF OnCandidate, CandidateUnderLease

\* Odometry and the clock change neither the lease nor the candidate, and publish nothing.
LEMMA SilentStep ==
  ASSUME LeaseInvariant, UNCHANGED <<bootVars, leaseVars, candVars, candidate_zero_since>>,
         now' \in Nat, now <= now', out' = None,
         last_odom_at' \in Time, odom_stopped_since' \in Time
  PROVE  LeaseInvariant'
<1> USE DEF bootVars, leaseVars, candVars
<1>1. TypeOK'
  BY DEF LeaseInvariant, TypeOK
<1>2. LeaseFields' /\ CandidateFields'
  BY NoneIsNoTime DEF LeaseInvariant, TypeOK, Time, LeaseFields, CandidateFields, Quiescent,
     CandidateIsZero
<1>3. HeldCandidateScreened' /\ WatchdogArmed'
  BY DEF LeaseInvariant, HeldCandidateScreened, WatchdogArmed, DirectionIsAllowed,
     RecoveryWarning, MovesCar
<1>4. ~Motion'
  BY DEF Motion
<1>5. QED
  BY <1>1, <1>2, <1>3, <1>4 DEF LeaseInvariant, MotionObeysLease, MotionIsFresh

\* Every step keeps the lease invariant.
LEMMA LeaseInductive == LeaseInvariant /\ [Next]_vars => LeaseInvariant'
<1> SUFFICES ASSUME LeaseInvariant, [Next]_vars PROVE LeaseInvariant'
  OBVIOUS
<1>1. ASSUME NEW d \in Directions, NEW g \in Generations, NEW u \in Uuids, Prepare(d, g, u)
      PROVE  LeaseInvariant'
  BY <1>1, PrepareStep
<1>2. ASSUME NEW id \in issued, Activate(id) \/ Renew(id) PROVE LeaseInvariant'
  BY <1>2, ActivateStep, RenewStep
<1>3. CASE Stop
  <2>1. Quiescent \in BOOLEAN
    BY DEF Quiescent, CandidateIsZero
  <2>2. QED
    BY <1>3, <2>1, ResetStep DEF Stop, bootVars, LeaseInvariant, TypeOK
<1>4. CASE NonFiniteCandidate
  BY <1>4, FaultStep DEF NonFiniteCandidate
<1>5. ASSUME NEW c \in Candidates, OnCandidate(c) PROVE LeaseInvariant'
  BY <1>5, CandidateStep
<1>6. ASSUME NEW still \in BOOLEAN, OnRawOdom(still) PROVE LeaseInvariant'
  BY <1>6, SilentStep DEF OnRawOdom, LeaseInvariant, TypeOK, Time
<1>7. CASE OnTimer
  BY <1>7, EvaluateStep DEF OnTimer
<1>8. CASE Restart
  <2>1. boot_epoch' \in 1 .. MaxBoots /\ next_lease_id' \in 0 .. LeaseModulus - 1
    BY <1>8, CounterAssumption DEF Restart, Boot, LeaseInvariant, TypeOK
  <2>2. QED
    BY <1>8, <2>1, ResetStep DEF Restart, Boot
<1>9. CASE Tick
  BY <1>9, SilentStep DEF Tick, odomVars, LeaseInvariant, TypeOK
<1>10. CASE UNCHANGED vars
  BY <1>10 DEF vars, bootVars, leaseVars, candVars, odomVars, LeaseInvariant, TypeOK,
     LeaseFields, CandidateFields, Quiescent, CandidateIsZero, HeldCandidateScreened,
     WatchdogArmed, MotionObeysLease, MotionIsFresh, Motion, DirectionIsAllowed,
     RecoveryWarning, MovesCar
<1>11. QED
  BY <1>1, <1>2, <1>3, <1>4, <1>5, <1>6, <1>7, <1>8, <1>9, <1>10 DEF Next

\* The lease invariant holds in every reachable state of the guard and its node.
THEOREM LeaseInvariantHolds == Spec => []LeaseInvariant
<1>1. QED
  BY InitLease, LeaseInductive, PTL DEF Spec

\* Every variable keeps its type (the whole of DirectionGuard).
THEOREM TypeCorrect == Spec => []TypeOK
<1>1. LeaseInvariant => TypeOK
  BY DEF LeaseInvariant
<1>2. QED
  BY <1>1, LeaseInvariantHolds, PTL

\* No command but zero leaves the node except under an active lease and within its
\* direction, whatever the thresholds, the timeouts and the candidates.
THEOREM MotionAlwaysObeysLease == Spec => []MotionObeysLease
<1>1. LeaseInvariant => MotionObeysLease
  BY DEF LeaseInvariant
<1>2. QED
  BY <1>1, LeaseInvariantHolds, PTL

\* No forwarded command is older than twice the candidate timeout, or older than its
\* lease.
THEOREM MotionAlwaysFresh == Spec => []MotionIsFresh
<1>1. LeaseInvariant => MotionIsFresh
  BY DEF LeaseInvariant
<1>2. QED
  BY <1>1, LeaseInvariantHolds, PTL

-----------------------------------------------------------------------------
(* Identities. *)

\* Lease numbers below the counter, uuids among the consumed ones, and what follows from it.
IdentityInvariant == TypeOK /\ LeaseBookkeeping /\ LeasesAreUnique /\ HolderIsNewest

\* A step either changes no identity, drops the one in force, grants a new one, or
\* starts a new process.
LEMMA IdentitySteps ==
  ASSUME [Next]_vars
  PROVE  \/ UNCHANGED <<bootVars, identity>>
         \/ UNCHANGED bootVars /\ identity' = None
         \/ \E g \in Generations, u \in Uuids \ consumed_action_uuids :
              LET granted == [boot |-> boot_epoch, lease |-> next_lease_id,
                              generation |-> g, uuid |-> u]
              IN /\ next_lease_id # 0
                 /\ next_lease_id' = (next_lease_id + 1) % LeaseModulus
                 /\ consumed_action_uuids' = consumed_action_uuids \cup {u}
                 /\ issued' = issued \cup {granted} /\ identity' = granted
                 /\ boot_epoch' = boot_epoch
         \/ /\ boot_epoch' = boot_epoch + 1 /\ next_lease_id' = 1 /\ issued' = issued
            /\ consumed_action_uuids' = {} /\ identity' = None
<1>1. ASSUME NEW d \in Directions, NEW g \in Generations, NEW u \in Uuids, Prepare(d, g, u)
      PROVE  \/ UNCHANGED <<bootVars, identity>>
             \/ UNCHANGED bootVars /\ identity' = None
             \/ /\ u \notin consumed_action_uuids /\ next_lease_id # 0
                /\ next_lease_id' = (next_lease_id + 1) % LeaseModulus
                /\ consumed_action_uuids' = consumed_action_uuids \cup {u}
                /\ issued' = issued \cup {[boot |-> boot_epoch, lease |-> next_lease_id,
                                           generation |-> g, uuid |-> u]}
                /\ identity' = [boot |-> boot_epoch, lease |-> next_lease_id,
                                generation |-> g, uuid |-> u]
                /\ boot_epoch' = boot_epoch
  BY <1>1 DEF Prepare, NextLease, PrepareRefused, LatchFault, DropLease, leaseVars
<1>2. ASSUME NEW id \in issued, Activate(id) \/ Renew(id)
      PROVE  UNCHANGED <<bootVars, identity>> \/ (UNCHANGED bootVars /\ identity' = None)
  BY <1>2 DEF Activate, Renew, Evaluate, LatchFault, DropLease, leaseVars
<1>3. ASSUME NEW c \in Candidates, OnCandidate(c)
      PROVE  UNCHANGED <<bootVars, identity>> \/ (UNCHANGED bootVars /\ identity' = None)
  BY <1>3 DEF OnCandidate, CandidateWhileHalted, CandidateUnderLease, LatchFault, DropLease,
     leaseVars
<1>4. ASSUME NEW still \in BOOLEAN, OnRawOdom(still) PROVE UNCHANGED <<bootVars, identity>>
  BY <1>4 DEF OnRawOdom, leaseVars
<1>5. CASE Stop \/ NonFiniteCandidate \/ OnTimer
  BY <1>5 DEF Stop, NonFiniteCandidate, OnTimer, Evaluate, LatchFault, DropLease, leaseVars
<1>6. CASE Restart
  BY <1>6 DEF Restart, Boot, DropLease
<1>7. CASE Tick \/ UNCHANGED vars
  BY <1>7 DEF Tick, vars, leaseVars
<1>8. QED
  BY <1>1, <1>2, <1>3, <1>4, <1>5, <1>6, <1>7 DEF Next

\* Every step keeps the identities unique and the holder newest.
LEMMA IdentityInductive ==
  ASSUME IdentityInvariant, TypeOK', [Next]_vars
  PROVE  IdentityInvariant'
<1>1. CASE UNCHANGED <<bootVars, identity>>
  BY <1>1 DEF IdentityInvariant, LeaseBookkeeping, LeasesAreUnique, HolderIsNewest, bootVars
<1>2. CASE UNCHANGED bootVars /\ identity' = None
  BY <1>2 DEF IdentityInvariant, LeaseBookkeeping, LeasesAreUnique, HolderIsNewest, bootVars
<1>3. ASSUME NEW g \in Generations, NEW u \in Uuids \ consumed_action_uuids,
             NEW granted, granted = [boot |-> boot_epoch, lease |-> next_lease_id,
                                     generation |-> g, uuid |-> u],
             next_lease_id # 0,
             next_lease_id' = (next_lease_id + 1) % LeaseModulus,
             consumed_action_uuids' = consumed_action_uuids \cup {u},
             issued' = issued \cup {granted}, identity' = granted,
             boot_epoch' = boot_epoch
      PROVE  IdentityInvariant'
  <2>1. /\ granted.boot = boot_epoch /\ granted.lease = next_lease_id /\ granted.uuid = u
        /\ boot_epoch \in Nat /\ next_lease_id \in Nat
    BY <1>3, CounterAssumption DEF IdentityInvariant, TypeOK
  <2>2. next_lease_id' = 0 \/ next_lease_id' = next_lease_id + 1
    BY <1>3, CounterAssumption DEF IdentityInvariant, TypeOK
  <2>3. \A i \in issued : i.boot \in Nat /\ i.lease \in Nat
    BY CounterAssumption DEF IdentityInvariant, TypeOK, Identity
  <2>4. \A i \in issued : i.boot = boot_epoch => i.lease < next_lease_id /\ i.uuid # u
    BY <1>3 DEF IdentityInvariant, LeaseBookkeeping
  <2>5. LeaseBookkeeping'
    <3>1. (\A i \in issued : i.boot <= boot_epoch)'
      BY <1>3, <2>1 DEF IdentityInvariant, LeaseBookkeeping
    <3>2. ASSUME NEW i \in issued', i.boot = boot_epoch
          PROVE  /\ i.uuid \in consumed_action_uuids'
                 /\ i.lease # 0 /\ (next_lease_id' = 0 \/ i.lease < next_lease_id')
      BY <1>3, <2>1, <2>2, <2>3, <2>4, <3>2 DEF IdentityInvariant, LeaseBookkeeping
    <3>3. QED
      BY <1>3, <3>1, <3>2 DEF LeaseBookkeeping
  <2>6. LeasesAreUnique'
    <3>1. ASSUME NEW i \in issued, i.boot = granted.boot
          PROVE  i.lease # granted.lease /\ i.uuid # granted.uuid
      BY <2>1, <2>3, <2>4, <3>1
    <3>2. QED
      BY <1>3, <3>1 DEF IdentityInvariant, LeasesAreUnique
  <2>7. HolderIsNewest'
    BY <1>3, <2>1, <2>3, <2>4 DEF HolderIsNewest
  <2>8. QED
    BY <2>5, <2>6, <2>7 DEF IdentityInvariant
<1>4. CASE /\ boot_epoch' = boot_epoch + 1 /\ next_lease_id' = 1 /\ issued' = issued
           /\ consumed_action_uuids' = {} /\ identity' = None
  <2>1. boot_epoch \in Nat /\ \A i \in issued : i.boot \in Nat /\ i.boot <= boot_epoch
    BY CounterAssumption DEF IdentityInvariant, TypeOK, Identity, LeaseBookkeeping
  <2>2. \A i \in issued : i.boot # boot_epoch'  /\ i.boot <= boot_epoch'
    BY <1>4, <2>1
  <2>3. QED
    BY <1>4, <2>2 DEF IdentityInvariant, LeaseBookkeeping, LeasesAreUnique, HolderIsNewest
<1>5. QED
  BY <1>1, <1>2, <1>3, <1>4, IdentitySteps

\* The identity invariant holds in every reachable state, restarts included.
THEOREM IdentityInvariantHolds == Spec => []IdentityInvariant
<1>1. Init => IdentityInvariant
  BY InitLease DEF Init, LeaseInvariant, IdentityInvariant, LeaseBookkeeping,
     LeasesAreUnique, HolderIsNewest
<1>2. IdentityInvariant /\ TypeOK' /\ [Next]_vars => IdentityInvariant'
  BY IdentityInductive
<1>3. QED
  BY <1>1, <1>2, TypeCorrect, PTL DEF Spec

\* No two leases of one process share a number or a uuid, for every width of the counter.
THEOREM LeasesAlwaysUnique == Spec => []LeasesAreUnique
<1>1. IdentityInvariant => LeasesAreUnique
  BY DEF IdentityInvariant
<1>2. QED
  BY <1>1, IdentityInvariantHolds, PTL

\* The lease in force is always the newest one of the running process.
THEOREM HolderAlwaysNewest == Spec => []HolderIsNewest
<1>1. IdentityInvariant => HolderIsNewest
  BY DEF IdentityInvariant
<1>2. QED
  BY <1>1, IdentityInvariantHolds, PTL

\* A new lease is none of those issued before.
LEMMA GrantIsNew ==
  ASSUME IdentityInvariant, NEW g, NEW u, u \notin consumed_action_uuids
  PROVE  [boot |-> boot_epoch, lease |-> next_lease_id, generation |-> g, uuid |-> u] \notin issued
  BY DEF IdentityInvariant, LeaseBookkeeping

\* A lease that is no longer in force never comes back.
THEOREM RevokedStaysRevoked == Spec => RevokedForever
<1>1. ASSUME IdentityInvariant, [Next]_vars, NEW i \in issued, identity # i
      PROVE  identity' # i
  <2>1. i # None
    BY <1>1, NoneIsNoTime DEF IdentityInvariant, TypeOK
  <2>2. CASE identity' = identity \/ identity' = None
    BY <1>1, <2>1, <2>2
  <2>3. ASSUME NEW g \in Generations, NEW u \in Uuids \ consumed_action_uuids,
               identity' = [boot |-> boot_epoch, lease |-> next_lease_id,
                            generation |-> g, uuid |-> u]
        PROVE  identity' # i
    BY <1>1, <2>3, GrantIsNew
  <2>4. QED
    BY <1>1, <2>2, <2>3, IdentitySteps
<1>2. IdentityInvariant /\ [Next]_vars => [\A i \in issued : identity # i => identity' # i]_vars
  BY <1>1
<1>3. QED
  BY <1>2, IdentityInvariantHolds, PTL DEF Spec, RevokedForever

-----------------------------------------------------------------------------
(* The guard implements the gate. *)

USE DEF Gate!gateVars

\* A step that publishes the forwarded command and keeps the lease passes or holds.
LEMMA GatePassOrHold ==
  ASSUME LeaseInvariant', UNCHANGED <<phase, identity, issued>>
  PROVE  Gate!Next
<1>1. Motion' => phase = "Active"
  BY DEF LeaseInvariant, MotionObeysLease
<1>2. Motion' \in BOOLEAN
  BY DEF Motion
<1>3. QED
  BY <1>1, <1>2 DEF Gate!Next, Gate!Pass, Gate!Hold

\* Every step of the guard maps to a step of the gate.
LEMMA GateStep ==
  ASSUME LeaseInvariant, LeaseInvariant', IdentityInvariant, [Next]_vars
  PROVE  [Gate!Next]_Gate!gateVars
<1>1. ASSUME out' = Zero \/ out' = None PROVE Motion' = FALSE
  BY <1>1 DEF Motion
<1>2. ASSUME DropLease("Stopped"), issued' = issued, out' = Zero PROVE Gate!Next
  BY <1>1, <1>2 DEF DropLease, Gate!Next, Gate!Shut
<1>3. ASSUME LatchFault, issued' = issued, out' = Zero PROVE Gate!Next
  BY <1>1, <1>3 DEF LatchFault, DropLease, Gate!Next, Gate!Shut
<1>4. ASSUME NEW d \in Directions, NEW g \in Generations, NEW u \in Uuids, Prepare(d, g, u)
      PROVE  Gate!Next
  <2>1. CASE UNCHANGED <<bootVars, leaseVars>>
    BY <2>1, GatePassOrHold DEF bootVars, leaseVars
  <2>2. CASE LatchFault /\ UNCHANGED bootVars
    BY <1>3, <1>4, <2>2 DEF Prepare, NextLease, bootVars
  <2>3. ASSUME NEW granted, granted = [boot |-> boot_epoch, lease |-> next_lease_id,
                                       generation |-> g, uuid |-> u],
               ~PrepareRefused(d, g, u), issued' = issued \cup {granted},
               identity' = granted, phase' = "Prepared", out' = Zero
        PROVE  Gate!Next
    <3>1. granted \in Identity
      BY <2>3 DEF Identity, LeaseInvariant, TypeOK
    <3>2. granted \notin issued /\ phase = "Stopped"
      BY <2>3, GrantIsNew DEF PrepareRefused
    <3>3. Motion' = FALSE
      BY <1>1, <2>3
    <3>4. QED
      BY <2>3, <3>1, <3>2, <3>3 DEF Gate!Next, Gate!Grant
  <2>4. QED
    BY <1>4, <2>1, <2>2, <2>3 DEF Prepare, NextLease
<1>5. ASSUME Evaluate, issued' = issued PROVE Gate!Next
  BY <1>3, <1>5, GatePassOrHold DEF Evaluate, ForwardedCommand, leaseVars
<1>6. ASSUME NEW id \in issued, Activate(id) PROVE Gate!Next
  <2>1. issued' = issued
    BY <1>6 DEF Activate, bootVars
  <2>2. CASE Evaluate
    BY <1>5, <2>1, <2>2
  <2>3. CASE LatchFault /\ out' = Zero
    BY <1>3, <2>1, <2>3
  <2>4. CASE phase = "Prepared" /\ phase' = "Active" /\ identity' = identity
    <3>1. Motion' \in BOOLEAN
      BY DEF Motion
    <3>2. QED
      BY <2>1, <2>4, <3>1 DEF Gate!Next, Gate!Open
  <2>5. QED
    BY <1>6, <2>2, <2>3, <2>4 DEF Activate
<1>7. ASSUME NEW id \in issued, Renew(id) PROVE Gate!Next
  <2>1. issued' = issued
    BY <1>7 DEF Renew, bootVars
  <2>2. QED
    BY <1>5, <1>7, <2>1, GatePassOrHold DEF Renew
<1>8. ASSUME NEW c \in Candidates, OnCandidate(c) PROVE Gate!Next
  <2>1. issued' = issued
    BY <1>8 DEF OnCandidate, bootVars
  <2>2. CASE LatchFault /\ out' = Zero
    BY <1>3, <2>1, <2>2
  <2>3. CASE UNCHANGED <<phase, identity>>
    BY <2>1, <2>3, GatePassOrHold
  <2>4. QED
    BY <1>8, <2>2, <2>3 DEF OnCandidate, CandidateWhileHalted, CandidateUnderLease, leaseVars
<1>9. ASSUME NEW still \in BOOLEAN, OnRawOdom(still) PROVE Gate!Next
  BY <1>9, GatePassOrHold DEF OnRawOdom, bootVars, leaseVars
<1>10. CASE Stop \/ Restart
  BY <1>2, <1>10 DEF Stop, Restart, Boot, bootVars
<1>11. CASE NonFiniteCandidate \/ OnTimer
  BY <1>3, <1>5, <1>11 DEF NonFiniteCandidate, OnTimer, bootVars
<1>12. CASE Tick
  BY <1>12, GatePassOrHold DEF Tick, bootVars, leaseVars
<1>13. CASE UNCHANGED vars
  BY <1>13 DEF vars, bootVars, leaseVars, Motion
<1>14. QED
  BY <1>4, <1>6, <1>7, <1>8, <1>9, <1>10, <1>11, <1>12, <1>13 DEF Next

\* The direction guard implements the motion gate, with the phase as the gate and the
\* lease identity as its holder.
THEOREM GuardImplementsGate == Spec => GateSafety
<1>1. Init => Gate!Init
  BY NoneIsNoTime DEF Init, Gate!Init, Motion
<1>2. LeaseInvariant /\ LeaseInvariant' /\ IdentityInvariant /\ [Next]_vars
        => [Gate!Next]_Gate!gateVars
  BY GateStep
<1>3. QED
  BY <1>1, <1>2, LeaseInvariantHolds, IdentityInvariantHolds, PTL DEF Spec, GateSafety, Gate!Spec

-----------------------------------------------------------------------------
(* The stop barrier. *)

\* A step seen by the history is a step of the guard.
LEMMA GuardSteps == RestNext => Next
  BY DEF RestNext, Next

\* The guard becomes stopped only by a Stop or a restart; no other step touches the quiet
\* time but a candidate, and the rest time but an odometry.
LEMMA OtherSteps ==
  ASSUME LeaseInvariant,
         \/ \E d \in Directions, g \in Generations, u \in Uuids : Prepare(d, g, u)
         \/ \E id \in issued : Activate(id) \/ Renew(id)
         \/ NonFiniteCandidate \/ OnTimer \/ Tick
  PROVE  /\ phase' = "Stopped" => phase = "Stopped"
         /\ UNCHANGED <<candidate_zero_since, odomVars>>
         /\ now' = now \/ now' = now + 1
<1>1. ASSUME Evaluate PROVE phase' = "Stopped" => phase = "Stopped"
  BY <1>1 DEF Evaluate, LatchFault, DropLease, leaseVars
<1>2. ASSUME NEW d \in Directions, NEW g \in Generations, NEW u \in Uuids, Prepare(d, g, u)
      PROVE  phase' = "Stopped" => phase = "Stopped"
  BY <1>2 DEF Prepare, LatchFault, DropLease, leaseVars
<1>3. ASSUME NEW id \in issued, Activate(id) \/ Renew(id)
      PROVE  phase' = "Stopped" => phase = "Stopped"
  BY <1>1, <1>3 DEF Activate, Renew, LatchFault, DropLease
<1>4. NonFiniteCandidate \/ OnTimer \/ Tick => (phase' = "Stopped" => phase = "Stopped")
  BY <1>1 DEF NonFiniteCandidate, OnTimer, Tick, LatchFault, DropLease, leaseVars
<1>5. UNCHANGED <<candidate_zero_since, odomVars>> /\ (now' = now \/ now' = now + 1)
  BY DEF Prepare, Activate, Renew, NonFiniteCandidate, OnTimer, Tick
<1>6. QED
  BY <1>2, <1>3, <1>4, <1>5

\* The stop barrier's invariant holds when the node starts.
LEMMA InitRest == RestInit => RestInvariant
<1> SUFFICES ASSUME RestInit PROVE RestInvariant
  OBVIOUS
<1>1. LeaseInvariant
  BY InitLease DEF RestInit
<1>2. HistoryTyped /\ OdometryFollows /\ QuietFollows
  BY NoneIsNoTime DEF RestInit, Init, HistoryTyped, OdometryFollows, QuietFollows, Time
<1>3. QED
  BY <1>1, <1>2 DEF RestInvariant

\* A stop or a restart forgets what the guard and the history knew of rest.
LEMMA ForgetStep ==
  ASSUME RestInvariant, Stop \/ Restart, Forget
  PROVE  HistoryTyped' /\ OdometryFollows' /\ QuietFollows'
<1>1. \E q \in BOOLEAN : ResetStopBarrier(q)
  BY DEF Stop, Restart, Boot, Quiescent
<1>2. now' = now /\ now \in Nat
  BY DEF Stop, Restart, Boot, RestInvariant, LeaseInvariant, TypeOK
<1>3. HistoryTyped'
  BY <1>2 DEF Forget, RestInvariant, HistoryTyped
<1>4. OdometryFollows'
  BY <1>1 DEF ResetStopBarrier, OdometryFollows
<1>5. QuietFollows'
  BY <1>1, <1>2 DEF ResetStopBarrier, Forget, QuietFollows
<1>6. QED
  BY <1>3, <1>4, <1>5

\* An odometry: the guard starts its rest time anew at least as often as the history.
LEMMA OdometryStep ==
  ASSUME RestInvariant, NEW still \in BOOLEAN, OnRawOdom(still), HearOdom(still)
  PROVE  HistoryTyped' /\ OdometryFollows' /\ QuietFollows'
<1>1. /\ now \in Nat /\ last_odom_at \in Time /\ odom_stopped_since \in Time
      /\ now' = now /\ phase' = phase /\ candidate_zero_since' = candidate_zero_since
  BY DEF OnRawOdom, leaseVars, RestInvariant, LeaseInvariant, TypeOK
<1>2. HistoryTyped'
  BY <1>1 DEF HearOdom, RestInvariant, HistoryTyped, Time
<1>3. odom_stopped_since' # None => moved_at' <= odom_stopped_since'
  <2>1. CASE still /\ Within(last_odom_at, RawOdomTimeout) /\ odom_stopped_since # None
    <3>1. heard_odom_at = last_odom_at /\ moved_at <= odom_stopped_since
      BY <2>1 DEF RestInvariant, OdometryFollows
    <3>2. moved_at' = moved_at /\ odom_stopped_since' = odom_stopped_since
      BY <2>1, <3>1 DEF HearOdom, OnRawOdom
    <3>3. QED
      BY <3>1, <3>2
  <2>2. CASE still /\ ~(Within(last_odom_at, RawOdomTimeout) /\ odom_stopped_since # None)
    <3>1. odom_stopped_since' = now /\ moved_at' <= now
      BY <1>1, <1>2, <2>2 DEF OnRawOdom, HistoryTyped
    <3>2. QED
      BY <3>1
  <2>3. CASE ~still
    BY <2>3 DEF OnRawOdom
  <2>4. QED
    BY <2>1, <2>2, <2>3
<1>4. OdometryFollows'
  BY <1>1, <1>3, NoneIsNoTime DEF OnRawOdom, HearOdom, OdometryFollows
<1>5. QuietFollows'
  BY <1>1 DEF HearOdom, RestInvariant, QuietFollows
<1>6. QED
  BY <1>2, <1>4, <1>5

\* A candidate: one that asks for motion ends the quiet in both accounts.
LEMMA QuietStep ==
  ASSUME RestInvariant, NEW c \in Candidates, OnCandidate(c), HearCandidate(c)
  PROVE  HistoryTyped' /\ OdometryFollows' /\ QuietFollows'
<1>1. /\ now \in Nat /\ now' = now
      /\ UNCHANGED <<last_odom_at, odom_stopped_since, moved_at, heard_odom_at>>
  BY DEF OnCandidate, HearCandidate, odomVars, RestInvariant, LeaseInvariant, TypeOK
<1>2. HistoryTyped'
  BY <1>1 DEF HearCandidate, RestInvariant, HistoryTyped
<1>3. OdometryFollows'
  BY <1>1 DEF RestInvariant, OdometryFollows
<1>4. QuietFollows'
  <2>1. CASE CandidateWhileHalted(c)
    <3>1. phase' = phase
      BY <2>1 DEF CandidateWhileHalted, leaseVars
    <3>2. CASE phase = "Stopped" /\ CandidateIsZero(c)
      BY <1>1, <2>1, <3>1, <3>2 DEF CandidateWhileHalted, HearCandidate, RestInvariant,
         HistoryTyped, QuietFollows
    <3>3. CASE phase = "Stopped" /\ ~CandidateIsZero(c)
      BY <2>1, <3>3 DEF CandidateWhileHalted, QuietFollows
    <3>4. CASE phase # "Stopped"
      BY <3>1, <3>4 DEF QuietFollows
    <3>5. QED
      BY <3>2, <3>3, <3>4
  <2>2. CASE CandidateUnderLease(c)
    <3>1. phase' # "Stopped"
      BY <2>2 DEF CandidateUnderLease, LatchFault, DropLease
    <3>2. QED
      BY <3>1 DEF QuietFollows
  <2>3. QED
    BY <2>1, <2>2 DEF OnCandidate
<1>5. QED
  BY <1>2, <1>3, <1>4

\* Every step keeps the invariant of the stop barrier.
LEMMA RestInductive == RestInvariant /\ [RestNext]_<<vars, history>> => RestInvariant'
<1> SUFFICES ASSUME RestInvariant, [RestNext]_<<vars, history>> PROVE RestInvariant'
  OBVIOUS
<1>1. LeaseInvariant'
  BY GuardSteps, LeaseInductive DEF RestInvariant
<1>2. HistoryTyped' /\ OdometryFollows' /\ QuietFollows'
  <2>1. CASE (Stop \/ Restart) /\ Forget
    BY <2>1, ForgetStep
  <2>2. CASE \E still \in BOOLEAN : OnRawOdom(still) /\ HearOdom(still)
    BY <2>2, OdometryStep
  <2>3. CASE \E c \in Candidates : OnCandidate(c) /\ HearCandidate(c)
    BY <2>3, QuietStep
  <2>4. ASSUME UNCHANGED history, UNCHANGED <<candidate_zero_since, odomVars>>,
               phase' = "Stopped" => phase = "Stopped", now' = now \/ now' = now + 1
        PROVE  HistoryTyped' /\ OdometryFollows' /\ QuietFollows'
    <3>1. now \in Nat
      BY DEF RestInvariant, LeaseInvariant, TypeOK
    <3>2. HistoryTyped'
      BY <2>4, <3>1 DEF RestInvariant, HistoryTyped, history
    <3>3. OdometryFollows' /\ QuietFollows'
      BY <2>4 DEF RestInvariant, OdometryFollows, QuietFollows, history, odomVars
    <3>4. QED
      BY <3>2, <3>3
  <2>5. CASE /\ \/ \E d \in Directions, g \in Generations, u \in Uuids : Prepare(d, g, u)
                \/ \E id \in issued : Activate(id) \/ Renew(id)
                \/ NonFiniteCandidate \/ OnTimer \/ Tick
             /\ UNCHANGED history
    BY <2>4, <2>5, OtherSteps DEF RestInvariant
  <2>6. CASE UNCHANGED <<vars, history>>
    BY <2>4, <2>6 DEF vars, leaseVars
  <2>7. QED
    BY <2>1, <2>2, <2>3, <2>5, <2>6 DEF RestNext
<1>3. QED
  BY <1>1, <1>2 DEF RestInvariant

\* The stop barrier's invariant holds in every state (the whole of DirectionGuardRest).
THEOREM RestInvariantHolds == RestSpec => []RestInvariant
<1>1. QED
  BY InitRest, RestInductive, PTL DEF RestSpec

-----------------------------------------------------------------------------

\* What the guard's own odometry check accepts is rest in the account of the history.
LEMMA ReadyMeansRest ==
  ASSUME RestInvariant, RawOdomReady
  PROVE  now - moved_at >= StopSettle /\ Within(heard_odom_at, RawOdomTimeout)
<1>1. /\ now \in Nat /\ odom_stopped_since \in Nat /\ moved_at \in Nat
      /\ moved_at <= odom_stopped_since /\ now - odom_stopped_since >= StopSettle
      /\ heard_odom_at = last_odom_at
  BY DEF RawOdomReady, SettledSince, RestInvariant, HistoryTyped, OdometryFollows,
     LeaseInvariant, TypeOK, Time
<1>2. Within(heard_odom_at, RawOdomTimeout)
  BY <1>1 DEF RawOdomReady
<1>3. QED
  BY <1>1, <1>2, TimeoutAssumption

\* A lease comes into being, or becomes active, only behind the odometry check.
LEMMA EntryIsChecked ==
  ASSUME LeaseInvariant, RestNext
  PROVE  /\ Entering("Prepared") => StopReady
         /\ Entering("Active") => RawOdomReady
<1>1. ASSUME DropLease("Stopped") \/ LatchFault \/ UNCHANGED phase
      PROVE  ~Entering("Prepared") /\ ~Entering("Active")
  BY <1>1 DEF DropLease, LatchFault, Entering
<1>2. ASSUME NEW d \in Directions, NEW g \in Generations, NEW u \in Uuids, Prepare(d, g, u)
      PROVE  (Entering("Prepared") => StopReady) /\ ~Entering("Active")
  <2>1. CASE PrepareRefused(d, g, u)
    BY <1>1, <1>2, <2>1 DEF Prepare, leaseVars
  <2>2. CASE ~PrepareRefused(d, g, u)
    BY <1>1, <1>2, <2>2 DEF Prepare, PrepareRefused, Entering
  <2>3. QED
    BY <2>1, <2>2
<1>3. ASSUME Evaluate PROVE ~Entering("Prepared") /\ ~Entering("Active")
  BY <1>1, <1>3 DEF Evaluate, leaseVars
<1>4. ASSUME NEW id \in issued, Activate(id)
      PROVE  ~Entering("Prepared") /\ (Entering("Active") => RawOdomReady)
  BY <1>1, <1>3, <1>4 DEF Activate, Entering
<1>5. ASSUME NEW id \in issued, Renew(id)
      PROVE  ~Entering("Prepared") /\ ~Entering("Active")
  BY <1>1, <1>3, <1>5 DEF Renew
<1>6. Stop \/ Restart \/ NonFiniteCandidate \/ OnTimer \/ Tick
        => ~Entering("Prepared") /\ ~Entering("Active")
  BY <1>1, <1>3 DEF Stop, Restart, Boot, NonFiniteCandidate, OnTimer, Tick, leaseVars
<1>7. ASSUME NEW c \in Candidates, OnCandidate(c)
      PROVE  ~Entering("Prepared") /\ ~Entering("Active")
  BY <1>1, <1>7 DEF OnCandidate, CandidateWhileHalted, CandidateUnderLease, leaseVars
<1>8. ASSUME NEW still \in BOOLEAN, OnRawOdom(still)
      PROVE  ~Entering("Prepared") /\ ~Entering("Active")
  BY <1>1, <1>8 DEF OnRawOdom, leaseVars
<1>9. QED
  BY <1>2, <1>4, <1>5, <1>6, <1>7, <1>8 DEF RestNext

\* No lease is prepared or activated before the car has been still, by uninterrupted
\* odometry, for the settling time (direction_guard.cpp:287-318, 440-446).
THEOREM CarAlwaysRestsBeforeMotion == RestSpec => CarRestsBeforeMotion
<1>1. ASSUME RestInvariant, RestNext, Entering("Prepared") \/ Entering("Active")
      PROVE  now - moved_at >= StopSettle /\ Within(heard_odom_at, RawOdomTimeout)
  <2>1. RawOdomReady
    BY <1>1, EntryIsChecked DEF RestInvariant, StopReady
  <2>2. QED
    BY <1>1, <2>1, ReadyMeansRest
<1>2. RestInvariant /\ [RestNext]_<<vars, history>>
        => [Entering("Prepared") \/ Entering("Active") =>
              /\ now - moved_at >= StopSettle
              /\ Within(heard_odom_at, RawOdomTimeout)]_<<vars, history>>
  BY <1>1
<1>3. QED
  BY <1>2, RestInvariantHolds, PTL DEF RestSpec, CarRestsBeforeMotion

\* No lease is prepared while the smoother asked for motion within the settling time
\* (direction_guard.cpp:204-223, 234-243, 355-361).
THEOREM SmootherAlwaysQuietBeforeLease == RestSpec => SmootherQuietBeforeLease
<1>1. ASSUME RestInvariant, RestNext, Entering("Prepared")
      PROVE  now - pushed_at >= StopSettle
  <2>1. StopReady
    BY <1>1, EntryIsChecked DEF RestInvariant
  <2>2. /\ now \in Nat /\ candidate_zero_since \in Nat /\ pushed_at \in Nat
        /\ pushed_at <= candidate_zero_since /\ now - candidate_zero_since >= StopSettle
    BY <1>1, <2>1 DEF StopReady, SettledSince, RestInvariant, HistoryTyped, QuietFollows,
       LeaseInvariant, TypeOK, Time
  <2>3. QED
    BY <2>2, TimeoutAssumption
<1>2. RestInvariant /\ [RestNext]_<<vars, history>>
        => [Entering("Prepared") => now - pushed_at >= StopSettle]_<<vars, history>>
  BY <1>1
<1>3. QED
  BY <1>2, RestInvariantHolds, PTL DEF RestSpec, SmootherQuietBeforeLease

=============================================================================
