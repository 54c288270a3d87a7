-------------------------- MODULE SafetyNodeProofs --------------------------
(***************************************************************************)
(* Machine-checked proofs about SafetyNode, for every set of sensors and   *)
(* every timeout.                                                          *)
(***************************************************************************)
EXTENDS SafetyNode, TLAPS

\* What the node remembers of its inputs is what they sent, so its verdict is true of them.
SafetyInvariant == TypeOK /\ CommandMemory /\ HoldIsQuiet /\ DriveFollowsNewestCommand

\* The node starts with nothing accepted and nothing published.
LEMMA InitSafety == Init => SafetyInvariant
<1> SUFFICES ASSUME Init PROVE SafetyInvariant
  OBVIOUS
<1>1. /\ cmd_invalid \in BOOLEAN /\ cmd_speed_limit_exceeded \in BOOLEAN
      /\ estop \in BOOLEAN /\ tripped \in BOOLEAN
      /\ tripped = cmd_speed_limit_exceeded
  BY FlagAssumption DEF Init
<1>2. TypeOK
  BY <1>1 DEF Init, TypeOK, Time, Voltages
<1>3. CommandMemory /\ HoldIsQuiet /\ DriveFollowsNewestCommand
  BY <1>1, NoneAssumption DEF Init, CommandMemory, HoldIsQuiet, DriveFollowsNewestCommand, Driving
<1>4. QED
  BY <1>2, <1>3 DEF SafetyInvariant

\* What the verdict says of the node's memory is true of what the world sent.
LEMMA AllowedIsTrue ==
  ASSUME TypeOK, CommandMemory, Allowed, last_command # None
  PROVE  /\ arrived = last_command /\ now - arrived_at <= CommandTimeout
         /\ \A s \in Required : Fresh(heard_at[s], SensorTimeout[s])
         /\ CheckVoltage => voltage = "Good" /\ Fresh(voltage_at, VoltageTimeout)
         /\ ~estop /\ ~tripped
<1>1. ASSUME NEW s \in Required PROVE Fresh(heard_at[s], SensorTimeout[s])
  <2>1. /\ s \in Sensors /\ SensorTimeout[s] \in Nat /\ now \in Nat
        /\ sensor_at[s] \in Nat /\ now - sensor_at[s] <= SensorTimeout[s]
    BY SensorAssumption, NoneAssumption DEF Allowed, Fresh, TypeOK, Time
  <2>2. heard_at[s] \in Nat /\ sensor_at[s] <= heard_at[s] /\ heard_at[s] <= now
    BY <2>1, NoneAssumption DEF CommandMemory, TypeOK, Time
  <2>3. QED
    BY <2>1, <2>2, NoneAssumption DEF Fresh
<1>2. QED
  BY <1>1 DEF Allowed, CommandMemory, Fresh

\* A step that publishes nothing or zero keeps the clause about driving.
LEMMA NotDriving ==
  ASSUME out' = None \/ out'.command = "Zero"
  PROVE  DriveFollowsNewestCommand'
  BY DEF DriveFollowsNewestCommand, Driving

\* A message on /cmd_vel, accepted or not, keeps the invariant.
LEMMA CommandSafety ==
  ASSUME SafetyInvariant, NEW c \in Commands, OnCommand(c)
  PROVE  SafetyInvariant'
<1> USE DEF OnCommand, sensorVars
<1>1. CASE AcceptCommand(c)
  <2>1. /\ cmd_invalid' \in BOOLEAN /\ tripped' \in BOOLEAN
        /\ ~tripped' /\ ~cmd_speed_limit_exceeded
    <3>1. ~tripped /\ ~cmd_speed_limit_exceeded /\ c # "OverLimit" /\ cmd_invalid' = FALSE
      BY <1>1 DEF AcceptCommand, Accepted, SafetyInvariant, CommandMemory
    <3>2. tripped' = FALSE
      BY <3>1
    <3>3. QED
      BY <3>1, <3>2
  <2>2. TypeOK'
    <3>1. steering_calibration' \in Time
      BY <1>1 DEF AcceptCommand, SafetyInvariant, TypeOK, Time
    <3>2. UNCHANGED <<cmd_speed_limit_exceeded, estop, sensor_at, heard_at, voltage, voltage_at, now>>
      BY <1>1 DEF AcceptCommand
    <3>3. /\ cmd_at' \in Time /\ arrived_at' \in Time /\ arrived' \in Commands \cup {None}
          /\ last_command' \in Accepted \cup {None} /\ out' \in Published \cup {None}
      BY <1>1 DEF AcceptCommand, SafetyInvariant, TypeOK, Time
    <3>4. cmd_speed_limit_exceeded' \in BOOLEAN /\ estop' \in BOOLEAN
      BY <3>2 DEF SafetyInvariant, TypeOK
    <3>5. QED
      BY <2>1, <3>1, <3>2, <3>3, <3>4 DEF SafetyInvariant, TypeOK
  <2>3. CommandMemory'
    BY <1>1, <2>1 DEF AcceptCommand, SafetyInvariant, CommandMemory
  <2>4. HoldIsQuiet'
    BY <1>1, <2>1 DEF AcceptCommand, SafetyInvariant, HoldIsQuiet, Quiescent
  <2>5. QED
    BY <1>1, <2>2, <2>3, <2>4, NotDriving DEF AcceptCommand, SafetyInvariant
<1>2. CASE RejectCommand(c)
  <2>1. /\ cmd_invalid' \in BOOLEAN /\ cmd_speed_limit_exceeded' \in BOOLEAN
        /\ tripped' \in BOOLEAN /\ (tripped' = cmd_speed_limit_exceeded')
    <3>1. CASE c = "NotFinite"
      <4>1. cmd_invalid' = TRUE /\ UNCHANGED <<tripped, cmd_speed_limit_exceeded>>
        BY <1>2, <3>1 DEF RejectCommand
      <4>2. cmd_invalid' \in BOOLEAN
        BY <4>1
      <4>3. tripped' \in BOOLEAN /\ cmd_speed_limit_exceeded' \in BOOLEAN
        BY <4>1 DEF SafetyInvariant, TypeOK
      <4>4. tripped' = cmd_speed_limit_exceeded'
        BY <4>1 DEF SafetyInvariant, CommandMemory
      <4>5. QED
        BY <4>2, <4>3, <4>4
    <3>2. CASE c # "NotFinite" /\ cmd_speed_limit_exceeded
      <4>1. UNCHANGED <<cmd_invalid, cmd_speed_limit_exceeded>>
        BY <1>2, <3>2 DEF RejectCommand
      <4>2. tripped' = TRUE \/ tripped' = tripped
        OBVIOUS
      <4>3. tripped /\ cmd_speed_limit_exceeded'
        BY <3>2, <4>1 DEF SafetyInvariant, CommandMemory
      <4>4. QED
        BY <4>1, <4>2, <4>3 DEF SafetyInvariant, TypeOK
    <3>3. CASE c # "NotFinite" /\ ~cmd_speed_limit_exceeded
      <4>1. c = "OverLimit" /\ cmd_invalid' = FALSE /\ cmd_speed_limit_exceeded' = TRUE
        BY <1>2, <3>3 DEF RejectCommand, Commands, Accepted
      <4>2. tripped' = TRUE
        BY <4>1
      <4>3. QED
        BY <4>1, <4>2
    <3>4. QED
      BY <3>1, <3>2, <3>3
  <2>2. TypeOK'
    BY <1>2, <2>1 DEF RejectCommand, SafetyInvariant, TypeOK, Time, Published, ZeroOut, Accepted
  <2>3. CommandMemory' /\ HoldIsQuiet'
    BY <1>2, <2>1 DEF RejectCommand, SafetyInvariant, CommandMemory, HoldIsQuiet
  <2>4. QED
    BY <1>2, <2>2, <2>3, NotDriving DEF RejectCommand, ZeroOut, SafetyInvariant
<1>3. QED
  BY <1>1, <1>2

\* Odometry and depth samples, dropped or counted, keep the invariant.
LEMMA SensorSafety ==
  ASSUME SafetyInvariant, NEW s \in Sensors, OnSensor(s)
  PROVE  SafetyInvariant'
<1> USE DEF OnSensor, commandVars
<1>1. /\ sensor_at' \in [Sensors -> Time] /\ heard_at' \in [Sensors -> Time]
      /\ now' = now /\ now \in Nat
  BY DEF SafetyInvariant, TypeOK, Time
<1>2. TypeOK'
  BY <1>1 DEF SafetyInvariant, TypeOK
<1>3. CommandMemory'
  <2>1. ASSUME NEW r \in Sensors
        PROVE  /\ sensor_at'[r] # None =>
                    heard_at'[r] # None /\ sensor_at'[r] <= heard_at'[r] /\ heard_at'[r] <= now
               /\ heard_at'[r] # None => heard_at'[r] <= now
    <3>1. CASE r = s
      <4>1. heard_at'[r] = now /\ (sensor_at'[r] = now \/ sensor_at'[r] = sensor_at[r])
        BY <3>1 DEF SafetyInvariant, TypeOK
      <4>2. sensor_at[r] # None => sensor_at[r] \in Nat /\ heard_at[r] \in Nat
                                    /\ sensor_at[r] <= heard_at[r] /\ heard_at[r] <= now
        BY DEF SafetyInvariant, TypeOK, CommandMemory, Time
      <4>3. QED
        BY <1>1, <4>1, <4>2, NoneAssumption
    <3>2. CASE r # s
      BY <3>2 DEF SafetyInvariant, TypeOK, CommandMemory
    <3>3. QED
      BY <3>1, <3>2
  <2>2. QED
    BY <2>1 DEF SafetyInvariant, CommandMemory
<1>4. HoldIsQuiet'
  BY DEF SafetyInvariant, HoldIsQuiet
<1>5. QED
  BY <1>2, <1>3, <1>4, NotDriving DEF SafetyInvariant

\* What the publishing timer repeats is allowed by the verdict.
LEMMA TimerSafety ==
  ASSUME SafetyInvariant, OnTimer
  PROVE  SafetyInvariant'
<1> USE DEF OnTimer, commandVars, sensorVars, worldVars
<1>1. HoldInForce \in BOOLEAN /\ steering_calibration' \in {steering_calibration, None}
  BY DEF HoldInForce
<1>2. out'.command \in Accepted /\ out' \in Published
  BY <1>1 DEF Published, Accepted, SafetyInvariant, TypeOK
<1>3. TypeOK'
  BY <1>1, <1>2 DEF SafetyInvariant, TypeOK, Time
<1>4. CommandMemory' /\ HoldIsQuiet'
  BY <1>1 DEF SafetyInvariant, CommandMemory, HoldIsQuiet
<1>5. DriveFollowsNewestCommand'
  <2>1. CASE Driving'
    <3>1. Allowed /\ last_command # None /\ last_command = "Drive"
      BY <2>1 DEF Driving
    <3>2. QED
      BY <3>1, AllowedIsTrue DEF SafetyInvariant, DriveFollowsNewestCommand, Fresh
  <2>2. QED
    BY <2>1 DEF DriveFollowsNewestCommand
<1>6. QED
  BY <1>3, <1>4, <1>5 DEF SafetyInvariant

\* Every step keeps the invariant.
LEMMA NextSafety == SafetyInvariant /\ [Next]_vars => SafetyInvariant'
<1> SUFFICES ASSUME SafetyInvariant, [Next]_vars PROVE SafetyInvariant'
  OBVIOUS
<1> USE DEF commandVars, sensorVars, worldVars
<1>1. ASSUME NEW c \in Commands, OnCommand(c) PROVE SafetyInvariant'
  BY <1>1, CommandSafety
<1>2. ASSUME NEW s \in Sensors, OnSensor(s) PROVE SafetyInvariant'
  BY <1>2, SensorSafety
<1>3. ASSUME NEW v \in Voltages, OnVoltage(v) PROVE SafetyInvariant'
  BY <1>3, NotDriving DEF OnVoltage, SafetyInvariant, TypeOK, Time, CommandMemory, HoldIsQuiet
<1>4. ASSUME NEW engage \in BOOLEAN, OnEmergencyStop(engage) PROVE SafetyInvariant'
  <2>1. /\ estop' \in BOOLEAN /\ cmd_speed_limit_exceeded' \in BOOLEAN /\ tripped' \in BOOLEAN
        /\ (tripped' = cmd_speed_limit_exceeded')
    BY <1>4 DEF OnEmergencyStop, SafetyInvariant, TypeOK, CommandMemory
  <2>2. TypeOK' /\ CommandMemory'
    BY <1>4, <2>1 DEF OnEmergencyStop, SafetyInvariant, TypeOK, Time, CommandMemory
  <2>3. HoldIsQuiet'
    BY <1>4 DEF OnEmergencyStop, SafetyInvariant, HoldIsQuiet
  <2>4. QED
    BY <1>4, <2>2, <2>3, NotDriving DEF OnEmergencyStop, SafetyInvariant
<1>5. ASSUME NEW duration \in 0 .. MaxHold + 1, OnSteeringCalibrationHold(duration)
      PROVE  SafetyInvariant'
  <2>1. \/ steering_calibration' = None
        \/ /\ Allowed /\ LastCommandQuiescent
           /\ steering_calibration' = now + duration /\ duration \in Nat
        \/ UNCHANGED steering_calibration
    BY <1>5, TimeAssumption DEF OnSteeringCalibrationHold
  <2>2. /\ UNCHANGED <<now, commandVars, estop, sensorVars, worldVars>> /\ out' = None
    BY <1>5 DEF OnSteeringCalibrationHold
  <2>3. TypeOK' /\ CommandMemory'
    BY <2>1, <2>2 DEF SafetyInvariant, TypeOK, Time, CommandMemory
  <2>4. HoldIsQuiet'
    BY <2>1, <2>2 DEF SafetyInvariant, HoldIsQuiet, Allowed, LastCommandQuiescent, Quiescent,
       CommandMemory
  <2>5. QED
    BY <2>2, <2>3, <2>4, NotDriving DEF SafetyInvariant
<1>6. CASE OnTimer
  BY <1>6, TimerSafety
<1>7. CASE Tick
  <2>1. TypeOK' /\ HoldIsQuiet'
    BY <1>7 DEF Tick, SafetyInvariant, TypeOK, HoldIsQuiet
  <2>2. CommandMemory'
    BY <1>7, NoneAssumption DEF Tick, SafetyInvariant, TypeOK, Time, CommandMemory
  <2>3. QED
    BY <1>7, <2>1, <2>2, NotDriving DEF Tick, SafetyInvariant
<1>8. CASE UNCHANGED vars
  BY <1>8 DEF vars, SafetyInvariant, TypeOK, CommandMemory, HoldIsQuiet,
     DriveFollowsNewestCommand, Driving, Fresh
<1>9. QED
  BY <1>1, <1>2, <1>3, <1>4, <1>5, <1>6, <1>7, <1>8 DEF Next

\* The invariant holds in every reachable state, for all sensors and timeouts.
THEOREM SafetyInvariantHolds == Spec => []SafetyInvariant
<1>1. QED
  BY InitSafety, NextSafety, PTL DEF Spec

\* Motion reaches the wheels only while the newest command asks for it and every
\* condition on the inputs holds, for every sensor set and timeout.
THEOREM DriveAlwaysFollows == Spec => []DriveFollowsNewestCommand
<1>1. SafetyInvariant => DriveFollowsNewestCommand
  BY DEF SafetyInvariant
<1>2. QED
  BY <1>1, SafetyInvariantHolds, PTL

\* A steering hold exists only beside a healthy, quiescent command stream.
THEOREM HoldAlwaysQuiet == Spec => []HoldIsQuiet
<1>1. SafetyInvariant => HoldIsQuiet
  BY DEF SafetyInvariant
<1>2. QED
  BY <1>1, SafetyInvariantHolds, PTL
\* A dropped sample came less than one interval after the one that counts, however many are
\* dropped in a row.
LEMMA ThrottleStep ==
  ASSUME SafetyInvariant, ThrottleHidesLittle, [Next]_vars
  PROVE  ThrottleHidesLittle'
<1>1. ASSUME NEW s \in Sensors, OnSensor(s) PROVE ThrottleHidesLittle'
  <2>1. ASSUME NEW r \in Sensors, heard_at'[r] # None
        PROVE  /\ sensor_at'[r] # None
               /\ sensor_at'[r] = heard_at'[r] \/ heard_at'[r] - sensor_at'[r] < ThrottleInterval
    <3>1. CASE r = s
      <4>1. heard_at'[r] = now /\ now \in Nat
        BY <1>1, <3>1 DEF OnSensor, SafetyInvariant, TypeOK
      <4>2. CASE /\ sensor_at' = sensor_at /\ sensor_at[r] # None
                 /\ now - sensor_at[r] < ThrottleInterval
        BY <4>1, <4>2
      <4>3. CASE sensor_at' = [sensor_at EXCEPT ![s] = now]
        BY <3>1, <4>1, <4>3, NoneAssumption DEF SafetyInvariant, TypeOK
      <4>4. QED
        BY <1>1, <3>1, <4>2, <4>3 DEF OnSensor
    <3>2. CASE r # s
      <4>1. heard_at'[r] = heard_at[r] /\ sensor_at'[r] = sensor_at[r]
        BY <1>1, <3>2 DEF OnSensor, SafetyInvariant, TypeOK
      <4>2. QED
        BY <2>1, <4>1 DEF ThrottleHidesLittle
    <3>3. QED
      BY <3>1, <3>2
  <2>2. QED
    BY <2>1 DEF ThrottleHidesLittle
<1>2. ASSUME UNCHANGED <<sensor_at, heard_at>> PROVE ThrottleHidesLittle'
  BY <1>2 DEF ThrottleHidesLittle
<1>3. \/ \E s \in Sensors : OnSensor(s)
      \/ UNCHANGED <<sensor_at, heard_at>>
  BY DEF Next, vars, commandVars, sensorVars, worldVars, OnCommand, OnVoltage, OnEmergencyStop,
     OnSteeringCalibrationHold, OnTimer, Tick
<1>4. QED
  BY <1>1, <1>2, <1>3

\* The age the guard sees of a sensor is at most one throttling interval too high, for every
\* set of throttled sensors and every interval (safety_node.cpp:235-255).
THEOREM ThrottleAlwaysHidesLittle == Spec => []ThrottleHidesLittle
<1>1. Init => ThrottleHidesLittle
  BY DEF Init, ThrottleHidesLittle
<1>2. SafetyInvariant /\ ThrottleHidesLittle /\ [Next]_vars => ThrottleHidesLittle'
  BY ThrottleStep
<1>3. QED
  BY <1>1, <1>2, SafetyInvariantHolds, PTL DEF Spec
=============================================================================
