----------------------------- MODULE SafetyNode -----------------------------
(***************************************************************************)
(* The last software gate before the wheels: class SafetyGuard (guard.cpp) *)
(* inside SafetyNode (safety_node.cpp).  It takes the guarded velocity from *)
(* /cmd_vel, watches the age of its inputs, and repeats the last accepted  *)
(* command on /cmd_vel_safe and /ackermann_cmd at a fixed rate.            *)
(*                                                                         *)
(* One single-threaded executor, so every callback is one action.  Time is *)
(* a count of ticks of its steady clock.  A command is abstracted to what  *)
(* the node tells apart: all zero, within the speed limit but not all      *)
(* zero, over the limit, or not finite.                                    *)
(***************************************************************************)
EXTENDS Integers

CONSTANTS
  Sensors,             \* odom, raw_odom, depth_points
  Required,            \* the sensors the parameters make mandatory
  Throttled,           \* odom and raw_odom: closer samples are dropped
  SensorTimeout, ThrottleInterval,
  CheckVoltage, VoltageTimeout,      \* minimum_voltage > 0
  CommandTimeout,
  AllowSteeringCalibration, MaxHold,
  EmergencyStopOnStart,
  None, MaxTime

ASSUME SensorAssumption ==
  /\ Required \subseteq Sensors /\ Throttled \subseteq Sensors
  /\ SensorTimeout \in [Sensors -> Nat] /\ ThrottleInterval \in Nat

ASSUME FlagAssumption ==
  CheckVoltage \in BOOLEAN /\ AllowSteeringCalibration \in BOOLEAN
  /\ EmergencyStopOnStart \in BOOLEAN

ASSUME TimeAssumption ==
  VoltageTimeout \in Nat /\ CommandTimeout \in Nat /\ MaxHold \in Nat /\ MaxTime \in Nat

Commands == {"Zero", "Drive", "OverLimit", "NotFinite"}
Accepted == {"Zero", "Drive"}
Quiescent(c) == c = "Zero"

Voltages == {"Good", "Low", "NotFinite"}
Time == Nat \cup {None}

ASSUME NoneAssumption == None \notin Nat /\ None \notin Commands

VARIABLES
  now,
  cmd_at, cmd_invalid, cmd_speed_limit_exceeded, estop,
  sensor_at, voltage, voltage_at,
  last_command,           \* last accepted command still worth repeating, or None
  steering_calibration,   \* when the steering hold expires, or None
  out,                    \* what the last step published, None if nothing
  arrived, arrived_at,    \* last message on /cmd_vel, whatever became of it
  heard_at,               \* last sample of each sensor, dropped ones included
  tripped                 \* an over-limit message came and nobody released the stop since

commandVars == <<cmd_at, cmd_invalid, cmd_speed_limit_exceeded, last_command>>
sensorVars  == <<sensor_at, voltage, voltage_at>>
worldVars   == <<arrived, arrived_at, heard_at, tripped>>
vars == <<now, commandVars, estop, sensorVars, steering_calibration, out, worldVars>>

Published == [command: Accepted, hold: BOOLEAN]
ZeroOut == [command |-> "Zero", hold |-> FALSE]

-----------------------------------------------------------------------------
(* The verdict. *)

Fresh(at, timeout) == at # None /\ now - at <= timeout

\* Mistake: the emergency stop is left to somebody else.
AllowedDespiteStop ==
  /\ ~cmd_speed_limit_exceeded /\ ~cmd_invalid
  /\ Fresh(cmd_at, CommandTimeout)
  /\ \A s \in Required : Fresh(sensor_at[s], SensorTimeout[s])
  /\ CheckVoltage => Fresh(voltage_at, VoltageTimeout) /\ voltage = "Good"

Allowed ==
  /\ ~estop /\ ~cmd_speed_limit_exceeded /\ ~cmd_invalid
  /\ Fresh(cmd_at, CommandTimeout)
  /\ \A s \in Required : Fresh(sensor_at[s], SensorTimeout[s])
  /\ CheckVoltage => Fresh(voltage_at, VoltageTimeout) /\ voltage = "Good"

LastCommandQuiescent == last_command # None /\ Quiescent(last_command)

-----------------------------------------------------------------------------

Init ==
  /\ now = 0
  /\ cmd_at = None /\ cmd_invalid = FALSE /\ cmd_speed_limit_exceeded = FALSE
  /\ estop = EmergencyStopOnStart
  /\ sensor_at = [s \in Sensors |-> None]
  /\ voltage = "NotFinite" /\ voltage_at = None
  /\ last_command = None /\ steering_calibration = None /\ out = None
  /\ arrived = None /\ arrived_at = None /\ tripped = FALSE
  /\ heard_at = [s \in Sensors |-> None]

\* The over-limit latch also swallows later legal commands.  A message that is not
\* finite never reaches the latch.
AcceptCommand(c) ==
  /\ c \in Accepted /\ ~cmd_speed_limit_exceeded
  /\ cmd_at' = now /\ cmd_invalid' = FALSE
  /\ last_command' = c
  /\ steering_calibration' = IF Quiescent(c) THEN steering_calibration ELSE None
  /\ out' = None
  /\ UNCHANGED cmd_speed_limit_exceeded

\* Mistake: the last good command stays ready to be repeated.
RejectKeepingLast(c) ==
  /\ c \notin Accepted \/ cmd_speed_limit_exceeded
  /\ \/ c = "NotFinite" /\ cmd_invalid' = TRUE /\ UNCHANGED cmd_speed_limit_exceeded
     \/ c # "NotFinite" /\ cmd_speed_limit_exceeded
          /\ UNCHANGED <<cmd_invalid, cmd_speed_limit_exceeded>>
     \/ c = "OverLimit" /\ ~cmd_speed_limit_exceeded
          /\ cmd_invalid' = FALSE /\ cmd_speed_limit_exceeded' = TRUE
  /\ steering_calibration' = None
  /\ out' = ZeroOut
  /\ UNCHANGED <<cmd_at, last_command>>

RejectCommand(c) ==
  /\ c \notin Accepted \/ cmd_speed_limit_exceeded
  /\ \/ c = "NotFinite" /\ cmd_invalid' = TRUE /\ UNCHANGED cmd_speed_limit_exceeded
     \/ /\ c # "NotFinite" /\ cmd_speed_limit_exceeded
        /\ UNCHANGED <<cmd_invalid, cmd_speed_limit_exceeded>>
     \/ /\ c = "OverLimit" /\ ~cmd_speed_limit_exceeded
        /\ cmd_invalid' = FALSE /\ cmd_speed_limit_exceeded' = TRUE
  /\ last_command' = None /\ steering_calibration' = None
  /\ out' = ZeroOut
  /\ UNCHANGED cmd_at

OnCommand(c) ==
  /\ AcceptCommand(c) \/ RejectCommand(c)
  /\ arrived' = c /\ arrived_at' = now
  /\ tripped' = IF c = "OverLimit" THEN TRUE ELSE tripped
  /\ UNCHANGED <<now, estop, sensorVars, heard_at>>

\* A throttled sample that follows the last counted one too closely is dropped.
OnSensor(s) ==
  /\ sensor_at' =
       IF s \in Throttled /\ sensor_at[s] # None /\ now - sensor_at[s] < ThrottleInterval
         THEN sensor_at ELSE [sensor_at EXCEPT ![s] = now]
  /\ heard_at' = [heard_at EXCEPT ![s] = now]
  /\ out' = None
  /\ UNCHANGED <<now, commandVars, estop, voltage, voltage_at, steering_calibration,
                 arrived, arrived_at, tripped>>

OnVoltage(v) ==
  /\ voltage' = v /\ voltage_at' = now
  /\ out' = None
  /\ UNCHANGED <<now, commandVars, estop, sensor_at, steering_calibration, worldVars>>

\* Mistake: the steering hold outlives the stop.
OnEmergencyStopKeepingHold(engage) ==
  /\ estop' = engage
  /\ cmd_speed_limit_exceeded' = (engage /\ cmd_speed_limit_exceeded)
  /\ tripped' = (engage /\ tripped)
  /\ out' = None
  /\ UNCHANGED <<now, cmd_at, cmd_invalid, last_command, sensorVars, steering_calibration,
                 arrived, arrived_at, heard_at>>

\* Releasing the emergency stop also clears the over-limit latch.
OnEmergencyStop(engage) ==
  /\ estop' = engage
  /\ IF engage
       THEN /\ steering_calibration' = None
            /\ UNCHANGED <<cmd_speed_limit_exceeded, tripped>>
       ELSE /\ cmd_speed_limit_exceeded' = FALSE /\ tripped' = FALSE
            /\ UNCHANGED steering_calibration
  /\ out' = None
  /\ UNCHANGED <<now, cmd_at, cmd_invalid, last_command, sensorVars,
                 arrived, arrived_at, heard_at>>

\* duration 0 cancels; an angle or a duration out of range is refused like a duration
\* over the maximum.
OnSteeringCalibrationHold(duration) ==
  /\ \/ duration = 0 /\ steering_calibration' = None
     \/ /\ duration \in 1 .. MaxHold /\ AllowSteeringCalibration
        /\ Allowed /\ LastCommandQuiescent
        /\ steering_calibration' = now + duration
     \/ /\ duration # 0
        /\ \/ ~AllowSteeringCalibration \/ duration > MaxHold
           \/ ~(Allowed /\ LastCommandQuiescent)
        /\ UNCHANGED steering_calibration
  /\ out' = None
  /\ UNCHANGED <<now, commandVars, estop, sensorVars, worldVars>>

HoldInForce ==
  /\ steering_calibration # None
  /\ Allowed /\ LastCommandQuiescent
  /\ now < steering_calibration

OnTimer ==
  /\ out' = [command |-> IF Allowed /\ last_command # None THEN last_command ELSE "Zero",
             hold |-> HoldInForce]
  /\ steering_calibration' = IF HoldInForce THEN steering_calibration ELSE None
  /\ UNCHANGED <<now, commandVars, estop, sensorVars, worldVars>>

Tick ==
  /\ now < MaxTime
  /\ now' = now + 1
  /\ out' = None
  /\ UNCHANGED <<commandVars, estop, sensorVars, steering_calibration, worldVars>>

Next ==
  \/ \E c \in Commands : OnCommand(c)
  \/ \E s \in Sensors : OnSensor(s)
  \/ \E v \in Voltages : OnVoltage(v)
  \/ \E engage \in BOOLEAN : OnEmergencyStop(engage)
  \/ \E duration \in 0 .. MaxHold + 1 : OnSteeringCalibrationHold(duration)
  \/ OnTimer
  \/ Tick

Spec == Init /\ [][Next]_vars

\* The publishing timer runs for as long as the node spins.
FairSpec == Spec /\ WF_vars(OnTimer)

-----------------------------------------------------------------------------
(* Properties. *)

\* Every field of the node has its type; an optional stamp is None or a time.
TypeOK ==
  /\ now \in Nat
  /\ cmd_at \in Time /\ cmd_invalid \in BOOLEAN
  /\ cmd_speed_limit_exceeded \in BOOLEAN /\ estop \in BOOLEAN
  /\ sensor_at \in [Sensors -> Time] /\ heard_at \in [Sensors -> Time]
  /\ voltage \in Voltages /\ voltage_at \in Time
  /\ last_command \in Accepted \cup {None}
  /\ steering_calibration \in Time
  /\ out \in Published \cup {None}
  /\ arrived \in Commands \cup {None} /\ arrived_at \in Time /\ tripped \in BOOLEAN

Driving == out # None /\ out.command = "Drive"

\* The wheels get motion only if the newest message on /cmd_vel asked for it and is
\* fresh: a bad message in between, an over-limit message nobody released, a silent
\* mandatory sensor, a low battery or an emergency stop each end it, in whatever
\* order they come (guard.cpp:66-184, safety_node.cpp:208-286).
DriveFollowsNewestCommand ==
  Driving =>
    /\ arrived = "Drive" /\ now - arrived_at <= CommandTimeout
    /\ \A s \in Required : Fresh(heard_at[s], SensorTimeout[s])
    /\ CheckVoltage => voltage = "Good" /\ Fresh(voltage_at, VoltageTimeout)
    /\ ~estop /\ ~tripped

\* A steering hold lives only beside a healthy, quiescent command stream: every event
\* that would make it turn a wheel under way has already dropped it
\* (safety_node.cpp:213-226, 273-274, 320-332).
HoldIsQuiet ==
  steering_calibration # None =>
    /\ ~estop /\ ~cmd_invalid /\ ~cmd_speed_limit_exceeded
    /\ last_command = "Zero" /\ arrived = "Zero"

\* Throttling never makes a sensor look more than one interval older than it is
\* (safety_node.cpp:235-255).
ThrottleHidesLittle ==
  \A s \in Sensors :
    heard_at[s] # None =>
      /\ sensor_at[s] # None
      /\ sensor_at[s] = heard_at[s] \/ heard_at[s] - sensor_at[s] < ThrottleInterval

\* What the node remembers of the command stream agrees with the stream itself.
CommandMemory ==
  /\ last_command # None => arrived = last_command /\ arrived_at = cmd_at
  /\ tripped = cmd_speed_limit_exceeded
  /\ \A s \in Sensors : sensor_at[s] # None =>
       heard_at[s] # None /\ sensor_at[s] <= heard_at[s] /\ heard_at[s] <= now
  /\ \A s \in Sensors : heard_at[s] # None => heard_at[s] <= now

\* An engaged emergency stop reaches the wheels, or is released, whatever else
\* happens meanwhile.
EmergencyStopReachesWheels == estop ~> (out = ZeroOut \/ ~estop)

=============================================================================
