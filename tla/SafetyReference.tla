---------------------------- MODULE SafetyReference ----------------------------
(***************************************************************************)
(* The Python node of smartcar_safety (safety_node.py over guard.py): the  *)
(* launch file calls it the reference implementation and starts it instead *)
(* of the C++ node when use_cpp is false.  It is written here from its own *)
(* source, with the status it publishes, and shown to implement            *)
(* SafetyNode, the model of the C++ node: clients may meet either one.     *)
(*                                                                         *)
(* A command is abstracted as there; a reason is a tuple of names.         *)
(***************************************************************************)
EXTENDS Integers, Sequences, SequencesExt

CONSTANTS
  Sensors, Required, Throttled, SensorTimeout, ThrottleInterval,
  Watched,             \* the sensors in the order evaluate() asks for them
  CheckVoltage, VoltageTimeout, CommandTimeout,
  AllowSteeringCalibration, MaxHold, EmergencyStopOnStart,
  None, MaxTime

ASSUME WatchedAssumption == Watched \in Seq(Sensors) /\ ToSet(Watched) = Sensors

ASSUME ReferenceAssumption ==
  /\ Required \subseteq Sensors /\ Throttled \subseteq Sensors
  /\ SensorTimeout \in [Sensors -> Nat] /\ ThrottleInterval \in Nat
  /\ {CheckVoltage, AllowSteeringCalibration, EmergencyStopOnStart} \subseteq BOOLEAN
  /\ {VoltageTimeout, CommandTimeout, MaxHold, MaxTime} \subseteq Nat
  /\ None \notin Nat \cup {"Good", "Low", "NotFinite"}

VARIABLES
  now,
  guard,     \* the fields of SafetyGuard
  node,      \* the fields of the node, its last published status among them
  out,       \* what the last step published for the wheels, None if nothing
  seen       \* history: the last message of every topic, whatever became of it

referenceVars == <<now, guard, node, out, seen>>

Commands == {"Zero", "Drive", "OverLimit", "NotFinite"}
Quiescent(c) == c = "Zero"
Zero == [command |-> "Zero", hold |-> FALSE]

-----------------------------------------------------------------------------
(* SafetyGuard. *)

GuardInit ==
  [command_received_at |-> None, command_invalid |-> FALSE,
   command_speed_limit_exceeded |-> FALSE,
   received_at |-> [s \in Sensors |-> None],
   voltage |-> None, voltage_received_at |-> None, emergency_stop |-> FALSE]

Fresh(at, timeout) == at # None /\ now - at \in 0 .. timeout

\* What never came is missing; what came and is not fresh is stale.
MissingOrStale(needed, name, at, timeout) ==
  <<needed /\ ~ Fresh(at, timeout), <<name, IF at = None THEN "missing" ELSE "stale">>>>

\* evaluate(): its questions in their order, each with the answer it gives.
Checks(g) ==
  << <<g.emergency_stop, <<"emergency_stop">>>>,
     <<g.command_speed_limit_exceeded, <<"command", "speed_limit_exceeded">>>>,
     <<g.command_invalid, <<"command", "invalid">>>>,
     MissingOrStale(TRUE, "command", g.command_received_at, CommandTimeout) >>
  \o [i \in DOMAIN Watched |->
       LET s == Watched[i]
       IN MissingOrStale(s \in Required, s, g.received_at[s], SensorTimeout[s])]
  \o << MissingOrStale(CheckVoltage, "voltage", g.voltage_received_at, VoltageTimeout),
        <<CheckVoltage /\ g.voltage = "NotFinite", <<"voltage", "invalid">>>>,
        <<CheckVoltage /\ g.voltage = "Low", <<"voltage", "low">>>> >>

Evaluate(g) ==
  LET first == SelectInSeq(Checks(g), LAMBDA check : check[1])
  IN IF first = 0 THEN <<"ok">> ELSE Checks(g)[first][2]

Allowed(g) == Evaluate(g) = <<"ok">>

\* mark_command, with whether it accepted the command.
MarkCommand(c) ==
  IF guard.command_speed_limit_exceeded THEN [accepted |-> FALSE, guard |-> guard]
  ELSE IF c = "OverLimit"
  THEN [accepted |-> FALSE,
        guard |-> [guard EXCEPT !.command_invalid = FALSE, !.command_speed_limit_exceeded = TRUE]]
  ELSE [accepted |-> TRUE,
        guard |-> [guard EXCEPT !.command_received_at = now, !.command_invalid = FALSE]]

MarkCommandInvalid == [guard EXCEPT !.command_invalid = TRUE]

-----------------------------------------------------------------------------
(* The node.  One executor thread: every callback is one action. *)

ReferenceInit ==
  /\ now = 0
  /\ guard = [GuardInit EXCEPT !.emergency_stop = EmergencyStopOnStart]
  /\ node = [last_command |-> None, steering_calibration |-> None,
             processed_at |-> [s \in Throttled |-> None],
             last_status_reason |-> Evaluate(guard)]
  /\ out = None
  /\ seen = [arrived |-> None, arrived_at |-> None,
             heard_at |-> [s \in Sensors |-> None], tripped |-> FALSE]

\* _publish_status_if_changed, after everything else the callback did.
Reported(n, g) == [n EXCEPT !.last_status_reason = Evaluate(g)]

\* sanitize_twist_components: one value of the six that is not finite spoils the message.
Sanitizes(c) == c # "NotFinite"

OnCommand(c) ==
  LET marked == IF Sanitizes(c) THEN MarkCommand(c)
                ELSE [accepted |-> FALSE, guard |-> MarkCommandInvalid]
      kept == IF Quiescent(c) THEN node.steering_calibration ELSE None
      remembered ==
        IF marked.accepted
        THEN [node EXCEPT !.last_command = c, !.steering_calibration = kept]
        ELSE [node EXCEPT !.last_command = None, !.steering_calibration = None]
  IN /\ guard' = marked.guard
     /\ node' = Reported(remembered, marked.guard)
     /\ out' = IF marked.accepted THEN None ELSE Zero
     /\ seen' = [seen EXCEPT !.arrived = c, !.arrived_at = now,
                             !.tripped = @ \/ c = "OverLimit"]
     /\ UNCHANGED now

TooSoon(s) ==
  /\ s \in Throttled
  /\ node.processed_at[s] # None /\ now - node.processed_at[s] < ThrottleInterval

\* _on_odom, _on_raw_odom and _on_depth_points: none of them reports a status.
OnSensor(s) ==
  /\ IF TooSoon(s) THEN UNCHANGED <<guard, node>>
     ELSE /\ guard' = [guard EXCEPT !.received_at[s] = now]
          /\ node' = [node EXCEPT !.processed_at =
                        [t \in Throttled |-> IF t = s THEN now ELSE @[t]]]
  /\ seen' = [seen EXCEPT !.heard_at[s] = now]
  /\ out' = None
  /\ UNCHANGED now

OnVoltage(v) ==
  LET marked == [guard EXCEPT !.voltage = v, !.voltage_received_at = now]
  IN /\ guard' = marked /\ node' = Reported(node, marked)
     /\ out' = None
     /\ UNCHANGED <<now, seen>>

\* Mistake: a steering hold in force survives the stop.
OnEmergencyStopAlone(engage) ==
  LET set == [guard EXCEPT !.emergency_stop = engage,
                !.command_speed_limit_exceeded = @ /\ engage]
  IN /\ guard' = set
     /\ node' = Reported(node, set)
     /\ seen' = [seen EXCEPT !.tripped = @ /\ engage]
     /\ out' = None
     /\ UNCHANGED now

OnEmergencyStop(engage) ==
  LET set == [guard EXCEPT !.emergency_stop = engage,
                !.command_speed_limit_exceeded = @ /\ engage]
      held == IF engage THEN [node EXCEPT !.steering_calibration = None] ELSE node
  IN /\ guard' = set
     /\ node' = Reported(held, set)
     /\ seen' = [seen EXCEPT !.tripped = @ /\ engage]
     /\ out' = None
     /\ UNCHANGED now

CommandQuiescent == node.last_command # None /\ Quiescent(node.last_command)

\* 0 cancels; a duration over the maximum stands for every request out of range.
OnSteeringCalibrationHold(duration) ==
  /\ node' = IF duration = 0 THEN [node EXCEPT !.steering_calibration = None]
             ELSE IF /\ AllowSteeringCalibration /\ duration <= MaxHold
                     /\ Allowed(guard) /\ CommandQuiescent
             THEN [node EXCEPT !.steering_calibration = now + duration]
             ELSE node
  /\ out' = None
  /\ UNCHANGED <<now, guard, seen>>

OnTimer ==
  LET allowed == Allowed(guard)
      holding == /\ node.steering_calibration # None
                 /\ allowed /\ CommandQuiescent /\ now < node.steering_calibration
      kept == IF holding THEN node.steering_calibration ELSE None
  IN /\ out' = [command |-> IF allowed /\ node.last_command # None
                            THEN node.last_command ELSE "Zero",
                hold |-> holding]
     /\ node' = Reported([node EXCEPT !.steering_calibration = kept], guard)
     /\ UNCHANGED <<now, guard, seen>>

\* Time passes between callbacks.
Passes ==
  /\ now < MaxTime /\ now' = now + 1
  /\ out' = None
  /\ UNCHANGED <<guard, node, seen>>

ReferenceNext ==
  \/ \E c \in Commands : OnCommand(c)
  \/ \E s \in Sensors : OnSensor(s)
  \/ \E v \in {"Good", "Low", "NotFinite"} : OnVoltage(v)
  \/ \E engage \in BOOLEAN : OnEmergencyStop(engage)
  \/ \E duration \in 0 .. MaxHold + 1 : OnSteeringCalibrationHold(duration)
  \/ OnTimer
  \/ Passes

ReferenceSpec == ReferenceInit /\ [][ReferenceNext]_referenceVars

-----------------------------------------------------------------------------
(* Properties. *)

Cpp == INSTANCE SafetyNode WITH
  cmd_at <- guard.command_received_at, cmd_invalid <- guard.command_invalid,
  cmd_speed_limit_exceeded <- guard.command_speed_limit_exceeded,
  estop <- guard.emergency_stop, sensor_at <- guard.received_at,
  voltage <- IF guard.voltage = None THEN "NotFinite" ELSE guard.voltage,
  voltage_at <- guard.voltage_received_at,
  last_command <- node.last_command, steering_calibration <- node.steering_calibration,
  arrived <- seen.arrived, arrived_at <- seen.arrived_at,
  heard_at <- seen.heard_at, tripped <- seen.tripped

\* The fallback is the same gate: every step of the Python node is a step of the C++
\* node with the same inputs and the same output, so what is shown of one holds of the
\* other ("Python reference implementation", smartcar_safety.launch.py:94; guard.py,
\* safety_node.py against guard.cpp, safety_node.cpp).
ImplementsCppNode == Cpp!Spec

(* What makes the refinement go through, part by part. *)

Times == Nat \cup {None}
IsPast(at) == at # None => at <= now

\* The fields of the guard have their types, and no input is from the future.
GuardTyped ==
  /\ now \in Nat
  /\ guard \in [command_received_at: Times, command_invalid: BOOLEAN,
               command_speed_limit_exceeded: BOOLEAN, received_at: [Sensors -> Times],
               voltage: {"Good", "Low", "NotFinite", None}, voltage_received_at: Times,
               emergency_stop: BOOLEAN]
  /\ IsPast(guard.command_received_at) /\ IsPast(guard.voltage_received_at)
  /\ \A s \in Sensors : IsPast(guard.received_at[s])

\* So have those of the node; what it publishes is not looked at again.
NodeTyped ==
  /\ node \in [last_command: Commands \cup {None}, steering_calibration: Times,
              processed_at: [Throttled -> Times],
              last_status_reason: {node.last_status_reason}]
  /\ seen \in [arrived: Commands \cup {None}, arrived_at: Times, heard_at: [Sensors -> Times],
              tripped: BOOLEAN]

\* The node and its guard count the same samples, and a voltage comes with its time.
NodeFollowsGuard ==
  /\ \A s \in Throttled : node.processed_at[s] = guard.received_at[s]
  /\ guard.voltage = None <=> guard.voltage_received_at = None

\* All of the above, the inductive invariant under which the two nodes agree.
ReferenceInvariant == GuardTyped /\ NodeTyped /\ NodeFollowsGuard

=============================================================================
