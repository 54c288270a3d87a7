------------------------------ MODULE ShortDrive ------------------------------
(***************************************************************************)
(* The supervised drive (short_drive_test.py): a process of its own that   *)
(* checks the stack, releases the software emergency stop, starts a        *)
(* mission, watches it, stops it and latches the stop again.               *)
(*                                                                         *)
(* Everything it does is a service call with a time limit.  A request may  *)
(* be served long after its caller gave up, an answer may come too late,   *)
(* and what the topics say lags behind what is.  Calls of one service are  *)
(* served in order, calls of different services in any order.              *)
(*                                                                         *)
(* The car around it is what the other modules show of it: the safety node *)
(* (a stop ends motion, and the status says so: SafetyReference) and the   *)
(* mission (nothing drives in IDLE, COMPLETED or STOPPED: Mission).        *)
(***************************************************************************)
EXTENDS Integers, Sequences, SequencesExt

CONSTANT MaxQueue       \* bound: states said and not yet heard

ASSUME ShortDriveAssumption == MaxQueue \in Nat \ {0}

VARIABLES
  test,    \* the process: where it is, its call, and what it has heard
  calls,   \* per service, the requests not yet served; and the answer under way
  car      \* the safety node, the task node and the topics they publish

shortDriveVars == <<test, calls, car>>

Services == {"estop", "start", "stop"}
Servers == {"controller", "smoother"}
Running == {"WAITING_FOR_SERVERS", "NAVIGATING"}
Terminal == {"COMPLETED", "FAILED", "STOPPED"}

-----------------------------------------------------------------------------
(* The car. *)

\* What the safety node may say on its status topic; a sensor that falls silent, or a
\* command stream that stops, comes and goes.
Statuses == IF car.estop THEN {"emergency_stop"} ELSE {"ok", "other"}

\* The wheels may turn in a mission, and after a failed one whose gate stayed open.
MayDrive == ~ car.estop /\ car.state \in {"NAVIGATING", "FAILED"}

\* Somebody else's mission may be under way, stalled by the stop, on its last segment.
CarInit ==
  \E estop, supervised, capped \in BOOLEAN, state \in {"IDLE", "NAVIGATING"}, speed \in {"zero", "drive"} :
    car = [estop |-> estop, released |-> FALSE,
           supervised |-> supervised, capped |-> capped, limits |-> {},
           state |-> state, stopping |-> FALSE, mission |-> "other",
           said |-> << >>, speed |-> IF estop THEN "zero" ELSE speed]

Says(state) == [car EXCEPT !.state = state, !.said = Append(@, state)]

MissionNavigates ==
  /\ car.state = "WAITING_FOR_SERVERS" /\ Len(car.said) < MaxQueue
  /\ car' = Says("NAVIGATING")
  /\ UNCHANGED <<test, calls>>

MissionEnds(state) ==
  /\ car.state \in Running /\ Len(car.said) < MaxQueue
  /\ state = "STOPPED" => car.stopping
  /\ state = "COMPLETED" => car.state = "NAVIGATING" /\ ~ car.stopping
  /\ car' = [Says(state) EXCEPT !.mission = IF @ = "test" THEN state ELSE @]
  /\ UNCHANGED <<test, calls>>

\* The operator resets the task node between two missions.
OperatorResets ==
  /\ car.state \in Terminal /\ car.mission = "other" /\ Len(car.said) < MaxQueue
  /\ car' = Says("IDLE")
  /\ UNCHANGED <<test, calls>>

OperatorStops ==
  /\ ~ car.estop
  /\ car' = [car EXCEPT !.estop = TRUE]
  /\ UNCHANGED <<test, calls>>

\* "over" is over the speed of the test: the cap in force is the one the safety node
\* started with, whatever its parameter says now.
WheelsAreTold ==
  /\ \E speed \in IF ~ MayDrive THEN {"zero"}
                  ELSE {"zero", "drive"} \cup (IF car.capped THEN {} ELSE {"over"}) :
       car' = [car EXCEPT !.speed = speed]
  /\ UNCHANGED <<test, calls>>

-----------------------------------------------------------------------------
(* Services. *)

\* The answer to a caller who has given up goes nowhere.
Answered(request, ok) ==
  [calls EXCEPT !.answer = IF request.awaited THEN IF ok THEN "yes" ELSE "no" ELSE @]

\* _on_emergency_stop answers success, whatever it is asked.
ServeEmergencyStop ==
  /\ calls.estop # << >>
  /\ LET request == Head(calls.estop)
     IN /\ car' = [car EXCEPT !.estop = request.data, !.released = ~ request.data]
        /\ calls' = [Answered(request, TRUE) EXCEPT !.estop = Tail(@)]
  /\ UNCHANGED test

\* _start_worker: only from IDLE.
ServeStart ==
  /\ calls.start # << >> /\ Len(car.said) < MaxQueue
  /\ LET accepted == car.state = "IDLE"
     IN /\ car' = IF accepted
                  THEN [Says("WAITING_FOR_SERVERS") EXCEPT !.mission = "test", !.stopping = FALSE]
                  ELSE car
        /\ calls' = [Answered(Head(calls.start), accepted) EXCEPT !.start = Tail(@)]
  /\ UNCHANGED test

\* _on_stop: the answer may come before the mission has stopped.
ServeStop ==
  /\ calls.stop # << >>
  /\ car' = [car EXCEPT !.stopping = @ \/ car.state \in Running]
  /\ \E ok \in {TRUE, FALSE} :
       calls' = [Answered(Head(calls.stop), ok) EXCEPT !.stop = Tail(@)]
  /\ UNCHANGED test

-----------------------------------------------------------------------------
(* The process. *)

Process(pc) ==
  [pc |-> pc, sent |-> FALSE, latch |-> "untried", failing |-> FALSE, interrupted |-> FALSE,
   lastState |-> "", lastSafety |-> "", lastSpeed |-> "unknown",
   sawNavigating |-> FALSE, moved |-> FALSE, nonzero |-> FALSE,
   reason |-> "none", result |-> "none"]

TestInit ==
  /\ test = Process("preflight")
  /\ calls = [estop |-> << >>, start |-> << >>, stop |-> << >>, answer |-> "none"]

ShortDriveInit == CarInit /\ TestInit

At(pc) == test.pc = pc

\* spin_once runs at most one callback: the process and the topics after it.
AfterHearing ==
  {[test |-> test, car |-> car],
   [test |-> [test EXCEPT !.lastSpeed = car.speed, !.moved = @ \/ car.speed # "zero"], car |-> car]}
  \cup {[test |-> [test EXCEPT !.lastSafety = status], car |-> car] : status \in Statuses}
  \cup (IF car.said = << >> THEN {}
        ELSE {[test |-> [test EXCEPT !.lastState = Head(car.said)],
               car |-> [car EXCEPT !.said = Tail(@)]]})

\* The process is gone, and what it heard with it; the result is on disk.
Ended(t, result) == [Process("ended") EXCEPT !.latch = t.latch, !.result = result]

\* Mistake: an exception only fails the test.
RaisedOnly(t) == Ended(t, "failed")

\* An exception anywhere in run(): stop and latch once more, and fail.
Raised(t) == [t EXCEPT !.pc = "stop", !.failing = TRUE, !.sent = FALSE]

\* While it waits for the preflight or for an answer, the process hears the topics.
Listens ==
  /\ At("preflight") \/ test.sent
  /\ \E heard \in AfterHearing \ {[test |-> test, car |-> car]} :
       test' = heard.test /\ car' = heard.car
  /\ UNCHANGED calls

PreflightSeen == test.lastSpeed = "zero" /\ test.lastSafety = "emergency_stop"

\* Eight seconds, and the streams of both odometries, of depth and of both costmaps.
PreflightEnds ==
  /\ At("preflight")
  /\ \/ PreflightSeen /\ test' = [test EXCEPT !.pc = "verify"]
     \/ test' = Raised(test)
  /\ UNCHANGED <<calls, car>>

\* runtime_mode_errors: the parameters are those of the supervised drive.
RuntimeModeAccepts == car.supervised

\* verify_runtime_mode and begin_measurement.  The parameter may say capped of a safety
\* node that is not: it took its limit when it started.
Verifies ==
  /\ At("verify")
  /\ \/ RuntimeModeAccepts /\ test' = [test EXCEPT !.pc = "limits"]
     \/ test' = Raised(test)
  /\ UNCHANGED <<calls, car>>

\* set_speed_limits: both calls are made before either result is looked at, so a refusal
\* of the first does not keep the second from taking effect.
SetsSpeedLimits ==
  /\ At("limits")
  /\ \E done \in SUBSET Servers :
       /\ car' = [car EXCEPT !.limits = done]
       /\ \/ done = Servers /\ test' = [test EXCEPT !.pc = "clear"]
          \/ test' = Raised(test)
  /\ UNCHANGED calls

ServiceOf(pc) == IF pc \in {"clear", "latch"} THEN "estop" ELSE pc

\* Where a call leads that failed, by silence or by refusal; stop_and_latch goes on.
Failed(t) ==
  CASE t.pc \in {"clear", "start"} -> Raised(t)
    [] t.pc = "stop" -> [t EXCEPT !.pc = "latch", !.sent = FALSE]
    [] t.pc = "latch" /\ t.failing -> Ended(t, "failed")
    [] OTHER -> [t EXCEPT !.pc = "watch", !.sent = FALSE]

Succeeded(t) ==
  CASE t.pc = "clear" -> [t EXCEPT !.pc = "start", !.sent = FALSE]
    [] t.pc = "start" -> [t EXCEPT !.pc = "drive", !.sent = FALSE]
    [] OTHER -> Failed(t)

CallPcs == {"clear", "start", "stop", "latch"}

\* call(): the service is found within the time limit, or is not.
Calls ==
  /\ test.pc \in CallPcs /\ ~ test.sent
  /\ \/ /\ test' = [test EXCEPT !.sent = TRUE, !.latch = IF At("latch") THEN "sent" ELSE @]
        /\ calls' = [calls EXCEPT ![ServiceOf(test.pc)] =
                       Append(@, [awaited |-> TRUE, data |-> At("latch")]), !.answer = "none"]
     \/ /\ test' = Failed([test EXCEPT !.latch = IF At("latch") THEN "unavailable" ELSE @])
        /\ UNCHANGED calls
  /\ UNCHANGED car

GivenUp(requests) == [i \in DOMAIN requests |-> [requests[i] EXCEPT !.awaited = FALSE]]

\* call(): the answer, or the end of the waiting, after which it may still be served.
CallEnds ==
  /\ test.pc \in CallPcs /\ test.sent
  /\ \/ calls.answer = "yes" /\ test' = Succeeded(test)
     \/ test' = Failed(test)
  /\ calls' = [service \in DOMAIN calls |->
                 IF service = "answer" THEN "none" ELSE GivenUp(calls[service])]
  /\ UNCHANGED car

\* Mistake: the state alone is taken for the proof.
CompletionReasonOfState(t) == "mission_completed"

CompletionReason(t) ==
  IF t.sawNavigating /\ t.moved THEN "mission_completed" ELSE "mission_completed_without_motion_proof"

\* The questions of one round of the loop, in their order.  A watchdog: reverse motion,
\* or one of the five streams is stale.
Questions(t, watchdog) ==
  << <<t.lastState = "COMPLETED", CompletionReason(t)>>,
     <<t.lastState \in {"FAILED", "STOPPED"}, "task_terminal">>,
     <<watchdog, "watchdog">>,
     <<t.lastSafety \notin {"", "ok"}, "safety_blocked">>,
     <<t.lastSpeed = "over", "ackermann_speed_limit">> >>

Leaves(t, reason) == [t EXCEPT !.pc = "stop", !.reason = reason]

\* One round: one callback, then the questions.
Rounds ==
  /\ At("drive")
  /\ \E heard \in AfterHearing, watchdog \in BOOLEAN :
       LET t == [heard.test EXCEPT !.sawNavigating = @ \/ heard.test.lastState = "NAVIGATING"]
           first == SelectInSeq(Questions(t, watchdog), LAMBDA q : q[1])
       IN /\ test' = IF first = 0 THEN t ELSE Leaves(t, Questions(t, watchdog)[first][2])
          /\ car' = heard.car
  /\ UNCHANGED calls

TimeIsUp ==
  /\ At("drive")
  /\ test' = Leaves(test, "timeout")
  /\ UNCHANGED <<calls, car>>

\* Three seconds in which the wheels must be told nothing but zero.
Watches ==
  /\ At("watch")
  /\ \E heard \in AfterHearing :
       /\ test' = [heard.test EXCEPT !.nonzero = @ \/ heard.test.lastSpeed # "zero"]
       /\ car' = heard.car
  /\ UNCHANGED calls

OutcomePassed(reason) == reason = "mission_completed"

WatchEnds ==
  /\ At("watch")
  /\ test' = IF test.nonzero THEN Raised(test)
             ELSE Ended(test, IF OutcomePassed(test.reason) THEN "passed" ELSE "failed")
  /\ UNCHANGED <<calls, car>>

\* Ctrl-C is no Exception: the process goes as it is.
Interrupted ==
  /\ ~ At("ended")
  /\ test' = [Process("ended") EXCEPT !.interrupted = TRUE]
  /\ UNCHANGED <<calls, car>>

CarNext ==
  \/ MissionNavigates
  \/ \E state \in Terminal : MissionEnds(state)
  \/ OperatorResets \/ OperatorStops \/ WheelsAreTold
  \/ ServeEmergencyStop \/ ServeStart \/ ServeStop

TestNext ==
  \/ Listens \/ PreflightEnds \/ Verifies \/ SetsSpeedLimits
  \/ Calls \/ CallEnds
  \/ Rounds \/ TimeIsUp \/ Watches \/ WatchEnds
  \/ Interrupted

ShortDriveNext == CarNext \/ TestNext

ShortDriveSpec == ShortDriveInit /\ [][ShortDriveNext]_shortDriveVars

-----------------------------------------------------------------------------
(* Properties. *)

LatchUnderWay == \E i \in DOMAIN calls.estop : calls.estop[i].data

\* What the test released it watches over: while its release is in force the stack is the
\* supervised one with both speed limits set, and the process is on its way to the latch,
\* or the latch is on its way to the safety node.  Excepted are Ctrl-C and a safety node
\* that could not be found (short_drive_test.py:339-360, 415-504, 546-554).
ReleasedOnlyUnderWatch ==
  car.released =>
    /\ car.supervised /\ car.limits = Servers
    /\ \/ test.pc \in {"clear", "start", "drive", "stop", "latch"}
       \/ LatchUnderWay \/ test.latch = "unavailable" \/ test.interrupted

\* A passed test is one whose own mission completed under its limits, however late the
\* topics told of the mission before it (short_drive_test.py:50-52, 445-459, 505-509).
PassIsEarned ==
  test.result = "passed" =>
    car.mission = "COMPLETED" /\ car.supervised /\ car.limits = Servers

(* What makes the two properties above inductive, part by part. *)

States == {"IDLE"} \cup Running \cup Terminal
Request == [awaited: BOOLEAN, data: BOOLEAN]

DriveTypeOK ==
  /\ test \in [pc: {"preflight", "verify", "limits", "drive", "watch", "ended"} \cup CallPcs,
              sent: BOOLEAN, latch: {"untried", "sent", "unavailable"}, failing: BOOLEAN,
              interrupted: BOOLEAN, lastState: States \cup {""},
              lastSafety: {"", "ok", "other", "emergency_stop"},
              lastSpeed: {"unknown", "zero", "drive", "over"},
              sawNavigating: BOOLEAN, moved: BOOLEAN, nonzero: BOOLEAN,
              reason: {"none", "mission_completed", "mission_completed_without_motion_proof",
                       "task_terminal", "watchdog", "safety_blocked", "ackermann_speed_limit",
                       "timeout"},
              result: {"none", "passed", "failed"}]
  /\ calls \in [estop: Seq(Request), start: Seq(Request), stop: Seq(Request),
               answer: {"none", "yes", "no"}]
  /\ car \in [estop: BOOLEAN, released: BOOLEAN, supervised: BOOLEAN, capped: BOOLEAN,
             limits: SUBSET Servers, state: States, stopping: BOOLEAN,
             mission: {"test", "other"} \cup Terminal, said: Seq(States),
             speed: {"zero", "drive", "over"}]

ReleaseUnderWay == \E i \in DOMAIN calls.estop : ~ calls.estop[i].data

\* Before the stack and its limits were verified nothing is released, and what leads on
\* from there leads through the latch.
PhasesFollow ==
  /\ At("limits") => car.supervised
  /\ (\/ test.pc \in {"clear", "start", "drive", "watch"}
      \/ test.pc \in {"stop", "latch"} /\ ~ test.failing
      \/ test.result = "passed" \/ car.released \/ ReleaseUnderWay)
     => car.supervised /\ car.limits = Servers
  /\ car.released \/ ReleaseUnderWay => test.pc \notin {"preflight", "verify", "limits"}
  /\ test.interrupted \/ test.result = "passed" => At("ended")
  /\ At("latch") /\ test.sent => test.latch = "sent"
  /\ test.pc \in {"preflight", "verify", "limits", "clear", "start", "drive"} =>
       test.latch = "untried"
  /\ test.pc \in {"watch", "ended"} => test.latch # "untried" \/ test.interrupted

\* A release never comes after a latch, and a latch that is sent is under way or was
\* served, with no release behind it.
LatchFollows ==
  /\ \A i, j \in DOMAIN calls.estop : i < j /\ calls.estop[i].data => calls.estop[j].data
  /\ LatchUnderWay => test.pc \in {"stop", "latch", "watch", "ended"}
  /\ test.latch = "sent" => LatchUnderWay \/ (~ car.released /\ ~ ReleaseUnderWay)

\* Whose mission the task node runs or ran last.
MissionFollows ==
  /\ car.state = "WAITING_FOR_SERVERS" => car.mission # "other"
  /\ car.mission = "test" => car.state \in Running
  /\ car.mission \in Terminal => car.state \in Terminal

HeardNavigating == test.lastState = "NAVIGATING" \/ test.sawNavigating
IsOwn == car.mission = "COMPLETED"

\* NAVIGATING is never said of the mission before the test, so that a COMPLETED behind it
\* is of the test's own.
StatesFollow ==
  /\ HeardNavigating \/ (\E i \in DOMAIN car.said : car.said[i] = "NAVIGATING") =>
       car.mission # "other"
  /\ \A i, j \in DOMAIN car.said :
       i < j /\ car.said[i] = "NAVIGATING" /\ car.said[j] = "COMPLETED" => IsOwn
  /\ HeardNavigating => \A j \in DOMAIN car.said : car.said[j] = "COMPLETED" => IsOwn
  /\ test.sawNavigating /\ test.lastState = "COMPLETED" => IsOwn
  /\ test.reason = "mission_completed" \/ test.result = "passed" => IsOwn

\* All of the above, the inductive invariant of the supervised drive.
DriveInvariant ==
  /\ DriveTypeOK /\ PhasesFollow /\ LatchFollows /\ MissionFollows /\ StatesFollow

=============================================================================
