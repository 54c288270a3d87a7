------------------------------ MODULE SimLaunch ------------------------------
(***************************************************************************)
(* One simulation bring-up: the gates of sim.launch.py, the helper that    *)
(* starts Nav2's lifecycle (nav2_lifecycle_startup.py), Nav2 itself with   *)
(* its lifecycle manager, and the runner that drives the route             *)
(* (auto_train.py).                                                        *)
(*                                                                         *)
(* Time is left out: a wait may end by its deadline at any moment that     *)
(* the faults of the run allow.  Nav2 and Gazebo are external.             *)
(***************************************************************************)
EXTENDS Naturals, Sequences, FiniteSets, SequencesExt

CONSTANTS
  Nav2Nodes,            \* MANAGED_NODES
  Segments,              \* the segments: [id, goals], a goal is [id, task, profile, locked]
  MonitorStatuses,      \* what the perception monitor may say: [ready, checks]
  SimFaults,            \* what may go wrong
  RunRoute, ShutdownOnRouteExit   \* launch arguments

ASSUME SimLaunchAssumption ==
  /\ RunRoute \in BOOLEAN /\ ShutdownOnRouteExit \in BOOLEAN
  /\ Segments \in Seq(ToSet(Segments))
  /\ Segments # <<>> /\ \A s \in ToSet(Segments) : s.goals # <<>>

VARIABLES
  launch,       \* the launch service: what its handlers remember
  proc,         \* the processes it started
  startup,      \* the lifecycle helper
  manager,      \* Nav2's lifecycle manager: how far it is with STARTUP
  lifecycle,    \* the state of every managed node
  witnessed,    \* history: nodes active at some moment of the helper's last probe
  trainer,      \* the route runner
  goals,        \* Nav2's view of the goal of each segment
  perception,   \* the latched status of the perception monitor
  results       \* the results file

simVars == <<launch, proc, startup, manager, lifecycle, witnessed, trainer, goals, perception, results>>

Gates == {"cleanup", "sensor_preflight", "tf_preflight", "lifecycle_startup", "auto_train"}
Unset == [ready |-> FALSE, checks |-> {}]
NoResults == [status |-> "none"]

NewLaunch == [params |-> "none", static_tf |-> FALSE, nav2_started |-> FALSE,
              timers |-> {}, shutdown |-> FALSE]
NewStartup == [pc |-> "services", sent |-> FALSE, ack |-> FALSE, asked |-> {}, active |-> {}]
NewTrainer == [pc |-> "load", stage |-> 1, route |-> <<>>, perception |-> Unset, results |-> <<>>]

Up(p) == proc[p] = "running" /\ ~ launch.shutdown
Exits(p, code) == proc' = [proc EXCEPT ![p] = code]
Starts(p, l) == [l EXCEPT !.timers = @ \ {p}]

-----------------------------------------------------------------------------
(* The launch description.  Every handler sees one exit of its process. *)

(* write_merged_nav2_parameters: the whole file in one replacement, or none. *)
WithParameters == [launch EXCEPT !.params = "whole"]

(* prepare_sim_nav2_parameters runs before any process; the cleanup is started last. *)
Launch ==
  /\ launch.params = "none" /\ ~ launch.shutdown
  /\ \/ /\ launch' = WithParameters /\ Exits("cleanup", "running")
     \/ /\ "params" \in SimFaults
        /\ launch' = [launch EXCEPT !.shutdown = TRUE] /\ UNCHANGED proc
  /\ UNCHANGED <<startup, manager, lifecycle, witnessed, trainer, goals, perception, results>>

(* start_after_cleanup: whatever the cleanup says, Gazebo, the bridge and the
   first preflight are started. *)
CleanupExits ==
  /\ Up("cleanup")
  /\ \E code \in {"ok"} \cup ({"failed"} \cap SimFaults) :
       proc' = [proc EXCEPT !["cleanup"] = code, !["sensor_preflight"] = "running"]
  /\ UNCHANGED <<launch, startup, manager, lifecycle, witnessed, trainer, goals, perception, results>>

(* Mistake: a failure starts nothing, and ends nothing. *)
GateExitsQuietly(p, next) ==
  /\ Up(p)
  /\ \/ Exits(p, "ok") /\ launch' = next
     \/ "failed" \in SimFaults /\ Exits(p, "failed") /\ UNCHANGED launch
  /\ UNCHANGED <<startup, manager, lifecycle, witnessed, trainer, goals, perception, results>>

(* start_after_sensor_preflight, start_after_sensor_tf_preflight *)
GateExits(p, next) ==
  /\ Up(p)
  /\ \/ Exits(p, "ok") /\ launch' = next
     \/ /\ "failed" \in SimFaults
        /\ Exits(p, "failed") /\ launch' = [launch EXCEPT !.shutdown = TRUE]
  /\ UNCHANGED <<startup, manager, lifecycle, witnessed, trainer, goals, perception, results>>

SensorPreflightExits ==
  GateExits("sensor_preflight", [launch EXCEPT !.static_tf = TRUE, !.timers = @ \cup {"tf_preflight"}])

(* launch_nav2_once: the second time it does nothing. *)
SensorTfPreflightExits ==
  GateExits("tf_preflight",
    IF launch.nav2_started THEN launch
    ELSE [launch EXCEPT !.nav2_started = TRUE, !.timers = @ \cup {"lifecycle_startup"}])

TimerFires(p) ==
  /\ p \in launch.timers /\ ~ launch.shutdown
  /\ launch' = Starts(p, launch) /\ Exits(p, "running")
  /\ UNCHANGED <<startup, manager, lifecycle, witnessed, trainer, goals, perception, results>>

(* start_after_nav2_lifecycle: auto_train is added with its condition. *)
StartupExits(code) ==
  /\ Exits("lifecycle_startup", code)
  /\ launch' = IF code = "ok"
               THEN [launch EXCEPT !.timers = @ \cup IF RunRoute THEN {"auto_train"} ELSE {}]
               ELSE [launch EXCEPT !.shutdown = TRUE]

(* auto_train_exit, registered under its condition. *)
TrainerExits(code) ==
  /\ Exits("auto_train", code)
  /\ launch' = [launch EXCEPT !.shutdown = RunRoute /\ ShutdownOnRouteExit]

(* remove_generated_nav2_parameters, and every process is told to end. *)
ShutsDown ==
  /\ launch.shutdown /\ (launch.params = "whole" \/ \E p \in Gates : proc[p] = "running")
  /\ launch' = [launch EXCEPT !.params = "removed"]
  /\ proc' = [p \in Gates |-> IF proc[p] = "running" THEN "killed" ELSE proc[p]]
  /\ UNCHANGED <<startup, manager, lifecycle, witnessed, trainer, goals, perception, results>>

-----------------------------------------------------------------------------
(* The lifecycle helper. *)

Helper(pc) == Up("lifecycle_startup") /\ startup.pc = pc
HelperOnly == UNCHANGED <<manager, lifecycle, witnessed, trainer, goals, perception, results>>

(* _wait_for_services, the warm-up, and the one STARTUP. *)
SendStartup ==
  /\ Helper("services") /\ ~ startup.sent
  /\ startup' = [startup EXCEPT !.pc = "wait", !.sent = TRUE]
  /\ manager' = "configure"
  /\ UNCHANGED <<launch, proc, lifecycle, witnessed, trainer, goals, perception, results>>

(* A service that is never found, or the deadline of the startup. *)
StartupGivesUp ==
  /\ Up("lifecycle_startup")
  /\ \/ "services" \in SimFaults /\ startup.pc = "services"
     \/ {"manager", "state", "bond"} \cap SimFaults # {} /\ startup.pc = "wait"
  /\ StartupExits("failed") /\ UNCHANGED startup /\ HelperOnly

(* The response of the manager comes, late or never: a refusal or an error ends the wait. *)
ReadReply ==
  /\ Helper("wait") /\ manager \in {"up", "failed"} /\ ~ startup.ack
  /\ IF manager = "up"
     THEN startup' = [startup EXCEPT !.ack = TRUE] /\ UNCHANGED <<launch, proc>>
     ELSE StartupExits("failed") /\ UNCHANGED startup
  /\ HelperOnly

BeginProbe ==
  /\ Helper("wait")
  /\ startup' = [startup EXCEPT !.pc = "probe", !.asked = Nav2Nodes, !.active = {}]
  /\ witnessed' = {n \in Nav2Nodes : lifecycle[n] = "active"}
  /\ UNCHANGED <<launch, proc, manager, lifecycle, trainer, goals, perception, results>>

(* A node answers with its state at that moment. *)
NodeAnswers(n) ==
  /\ Helper("probe") /\ n \in startup.asked
  /\ startup' = [startup EXCEPT !.asked = @ \ {n},
                                !.active = IF lifecycle[n] = "active" THEN @ \cup {n} ELSE @]
  /\ UNCHANGED <<launch, proc>> /\ HelperOnly

(* Mistake: the nodes that answered are enough. *)
AllActiveOfAnswered == startup.active = Nav2Nodes \ startup.asked

(* _active_states *)
AllActive == startup.active = Nav2Nodes

(* A probe keeps nothing for the next one. *)
ProbeEnds ==
  /\ Helper("probe") /\ (startup.asked = {} \/ "state" \in SimFaults)
  /\ startup' = [startup EXCEPT !.pc = "wait", !.asked = {}, !.active = {}]
  /\ IF AllActive THEN StartupExits("ok") ELSE UNCHANGED <<launch, proc>>
  /\ HelperOnly

-----------------------------------------------------------------------------
(* Nav2's lifecycle manager: it configures every node, then activates every node. *)

ManagerMoves(n) ==
  LET from == IF manager = "configure" THEN "unconfigured" ELSE "inactive"
      to == IF manager = "configure" THEN "inactive" ELSE "active"
  IN /\ manager \in {"configure", "activate"} /\ lifecycle[n] = from /\ ~ launch.shutdown
     /\ lifecycle' = [lifecycle EXCEPT ![n] = to]
     /\ witnessed' = IF to = "active" /\ startup.pc = "probe" THEN witnessed \cup {n} ELSE witnessed
     /\ UNCHANGED <<launch, proc, startup, manager, trainer, goals, perception, results>>

ManagerGoesOn ==
  /\ ~ launch.shutdown
  /\ \/ manager = "configure" /\ (\A n \in Nav2Nodes : lifecycle[n] = "inactive") /\ manager' = "activate"
     \/ manager = "activate" /\ (\A n \in Nav2Nodes : lifecycle[n] = "active") /\ manager' = "up"
     \/ "manager" \in SimFaults /\ manager \in {"configure", "activate"} /\ manager' = "failed"
  /\ UNCHANGED <<launch, proc, startup, lifecycle, witnessed, trainer, goals, perception, results>>

(* Once up, a node may leave active again, because it crashed or its heartbeat did not
   come in time, and come back: the manager, which watches the bonds of all, takes
   every node back and brings all up again, in many small steps.  *)
NodeLeaves(n) ==
  /\ "bond" \in SimFaults /\ manager = "up" /\ lifecycle[n] = "active" /\ ~ launch.shutdown
  /\ lifecycle' = [lifecycle EXCEPT ![n] = "unconfigured"]
  /\ UNCHANGED <<launch, proc, startup, manager, witnessed, trainer, goals, perception, results>>

NodeReturns(n) ==
  /\ manager = "up" /\ lifecycle[n] # "active" /\ ~ launch.shutdown
  /\ lifecycle' = [lifecycle EXCEPT ![n] = "active"]
  /\ witnessed' = IF startup.pc = "probe" THEN witnessed \cup {n} ELSE witnessed
  /\ UNCHANGED <<launch, proc, startup, manager, trainer, goals, perception, results>>

(* The monitor's status: the last one published is all that is kept. *)
MonitorPublishes(status) ==
  /\ launch.params = "whole" /\ proc["cleanup"] \in {"ok", "failed"} /\ ~ launch.shutdown
  /\ perception # status /\ perception' = status
  /\ UNCHANGED <<launch, proc, startup, manager, lifecycle, witnessed, trainer, goals, results>>

-----------------------------------------------------------------------------
(* The route runner. *)

Runner(pc) == Up("auto_train") /\ trainer.pc = pc
RunnerOnly == UNCHANGED <<startup, manager, lifecycle, witnessed, perception>>
Segment == Segments[trainer.stage]

(* _tree_for_pose, _tree_for_through *)
Tree(goalsOfSegment) ==
  LET terminal == Last(goalsOfSegment)
      returns == Len(goalsOfSegment) > 1 /\ terminal.task = "return"
      kind == CASE returns -> "return"
                [] ~ returns /\ terminal.profile = "precise" -> "precise"
                [] ~ returns /\ terminal.profile # "precise" ->
                     IF terminal.locked THEN "standard" ELSE "transit"
  IN <<IF Len(goalsOfSegment) > 1 THEN "through" ELSE "pose", kind>>

(* _save *)
Saved(status, evidence) ==
  [status |-> status, route |-> trainer.route, results |-> evidence, perception |-> trainer.perception]

SavesAndExits(status, evidence) ==
  /\ results' = Saved(status, evidence)
  /\ trainer' = [trainer EXCEPT !.pc = "done", !.results = evidence]
  /\ TrainerExits("ok")

(* A route that does not load leaves no manifest to save: the handler of the
   exception fails on the missing attribute. *)
LoadRoute ==
  /\ Runner("load")
  /\ \/ /\ trainer' = [trainer EXCEPT !.pc = "servers", !.route = Segments]
        /\ UNCHANGED <<launch, proc>>
     \/ /\ "route" \in SimFaults /\ TrainerExits("failed") /\ UNCHANGED trainer
  /\ UNCHANGED <<goals, results>> /\ RunnerOnly

(* The action servers and the first odometry. *)
FindServers ==
  /\ Runner("servers")
  /\ \/ /\ trainer' = [trainer EXCEPT !.pc = "perception"]
        /\ UNCHANGED <<launch, proc, results>>
     \/ "servers" \in SimFaults /\ SavesAndExits("failed", <<>>)
  /\ UNCHANGED goals /\ RunnerOnly

(* _on_perception *)
HearPerception ==
  /\ Up("auto_train") /\ trainer.pc \in {"perception", "accept", "result"}
  /\ perception # Unset /\ trainer.perception # perception
  /\ trainer' = [trainer EXCEPT !.perception = perception]
  /\ UNCHANGED <<launch, proc, goals, results>> /\ RunnerOnly

(* _wait_for_perception *)
HeardReady == trainer.perception.ready

PerceptionReady ==
  /\ Runner("perception") /\ HeardReady
  /\ trainer' = [trainer EXCEPT !.pc = "send"]
  /\ UNCHANGED <<launch, proc, goals, results>> /\ RunnerOnly

PerceptionTimesOut ==
  /\ Runner("perception") /\ ~ HeardReady
  /\ SavesAndExits("failed", <<>>) /\ UNCHANGED goals /\ RunnerOnly

SendGoal ==
  /\ Runner("send")
  /\ goals' = [goals EXCEPT ![trainer.stage] = "sent"]
  /\ trainer' = [trainer EXCEPT !.pc = "accept"]
  /\ UNCHANGED <<launch, proc, results>> /\ RunnerOnly

Evidence(outcome, seen) ==
  Append(trainer.results,
    [segment |-> Segment.id, goals |-> [i \in DOMAIN Segment.goals |-> Segment.goals[i].id],
     tree |-> Tree(Segment.goals), outcome |-> outcome, seen |-> seen])

(* The runner is told that its goal was accepted. *)
GoalAccepted ==
  /\ Runner("accept") /\ goals[trainer.stage] = "accepted"
  /\ trainer' = [trainer EXCEPT !.pc = "result"]
  /\ UNCHANGED <<launch, proc, goals, results>> /\ RunnerOnly

(* A rejection, or no answer in time: the goal may be accepted after that. *)
GoalNotAccepted ==
  /\ Runner("accept")
  /\ goals[trainer.stage] = "rejected" \/ "transport" \in SimFaults
  /\ SavesAndExits("failed", Evidence("failed", {})) /\ UNCHANGED goals /\ RunnerOnly

(* Mistake: that a result came is enough. *)
OutcomeOfAny(status) == "succeeded"

OutcomeOf(status) == IF status = "succeeded" THEN "succeeded" ELSE "failed"

(* The result, with what was seen on the command and plan topics meanwhile. *)
GoalEnds(seen) ==
  LET outcome == OutcomeOf(goals[trainer.stage])
      evidence == Evidence(outcome, seen)
  IN /\ Runner("result") /\ goals[trainer.stage] \in {"succeeded", "aborted", "canceled"}
     /\ IF outcome = "succeeded" /\ trainer.stage < Len(Segments)
        THEN /\ trainer' = [trainer EXCEPT !.pc = "send", !.stage = @ + 1, !.results = evidence]
             /\ UNCHANGED <<launch, proc, results>>
        ELSE SavesAndExits(IF outcome = "succeeded" THEN "completed" ELSE "failed", evidence)
     /\ UNCHANGED goals /\ RunnerOnly

(* result_timeout: the cancel is sent and not awaited. *)
ResultTimesOut ==
  /\ Runner("result") /\ "transport" \in SimFaults
  /\ goals[trainer.stage] = "accepted"
  /\ goals' = [goals EXCEPT ![trainer.stage] = "canceling"]
  /\ SavesAndExits("failed", Evidence("failed", {})) /\ RunnerOnly

(* Nav2 serves a goal, whether or not the runner still waits for it; what it makes of
   one whose nodes have gone is not told apart from other rejections and aborts. *)
Nav2Serves(k) ==
  /\ launch.nav2_started /\ ~ launch.shutdown /\ goals' \in {[goals EXCEPT ![k] = s] :
       s \in CASE goals[k] = "sent" -> {"accepted"} \cup (IF "goal" \in SimFaults THEN {"rejected"} ELSE {})
               [] goals[k] = "accepted" -> {"succeeded"} \cup (IF "goal" \in SimFaults THEN {"aborted"} ELSE {})
               [] goals[k] = "canceling" -> {"canceled", "succeeded"}
               [] OTHER -> {}}
  /\ UNCHANGED <<launch, proc, startup, manager, lifecycle, witnessed, trainer, perception, results>>

-----------------------------------------------------------------------------
SimInit ==
  /\ launch = NewLaunch /\ proc = [p \in Gates |-> "none"]
  /\ startup = NewStartup /\ manager = "idle"
  /\ lifecycle = [n \in Nav2Nodes |-> "unconfigured"] /\ witnessed = {}
  /\ trainer = NewTrainer /\ goals = [k \in DOMAIN Segments |-> "none"]
  /\ perception = Unset /\ results = NoResults

Seen == {"forward", "reverse", "plan"}

LaunchService ==
  \/ Launch \/ CleanupExits \/ SensorPreflightExits \/ SensorTfPreflightExits \/ ShutsDown
  \/ \E p \in Gates : TimerFires(p)

HelperStep ==
  \/ SendStartup \/ StartupGivesUp \/ ReadReply \/ BeginProbe \/ ProbeEnds
  \/ \E n \in Nav2Nodes : NodeAnswers(n)

ManagerStep == ManagerGoesOn \/ \E n \in Nav2Nodes : ManagerMoves(n)

RunnerStep ==
  \/ LoadRoute \/ FindServers \/ HearPerception \/ PerceptionReady \/ PerceptionTimesOut
  \/ SendGoal \/ GoalAccepted \/ GoalNotAccepted \/ ResultTimesOut
  \/ \E seen \in {{"forward", "plan"}, Seen} : GoalEnds(seen)

SimNext ==
  \/ LaunchService \/ HelperStep \/ ManagerStep \/ RunnerStep
  \/ \E n \in Nav2Nodes : NodeLeaves(n) \/ NodeReturns(n)
  \/ \E status \in MonitorStatuses : MonitorPublishes(status)
  \/ \E k \in DOMAIN Segments : Nav2Serves(k)

-----------------------------------------------------------------------------
(* What is inductive about a bring-up, part by part. *)

Codes == {"none", "running", "ok", "failed", "killed"}
SimTyped ==
  /\ launch \in [params: {"none", "whole", "removed"}, static_tf: BOOLEAN,
                nav2_started: BOOLEAN, timers: SUBSET Gates, shutdown: BOOLEAN]
  /\ proc \in [Gates -> Codes]
  /\ startup \in [pc: {"services", "wait", "probe"}, sent: BOOLEAN, ack: BOOLEAN,
                 asked: SUBSET Nav2Nodes, active: SUBSET Nav2Nodes]
  /\ lifecycle \in [Nav2Nodes -> {"unconfigured", "inactive", "active"}]
  /\ witnessed \subseteq Nav2Nodes
  /\ trainer.pc \in {"load", "servers", "perception", "send", "accept", "result", "done"}
  /\ trainer = [pc |-> trainer.pc, stage |-> trainer.stage, route |-> trainer.route,
                perception |-> trainer.perception, results |-> trainer.results]
  /\ trainer.stage \in DOMAIN Segments /\ trainer.results \in Seq(ToSet(trainer.results))
  /\ DOMAIN goals = DOMAIN Segments

(* A gate is started once, and only behind a gate that succeeded. *)
Reached(p) == proc[p] # "none" \/ p \in launch.timers
GatesFollow ==
  /\ \A p \in launch.timers : proc[p] = "none"
  /\ proc["cleanup"] # "none" => launch.params # "none"
  /\ launch.params = "removed" => launch.shutdown
  /\ {"cleanup", "sensor_preflight"} \cap launch.timers = {}
  /\ Reached("sensor_preflight") => proc["cleanup"] \in {"ok", "failed"}
  /\ Reached("tf_preflight") => proc["sensor_preflight"] = "ok"
  /\ Reached("lifecycle_startup") => proc["tf_preflight"] = "ok"
  /\ Reached("auto_train") => proc["lifecycle_startup"] = "ok"
  /\ proc["sensor_preflight"] = "ok" => launch.static_tf

(* What the helper found active was active during its probe, and a helper that ended
   well found every node so; it may leave that state the moment after. *)
NodesFollow ==
  /\ startup.active \subseteq witnessed
  /\ startup.pc = "probe" => \A n \in Nav2Nodes : lifecycle[n] = "active" => n \in witnessed
  /\ proc["lifecycle_startup"] = "ok" => witnessed = Nav2Nodes

(* What the runner wrote of a segment is what it drove. *)
Evident(record, segment) ==
  /\ record.segment = segment.id
  /\ record.goals = [i \in DOMAIN segment.goals |-> segment.goals[i].id]
  /\ record.tree = Tree(segment.goals) /\ record.outcome = "succeeded"
RunnerFollows ==
  /\ trainer.pc \notin {"load", "done"} => trainer.route = Segments
  /\ trainer.pc = "send" /\ trainer.stage = 1 => trainer.perception.ready
  /\ trainer.pc # "done" =>
       /\ Len(trainer.results) = trainer.stage - 1
       /\ \A k \in 1 .. trainer.stage - 1 :
            goals[k] = "succeeded" /\ Evident(trainer.results[k], Segments[k])
ResultsFollow ==
  results.status = "completed" =>
    /\ trainer.pc = "done"
    /\ results.route = Segments /\ Len(results.results) = Len(Segments)
    /\ results.results \in Seq(ToSet(results.results))
    /\ \A k \in DOMAIN Segments :
         goals[k] = "succeeded" /\ Evident(results.results[k], Segments[k])

(* All of the above, the inductive invariant of a bring-up. *)
SimInvariant == SimTyped /\ GatesFollow /\ NodesFollow /\ RunnerFollows /\ ResultsFollow
=============================================================================
