------------------------------- MODULE Mission -------------------------------
(***************************************************************************)
(* The mission of the task node (mission.py) on top of the navigator: the  *)
(* mission thread drives the segments one by one and does the task at the  *)
(* end of each; the services start, stop and reset (task_node.py) run in   *)
(* one mutually exclusive group, stop and reset beside a running mission.  *)
(*                                                                         *)
(* Navigator's worker is the mission thread inside navigate(), and its     *)
(* operator is the stop service, or the main thread at shutdown, inside    *)
(* cancel().  Shutdown ends the executor: from then on no callback runs,   *)
(* no answer is heard, and the threads have only their deadlines.          *)
(***************************************************************************)
EXTENDS Navigator, Sequences

CONSTANTS
  Segments,        \* the task at the end of each segment: "qr", "vlm" or "return"
  QrRetries,       \* qr_retries
  MaxGenerations,  \* bound: starts and resets
  AutostartTries,  \* _autostart_max_retries, 0 without autostart_mission
  MissionFaults    \* "servers", "qr", "vlm", "origin", "route": what may fail; "shutdown"

ASSUME MissionAssumption ==
  /\ Segments \in Seq({"qr", "vlm", "return"}) /\ Segments # << >>
  /\ QrRetries \in Nat /\ MaxGenerations \in Nat /\ AutostartTries \in Nat
  /\ MissionFaults \subseteq {"servers", "qr", "vlm", "origin", "route", "shutdown"}

TerminalStates == {"COMPLETED", "STOPPED", "FAILED"}
States == {"IDLE", "WAITING_FOR_SERVERS", "NAVIGATING", "RUNNING_QR", "RUNNING_VLM"}
            \cup TerminalStates

VARIABLES
  mission,   \* the mission's fields, by their names
  run,       \* the mission thread: where it is, its generation, segment and attempt
  status,    \* the status of the last mission to end
  service,   \* the handler that occupies the service group, "idle" if none
  response,  \* what the last stop answered
  node       \* the executor, the tries the autostart timer has left, and the process

missionVars == <<mission, run, status, service, response, node>>
navigatorVars == vars
allVars == <<missionVars, navigatorVars>>

NotRunning == [pc |-> "none", generation |-> 0, segment |-> 0, attempt |-> 0]

IdleMission ==
  [state |-> "IDLE", generation |-> 0, reserved |-> FALSE, running |-> FALSE,
   resetting |-> FALSE, stop_requested |-> FALSE]

MissionInit ==
  /\ Init
  /\ mission = IdleMission
  /\ run = NotRunning /\ status = "none"
  /\ service = "idle" /\ response = "none"
  /\ node = [spinning |-> TRUE, autostart |-> AutostartTries, alive |-> TRUE]

\* _set_state: only the generation in force may change the state.
InState(state) ==
  IF run.generation = mission.generation THEN [mission EXCEPT !.state = state] ELSE mission

Go(label) == run' = [run EXCEPT !.pc = label]
StopRequested == mission.stop_requested

\* _fail and _finish_stopped; "finally" of run_reserved comes next.
Fail(why) == mission' = InState("FAILED") /\ status' = why /\ Go("finally")

\* Mistake: a stop ends the mission whatever still drives.
FinishStoppedAnyway ==
  mission' = InState("STOPPED") /\ status' = "mission_stopped" /\ Go("finally")

FinishStopped ==
  IF IsActive THEN Fail("navigation_stop_unconfirmed")
  ELSE mission' = InState("STOPPED") /\ status' = "mission_stopped" /\ Go("finally")

\* A question the thread asks the event between two steps of its own.
StopsOr(step) == IF StopRequested THEN FinishStopped ELSE step

-----------------------------------------------------------------------------
(* The mission thread. *)

Begin ==
  /\ run.pc = "begin"
  /\ mission' = [mission EXCEPT !.reserved = FALSE, !.running = TRUE]
  /\ Go("start")
  /\ UNCHANGED <<status, service, response, node, navigatorVars>>

Start ==
  /\ run.pc = "start"
  /\ StopsOr(Go("servers") /\ UNCHANGED <<mission, status>>)
  /\ UNCHANGED <<service, response, node, navigatorVars>>

\* The wait for the guard and the vision services, then the second look at the event.
\* C-zone variants that do not fit the route raise an exception in between.
WaitForServers ==
  /\ run.pc = "servers"
  /\ \/ "servers" \in MissionFaults /\ Fail("servers_unavailable")
     \/ "route" \in MissionFaults /\ ~nav.poisoned /\ StopsOr(Fail("mission_exception"))
     \/ ~nav.poisoned /\ StopsOr(run' = [run EXCEPT !.pc = "segment", !.segment = 1]
                                    /\ UNCHANGED <<mission, status>>)
     \/ nav.poisoned /\ Fail("servers_unavailable")
  /\ UNCHANGED <<service, response, node, navigatorVars>>

EnterSegment ==
  /\ run.pc = "segment"
  /\ \/ mission' = InState("NAVIGATING") /\ Go("check") /\ UNCHANGED status
     \/ "route" \in MissionFaults /\ Fail("navigation_segment_invalid")
  /\ UNCHANGED <<service, response, node, navigatorVars>>

LastCheck ==
  /\ run.pc = "check"
  /\ StopsOr(Go("navigate") /\ UNCHANGED <<mission, status>>)
  /\ UNCHANGED <<service, response, node, navigatorVars>>

\* navigate() waits for the action server before it becomes active.
NoActionServer ==
  /\ "servers" \in MissionFaults
  /\ outcome' = "failed"
  /\ UNCHANGED <<nav, guard_call_lock, thr, linkVars, nav2Vars, cancels>>

Navigate ==
  /\ run.pc = "navigate"
  /\ NavigateBegins \/ NavigateRefused \/ NoActionServer
  /\ Go("navigating")
  /\ UNCHANGED <<mission, status, service, response, node>>

Navigated ==
  /\ run.pc = "navigating" /\ At("worker", "idle")
  /\ StopsOr(\/ outcome = "ok" /\ Go("task") /\ UNCHANGED <<mission, status>>
             \/ outcome # "ok" /\ IsActive /\ Fail("navigation_not_terminal")
             \/ outcome # "ok" /\ ~IsActive /\ Fail("navigation_failed"))
  /\ UNCHANGED <<service, response, node, navigatorVars>>

EndpointTask ==
  /\ run.pc = "task"
  /\ \/ /\ Segments[run.segment] = "qr"
        /\ mission' = InState("RUNNING_QR")
        /\ run' = [run EXCEPT !.pc = "qr", !.attempt = 0]
     \/ /\ Segments[run.segment] = "vlm"
        /\ mission' = InState("RUNNING_VLM") /\ Go("vlm")
     \/ /\ Segments[run.segment] = "return"
        /\ Go("next") /\ UNCHANGED mission
  /\ UNCHANGED <<status, service, response, node, navigatorVars>>

\* The settling time and the time between two attempts are interruptible.
QrSleep ==
  /\ run.pc = "qr"
  /\ StopsOr(run' = [run EXCEPT !.pc = "reading", !.attempt = @ + 1]
               /\ UNCHANGED <<mission, status>>)
  /\ UNCHANGED <<service, response, node, navigatorVars>>

QrRead ==
  /\ run.pc = "reading"
  /\ StopsOr(\/ Go("next") /\ UNCHANGED <<mission, status>>
             \/ "route" \in MissionFaults /\ Fail("c_zone_variant_rewrites_completed_segments")
             \/ /\ "qr" \in MissionFaults /\ run.attempt <= QrRetries
                /\ Go("qr") /\ UNCHANGED <<mission, status>>
             \/ "qr" \in MissionFaults /\ run.attempt > QrRetries /\ Fail("qr_failed"))
  /\ UNCHANGED <<service, response, node, navigatorVars>>

VlmDescribed ==
  /\ run.pc = "vlm"
  /\ StopsOr(\/ Go("next") /\ UNCHANGED <<mission, status>>
             \/ "vlm" \in MissionFaults /\ Fail("vlm_failed"))
  /\ UNCHANGED <<service, response, node, navigatorVars>>

NextSegment ==
  /\ run.pc = "next"
  /\ IF run.segment < Len(Segments)
       THEN run' = [run EXCEPT !.pc = "segment", !.segment = @ + 1] /\ UNCHANGED <<mission, status>>
       ELSE StopsOr(Go("complete") /\ UNCHANGED <<mission, status>>)
  /\ UNCHANGED <<service, response, node, navigatorVars>>

Complete ==
  /\ run.pc = "complete"
  /\ mission' = InState("COMPLETED") /\ status' = "mission_completed" /\ Go("finally")
  /\ UNCHANGED <<service, response, node, navigatorVars>>

Finally ==
  /\ run.pc = "finally"
  /\ mission' = IF run.generation = mission.generation
                  THEN [mission EXCEPT !.running = FALSE] ELSE mission
  /\ run' = NotRunning
  /\ UNCHANGED <<status, service, response, node, navigatorVars>>

-----------------------------------------------------------------------------
(* The services. *)

WorkerAlive == run.pc # "none"

\* reserve_start; the motion gates are parameters and do not change.
Startable ==
  /\ ~WorkerAlive /\ ~IsActive
  /\ mission.state = "IDLE" /\ ~mission.reserved /\ ~mission.running /\ ~mission.resetting

StartWorker ==
  /\ mission.generation < MaxGenerations
  /\ mission' = [mission EXCEPT !.state = "WAITING_FOR_SERVERS", !.generation = @ + 1,
                                !.reserved = TRUE, !.stop_requested = FALSE]
  /\ run' = [NotRunning EXCEPT !.pc = "begin", !.generation = mission.generation + 1]
  /\ status' = "none" /\ response' = "none"

OnStart ==
  /\ service = "idle" /\ Startable
  /\ StartWorker
  /\ UNCHANGED <<service, node, navigatorVars>>

\* The timer tries until a start succeeds or its tries are used up, whoever else has
\* started, stopped and reset a mission meanwhile.
OnAutostart ==
  /\ service = "idle" /\ node.spinning /\ node.autostart > 0
  /\ IF Startable
       THEN StartWorker /\ node' = [node EXCEPT !.autostart = 0]
       ELSE node' = [node EXCEPT !.autostart = @ - 1] /\ UNCHANGED <<mission, run, status, response>>
  /\ UNCHANGED <<service, navigatorVars>>

Stoppable == mission.reserved \/ mission.running \/ IsActive

\* Mistake: the stop is passed to the navigator only.
OnStopUnflagged ==
  /\ service = "idle" /\ cancels < MaxCancels
  /\ IF Stoppable THEN service' = "stop" /\ response' = "none"
       ELSE response' = "no mission is running" /\ UNCHANGED service
  /\ UNCHANGED <<mission, run, status, node, navigatorVars>>

OnStop ==
  /\ service = "idle" /\ cancels < MaxCancels
  /\ IF Stoppable
       THEN /\ mission' = [mission EXCEPT !.stop_requested = TRUE]
            /\ service' = "stop" /\ response' = "none"
       ELSE response' = "no mission is running" /\ UNCHANGED <<mission, service>>
  /\ UNCHANGED <<run, status, node, navigatorVars>>

CancelForStop ==
  /\ service = "stop"
  /\ OperatorCancels
  /\ service' = "canceling"
  /\ UNCHANGED <<mission, run, status, response, node>>

\* The join of the mission thread ends with the thread or with its timeout.
StopAnswered ==
  /\ service = "canceling" /\ At("operator", "idle")
  /\ WorkerAlive => "deadline" \in Faults
  /\ response' = IF ~WorkerAlive /\ ~IsActive THEN "mission stopped" ELSE "confirmation pending"
  /\ service' = "idle"
  /\ UNCHANGED <<mission, run, status, node, navigatorVars>>

\* Mistake: a goal left behind does not hold the reset back.
OnResetBesideGoal ==
  /\ service = "idle" /\ ~WorkerAlive
  /\ mission.state \in TerminalStates \cup {"IDLE"}
  /\ ~mission.reserved /\ ~mission.running /\ ~mission.resetting
  /\ mission.generation < MaxGenerations
  /\ mission' = [mission EXCEPT !.resetting = TRUE]
  /\ service' = "reset"
  /\ UNCHANGED <<run, status, response, node, navigatorVars>>

OnReset ==
  /\ service = "idle" /\ ~WorkerAlive
  /\ mission.state \in TerminalStates \cup {"IDLE"}
  /\ ~mission.reserved /\ ~mission.running /\ ~mission.resetting /\ ~IsActive
  /\ mission.generation < MaxGenerations
  /\ mission' = [mission EXCEPT !.resetting = TRUE]
  /\ service' = "reset"
  /\ UNCHANGED <<run, status, response, node, navigatorVars>>

\* reset_origin has ended; IDLE only if nothing came alive meanwhile.
ResetDone ==
  /\ service = "reset"
  /\ \/ ~IsActive /\ mission' = [mission EXCEPT !.resetting = FALSE, !.state = "IDLE",
                                                !.generation = @ + 1, !.stop_requested = FALSE]
     \/ IsActive /\ mission' = [mission EXCEPT !.resetting = FALSE]
     \/ "origin" \in MissionFaults /\ mission' = [mission EXCEPT !.resetting = FALSE]
  /\ service' = "idle"
  /\ UNCHANGED <<run, status, response, node, navigatorVars>>

-----------------------------------------------------------------------------
(* Shutdown: stop_for_shutdown in the main thread, after the executor. *)

\* Mistake: the thread is told, the navigator is not.
ShutdownUncanceled ==
  /\ "shutdown" \in MissionFaults /\ node.spinning /\ service = "idle"
  /\ Stoppable => cancels < MaxCancels
  /\ node' = [node EXCEPT !.spinning = FALSE]
  /\ mission' = [mission EXCEPT !.stop_requested = @ \/ Stoppable]
  /\ service' = "joining"
  /\ UNCHANGED <<run, status, response, navigatorVars>>

\* The end of spin() and request_stop; a handler under way is let finish first.
Shutdown ==
  /\ "shutdown" \in MissionFaults /\ node.spinning /\ service = "idle"
  /\ Stoppable => cancels < MaxCancels
  /\ node' = [node EXCEPT !.spinning = FALSE]
  /\ mission' = [mission EXCEPT !.stop_requested = @ \/ Stoppable]
  /\ service' = IF Stoppable THEN "shutdown" ELSE "joining"
  /\ UNCHANGED <<run, status, response, navigatorVars>>

CancelForShutdown ==
  /\ service = "shutdown"
  /\ OperatorCancels
  /\ service' = "joining"
  /\ UNCHANGED <<mission, run, status, response, node>>

\* The join ends with the thread or with its timeout.  The process takes its threads and
\* its memory along; what it has sent is still on its way.
ProcessEnds ==
  /\ service = "joining" /\ At("operator", "idle") /\ node.alive
  /\ WorkerAlive => "deadline" \in Faults
  /\ node' = [node EXCEPT !.alive = FALSE]
  /\ nav' = IdleFields /\ thr' = [t \in Threads |-> AtRest] /\ guard_call_lock' = Nobody
  /\ requests' = {[r EXCEPT !.to = Nobody] : r \in requests}
  /\ reply' = [t \in Threads |-> NoReply] /\ due' = {}
  /\ mission' = [IdleMission EXCEPT !.generation = mission.generation]
  /\ run' = NotRunning /\ status' = "none" /\ response' = "none" /\ outcome' = "none"
  /\ UNCHANGED <<service, guard, granted, server, cancel_due, cancels>>

\* _call and wait_stopped without an executor: no answer and no odometry is heard.
CallUnheard(t) ==
  /\ thr[t].pc \in Waits /\ ~Answered(t)
  /\ requests' = {r \in requests : r.to # t}
                   \cup {[r EXCEPT !.to = Nobody] : r \in {q \in requests : q.to = t}}
  /\ reply' = [reply EXCEPT ![t] = "timeout"]
  /\ UNCHANGED <<nav, guard_call_lock, thr, outcome, guard, granted, nav2Vars, cancels>>

SettleUnseen(t) ==
  /\ At(t, "settleWait")
  /\ nav' = IF Newest(t) THEN [nav EXCEPT !.poisoned = TRUE] ELSE nav
  /\ thr' = Settled(t, FALSE)
  /\ UNCHANGED <<guard_call_lock, outcome, linkVars, nav2Vars, cancels>>

\* What each actor of the navigator may still do.
WorkerGoes == node.alive /\ InNavigate /\ UNCHANGED missionVars

CancelGoes(t) ==
  /\ node.alive
  /\ IF node.spinning THEN InCancel(t)
       ELSE SettleUnseen(t) \/ CallUnheard(t) \/ (InCancel(t) /\ ~At(t, "settleWait"))
  /\ UNCHANGED missionVars

CallGoes(t) == node.spinning /\ CallTimesOut(t) /\ UNCHANGED missionVars

CallbackRuns == node.spinning /\ Callbacks /\ UNCHANGED missionVars

\* An answer nobody hears is the same before and after its call has timed out.
GuardGoes ==
  /\ node.spinning \/ \A r \in requests : r.to = Nobody
  /\ GuardServes
  /\ UNCHANGED missionVars

OutsideGoes == (Nav2 \/ GuardRevokes) /\ UNCHANGED missionVars

-----------------------------------------------------------------------------

MissionThread == node.alive /\ (
  \/ Begin \/ Start \/ WaitForServers \/ EnterSegment \/ LastCheck \/ Navigate \/ Navigated
  \/ EndpointTask \/ QrSleep \/ QrRead \/ VlmDescribed \/ NextSegment \/ Complete \/ Finally)

Services ==
  \/ OnStart \/ OnAutostart \/ OnStop \/ CancelForStop \/ StopAnswered \/ OnReset \/ ResetDone
  \/ Shutdown \/ CancelForShutdown \/ ProcessEnds

NavigatorGoes ==
  \/ WorkerGoes \/ \E t \in Threads : CancelGoes(t) \/ CallGoes(t)
  \/ CallbackRuns \/ GuardGoes \/ OutsideGoes

MissionNext == MissionThread \/ Services \/ NavigatorGoes

MissionSpec == MissionInit /\ [][MissionNext]_allVars

\* Each thread goes on when it can, the guard answers, and a deadline that stays in force
\* passes: the retries of Prepare and the loop beside the moving car both have one.
\* Nothing is asked of Nav2 or of the executor's threads.
FairMissionSpec ==
  /\ MissionSpec
  /\ WF_allVars(MissionThread)
  /\ WF_allVars(CancelForStop \/ StopAnswered \/ ResetDone \/ CancelForShutdown \/ ProcessEnds)
  /\ WF_allVars(WorkerGoes)
  /\ \A t \in Threads : WF_allVars(CancelGoes(t))
  /\ WF_allVars(GuardGoes)
  /\ SF_allVars(node.alive /\ PrepareGivenUp /\ UNCHANGED missionVars)
  /\ SF_allVars(node.alive /\ LoopTimesOut /\ UNCHANGED missionVars)

-----------------------------------------------------------------------------
(* Properties. *)

RunLabels ==
  {"none", "begin", "start", "servers", "segment", "check", "navigate", "navigating", "task",
   "qr", "reading", "vlm", "next", "complete", "finally"}

\* Every field of the mission has its type, and the retries and segments stay in bounds.
MissionTypeOK ==
  /\ TypeOK
  /\ mission \in [state : States, generation : 0 .. MaxGenerations, reserved : BOOLEAN,
                  running : BOOLEAN, resetting : BOOLEAN, stop_requested : BOOLEAN]
  /\ run \in [pc : RunLabels, generation : 0 .. MaxGenerations,
              segment : 0 .. Len(Segments), attempt : 0 .. QrRetries + 1]
  /\ service \in {"idle", "stop", "canceling", "reset", "shutdown", "joining"}
  /\ node \in [spinning : BOOLEAN, autostart : 0 .. AutostartTries, alive : BOOLEAN]
  /\ response \in {"none", "no mission is running", "mission stopped", "confirmation pending"}

NothingDrives == guard.phase # "Active" /\ \A g \in Goals : ~Live(g)

\* A mission that says IDLE, COMPLETED or STOPPED has left nothing behind that could
\* drive: no goal at work in Nav2 and the gate not open.  FAILED promises no such thing.
\* The answer "mission stopped" is the end of it: until the next start nothing drives
\* and no mission thread runs, whatever was still on its way when the service answered.
QuietStates ==
  /\ node.alive /\ mission.state \in {"IDLE", "COMPLETED", "STOPPED"} => NothingDrives
  /\ response = "mission stopped" => NothingDrives /\ ~WorkerAlive

\* The filter's pose is set back to the origin only while nothing drives.
ResetFindsTheCarStill == mission.resetting => NothingDrives /\ ~WorkerAlive

\* cancel() for one goal never spoils the next one: its verdict, which does not ask whose
\* goal is current, always falls on the goal it was called for.
CancelStaysWithItsGoal ==
  \A t \in Threads : thr[t].pc \in {"awaitHandle", "awaitTerminal"} =>
    Newest(t) \/ ~IsActive

\* An accepted stop ends the mission, even one the navigator never heard of.
StopEndsMission == mission.stop_requested /\ WorkerAlive ~> ~WorkerAlive

\* navigate() and cancel() come back, whatever Nav2, the guard and the odometry do: no
\* wait under the condition variable or the call lock is for a thread that waits itself.
CallsReturn == \A t \in Threads : ~At(t, "idle") ~> At(t, "idle")

\* A node that is shut down leaves no open gate behind: though the main thread hears no
\* answer any more, and its process may end before the mission thread, the gate is shut and
\* stays so once the guard has served what was sent.
ShutdownShutsGate == ~node.alive /\ requests = {} => guard.phase # "Active"

-----------------------------------------------------------------------------
(* What makes the safety properties above inductive, part by part. *)

QuietMissionStates == {"IDLE", "COMPLETED", "STOPPED"}

\* Nothing can drive: no goal is in force and the guard holds no lease it granted.
Released == ~nav.operation_active /\ guard.gen \notin granted

AfterGoal == {"task", "qr", "reading", "vlm", "next", "complete"}
BetweenGoals == {"begin", "start", "servers", "segment", "check"} \cup AfterGoal
Succeeded == run.pc = "navigating" /\ At("worker", "idle") /\ outcome = "ok"

\* The mission thread is the one of the generation in force, is inside navigate() only
\* while it says so, and has its segment and its attempt in bounds.
RunFollows ==
  /\ WorkerAlive => run.generation = mission.generation
  /\ ~At("worker", "idle") => run.pc = "navigating"
  /\ mission.state \in QuietMissionStates => run.pc \in {"none", "finally"}
  /\ mission.resetting \/ response = "mission stopped" => ~WorkerAlive
  /\ run.pc \in {"segment", "check", "navigate", "navigating"} \cup AfterGoal =>
       run.segment >= 1
  /\ run.pc = "qr" => run.attempt <= QrRetries

\* cancel() runs only for a service that has told the mission thread to stop, and a reset
\* goes on alone; the end of spin() is the end of the services, and the process ends after it.
ServiceFollows ==
  /\ ~At("operator", "idle") => service \in {"canceling", "joining"} /\ mission.stop_requested
  /\ service \in {"stop", "canceling", "shutdown"} => mission.stop_requested
  /\ service = "reset" => mission.resetting /\ mission.generation < MaxGenerations
  /\ node.spinning <=> service \notin {"shutdown", "joining"}
  /\ ~node.alive =>
       /\ service = "joining" /\ ~WorkerAlive /\ ~mission.resetting /\ response = "none"
       /\ \A t \in Threads : At(t, "idle")

\* A state, an answer or a step of the thread that promises rest keeps its promise, and a
\* goal begins only with the navigator free and nobody beyond the start of a cancel().
StillFollows ==
  /\ mission.state \in QuietMissionStates \/ mission.resetting \/ response = "mission stopped"
       => Released
  /\ run.pc \in AfterGoal \/ Succeeded => Released
  /\ run.pc \in BetweenGoals \/ Succeeded => mission.stop_requested \/ ~IsActive
  /\ run.pc = "navigate" => ~IsActive /\ thr["operator"].pc \in {"idle", "cancel"}

\* A cancel() that found a goal belongs to the goal in force until it is over.
CancelFollows == thr["operator"].pc \notin {"idle", "cancel"} => Newest("operator")

StopUnderWay == \E r \in requests : r.op = "stop"

\* Once the executor is gone and the main thread has sent its Stop, a lease in force has a
\* Stop on its way and no new one can be granted.
GateFollows ==
  /\ ~node.spinning /\ service = "joining" /\ thr["operator"].pc \notin {"cancel", "revoke"} =>
       /\ guard.gen \in granted => StopUnderWay
       /\ ~(At("worker", "preparing") /\ reply["worker"] = "ok")
  /\ ~node.alive =>
       /\ guard.phase = "Active" => guard.gen \in granted
       /\ \A r \in requests :
            /\ r.to = Nobody
            /\ r.op = "prepare" => r.gen \notin granted
            /\ r.op = "activate" => r.gen \in granted

\* All of the above: the inductive invariant of the mission.
MissionInvariant ==
  /\ MissionTypeOK /\ RunFollows /\ ServiceFollows /\ GateFollows
  /\ node.alive => NavigatorInvariant /\ StillFollows /\ CancelFollows

=============================================================================
