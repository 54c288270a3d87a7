------------------------------- MODULE SimTrial -------------------------------
(***************************************************************************)
(* Trials of parameters: sim_tune.sh builds them, launches a simulation    *)
(* for each run, waits for its results and has validate_sim_results.py     *)
(* judge them, while somebody tunes the same parameters (tune_params.py).  *)
(* A lock file keeps the two apart; a shell that dies leaves its           *)
(* simulation behind and its lock free.                                    *)
(***************************************************************************)
EXTENDS SimLaunch

CONSTANTS
  Params,          \* TUNABLE_PARAMS
  Values, Allowed, \* what may be typed or found in a backup, and what is allowed
  RequiredChecks,  \* REQUIRED_PERCEPTION_CHECKS
  MaxRuns,         \* bound: simulations launched
  MaxSaves         \* bound: saves of the tuner

ASSUME SimTrialAssumption == Allowed \subseteq Values /\ MaxRuns \in Nat /\ MaxSaves \in Nat

VARIABLES
  file,      \* nav2_params.yaml: the tunable values
  installed, \* the parameters of the last build
  lock,      \* the holder of the lock file, or Nobody
  tuner,     \* tune_params.py: [pc, data], and saves so far
  trial      \* sim_tune.sh

trialVars == <<file, installed, lock, tuner, trial>>
vars == <<simVars, trialVars>>

Nobody == "nobody"
NoData == [p \in Params |-> 0]

-----------------------------------------------------------------------------
(* tune_params.py *)

(* interactive, restore_params: the file is read before the lock is taken. *)
LoadParams ==
  /\ tuner.pc = "idle" /\ tuner.saves < MaxSaves
  /\ tuner' = [tuner EXCEPT !.pc = "editing", !.data = file]
  /\ UNCHANGED <<simVars, file, installed, lock, trial>>

(* _tuning_lock, without waiting. *)
MayLock == lock = Nobody

(* A value typed or found in a backup, refused when it is out of range; then
   save_params, under the lock and in one replacement, or refused. *)
SaveParams(p, value) ==
  /\ tuner.pc = "editing"
  /\ IF value \in Allowed /\ MayLock THEN file' = [tuner.data EXCEPT ![p] = value] ELSE UNCHANGED file
  /\ tuner' = [pc |-> "idle", saves |-> tuner.saves + 1, data |-> NoData]
  /\ UNCHANGED <<simVars, installed, lock, trial>>

-----------------------------------------------------------------------------
(* validate_sim_results.py *)

(* _tree_for *)
ExpectedTree(goalsOfSegment) ==
  LET terminal == Last(goalsOfSegment)
  IN IF Len(goalsOfSegment) > 1
     THEN <<"through", CASE terminal.task = "return" -> "return"
                         [] terminal.task # "return" /\ terminal.profile = "precise" -> "precise"
                         [] terminal.task # "return" /\ terminal.profile # "precise" ->
                              IF terminal.locked THEN "standard" ELSE "transit">>
     ELSE <<"pose", CASE terminal.profile = "precise" -> "precise"
                      [] terminal.profile # "precise" ->
                           IF terminal.locked THEN "standard" ELSE "transit">>

(* _validate_commands, and a path of the native planner. *)
DroveForward(seen) == {"forward", "plan"} \subseteq seen /\ "reverse" \notin seen

(* _validate_route against _expected_route *)
RouteMatches(route) == route = Segments

ResultFits(result, segment) ==
  /\ result.segment = segment.id
  /\ result.goals = [i \in DOMAIN segment.goals |-> segment.goals[i].id]
  /\ result.tree = ExpectedTree(segment.goals)
  /\ result.outcome = "succeeded" /\ DroveForward(result.seen)

PerceptionProven(status) ==
  status.ready /\ RequiredChecks \subseteq status.checks

(* validate *)
Accepts(r) ==
  /\ r.status = "completed" /\ RouteMatches(r.route) /\ Len(r.results) = Len(r.route)
  /\ \A k \in DOMAIN r.route : ResultFits(r.results[k], r.route[k])
  /\ PerceptionProven(r.perception)

-----------------------------------------------------------------------------
(* sim_tune.sh *)

Shell(pc) == trial.pc = pc

StartTrial ==
  /\ Shell("idle") /\ lock = Nobody /\ trial.runs < MaxRuns
  /\ lock' = "trial" /\ installed' = file
  /\ trial' = [trial EXCEPT !.pc = "prepare"]
  /\ UNCHANGED <<simVars, file, tuner>>

(* cleanup kills whatever simulation is there; the inputs are copied; a new one starts. *)
StartRun ==
  /\ Shell("prepare") /\ trial.runs < MaxRuns
  /\ trial' = [trial EXCEPT !.pc = "poll", !.runs = @ + 1, !.alive = TRUE,
                            !.snapshot = file, !.json = NoResults, !.verdict = "none"]
  /\ launch' = NewLaunch /\ proc' = [p \in Gates |-> "none"]
  /\ startup' = NewStartup /\ manager' = "idle"
  /\ lifecycle' = [n \in Nav2Nodes |-> "unconfigured"] /\ witnessed' = {}
  /\ trainer' = NewTrainer /\ goals' = [k \in DOMAIN Segments |-> "none"]
  /\ perception' = Unset /\ results' = NoResults
  /\ UNCHANGED <<file, installed, lock, tuner>>

(* Results are there, or the simulation has ended, or the time is over. *)
JudgeRun ==
  /\ Shell("poll")
  /\ trial' = [trial EXCEPT !.pc = "judged", !.json = results,
       !.verdict = IF results # NoResults /\ Accepts(results) THEN "accepted" ELSE "failed"]
  /\ UNCHANGED <<simVars, file, installed, lock, tuner>>

(* cleanup, then the next run of the loop. *)
EndRun ==
  /\ Shell("judged")
  /\ trial' = [trial EXCEPT !.pc = "prepare", !.alive = FALSE]
  /\ UNCHANGED <<simVars, file, installed, lock, tuner>>

(* The shell ends after its last run, or dies; only then may a simulation be left. *)
EndTrial ==
  /\ ~ Shell("idle") /\ lock' = Nobody /\ trial' = [trial EXCEPT !.pc = "idle"]
  /\ UNCHANGED <<simVars, file, installed, tuner>>

Init ==
  /\ SimInit /\ lock = Nobody
  /\ file = NoData /\ installed = file
  /\ tuner = [pc |-> "idle", data |-> NoData, saves |-> 0]
  /\ trial = [pc |-> "idle", runs |-> 0, alive |-> FALSE, snapshot |-> file,
              json |-> NoResults, verdict |-> "none"]

SimStep == trial.alive /\ SimNext /\ UNCHANGED trialVars

TunerStep == LoadParams \/ \E p \in Params, v \in Values : SaveParams(p, v)
ShellStep == StartTrial \/ StartRun \/ JudgeRun \/ EndRun \/ EndTrial

Next == SimStep \/ TunerStep \/ ShellStep

-----------------------------------------------------------------------------
(* Fairness: every process that runs goes on, deadlines included. *)

Alive(A) == trial.alive /\ A /\ UNCHANGED trialVars

Fairness ==
  /\ WF_vars(Alive(LaunchService))
  /\ WF_vars(Alive(HelperStep)) /\ SF_vars(Alive(StartupGivesUp))
  /\ WF_vars(Alive(ManagerStep))

Spec == Init /\ [][Next]_vars /\ Fairness

-----------------------------------------------------------------------------
(* Properties. *)

SendsGoal(k) == goals[k] = "none" /\ goals'[k] = "sent"

(* No goal of the route is sent unless the helper of this launch saw every Nav2 node
   active within one and the same probe, after both preflights succeeded, on the
   parameters of this launch, after the goal before it succeeded or, for the first, when
   the last word of this simulation's monitor was ready (the exit handlers of
   sim.launch.py, launch_nav2_once, _active_states, _wait_for_perception, run).
   Nothing looks at the nodes again after that probe: one may have left active when
   the goal is sent. *)
RouteStartsVerified ==
  [][\A k \in DOMAIN Segments : trial.alive /\ SendsGoal(k) =>
       /\ witnessed = Nav2Nodes
       /\ \A p \in {"sensor_preflight", "tf_preflight", "lifecycle_startup"} : proc[p] = "ok"
       /\ launch.static_tf /\ launch.params = "whole"
       /\ k = 1 => trainer.perception.ready
       /\ \A j \in 1 .. k - 1 : goals[j] = "succeeded"]_vars

(* The verdict on a run is right both ways.  A run is accepted only if Nav2
   succeeded at every segment, with the parameters the snapshot records, which
   nobody changed since the build, and a run that completed is refused only
   for what was seen of it (validate_sim_results.py, the lock of sim_tune.sh
   and tune_params.py). *)
VerdictIsRight ==
  /\ trial.pc = "judged" /\ trial.verdict = "accepted" =>
       /\ \A k \in DOMAIN Segments : goals[k] = "succeeded"
       /\ file = installed /\ trial.snapshot = installed
  /\ trial.pc = "judged" /\ trial.verdict = "failed" /\ trial.json # NoResults =>
       \/ trial.json.status # "completed"
       \/ ~ PerceptionProven(trial.json.perception)
       \/ \E r \in ToSet(trial.json.results) : ~ DroveForward(r.seen)

(* A bring-up that is left alone decides: Nav2 is verified or the whole launch
   goes down; no failed gate leaves a simulation that waits for ever. *)
BringUpDecides ==
  trial.pc = "poll" ~> launch.shutdown \/ proc["lifecycle_startup"] = "ok" \/ trial.pc # "poll"

(* What makes the first two inductive, with SimInvariant. *)
TrialTyped ==
  /\ trial.pc \in {"idle", "prepare", "poll", "judged"}
  /\ trial = [pc |-> trial.pc, runs |-> trial.runs, alive |-> trial.alive,
              snapshot |-> trial.snapshot, json |-> trial.json, verdict |-> trial.verdict]

(* While the trial goes on it holds the lock, and nobody changes the parameters. *)
LockFollows ==
  /\ trial.pc # "idle" => lock = "trial" /\ file = installed
  /\ trial.pc \in {"poll", "judged"} => trial.snapshot = installed

(* An accepted run is one whose results are still there, completed. *)
VerdictFollows ==
  trial.pc = "judged" /\ trial.verdict = "accepted" => results.status = "completed"

(* All of the above, the inductive invariant of the trials. *)
TrialInvariant == SimInvariant /\ TrialTyped /\ LockFollows /\ VerdictFollows /\ VerdictIsRight
=============================================================================
