---------------------------- MODULE StartupStatus ----------------------------
(***************************************************************************)
(* The startup observer (nav_status.py): a process that asks a starting    *)
(* stack for its lifecycle states and parameters, listens to its topics,   *)
(* and says once whether the car is ready.  With --prearm it then latches  *)
(* the software emergency stop and resets the origin of the task node.     *)
(*                                                                         *)
(* Every question is an asynchronous request: it may be served late or     *)
(* never, answered after it was given up and asked again, or served        *)
(* although nobody waits for it any more.  Of the stack, which SafetyNode  *)
(* and Mission model, there are only the answers it may give.              *)
(*                                                                         *)
(* The timer may be late: a tick comes at any time.  A finished future and *)
(* its callback are one event.  The camera's frames with their names and   *)
(* the age of a capture are one input, the three status topics one word;   *)
(* the voltage is an input, and so is every odometry.                      *)
(* It is called with --depth-camera, as the scripts do; a costmap that     *)
(* names another source than the depth scan is as good as one not read.    *)
(***************************************************************************)
EXTENDS Integers

CONSTANTS
  Nil,
  LifecycleNodes,       \* the nodes of Nav2 that must be active
  Scopes,               \* the costmaps
  Inputs,              \* what the safety node requires, and the depth scan
  FreshFor,             \* per input, the timeout the safety node runs with
  PollInterval, RpcTimeout, PrearmTimeout, StartupTimeout,
  MaxElapsed            \* bound: the model's time

VARIABLES
  elapsed,   \* the monotonic clock
  observer,  \* the process: what it knows, what it waits for, how far it is
  wire,      \* requests and answers under way
  stack      \* what the two prearm services have done

startupVars == <<elapsed, observer, wire, stack>>

Parameters == {"safety"} \cup Scopes
Polls == LifecycleNodes \cup Parameters
PrearmCalls == {"emergency_stop", "reset"}
Rpcs == Polls \cup PrearmCalls

ASSUME StartupAssumption ==
  /\ "depth_scan" \in Inputs
  /\ PollInterval \in Nat \ {0} /\ RpcTimeout \in Nat /\ PrearmTimeout \in Nat
  /\ StartupTimeout \in Nat /\ MaxElapsed \in Nat
  /\ FreshFor \in [Inputs -> Nat]
  /\ LifecycleNodes \cap Parameters = {} /\ Polls \cap PrearmCalls = {}
  /\ Nil \notin Nat \cup {"yes", "no"}

-----------------------------------------------------------------------------
(* Requests. *)

Outstanding(o, call) == o.pending[call] # Nil

TimedOut(o, call, timeout) == Outstanding(o, call) /\ elapsed - o.pending[call] >= timeout

\* Mistake: an answer counts whichever request it answers.
TakeAnyRpc(o, answer) == TRUE

\* An answer counts only for the request still current; requests differ in when they
\* were sent.
TakeCurrentRpc(o, answer) == o.pending[answer.call] = answer.sent

Request(call) == [call |-> call, sent |-> elapsed, served |-> Nil, value |-> Nil]

-----------------------------------------------------------------------------
(* Answers.  What is known of a poll is the answer and when it was served.  A "no"
   is also an answer that cannot be read: a node is not active, parameters are not
   set, a stop or a reset is refused. *)

Unknown == [value |-> Nil, served |-> Nil]

\* Only an active node, and a parameter once read, is never asked again.
Settled(o, call) == o.known[call].value = "yes"

\* A lifecycle answer replaces what was known.
Learned(o, answer) ==
  [o EXCEPT !.known[answer.call] = [value |-> answer.value, served |-> answer.served]]

PrearmFails(o) == [o EXCEPT !.failed = TRUE]

PrearmAnswered(o, answer) ==
  CASE answer.value # "yes" -> PrearmFails(o)
    [] answer.value = "yes" /\ answer.call = "emergency_stop" -> [o EXCEPT !.phase = "reset"]
    [] answer.value = "yes" /\ answer.call = "reset" -> [o EXCEPT !.phase = "complete"]

Stored(o, answer) ==
  LET popped == [o EXCEPT !.pending[answer.call] = Nil]
  IN IF answer.call \in LifecycleNodes THEN Learned(popped, answer)
                                       ELSE PrearmAnswered(popped, answer)

AnswerArrives(answer) ==
  /\ answer.served # Nil /\ observer.exit = Nil
  /\ wire' = wire \ {answer}
  /\ observer' = IF TakeCurrentRpc(observer, answer) THEN Stored(observer, answer) ELSE observer
  /\ UNCHANGED <<elapsed, stack>>

\* Parameters do not change, so that it does not matter when they were read; those that
\* are not set leave what is known.  An answer to an earlier request would change
\* nothing, and is left out.
ParametersArrive(target) ==
  /\ Outstanding(observer, target) /\ observer.exit = Nil
  /\ \E value \in {Nil, "yes"} :
       observer' = [observer EXCEPT !.pending[target] = Nil,
                                    !.known[target].value = IF value = Nil THEN @ ELSE value]
  /\ UNCHANGED <<elapsed, wire, stack>>

-----------------------------------------------------------------------------
(* Topics. *)

\* What was heard is asked only until the prearm sequence begins.
Listening == observer.exit = Nil /\ observer.phase \in {"disabled", "health"}

InputArrives(input) ==
  /\ Listening
  /\ observer' = [observer EXCEPT !.heard[input] = elapsed]
  /\ UNCHANGED <<elapsed, wire, stack>>

\* Whether the statuses last heard are: emergency_stop, stopped, IDLE.
StatusArrives(quiet) ==
  /\ Listening
  /\ observer' = [observer EXCEPT !.quiet = quiet]
  /\ UNCHANGED <<elapsed, wire, stack>>

\* A costmap counts only after a depth scan.
CostmapArrives(scope) ==
  /\ Listening
  /\ observer.heard["depth_scan"] # Nil
  /\ observer' = [observer EXCEPT !.costmaps = @ \cup {scope}]
  /\ UNCHANGED <<elapsed, wire, stack>>

-----------------------------------------------------------------------------
(* The tick. *)

InputFresh(o, input) == o.heard[input] # Nil /\ elapsed - o.heard[input] <= FreshFor[input]

SafetyInputMissing(o) ==
  ~ Settled(o, "safety") \/ \E input \in Inputs : ~ InputFresh(o, input)

\* "services" is what the client libraries see of the stack's services in this tick.
NothingMissing(o, services) ==
  /\ \A node \in LifecycleNodes : Settled(o, node)
  /\ o.quiet
  /\ services # "absent"
  /\ ~ SafetyInputMissing(o)
  /\ \A scope \in Scopes : scope \in o.costmaps /\ Settled(o, scope)

\* A poll asks what is not settled and not outstanding, and asks again what timed out.
Asked(o, services) ==
  {call \in Polls : /\ ~ Settled(o, call) /\ services = "ready"
                    /\ ~ Outstanding(o, call) \/ TimedOut(o, call, RpcTimeout)}

Polled(o, services) ==
  [o EXCEPT !.polled = elapsed,
            !.pending = [call \in Rpcs |->
              IF call \in Asked(o, services) THEN elapsed
              ELSE IF call \in Polls /\ TimedOut(o, call, RpcTimeout) THEN Nil
              ELSE o.pending[call]]]

PollIsDue == observer.polled = Nil \/ elapsed - observer.polled >= PollInterval

\* A reset that timed out may have reached the task node: it is never made again.
DiscardExpiredPrearm(o, call) == PrearmFails([o EXCEPT !.pending[call] = Nil])

\* The request is made, or could not be made, or the service is not there yet.
PrearmAsks(o, call, next, services) ==
  CASE services = "absent" -> o
    [] services = "broken" -> PrearmFails(o)
    [] services = "ready"  -> [o EXCEPT !.pending[call] = elapsed, !.phase = next]

PrearmWaits(o, call) ==
  IF TimedOut(o, call, PrearmTimeout) THEN DiscardExpiredPrearm(o, call) ELSE o

AdvancePrearm(o, services) ==
  CASE o.failed \/ o.phase = "complete" -> o
    [] o.phase = "health" /\ ~ o.failed -> PrearmAsks(o, "emergency_stop", "latching_stop", services)
    [] o.phase = "latching_stop" /\ ~ o.failed -> PrearmWaits(o, "emergency_stop")
    [] o.phase = "reset" /\ ~ o.failed -> PrearmAsks(o, "reset", "resetting_origin", services)
    [] o.phase = "resetting_origin" /\ ~ o.failed -> PrearmWaits(o, "reset")

\* Health is asked for only before the prearm sequence has begun.
Prearmed(o, services) ==
  IF o.phase = "disabled" \/ (o.phase = "health" /\ ~ NothingMissing(o, services))
    THEN o ELSE AdvancePrearm(o, services)

\* Mistake: a stack that is ready ends the wait, with --prearm or without.
VerdictOfHealth(o, services) ==
  CASE o.failed -> 1
    [] ~ o.failed /\ (o.phase = "complete" \/ NothingMissing(o, services)) -> 0
    [] OTHER -> IF elapsed >= StartupTimeout THEN 1 ELSE Nil

Verdict(o, services) ==
  CASE o.failed -> 1
    [] o.phase = "complete" /\ ~ o.failed -> 0
    [] o.phase = "disabled" /\ ~ o.failed /\ NothingMissing(o, services) -> 0
    [] OTHER -> IF elapsed >= StartupTimeout THEN 1 ELSE Nil

\* The requests that the tick has added to those outstanding.
Sent(o) == {Request(call) : call \in {c \in Rpcs \ Parameters :
                                         o.pending[c] = elapsed /\ observer.pending[c] # elapsed}}

OnTick(services) ==
  /\ observer.exit = Nil
  /\ LET polled == IF PollIsDue THEN Polled(observer, services) ELSE observer
         after == Prearmed(polled, services)
     IN /\ observer' = [after EXCEPT !.exit = Verdict(after, services)]
        /\ wire' = wire \cup Sent(after)
  /\ UNCHANGED <<elapsed, stack>>

\* The tick that finds the launch process gone looks at nothing else.
LaunchExited ==
  /\ observer.exit = Nil
  /\ observer' = [observer EXCEPT !.exit = 1]
  /\ UNCHANGED <<elapsed, wire, stack>>

-----------------------------------------------------------------------------
(* The stack. *)

\* A node may become active, or leave that state, at any time, parameters may not be
\* declared yet, a stop or a reset may be refused: any answer may be given.
Serve(request) ==
  /\ request.served = Nil
  /\ \E value \in {"yes", "no"} :
       /\ wire' = (wire \ {request}) \cup {[request EXCEPT !.served = elapsed, !.value = value]}
       /\ stack' = [stack EXCEPT
            !.latched = @ \/ (request.call = "emergency_stop" /\ value = "yes"),
            !.resets = IF request.call = "reset" THEN @ + 1 ELSE @]
  /\ UNCHANGED <<elapsed, observer>>

Elapse ==
  /\ elapsed < MaxElapsed /\ observer.exit = Nil
  /\ elapsed' = elapsed + 1
  /\ UNCHANGED <<observer, wire, stack>>

-----------------------------------------------------------------------------
ObserverInit(prearm) ==
  [known |-> [call \in Polls |-> Unknown], pending |-> [call \in Rpcs |-> Nil],
   polled |-> Nil, heard |-> [input \in Inputs |-> Nil], quiet |-> FALSE,
   costmaps |-> {}, phase |-> IF prearm THEN "health" ELSE "disabled",
   failed |-> FALSE, exit |-> Nil]

StartupInit ==
  /\ elapsed = 0 /\ wire = {}
  /\ \E prearm \in BOOLEAN : observer = ObserverInit(prearm)
  /\ stack = [latched |-> FALSE, resets |-> 0]

ObserverNext ==
  \/ \E answer \in wire : AnswerArrives(answer)
  \/ \E target \in Parameters : ParametersArrive(target)
  \/ \E input \in Inputs : InputArrives(input)
  \/ \E quiet \in BOOLEAN : StatusArrives(quiet)
  \/ \E scope \in Scopes : CostmapArrives(scope)
  \/ \E services \in {"absent", "broken", "ready"} : OnTick(services)
  \/ LaunchExited

StackNext ==
  \/ \E request \in wire : Serve(request)
  \/ Elapse

StartupNext == ObserverNext \/ StackNext

StartupSpec == StartupInit /\ [][StartupNext]_startupVars

-----------------------------------------------------------------------------
(* What the observer records of a node is never older than what it recorded
   before: requests time out and are repeated, and the answers to the first ones
   still come, in any order (nav_status.py:70-84). *)
KnowledgeMovesForward ==
  [][\A node \in LifecycleNodes :
       LET before == observer.known[node].served
           after == observer'.known[node].served
       IN before # Nil /\ after # Nil => after >= before]_startupVars

(* The origin is reset at most once, and only behind a stop that the safety node
   has latched for this process; a prearm that says it is ready has done both.
   (nav_status.py:641-746; a reset whose answer did not come may have been done.) *)
PrearmIsEarned ==
  /\ stack.resets <= 1
  /\ stack.resets = 1 => stack.latched
  /\ observer.exit = 0 /\ observer.phase # "disabled" => stack.latched /\ stack.resets = 1

(* What makes the two properties inductive, part by part. *)

Moments == Nat \cup {Nil}
Words == {"yes", "no", Nil}
Phases == {"disabled", "health", "latching_stop", "reset", "resetting_origin", "complete"}

StartupTyped ==
  /\ elapsed \in Nat
  /\ observer \in [known: [Polls -> [value: Words, served: Moments]], pending: [Rpcs -> Moments],
                  polled: Moments, heard: [Inputs -> Moments], quiet: BOOLEAN,
                  costmaps: SUBSET Scopes, phase: Phases, failed: BOOLEAN, exit: {Nil, 0, 1}]
  /\ wire \subseteq [call: LifecycleNodes \cup PrearmCalls, sent: Nat, served: Moments, value: Words]
  /\ stack \in [latched: BOOLEAN, resets: Nat]

\* A request is served after it was sent, and what is known of a node was served before
\* the request outstanding was sent.
MomentsFollow ==
  /\ \A r \in wire : r.sent <= elapsed
                    /\ (r.served # Nil => r.sent <= r.served /\ r.served <= elapsed)
  /\ \A node \in LifecycleNodes :
       LET served == observer.known[node].served
           sent == observer.pending[node]
       IN served # Nil => served <= elapsed /\ (sent # Nil => served <= sent)

\* A prearm request is outstanding in its own phase only; beyond the first the stop is
\* latched.
LatchingFollows ==
  /\ observer.pending["emergency_stop"] # Nil => observer.phase = "latching_stop"
  /\ observer.pending["reset"] # Nil => observer.phase = "resetting_origin"
  /\ \A r \in wire : r.call = "emergency_stop" /\ r.value = "yes" => stack.latched
  /\ observer.phase \in {"reset", "resetting_origin", "complete"} => stack.latched

\* There is at most one reset, under way or done, and none before the last phases.
Resets == {r \in wire : r.call = "reset"}
ResetFollows ==
  /\ Resets # {} \/ stack.resets # 0 => observer.phase \in {"resetting_origin", "complete"}
  /\ \A r, s \in Resets : r = s
  /\ \A r \in Resets : stack.resets = IF r.served = Nil THEN 0 ELSE 1
  /\ stack.resets <= 1
  /\ observer.phase = "complete" => stack.resets = 1
  /\ observer.exit = 0 => observer.phase \in {"disabled", "complete"}

\* All of the above, the inductive invariant of the observer.
StartupInvariant == StartupTyped /\ MomentsFollow /\ LatchingFollows /\ ResetFollows
=============================================================================
