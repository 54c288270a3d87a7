------------------------------ MODULE Navigator ------------------------------
(***************************************************************************)
(* RosNavigator (navigation_runtime.py): one Nav2 goal at a time, each     *)
(* under a lease of the direction guard.  Three kinds of actors share its  *)
(* condition variable: the mission thread inside navigate(), the thread of *)
(* an operator inside cancel(), and the executor's threads that run the    *)
(* callbacks of the action client.  The mission thread calls cancel() too. *)
(*                                                                         *)
(* A region under the condition variable is one action; what a thread does *)
(* between two regions, and every wait, is a place where the others run.   *)
(* A wait with a deadline may end at any moment: no clock is kept.         *)
(*                                                                         *)
(* The guard and Nav2 are reached by messages: the guard is reduced to the *)
(* phase of its lease (DirectionGuard has the rest), Nav2 is external.  A  *)
(* lease is named by the navigator's generation, which no two goals share. *)
(***************************************************************************)
EXTENDS Integers, FiniteSets

CONSTANTS
  MaxGoals,     \* bound: calls of navigate()
  MaxCancels,   \* bound: calls of cancel() by the operator
  MaxLate,      \* bound: requests on the way to the guard that nobody waits for
  Faults        \* what may go wrong in a run

FaultKinds ==
  {"send",       \* send_goal_async raises
   "response",   \* the goal response arrives as an exception
   "result",     \* the result arrives as an exception
   "reject",     \* Nav2 refuses a goal
   "call",       \* a call of the guard times out, its request still on the way
   "revoke",     \* the guard gives up a lease by itself
   "deadline",   \* the goal, its response or its cancel takes too long
   "settle"}     \* /odom never shows the car at rest

ASSUME BoundAssumption ==
  MaxGoals \in Nat /\ MaxCancels \in Nat /\ MaxLate \in Nat /\ Faults \subseteq FaultKinds

Threads == {"worker", "operator"}
Goals == 1 .. MaxGoals
Nobody == "nobody"

VARIABLES
  nav,        \* the navigator's fields, by their names
  guard_call_lock,
  thr,        \* where each thread is, the generation it works for, what a call returned
  outcome,    \* what the last navigate() returned
  requests,   \* requests on the way to the guard
  reply,      \* what the guard answered to each thread
  guard,      \* the guard's phase and the generation of its lease
  granted,    \* the generations the navigator knows the guard granted a lease to
  server,     \* what Nav2 made of each goal
  due,        \* callbacks the action client still owes: <<kind, goal>>
  cancel_due, \* goals whose cancel request Nav2 has not handled
  cancels     \* calls of cancel() by the operator so far

linkVars == <<requests, reply, guard, granted>>
nav2Vars == <<server, due, cancel_due>>
vars == <<nav, guard_call_lock, thr, outcome, linkVars, nav2Vars, cancels>>

None == 0     \* no generation, _terminal_generation = None and its like

NoReply == "none"
Live(g) == server[g] \in {"sent", "executing", "canceling"}
Finished == {"succeeded", "aborted", "canceled"}

-----------------------------------------------------------------------------
(* The fields. *)

IdleFields ==
  [goal_generation |-> 0, operation_active |-> FALSE, navigate_attached |-> FALSE,
   cancel_requested |-> FALSE, goal_error |-> "none", cancel_error |-> FALSE,
   terminal_generation |-> None, guard_stop_attempted |-> None,
   guard_revoked |-> None, guard_stopped |-> None,
   goal_pending |-> FALSE, goal_handle |-> FALSE, cancel_sent |-> FALSE,
   poisoned |-> FALSE]

IsActive == nav.poisoned \/ nav.operation_active

Newest(t) == thr[t].gen = nav.goal_generation

\* _clear_operation_locked: the callback of an older goal clears nothing.
Cleared(g, poison) ==
  IF g # nav.goal_generation THEN nav
  ELSE [nav EXCEPT !.operation_active = FALSE, !.navigate_attached = FALSE,
                   !.goal_pending = FALSE, !.goal_handle = FALSE, !.cancel_sent = FALSE,
                   !.cancel_requested = FALSE, !.poisoned = poison]

Terminal(g) == nav.terminal_generation = g

-----------------------------------------------------------------------------
(* Moves of a thread. *)

AtRest ==
  [pc |-> "idle", gen |-> None, ok |-> FALSE, ret |-> "detach", after |-> "end", cleared |-> FALSE]

At(t, label) == thr[t].pc = label
Move(t, label) == thr' = [thr EXCEPT ![t].pc = label]

Settling(t, then) == thr' = [thr EXCEPT ![t].pc = "settleRevoke", ![t].ret = then]
Canceling(t, then) == thr' = [thr EXCEPT ![t].pc = "cancel", ![t].after = then]

\* _call of RosDirectionGuard: send, then wait for the answer at "label".
Call(t, op, label) ==
  /\ requests' = requests \cup {[op |-> op, gen |-> thr[t].gen, to |-> t]}
  /\ reply' = [reply EXCEPT ![t] = NoReply]
  /\ Move(t, label)

Answered(t) == reply[t] # NoReply

Waits == {"prepareStopping", "preparing", "activating", "renewing", "revoking", "settleRevoking"}

CallTimesOut(t) ==
  /\ "call" \in Faults
  /\ thr[t].pc \in Waits /\ reply[t] # "timeout"
  /\ Cardinality({r \in requests : r.to = Nobody}) < MaxLate
  /\ requests' = {r \in requests : r.to # t}
                   \cup {[r EXCEPT !.to = Nobody] : r \in {q \in requests : q.to = t}}
  /\ reply' = [reply EXCEPT ![t] = "timeout"]
  /\ UNCHANGED <<nav, guard_call_lock, thr, outcome, guard, granted, nav2Vars, cancels>>

Locked(t) == guard_call_lock = Nobody /\ guard_call_lock' = t
Unlocked == guard_call_lock' = Nobody

-----------------------------------------------------------------------------
(* The direction guard, as the navigator sees it. *)

Answer(r, status) ==
  /\ requests' = requests \ {r}
  /\ reply' = IF r.to = Nobody THEN reply ELSE [reply EXCEPT ![r.to] = status]

StopLease(r) ==
  /\ r.op = "stop"
  /\ guard' = [phase |-> "Stopped", gen |-> None]
  /\ Answer(r, "ok")

PrepareLease(r) ==
  /\ r.op = "prepare"
  /\ \/ /\ guard.phase = "Stopped"
        /\ guard' = [phase |-> "Prepared", gen |-> r.gen]
        /\ Answer(r, "ok")
     \/ /\ guard.phase = "Stopped"
        /\ Answer(r, "stop_barrier_not_ready") /\ UNCHANGED guard
     \/ /\ guard.phase # "Stopped"
        /\ Answer(r, "refused") /\ UNCHANGED guard

ActivateLease(r) ==
  /\ r.op = "activate"
  /\ IF guard = [phase |-> "Prepared", gen |-> r.gen]
       THEN guard' = [guard EXCEPT !.phase = "Active"] /\ Answer(r, "ok")
       ELSE Answer(r, "refused") /\ UNCHANGED guard

RenewLease(r) ==
  /\ r.op = "renew"
  /\ Answer(r, IF guard = [phase |-> "Active", gen |-> r.gen] THEN "ok" ELSE "refused")
  /\ UNCHANGED guard

GuardServes ==
  /\ \E r \in requests : StopLease(r) \/ PrepareLease(r) \/ ActivateLease(r) \/ RenewLease(r)
  /\ UNCHANGED <<nav, guard_call_lock, thr, outcome, granted, nav2Vars, cancels>>

\* An expired preparation, a stale candidate, a lost odometry.
GuardRevokes ==
  /\ "revoke" \in Faults
  /\ guard.gen # None
  /\ guard' = [phase |-> "Faulted", gen |-> None]
  /\ UNCHANGED <<nav, guard_call_lock, thr, outcome, requests, reply, granted, nav2Vars, cancels>>

-----------------------------------------------------------------------------
(* Nav2 and the callbacks of the action client. *)

Nav2Decides(g) ==
  /\ server[g] = "sent"
  /\ \/ server' = [server EXCEPT ![g] = "executing"]
     \/ "reject" \in Faults /\ server' = [server EXCEPT ![g] = "rejected"]
  /\ UNCHANGED <<nav, guard_call_lock, thr, outcome, linkVars, due, cancel_due, cancels>>

Nav2Finishes(g) ==
  /\ \/ server[g] = "executing" /\ \E end \in {"succeeded", "aborted"} :
                                      server' = [server EXCEPT ![g] = end]
     \/ server[g] = "canceling" /\ \E end \in Finished : server' = [server EXCEPT ![g] = end]
  /\ UNCHANGED <<nav, guard_call_lock, thr, outcome, linkVars, due, cancel_due, cancels>>

Nav2Cancels(g) ==
  /\ g \in cancel_due
  /\ cancel_due' = cancel_due \ {g}
  /\ IF server[g] = "executing"
       THEN /\ server' = [server EXCEPT ![g] = "canceling"]
            /\ due' = due \cup {<<"canceling", g>>}
       ELSE due' = due \cup {<<"cancelRefused", g>>} /\ UNCHANGED server
  /\ UNCHANGED <<nav, guard_call_lock, thr, outcome, linkVars, cancels>>

\* _request_cancel_locked, on the fields f.
MayCancel(f) == f.goal_handle /\ ~f.cancel_sent
WithCancel(f) == [f EXCEPT !.cancel_sent = @ \/ MayCancel(f)]
CancelsDue(f) == cancel_due \cup (IF MayCancel(f) THEN {f.goal_generation} ELSE {})

\* Mistake: the cancel overtakes the Stop.
CancelWantedAtOnce(f, g) == f.cancel_requested

\* A cancel that was waiting for the handle, of a goal whose lease was told to stop.
CancelWanted(f, g) == f.cancel_requested /\ f.guard_stop_attempted = g

OnGoalResponse(g) ==
  /\ <<"response", g>> \in due /\ server[g] # "sent"
  /\ IF g # nav.goal_generation
       THEN due' = due \ {<<"response", g>>} /\ UNCHANGED <<nav, cancel_due>>
       ELSE \/ /\ "response" \in Faults
               /\ nav' = [nav EXCEPT !.goal_pending = FALSE, !.poisoned = TRUE,
                                     !.goal_error = "response_error"]
               /\ due' = due \ {<<"response", g>>}
               /\ UNCHANGED cancel_due
            \/ /\ server[g] = "rejected"
               /\ nav' = [nav EXCEPT !.goal_pending = FALSE, !.goal_error = "rejected"]
               /\ due' = due \ {<<"response", g>>}
               /\ UNCHANGED cancel_due
            \/ /\ server[g] # "rejected"
               /\ LET f == [nav EXCEPT !.goal_pending = FALSE, !.goal_handle = TRUE]
                      wanted == CancelWanted(f, g)
                  IN /\ nav' = IF wanted THEN WithCancel(f) ELSE f
                     /\ cancel_due' = IF wanted THEN CancelsDue(f) ELSE cancel_due
               /\ due' = (due \ {<<"response", g>>}) \cup {<<"result", g>>}
  /\ UNCHANGED <<guard_call_lock, thr, outcome, linkVars, server, cancels>>

\* The answer to a cancel request; the code ignores it once the goal has ended.
OnCancelResponse(g) ==
  /\ \E kind \in {"canceling", "cancelRefused"} :
       /\ <<kind, g>> \in due
       /\ due' = due \ {<<kind, g>>}
       /\ nav' = IF g = nav.goal_generation /\ ~Terminal(g) /\ kind = "cancelRefused"
                   THEN [nav EXCEPT !.cancel_error = TRUE, !.poisoned = TRUE]
                   ELSE nav
  /\ UNCHANGED <<guard_call_lock, thr, outcome, linkVars, server, cancel_due, cancels>>

\* A result that finds the thread detached clears the goal only if the car was settled
\* before it came.
OnGoalResult(g) ==
  /\ <<"result", g>> \in due /\ server[g] \in Finished
  /\ due' = due \ {<<"result", g>>}
  /\ \/ g # nav.goal_generation /\ UNCHANGED nav
     \/ /\ g = nav.goal_generation /\ "result" \in Faults
        /\ nav' = [nav EXCEPT !.poisoned = TRUE, !.goal_error = "result_error"]
     \/ /\ g = nav.goal_generation
        /\ nav' = LET f == IF ~nav.navigate_attached /\ nav.guard_stopped = g
                             THEN Cleared(g, FALSE) ELSE nav
                  IN [f EXCEPT !.terminal_generation = g]
  /\ UNCHANGED <<guard_call_lock, thr, outcome, linkVars, server, cancel_due, cancels>>

-----------------------------------------------------------------------------
(* _revoke_motion and _settle_motion, for either thread. *)

Revoked(t) == nav.guard_revoked = thr[t].gen

\* Take the call lock; nothing is sent for an older goal or for a revoked one.
SendRevoke(t, label) ==
  /\ Locked(t) /\ Newest(t) /\ ~Revoked(t)
  /\ nav' = [nav EXCEPT !.guard_stop_attempted = thr[t].gen]
  /\ Call(t, "stop", label)
  /\ UNCHANGED <<guard, granted>>

\* Mistake: the lock is kept.
TakeRevokedKeepingLock(t) ==
  /\ Answered(t)
  /\ nav' = IF ~Newest(t) THEN nav
            ELSE IF reply[t] = "ok" THEN [nav EXCEPT !.guard_revoked = thr[t].gen]
            ELSE [nav EXCEPT !.poisoned = TRUE]
  /\ reply' = [reply EXCEPT ![t] = NoReply]
  /\ UNCHANGED <<guard_call_lock, requests, guard, granted>>

\* The answer to the Stop, with the lock still held.
TakeRevoked(t) ==
  /\ Answered(t) /\ Unlocked
  /\ nav' = IF ~Newest(t) THEN nav
            ELSE IF reply[t] = "ok" THEN [nav EXCEPT !.guard_revoked = thr[t].gen]
            ELSE [nav EXCEPT !.poisoned = TRUE]
  /\ reply' = [reply EXCEPT ![t] = NoReply]
  /\ UNCHANGED <<requests, guard, granted>>

Settled(t, ok) == [thr EXCEPT ![t].pc = thr[t].ret, ![t].ok = ok]

SettleRevoke(t) ==
  /\ At(t, "settleRevoke")
  /\ \/ SendRevoke(t, "settleRevoking")
     \/ /\ guard_call_lock = Nobody /\ (~Newest(t) \/ Revoked(t))
        /\ thr' = IF Newest(t) THEN [thr EXCEPT ![t].pc = "settleWait"] ELSE Settled(t, FALSE)
        /\ UNCHANGED <<nav, guard_call_lock, linkVars>>
  /\ UNCHANGED <<outcome, nav2Vars, cancels>>

SettleRevoking(t) ==
  /\ At(t, "settleRevoking") /\ TakeRevoked(t)
  /\ thr' = IF reply[t] = "ok" THEN [thr EXCEPT ![t].pc = "settleWait"] ELSE Settled(t, FALSE)
  /\ UNCHANGED <<outcome, nav2Vars, cancels>>

\* wait_stopped, then the generation check under the call lock.
SettleWait(t) ==
  /\ At(t, "settleWait")
  /\ \/ /\ guard_call_lock = Nobody
        /\ nav' = IF Newest(t) THEN [nav EXCEPT !.guard_stopped = thr[t].gen] ELSE nav
        /\ thr' = Settled(t, Newest(t))
     \/ /\ "settle" \in Faults
        /\ nav' = IF Newest(t) THEN [nav EXCEPT !.poisoned = TRUE] ELSE nav
        /\ thr' = Settled(t, FALSE)
  /\ UNCHANGED <<guard_call_lock, outcome, linkVars, nav2Vars, cancels>>

-----------------------------------------------------------------------------
(* cancel(), for either thread. *)

\* Where cancel() comes back: to the operator, to the loop, or to the end of a goal.
CancelReturned(t, ok) ==
  CASE thr[t].after = "operator" ->
         [thr EXCEPT ![t] = AtRest]
    [] thr[t].after = "loop" /\ ok ->
         [thr EXCEPT ![t] = [AtRest EXCEPT !.pc = "loop", !.gen = thr[t].gen]]
    [] thr[t].after \in {"end", "classify"} /\ ok ->
         [thr EXCEPT ![t].pc = "settleRevoke", ![t].ret = "consume"]
    [] OTHER -> [thr EXCEPT ![t].pc = "detach"]

CancelStart(t) ==
  /\ At(t, "cancel")
  /\ IF IsActive
       THEN /\ nav' = [nav EXCEPT !.cancel_requested = TRUE]
            /\ thr' = [thr EXCEPT ![t].pc = "revoke", ![t].gen = nav.goal_generation]
       ELSE thr' = CancelReturned(t, TRUE) /\ UNCHANGED nav
  /\ UNCHANGED <<guard_call_lock, outcome, linkVars, nav2Vars, cancels>>

\* What the revocation returns makes no difference to cancel().
CancelRevoke(t) ==
  /\ At(t, "revoke")
  /\ \/ SendRevoke(t, "revoking")
     \/ /\ guard_call_lock = Nobody /\ (~Newest(t) \/ Revoked(t))
        /\ Move(t, "awaitHandle")
        /\ UNCHANGED <<nav, guard_call_lock, linkVars>>
  /\ UNCHANGED <<outcome, nav2Vars, cancels>>

CancelRevoking(t) ==
  /\ At(t, "revoking") /\ TakeRevoked(t)
  /\ Move(t, "awaitHandle")
  /\ UNCHANGED <<outcome, nav2Vars, cancels>>

AwaitsHandle(t) ==
  Newest(t) /\ nav.operation_active /\ nav.goal_pending /\ ~nav.goal_handle

AwaitsTerminal(t) ==
  Newest(t) /\ nav.operation_active /\ ~Terminal(thr[t].gen)

\* Mistake: a cancel request on its way counts as the end of the goal.
VerdictOnRequest(t, f) ==
  /\ nav' = f
  /\ thr' = [thr EXCEPT ![t].pc = "settleRevoke", ![t].ret = "cancelSettled",
                        ![t].cleared = ~nav.operation_active]

\* What cancel() makes of the fields f when its wait is over.  The poison does not ask
\* whose goal it is now.
Verdict(t, f) ==
  LET terminal == Terminal(thr[t].gen)
      cleared  == ~nav.operation_active
  IN IF terminal \/ cleared
       THEN /\ nav' = f
            /\ thr' = [thr EXCEPT ![t].pc = "settleRevoke", ![t].ret = "cancelSettled",
                                  ![t].cleared = cleared]
       ELSE /\ nav' = [f EXCEPT !.poisoned = TRUE, !.cancel_error = TRUE]
            /\ thr' = CancelReturned(t, FALSE)

\* A deadline may pass in either wait; the request to cancel leaves between them.
CancelAwaitHandle(t) ==
  /\ At(t, "awaitHandle")
  /\ \/ /\ AwaitsHandle(t) /\ "deadline" \in Faults
        /\ Verdict(t, nav) /\ UNCHANGED cancel_due
     \/ /\ ~AwaitsHandle(t)
        /\ LET f == IF Newest(t) THEN WithCancel(nav) ELSE nav
           IN /\ cancel_due' = IF Newest(t) THEN CancelsDue(nav) ELSE cancel_due
              /\ IF AwaitsTerminal(t) THEN nav' = f /\ Move(t, "awaitTerminal") ELSE Verdict(t, f)
  /\ UNCHANGED <<guard_call_lock, outcome, linkVars, server, due, cancels>>

\* Mistake: the wait has no deadline.
CancelAwaitTerminalForever(t) ==
  /\ At(t, "awaitTerminal") /\ ~AwaitsTerminal(t)
  /\ Verdict(t, nav)
  /\ UNCHANGED <<guard_call_lock, outcome, linkVars, nav2Vars, cancels>>

CancelAwaitTerminal(t) ==
  /\ At(t, "awaitTerminal")
  /\ AwaitsTerminal(t) => "deadline" \in Faults
  /\ Verdict(t, nav)
  /\ UNCHANGED <<guard_call_lock, outcome, linkVars, nav2Vars, cancels>>

CancelSettled(t) ==
  /\ At(t, "cancelSettled")
  /\ nav' = IF thr[t].ok /\ thr[t].cleared THEN Cleared(thr[t].gen, FALSE) ELSE nav
  /\ thr' = CancelReturned(t, thr[t].ok)
  /\ UNCHANGED <<guard_call_lock, outcome, linkVars, nav2Vars, cancels>>

OperatorCancels ==
  /\ At("operator", "idle") /\ cancels < MaxCancels
  /\ cancels' = cancels + 1
  /\ Canceling("operator", "operator")
  /\ UNCHANGED <<nav, guard_call_lock, outcome, linkVars, nav2Vars>>

-----------------------------------------------------------------------------
(* navigate(), in the mission thread. *)

Me == thr["worker"].gen
Returned(result) == outcome' = result /\ thr' = [thr EXCEPT !["worker"] = AtRest]

\* cancel() is to be called, and a goal that ends in it is a failure however it ended.
GiveUp == Canceling("worker", "end")

\* The goal has a terminal result: stop the car, then report how it ended.
Consuming == thr' = [thr EXCEPT !["worker"].pc = "settleRevoke", !["worker"].ret = "consume",
                                !["worker"].after = "classify"]

NavigateRefused ==
  /\ At("worker", "idle") /\ IsActive
  /\ outcome' = "failed"
  /\ UNCHANGED <<nav, guard_call_lock, thr, linkVars, nav2Vars, cancels>>

NavigateBegins ==
  /\ At("worker", "idle") /\ ~IsActive /\ nav.goal_generation < MaxGoals
  /\ nav' = [nav EXCEPT
       !.goal_generation = @ + 1, !.operation_active = TRUE, !.navigate_attached = TRUE,
       !.cancel_requested = FALSE, !.goal_error = "none", !.cancel_error = FALSE,
       !.terminal_generation = None, !.guard_stop_attempted = None,
       !.guard_revoked = None, !.guard_stopped = None]
  /\ thr' = [thr EXCEPT !["worker"].pc = "prepare", !["worker"].gen = nav.goal_generation + 1]
  /\ outcome' = "none"
  /\ UNCHANGED <<guard_call_lock, linkVars, nav2Vars, cancels>>

\* prepare() of MotionDirectionProtocol, under the call lock from end to end: a Stop, then
\* Prepare, again and again while the guard is not ready.
PrepareStop ==
  /\ At("worker", "prepare") /\ Locked("worker")
  /\ Call("worker", "stop", "prepareStopping")
  /\ UNCHANGED <<nav, outcome, guard, granted, nav2Vars, cancels>>

PrepareStopped ==
  /\ At("worker", "prepareStopping") /\ Answered("worker")
  /\ IF reply["worker"] = "ok"
       THEN Call("worker", "prepare", "preparing") /\ UNCHANGED guard_call_lock
       ELSE /\ Move("worker", "prepareFailed") /\ Unlocked
            /\ reply' = [reply EXCEPT !["worker"] = NoReply]
            /\ UNCHANGED requests
  /\ UNCHANGED <<nav, outcome, guard, granted, nav2Vars, cancels>>

\* Mistake: a Stop before the Prepare still counts after it.
PreparedStillRevoked ==
  /\ At("worker", "preparing") /\ reply["worker"] = "ok"
  /\ granted' = granted \cup {Me}
  /\ reply' = [reply EXCEPT !["worker"] = NoReply]
  /\ Unlocked /\ Move("worker", "prepared")
  /\ UNCHANGED <<nav, outcome, requests, guard, nav2Vars, cancels>>

Prepared ==
  /\ At("worker", "preparing") /\ reply["worker"] = "ok"
  /\ nav' = [nav EXCEPT !.guard_revoked = None, !.guard_stopped = None]
  /\ granted' = granted \cup {Me}
  /\ reply' = [reply EXCEPT !["worker"] = NoReply]
  /\ Unlocked /\ Move("worker", "prepared")
  /\ UNCHANGED <<outcome, requests, guard, nav2Vars, cancels>>

PrepareRetried ==
  /\ At("worker", "preparing") /\ reply["worker"] = "stop_barrier_not_ready"
  /\ Call("worker", "prepare", "preparing")
  /\ UNCHANGED <<nav, guard_call_lock, outcome, guard, granted, nav2Vars, cancels>>

PrepareGivenUp ==
  /\ At("worker", "preparing") /\ Answered("worker") /\ reply["worker"] # "ok"
  /\ reply["worker"] = "stop_barrier_not_ready" => "deadline" \in Faults
  /\ Unlocked /\ Move("worker", "prepareFailed")
  /\ reply' = [reply EXCEPT !["worker"] = NoReply]
  /\ UNCHANGED <<nav, outcome, requests, guard, granted, nav2Vars, cancels>>

PrepareFailed ==
  /\ At("worker", "prepareFailed")
  /\ nav' = Cleared(Me, FALSE)
  /\ Returned("failed")
  /\ UNCHANGED <<guard_call_lock, linkVars, nav2Vars, cancels>>

CheckCanceled ==
  /\ At("worker", "prepared")
  /\ IF nav.cancel_requested THEN Settling("worker", "clearGoal") ELSE Move("worker", "send")
  /\ UNCHANGED <<nav, guard_call_lock, outcome, linkVars, nav2Vars, cancels>>

SendGoal ==
  /\ At("worker", "send")
  /\ \/ /\ nav' = [nav EXCEPT !.goal_pending = TRUE]
        /\ server' = [server EXCEPT ![Me] = "sent"]
        /\ due' = due \cup {<<"response", Me>>}
        /\ Move("worker", "awaitResponse")
     \/ /\ "send" \in Faults
        /\ Settling("worker", "clearGoal")
        /\ UNCHANGED <<nav, server, due>>
  /\ UNCHANGED <<guard_call_lock, outcome, linkVars, cancel_due, cancels>>

ResponseTimesOut ==
  /\ At("worker", "awaitResponse") /\ nav.goal_pending /\ "deadline" \in Faults
  /\ GiveUp
  /\ UNCHANGED <<nav, guard_call_lock, outcome, linkVars, nav2Vars, cancels>>

ResponseSeen ==
  /\ At("worker", "awaitResponse") /\ ~nav.goal_pending
  /\ \/ nav.goal_error = "rejected" /\ Settling("worker", "clearGoal")
     \/ nav.goal_error \in {"response_error", "result_error"} /\ nav.goal_handle /\ GiveUp
     \/ /\ nav.goal_error \in {"response_error", "result_error"} /\ ~nav.goal_handle
        /\ Settling("worker", "detach")
     \/ nav.goal_error = "none" /\ Move("worker", "accepted")
  /\ UNCHANGED <<nav, guard_call_lock, outcome, linkVars, nav2Vars, cancels>>

BeforeActivate ==
  /\ At("worker", "accepted")
  /\ \/ Terminal(Me) /\ Consuming
     \/ ~Terminal(Me) /\ nav.cancel_requested /\ Canceling("worker", "classify")
     \/ ~Terminal(Me) /\ ~nav.cancel_requested /\ Move("worker", "activate")
  /\ UNCHANGED <<nav, guard_call_lock, outcome, linkVars, nav2Vars, cancels>>

Activate ==
  /\ At("worker", "activate") /\ Locked("worker")
  /\ Call("worker", "activate", "activating")
  /\ UNCHANGED <<nav, outcome, guard, granted, nav2Vars, cancels>>

Activated ==
  /\ At("worker", "activating") /\ Answered("worker") /\ Unlocked
  /\ IF reply["worker"] = "ok"
       THEN Move("worker", "loop") /\ UNCHANGED nav
       ELSE GiveUp /\ nav' = [nav EXCEPT !.poisoned = TRUE]
  /\ reply' = [reply EXCEPT !["worker"] = NoReply]
  /\ UNCHANGED <<outcome, requests, guard, granted, nav2Vars, cancels>>

\* One turn of the loop beside a moving car: the first of these that holds.  Its deadline
\* is the navigation timeout, the last one is the renewal period.
Stuck == nav.cancel_error /\ nav.poisoned

LoopEnds ==
  /\ At("worker", "loop")
  /\ \/ Terminal(Me) /\ Consuming
     \/ ~Terminal(Me) /\ nav.goal_error # "none" /\ GiveUp
     \/ ~Terminal(Me) /\ nav.goal_error = "none" /\ Stuck /\ Settling("worker", "detach")
  /\ UNCHANGED <<nav, guard_call_lock, outcome, linkVars, nav2Vars, cancels>>

Turning == At("worker", "loop") /\ ~Terminal(Me) /\ nav.goal_error = "none" /\ ~Stuck

LoopTimesOut ==
  /\ Turning /\ "deadline" \in Faults
  /\ IF nav.cancel_requested THEN Canceling("worker", "loop") ELSE GiveUp
  /\ UNCHANGED <<nav, guard_call_lock, outcome, linkVars, nav2Vars, cancels>>

Renew ==
  /\ Turning /\ ~nav.cancel_requested /\ Locked("worker")
  /\ Call("worker", "renew", "renewing")
  /\ UNCHANGED <<nav, outcome, guard, granted, nav2Vars, cancels>>

\* A failed renewal is only logged.
Renewed ==
  /\ At("worker", "renewing") /\ Answered("worker") /\ Unlocked
  /\ reply' = [reply EXCEPT !["worker"] = NoReply]
  /\ Move("worker", "loop")
  /\ UNCHANGED <<nav, outcome, requests, guard, granted, nav2Vars, cancels>>

\* Mistake: success does not wait for the car to be stopped.
EndedWellUnsettled ==
  Terminal(Me) /\ thr["worker"].after = "classify" /\ server[Me] = "succeeded"

EndedWell ==
  /\ thr["worker"].ok /\ Terminal(Me) /\ thr["worker"].after = "classify"
  /\ server[Me] = "succeeded"

\* _consume_terminal once the car was told to stop.
Consume ==
  /\ At("worker", "consume")
  /\ nav' = IF Terminal(Me) THEN Cleared(Me, ~thr["worker"].ok) ELSE nav
  /\ Returned(IF EndedWell THEN "ok" ELSE "failed")
  /\ UNCHANGED <<guard_call_lock, linkVars, nav2Vars, cancels>>

\* A goal Nav2 never took: forgotten, unless the car could not be stopped.
ClearGoal ==
  /\ At("worker", "clearGoal")
  /\ nav' = Cleared(Me, ~thr["worker"].ok)
  /\ Returned("failed")
  /\ UNCHANGED <<guard_call_lock, linkVars, nav2Vars, cancels>>

\* Mistake: the goal is forgotten with the thread.
DetachForgetting ==
  /\ At("worker", "detach")
  /\ nav' = Cleared(Me, FALSE)
  /\ Returned("failed")
  /\ UNCHANGED <<guard_call_lock, linkVars, nav2Vars, cancels>>

\* Leave a goal behind whose end nobody has seen.
Detach ==
  /\ At("worker", "detach")
  /\ nav' = [nav EXCEPT !.navigate_attached = FALSE]
  /\ Returned("failed")
  /\ UNCHANGED <<guard_call_lock, linkVars, nav2Vars, cancels>>

-----------------------------------------------------------------------------

Init ==
  /\ nav = IdleFields
  /\ guard_call_lock = Nobody
  /\ thr = [t \in Threads |-> AtRest]
  /\ outcome = "none"
  /\ requests = {} /\ reply = [t \in Threads |-> NoReply]
  /\ guard = [phase |-> "Stopped", gen |-> None] /\ granted = {}
  /\ server = [g \in Goals |-> "none"] /\ due = {} /\ cancel_due = {}
  /\ cancels = 0

InCancel(t) ==
  \/ CancelStart(t) \/ CancelRevoke(t) \/ CancelRevoking(t) \/ CancelAwaitHandle(t)
  \/ CancelAwaitTerminal(t) \/ CancelSettled(t)
  \/ SettleRevoke(t) \/ SettleRevoking(t) \/ SettleWait(t)

InNavigate ==
  \/ PrepareStop \/ PrepareStopped \/ Prepared \/ PrepareRetried \/ PrepareGivenUp \/ PrepareFailed
  \/ CheckCanceled \/ SendGoal \/ ResponseTimesOut \/ ResponseSeen \/ BeforeActivate
  \/ Activate \/ Activated \/ LoopEnds \/ LoopTimesOut \/ Renew \/ Renewed
  \/ Consume \/ ClearGoal \/ Detach

Callbacks ==
  \E g \in Goals : OnGoalResponse(g) \/ OnCancelResponse(g) \/ OnGoalResult(g)

Nav2 == \E g \in Goals : Nav2Decides(g) \/ Nav2Finishes(g) \/ Nav2Cancels(g)

Running ==
  \/ InNavigate \/ \E t \in Threads : InCancel(t) \/ CallTimesOut(t)
  \/ Callbacks \/ Nav2 \/ GuardServes \/ GuardRevokes

Next == NavigateRefused \/ NavigateBegins \/ OperatorCancels \/ Running

Spec == Init /\ [][Next]_vars

-----------------------------------------------------------------------------
(* Properties. *)

Labels ==
  {"idle", "prepare", "prepareStopping", "preparing", "prepareFailed", "prepared", "send",
   "awaitResponse", "accepted", "activate", "activating", "loop", "renewing", "consume",
   "clearGoal", "detach", "cancel", "revoke", "revoking", "awaitHandle", "awaitTerminal",
   "cancelSettled", "settleRevoke", "settleRevoking", "settleWait"}

Generations == 0 .. MaxGoals
GoalErrors == {"none", "rejected", "response_error", "result_error"}

Fields ==
  [goal_generation : Generations, operation_active : BOOLEAN, navigate_attached : BOOLEAN,
   cancel_requested : BOOLEAN, goal_error : GoalErrors, cancel_error : BOOLEAN,
   terminal_generation : Generations, guard_stop_attempted : Generations,
   guard_revoked : Generations, guard_stopped : Generations, goal_pending : BOOLEAN,
   goal_handle : BOOLEAN, cancel_sent : BOOLEAN, poisoned : BOOLEAN]

ThreadStates ==
  [pc : Labels, gen : Generations, ok : BOOLEAN,
   ret : {"cancelSettled", "clearGoal", "detach", "consume"},
   after : {"operator", "loop", "end", "classify"}, cleared : BOOLEAN]

\* Every field of the navigator, every message under way and every thread has its type.
TypeOK ==
  /\ nav \in Fields
  /\ guard_call_lock \in Threads \cup {Nobody}
  /\ thr \in [Threads -> ThreadStates]
  /\ outcome \in {"none", "ok", "failed"}
  /\ requests \subseteq [op : {"stop", "prepare", "activate", "renew"}, gen : Generations,
                         to : Threads \cup {Nobody}]
  /\ reply \in [Threads -> {NoReply, "ok", "refused", "stop_barrier_not_ready", "timeout"}]
  /\ guard \in [phase : {"Stopped", "Prepared", "Active", "Faulted"}, gen : Generations]
  /\ granted \subseteq Goals
  /\ server \in [Goals -> {"none", "sent", "executing", "canceling", "rejected"} \cup Finished]
  /\ due \subseteq {"response", "result", "canceling", "cancelRefused"} \X Goals
  /\ cancel_due \subseteq Goals
  /\ cancels \in 0 .. MaxCancels

\* "One guarded Nav2 action at a time, with terminal proof" (navigation_runtime.py:536):
\* no second goal is ever sent while Nav2 still works on an earlier one, however the
\* earlier one was given up.
OneGoalAtATime == Cardinality({g \in Goals : Live(g)}) <= 1

\* A lease the guard granted is never forgotten: while the gate is open, or ready to be
\* opened, for a goal whose Prepare was answered, the navigator counts itself active, so
\* that neither a new mission nor a reset can start beside it.
NoLeaseForgotten ==
  guard.phase = "Active" \/ (guard.phase = "Prepared" /\ guard.gen \in granted) => IsActive

\* navigate() reports success only for a goal Nav2 finished, with the gate shut again by
\* an acknowledged Stop.
SuccessIsEarned ==
  [][outcome' = "ok" /\ outcome # "ok" =>
       /\ server[Me] = "succeeded"
       /\ nav.guard_revoked = Me /\ nav.guard_stopped = Me
       /\ guard.gen # Me /\ guard.phase # "Active"]_vars

\* "Revoke the lease, cancel the action" (CHANGELOG.md:349): Nav2 is asked to cancel a
\* goal only after the guard was asked to stop it, whichever thread or callback asks.
CancelFollowsRevoke == nav.cancel_sent => nav.guard_stop_attempted = nav.goal_generation

ConfirmedToOperator ==
  At("operator", "cancelSettled") /\ thr["operator"].ok /\ At("operator", "idle")'

\* When cancel() says TRUE to the operator, nothing is left that could drive: the goal it
\* found is not at work in Nav2 and the gate is not open for it.
CancelTrueMeansStopped ==
  [][ConfirmedToOperator =>
       /\ ~Live(thr["operator"].gen)
       /\ guard # [phase |-> "Active", gen |-> thr["operator"].gen]]_vars

\* When cancel() says TRUE and navigate() has come back, the navigator is free, as the
\* navigator of the mission tests is (test_mission.py:56-59).
CancelTrueMeansFree ==
  [][ConfirmedToOperator /\ At("worker", "idle") => ~IsActive']_vars

-----------------------------------------------------------------------------
(* What makes the properties above inductive, part by part. *)

CancelLabels ==
  {"cancel", "revoke", "revoking", "awaitHandle", "awaitTerminal", "cancelSettled"}
SettleLabels == {"settleRevoke", "settleRevoking", "settleWait"}
BeforeGrant == {"prepare", "prepareStopping", "preparing", "prepareFailed"}
NotTaken == {"none", "sent", "rejected"}
BeforeGoal == BeforeGrant \cup {"prepared", "send"}

\* The mission thread is attached to the goal in force for as long as it is in navigate();
\* an operator's thread is nowhere but in cancel() (navigation_runtime.py:36-59, 229-296).
ThreadsInPlace ==
  /\ \A t \in Threads : thr[t].gen <= nav.goal_generation
  /\ ~At("worker", "idle") =>
       Newest("worker") /\ nav.operation_active /\ nav.navigate_attached
  /\ thr["worker"].after # "operator" /\ ~thr["worker"].cleared
  /\ thr["operator"].pc \in {"idle"} \cup CancelLabels \cup SettleLabels
  /\ ~At("operator", "idle") => thr["operator"].after = "operator"
  /\ thr["operator"].pc \notin {"idle", "cancel"} => thr["operator"].gen \in Goals
  /\ thr["operator"].pc \in SettleLabels => thr["operator"].ret = "cancelSettled"

\* The call lock is held by the thread that waits for the guard, and by no other.
LockFollows == \A t \in Threads : guard_call_lock = t <=> thr[t].pc \in Waits

\* A request that somebody waits for is the one its thread has just made; one that nobody
\* waits for is a Prepare only of a lease that is never granted, and an Activate only of
\* one that was.
RequestsFollow ==
  /\ \A t \in Threads : reply[t] # NoReply => thr[t].pc \in Waits
  /\ \A r \in requests : r.to # Nobody =>
       /\ thr[r.to].pc \in Waits /\ reply[r.to] = NoReply /\ r.gen = thr[r.to].gen
       /\ r.op = "prepare" <=> At(r.to, "preparing")
       /\ r.op = "activate" <=> At(r.to, "activating")
       /\ r.op = "renew" <=> At(r.to, "renewing")
  /\ \A r \in requests : r.op = "prepare" =>
       /\ r.gen \notin granted /\ r.gen <= nav.goal_generation
       /\ r.gen = nav.goal_generation =>
            \/ At("worker", "idle") \/ At("worker", "prepareFailed")
            \/ At("worker", "preparing") /\ (r.to = "worker" \/ reply["worker"] = "timeout")
  /\ \A r \in requests : r.op = "activate" => r.gen \in granted

\* What is known of a goal agrees with what Nav2 made of it; only the goal in force can be
\* at work, and only while the operation is active.
GoalsFollow ==
  /\ IsActive => nav.goal_generation \in Goals
  /\ \A g \in Goals : server[g] # "none" => g <= nav.goal_generation /\ g \in granted
  /\ \A g \in Goals : Live(g) => g = nav.goal_generation /\ nav.operation_active
  /\ nav.terminal_generation # None =>
       /\ nav.terminal_generation = nav.goal_generation
       /\ server[nav.goal_generation] \in Finished
  /\ nav.goal_error = "rejected" =>
       nav.goal_generation \in Goals /\ server[nav.goal_generation] = "rejected"
  /\ nav.goal_pending \/ nav.goal_handle \/ nav.cancel_sent => nav.operation_active
  /\ thr["worker"].pc \in BeforeGoal =>
       server[nav.goal_generation] = "none" /\ nav.goal_error = "none"
  /\ At("worker", "clearGoal") \/ (thr["worker"].pc \in SettleLabels /\ thr["worker"].ret = "clearGoal")
       => server[nav.goal_generation] = "none" \/ nav.goal_error = "rejected"

\* The callbacks still owed are of the goal in force: its response, and after that its
\* result, each once.
CallbacksFollow ==
  \A g \in Goals :
    /\ <<"response", g>> \in due =>
         /\ g = nav.goal_generation /\ nav.operation_active /\ nav.goal_error = "none"
         /\ server[g] # "none" /\ ~Terminal(g) /\ <<"result", g>> \notin due
    /\ <<"result", g>> \in due =>
         /\ g = nav.goal_generation /\ nav.operation_active /\ ~Terminal(g)
         /\ server[g] \notin {"none", "sent", "rejected"}

\* A granted lease is in force only for the goal in force, of an active navigator.
LeasesFollow ==
  /\ \A g \in granted : g <= nav.goal_generation
  /\ ~At("worker", "idle") =>
       (thr["worker"].pc \in BeforeGrant <=> nav.goal_generation \notin granted)
  /\ guard.phase = "Active" => guard.gen \in granted
  /\ guard.gen \in granted => guard.gen = nav.goal_generation /\ IsActive

\* What the navigator remembers of its Stops is true: a lease it counts as revoked is not
\* in force, and one it has settled was revoked.
StopsFollow ==
  /\ nav.guard_revoked \in {None, nav.goal_generation}
  /\ nav.guard_stopped \in {None, nav.goal_generation}
  /\ nav.guard_revoked = nav.goal_generation =>
       /\ nav.guard_stop_attempted = nav.goal_generation
       /\ nav.goal_generation \in granted => guard.gen # nav.goal_generation
  /\ nav.guard_stopped = nav.goal_generation => nav.guard_revoked = nav.goal_generation

\* The same for a thread on its way from the Stop to its end.
StoppingFollows ==
  \A t \in Threads : Newest(t) =>
    /\ thr[t].pc \in {"revoking", "settleRevoking", "awaitHandle", "awaitTerminal"} =>
         nav.guard_stop_attempted = nav.goal_generation
    /\ thr[t].pc \in {"revoking", "settleRevoking"} /\ reply[t] = "ok"
         /\ nav.goal_generation \in granted => guard.gen # nav.goal_generation
    /\ At(t, "settleWait") => nav.guard_revoked = nav.goal_generation
    /\ thr[t].pc \in {"cancelSettled", "consume", "clearGoal"} /\ thr[t].ok =>
         nav.guard_stopped = nav.goal_generation

\* An operator's cancel() settles only a goal that has ended or was cleared.
SettlesWhatEnded ==
  thr["operator"].pc \in SettleLabels \cup {"cancelSettled"} /\ Newest("operator") =>
    /\ Terminal(nav.goal_generation) \/ ~nav.operation_active
    /\ thr["operator"].cleared => ~nav.operation_active

\* A handle, and a request to cancel, are of a goal that Nav2 took; a goal it took and the
\* navigator has cleared is one whose result was seen.
HandlesFollow ==
  /\ nav.goal_handle => server[nav.goal_generation] \notin NotTaken
  /\ \A g \in Goals :
       g \in cancel_due \/ <<"canceling", g>> \in due \/ <<"cancelRefused", g>> \in due =>
         server[g] \notin NotTaken
  /\ nav.goal_generation \in Goals /\ server[nav.goal_generation] \notin NotTaken =>
       nav.operation_active \/ Terminal(nav.goal_generation)

\* All of the above, the inductive invariant of the navigator.
NavigatorInvariant ==
  /\ TypeOK /\ ThreadsInPlace /\ LockFollows /\ RequestsFollow /\ GoalsFollow
  /\ CallbacksFollow /\ LeasesFollow /\ StopsFollow /\ StoppingFollows /\ SettlesWhatEnded
  /\ HandlesFollow /\ CancelFollowsRevoke

=============================================================================
