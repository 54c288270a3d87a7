--------------------------- MODULE MissionProofs ---------------------------
(***************************************************************************)
(* The proofs of the mission's safety: MissionInvariant, the navigator's   *)
(* invariant among its parts, is inductive for any route, any number of    *)
(* missions, goals and cancels and any faults, and the properties of       *)
(* Mission follow from it.                                                 *)
(*                                                                         *)
(* First what the navigator's actors leave alone, which is all the mission *)
(* relies on; then what keeps the lease shut once a shutdown has revoked   *)
(* it; then one lemma per action of the mission, one step per part of the  *)
(* invariant; then the properties.                                         *)
(***************************************************************************)
EXTENDS Mission, NavigatorProofs, SequenceTheorems

\* Used everywhere: the small names of the navigator, and the sets of places.
USE DEF
  Threads, Nobody, NoReply, None, Live, Finished, IsActive, Newest, Terminal, At, Move,
  Me, linkVars, nav2Vars, Waits, CancelLabels, SettleLabels, BeforeGrant, BeforeGoal,
  NotTaken

-----------------------------------------------------------------------------
(* What each actor of the navigator leaves alone. *)

\* Without an executor a call, or a wait for the car to rest, goes like one whose time is up
\* (_call and wait_stopped, ros_adapters.py).
LEMMA UnheardStep ==
  ASSUME NavigatorInvariant, NEW t \in Threads, CallUnheard(t) \/ SettleUnseen(t)
  PROVE  NavigatorInvariant'
<1>1. CASE CallUnheard(t)
  <2>1. CallGivenUp(t)
    BY <1>1 DEF CallUnheard, Answered, CallGivenUp
  <2>2. QED
    BY <2>1, CallGivenUpStep
<1>2. CASE SettleUnseen(t)
  <2>1. MotionUnsettled(t)
    BY <1>2 DEF SettleUnseen, MotionUnsettled
  <2>2. QED
    BY <2>1, MotionUnsettledStep
<1>3. QED
  BY <1>1, <1>2

\* Where cancel() comes back to: never to a mission thread at rest, and to nobody else's place.
LEMMA CancelReturnsHome ==
  ASSUME NavigatorInvariant, NEW t \in Threads, NEW ok \in BOOLEAN, ~At(t, "idle"),
         thr' = CancelReturned(t, ok)
  PROVE  /\ \A u \in Threads : u # t => thr'[u] = thr[u]
         /\ thr'[t].gen = thr[t].gen \/ At(t, "idle")'
         /\ t = "operator" => At(t, "idle")'
         /\ t = "worker" => ~At(t, "idle")'
<1>1. CASE t = "operator"
  BY <1>1, Typing DEF NavigatorInvariant, ThreadsInPlace, CancelReturned, AtRest
<1>2. CASE t = "worker"
  <2>1. /\ thr["worker"].after \in {"loop", "end", "classify"}
        /\ DOMAIN thr = Threads
    BY <1>2, Typing DEF NavigatorInvariant, ThreadsInPlace, ThreadStates
  <2>2. \/ thr' = [thr EXCEPT !["worker"] = [AtRest EXCEPT !.pc = "loop", !.gen = thr["worker"].gen]]
        \/ thr' = [thr EXCEPT !["worker"].pc = "settleRevoke", !["worker"].ret = "consume"]
        \/ thr' = [thr EXCEPT !["worker"].pc = "detach"]
    BY <1>2, <2>1 DEF CancelReturned
  <2>3. QED
    BY <1>2, <2>2, Typing DEF AtRest, ThreadStates
<1>3. QED
  BY <1>1, <1>2

\* What a thread may do in cancel() and _settle_motion(): its own moves, no new operation,
\* nothing with the lease, and nothing at all if no goal is in force.
CancelKeeps(t) ==
  /\ ~At(t, "idle")
  /\ \A u \in Threads : u # t => thr'[u] = thr[u]
  /\ UNCHANGED <<outcome, guard, granted>>
  /\ nav'.goal_generation = nav.goal_generation
  /\ nav'.operation_active => nav.operation_active
  /\ t = "worker" => ~At(t, "idle")'
  /\ At(t, "cancel") => thr'[t].gen = nav.goal_generation \/ At(t, "idle")'
  /\ ~At(t, "cancel") => thr'[t].gen = thr[t].gen \/ At(t, "idle")'
  /\ At(t, "cancel") /\ ~IsActive /\ t = "operator" => nav' = nav /\ At(t, "idle")'

\* The verdict on a cancel, whichever it is.
LEMMA VerdictKeeps ==
  ASSUME NavigatorInvariant, NEW t \in Threads, ~At(t, "idle"), NEW f \in Fields, Verdict(t, f),
         f.goal_generation = nav.goal_generation, f.operation_active = nav.operation_active
  PROVE  /\ \A u \in Threads : u # t => thr'[u] = thr[u]
         /\ nav'.goal_generation = nav.goal_generation
         /\ nav'.operation_active = nav.operation_active
         /\ t = "worker" => ~At(t, "idle")'
         /\ thr'[t].gen = thr[t].gen \/ At(t, "idle")'
<1>1. CASE Terminal(thr[t].gen) \/ ~nav.operation_active
  <2>1. /\ nav' = f
        /\ thr' = [thr EXCEPT ![t].pc = "settleRevoke", ![t].ret = "cancelSettled",
                              ![t].cleared = ~nav.operation_active]
    BY <1>1 DEF Verdict
  <2>2. QED
    BY <2>1, Typing DEF ThreadStates
<1>2. CASE ~(Terminal(thr[t].gen) \/ ~nav.operation_active)
  <2>1. nav' = [f EXCEPT !.poisoned = TRUE, !.cancel_error = TRUE] /\ thr' = CancelReturned(t, FALSE)
    BY <1>2 DEF Verdict
  <2>2. nav'.goal_generation = nav.goal_generation /\ nav'.operation_active = nav.operation_active
    BY <2>1 DEF Fields
  <2>3. QED
    BY <2>1, <2>2, CancelReturnsHome
<1>3. QED
  BY <1>1, <1>2

\* The request to cancel that a thread sends changes neither.
LEMMA WithCancelKeeps ==
  /\ WithCancel(nav).goal_generation = nav.goal_generation
  /\ WithCancel(nav).operation_active = nav.operation_active
  BY DEF WithCancel

\* cancel() and _settle_motion() keep to themselves: CancelKeeps holds of each of their steps.
LEMMA CancelKeepsTheRest ==
  ASSUME NavigatorInvariant, NEW t \in Threads, InCancel(t) \/ CallUnheard(t) \/ SettleUnseen(t)
  PROVE  CancelKeeps(t)
<1>1. CASE CancelStart(t) /\ IsActive
  <2>1. /\ At(t, "cancel") /\ nav' = [nav EXCEPT !.cancel_requested = TRUE]
        /\ thr' = [thr EXCEPT ![t].pc = "revoke", ![t].gen = nav.goal_generation]
        /\ UNCHANGED <<outcome, guard, granted>>
    BY <1>1 DEF CancelStart
  <2>2. /\ nav'.goal_generation = nav.goal_generation
        /\ nav'.operation_active = nav.operation_active
    BY <2>1, Typing DEF Fields
  <2>3. /\ \A u \in Threads : u # t => thr'[u] = thr[u]
        /\ thr'[t].pc = "revoke" /\ thr'[t].gen = nav.goal_generation
    BY <2>1, Typing DEF ThreadStates
  <2>4. QED
    BY <1>1, <2>1, <2>2, <2>3 DEF CancelKeeps
<1>2. CASE CancelStart(t) /\ ~IsActive
  <2>1. /\ At(t, "cancel") /\ thr' = CancelReturned(t, TRUE) /\ nav' = nav
        /\ UNCHANGED <<outcome, guard, granted>>
    BY <1>2 DEF CancelStart
  <2>2. t = "operator"
    BY <1>2, <2>1 DEF NavigatorInvariant, ThreadsInPlace
  <2>3. QED
    BY <2>1, <2>2, CancelReturnsHome DEF CancelKeeps
<1>3. CASE CancelRevoke(t)
  BY <1>3, Typing DEF CancelRevoke, SendRevoke, Call, CancelKeeps, Fields, ThreadStates
<1>4. CASE CancelRevoking(t)
  BY <1>4, Typing DEF CancelRevoking, TakeRevoked, CancelKeeps, Fields, ThreadStates
<1>5. CASE CancelAwaitHandle(t)
  <2>1. At(t, "awaitHandle") /\ UNCHANGED <<outcome, guard, granted>>
    BY <1>5 DEF CancelAwaitHandle
  <2>2. CASE Move(t, "awaitTerminal") /\ (nav' = nav \/ nav' = WithCancel(nav))
    BY <2>1, <2>2, Typing, WithCancelKeeps DEF CancelKeeps, ThreadStates
  <2>3. CASE Verdict(t, nav) \/ Verdict(t, WithCancel(nav))
    <3>1. WithCancel(nav) \in Fields
      BY Typing, RequestsCancel DEF Fields
    <3>2. QED
      BY <2>1, <2>3, <3>1, Typing, WithCancelKeeps, VerdictKeeps DEF CancelKeeps
  <2>4. QED
    BY <1>5, <2>2, <2>3 DEF CancelAwaitHandle
<1>6. CASE CancelAwaitTerminal(t)
  <2>1. At(t, "awaitTerminal") /\ Verdict(t, nav) /\ UNCHANGED <<outcome, guard, granted>>
    BY <1>6 DEF CancelAwaitTerminal
  <2>2. QED
    BY <2>1, Typing, VerdictKeeps DEF CancelKeeps
<1>7. CASE CancelSettled(t)
  <2>1. /\ At(t, "cancelSettled") /\ thr' = CancelReturned(t, thr[t].ok)
        /\ UNCHANGED <<outcome, guard, granted>> /\ thr[t].ok \in BOOLEAN
    BY <1>7, Typing DEF CancelSettled, ThreadStates
  <2>2. /\ nav'.goal_generation = nav.goal_generation
        /\ nav'.operation_active => nav.operation_active
    BY <1>7, Typing DEF CancelSettled, Cleared, Fields
  <2>3. QED
    BY <2>1, <2>2, CancelReturnsHome DEF CancelKeeps
<1>8. CASE SettleRevoke(t)
  BY <1>8, Typing, ReturnLabels
  DEF SettleRevoke, SendRevoke, Call, Settled, CancelKeeps, Fields, ThreadStates
<1>9. CASE SettleRevoking(t)
  BY <1>9, Typing, ReturnLabels DEF SettleRevoking, TakeRevoked, Settled, CancelKeeps, Fields, ThreadStates
<1>10. CASE SettleWait(t)
  BY <1>10, Typing, ReturnLabels DEF SettleWait, Settled, CancelKeeps, Fields, ThreadStates
<1>11. CASE CallUnheard(t)
  BY <1>11 DEF CallUnheard, CancelKeeps
<1>12. CASE SettleUnseen(t)
  BY <1>12, Typing, ReturnLabels DEF SettleUnseen, Settled, CancelKeeps, Fields, ThreadStates
<1>13. QED
  BY <1>1, <1>2, <1>3, <1>4, <1>5, <1>6, <1>7, <1>8, <1>9, <1>10, <1>11, <1>12 DEF InCancel

\* What the mission thread does inside navigate(): it leaves the operator's thread and the
\* generation alone, and when it comes back with success nothing is left that could drive.
NavigateKeeps ==
  /\ ~At("worker", "idle")
  /\ thr'["operator"] = thr["operator"]
  /\ nav'.goal_generation = nav.goal_generation
  /\ At("worker", "idle")' /\ outcome' = "ok" => Released' /\ ~IsActive'

\* The moves that end neither the call nor the goal.
LEMMA MovesKeep ==
  ASSUME NavigatorInvariant, ~At("worker", "idle"), NEW l, l # "idle",
         \/ thr' = [thr EXCEPT !["worker"].pc = l]
         \/ \E r \in {"clearGoal", "detach", "consume"} :
              thr' = [thr EXCEPT !["worker"].pc = l, !["worker"].ret = r]
         \/ \E a \in {"end", "classify", "loop"} :
              thr' = [thr EXCEPT !["worker"].pc = l, !["worker"].after = a]
         \/ \E r \in {"clearGoal", "detach", "consume"}, a \in {"end", "classify", "loop"} :
              thr' = [thr EXCEPT !["worker"].pc = l, !["worker"].ret = r, !["worker"].after = a],
         nav'.goal_generation = nav.goal_generation
  PROVE  NavigateKeeps
<1>1. thr'["operator"] = thr["operator"] /\ thr'["worker"].pc = l
  BY Typing DEF ThreadStates
<1>2. QED
  BY <1>1 DEF NavigateKeeps

\* Success of _consume_terminal: the goal is cleared and its lease revoked.
LEMMA ConsumeReleases ==
  ASSUME NavigatorInvariant, Consume, outcome' = "ok"
  PROVE  Released' /\ ~IsActive'
<1>1. /\ EndedWell /\ At("worker", "consume") /\ nav' = Cleared(Me, ~thr["worker"].ok)
      /\ UNCHANGED <<guard, granted>>
  BY DEF Consume, Returned, EndedWell
<1>2. Me = nav.goal_generation /\ Me \in Goals /\ thr["worker"].ok
  BY <1>1 DEF NavigatorInvariant, ThreadsInPlace, GoalsFollow, EndedWell
<1>3. ~nav'.operation_active /\ ~nav'.poisoned
  BY <1>1, <1>2, Typing DEF Cleared, Fields
<1>4. nav.guard_revoked = nav.goal_generation
  BY <1>1, <1>2 DEF NavigatorInvariant, StoppingFollows, StopsFollow
<1>5. guard.gen \notin granted
  BY <1>4 DEF NavigatorInvariant, StopsFollow, LeasesFollow
<1>6. QED
  BY <1>1, <1>3, <1>5 DEF Released

\* navigate() keeps to itself: NavigateKeeps holds of each of its steps.
LEMMA InNavigateKeeps ==
  ASSUME NavigatorInvariant, InNavigate
  PROVE  NavigateKeeps
<1>1. CASE Consume
  <2>1. /\ ~At("worker", "idle") /\ thr' = [thr EXCEPT !["worker"] = AtRest]
        /\ nav'.goal_generation = nav.goal_generation
    BY <1>1, Typing DEF Consume, Returned, Cleared, Fields
  <2>2. QED
    BY <1>1, <2>1, Typing, ConsumeReleases DEF NavigateKeeps
<1>2. CASE PrepareFailed \/ ClearGoal \/ Detach
  <2>1. /\ ~At("worker", "idle") /\ thr' = [thr EXCEPT !["worker"] = AtRest] /\ outcome' = "failed"
        /\ nav'.goal_generation = nav.goal_generation
    BY <1>2, Typing DEF PrepareFailed, ClearGoal, Detach, Returned, Cleared, Fields
  <2>2. QED
    BY <2>1, Typing DEF NavigateKeeps
<1>3. CASE PrepareStop \/ PrepareStopped \/ Prepared \/ PrepareRetried \/ PrepareGivenUp
  BY <1>3, Typing, MovesKeep
  DEF PrepareStop, PrepareStopped, Prepared, PrepareRetried, PrepareGivenUp, Call, Fields
<1>4. CASE CheckCanceled \/ SendGoal \/ ResponseTimesOut \/ ResponseSeen \/ BeforeActivate
  BY <1>4, Typing, MovesKeep
  DEF CheckCanceled, SendGoal, ResponseTimesOut, ResponseSeen, BeforeActivate, Settling,
      GiveUp, Canceling, Consuming, Fields
<1>5. CASE Activate \/ Activated \/ LoopEnds \/ LoopTimesOut \/ Renew \/ Renewed
  BY <1>5, Typing, MovesKeep
  DEF Activate, Activated, LoopEnds, LoopTimesOut, Turning, Renew, Renewed, Call, Settling,
      GiveUp, Canceling, Consuming, Fields
<1>6. QED
  BY <1>1, <1>2, <1>3, <1>4, <1>5 DEF InNavigate

\* A callback leaves the threads and the lease alone, and activates nothing.
LEMMA CallbacksKeep ==
  ASSUME NavigatorInvariant, Callbacks
  PROVE  /\ UNCHANGED <<thr, outcome, guard, granted>>
         /\ nav'.goal_generation = nav.goal_generation
         /\ nav'.operation_active => nav.operation_active
         /\ ~IsActive => ~IsActive'
<1>1. ASSUME NEW g \in Goals, OnGoalResponse(g)
      PROVE  /\ UNCHANGED <<thr, outcome, guard, granted>>
             /\ nav'.goal_generation = nav.goal_generation
             /\ nav'.operation_active = nav.operation_active /\ IsActive
  <2>1. nav.operation_active
    BY <1>1, GoalResponseIs DEF NavigatorInvariant, CallbacksFollow
  <2>2. QED
    BY <1>1, <2>1, GoalResponseIs, Typing DEF Fields
<1>2. ASSUME NEW g \in Goals, OnCancelResponse(g)
      PROVE  /\ UNCHANGED <<thr, outcome, guard, granted>>
             /\ nav'.goal_generation = nav.goal_generation
             /\ nav'.operation_active = nav.operation_active
             /\ nav' # nav => IsActive
  <2>1. UNCHANGED <<thr, outcome, guard, granted>>
    BY <1>2 DEF OnCancelResponse
  <2>2. CASE nav' = nav
    BY <2>1, <2>2
  <2>3. CASE nav' # nav
    <3>1. /\ nav' = [nav EXCEPT !.cancel_error = TRUE, !.poisoned = TRUE]
          /\ g = nav.goal_generation /\ ~Terminal(g) /\ <<"cancelRefused", g>> \in due
      BY <1>2, <2>3 DEF OnCancelResponse
    <3>2. nav.operation_active
      BY <3>1 DEF NavigatorInvariant, HandlesFollow
    <3>3. QED
      BY <2>1, <3>1, <3>2, Typing DEF Fields
  <2>4. QED
    BY <2>2, <2>3
<1>3. ASSUME NEW g \in Goals, OnGoalResult(g)
      PROVE  /\ UNCHANGED <<thr, outcome, guard, granted>>
             /\ nav'.goal_generation = nav.goal_generation
             /\ nav'.operation_active => nav.operation_active
             /\ IsActive
  <2>1. nav.operation_active
    BY <1>3 DEF OnGoalResult, NavigatorInvariant, CallbacksFollow
  <2>2. QED
    BY <1>3, <2>1, Typing DEF OnGoalResult, Cleared, Fields
<1>4. QED
  BY <1>1, <1>2, <1>3 DEF Callbacks

\* Nav2 and the guard change nothing the navigator keeps, and the guard never comes to a
\* lease that was granted before.
LEMMA OutsideKeeps ==
  ASSUME TypeOK, \A r \in requests : r.op = "prepare" => r.gen \notin granted,
         Nav2 \/ GuardRevokes \/ GuardServes
  PROVE  /\ UNCHANGED <<nav, thr, outcome, granted>>
         /\ guard'.gen \in granted => guard.gen \in granted
<1>1. CASE Nav2
  BY <1>1 DEF Nav2, Nav2Decides, Nav2Finishes, Nav2Cancels
<1>2. 0 \notin granted
  BY GenerationsAre DEF TypeOK
<1>3. CASE GuardRevokes
  BY <1>2, <1>3 DEF GuardRevokes
<1>4. ASSUME NEW r \in requests, StopLease(r) \/ PrepareLease(r) \/ ActivateLease(r) \/ RenewLease(r)
      PROVE  guard'.gen \in granted => guard.gen \in granted
  BY <1>2, <1>4 DEF StopLease, PrepareLease, ActivateLease, RenewLease, Answer, TypeOK
<1>5. CASE GuardServes
  BY <1>4, <1>5 DEF GuardServes
<1>6. QED
  BY <1>1, <1>3, <1>5

-----------------------------------------------------------------------------
(* What the navigator's actors do to the promises of the mission. *)

\* What every one of them keeps of the other threads' view: whoever is at rest stays there,
\* a lease that is not in force does not come back, and nothing becomes active by itself.
Goes ==
  /\ At("worker", "idle") => At("worker", "idle")' /\ outcome' = outcome
  /\ At("operator", "idle") => At("operator", "idle")'
  /\ Released /\ At("worker", "idle") => Released'
  /\ At("worker", "idle") /\ thr["operator"].pc \in {"idle", "cancel"} /\ ~IsActive =>
       ~IsActive' /\ thr'["operator"].pc \in {"idle", "cancel"}
  /\ At("worker", "idle")' /\ outcome' = "ok" =>
       (At("worker", "idle") /\ outcome = "ok") \/ (Released' /\ ~IsActive')
  /\ CancelFollows => CancelFollows'

\* The mission thread inside navigate() (ros_adapters.py).
LEMMA NavigateGoes ==
  ASSUME NavigatorInvariant, InNavigate
  PROVE  Goes
<1>1. NavigateKeeps
  BY InNavigateKeeps
<1>2. CancelFollows => CancelFollows'
  BY <1>1 DEF NavigateKeeps, CancelFollows
<1>3. QED
  BY <1>1, <1>2 DEF NavigateKeeps, Goes

\* A thread inside cancel(), or one whose call nobody hears.
LEMMA CancelGoesOn ==
  ASSUME NavigatorInvariant, NEW t \in Threads, InCancel(t) \/ CallUnheard(t) \/ SettleUnseen(t)
  PROVE  Goes
<1>1. CancelKeeps(t)
  BY CancelKeepsTheRest
<1>2. CASE t = "worker"
  <2>1. /\ ~At("worker", "idle") /\ ~At("worker", "idle")' /\ thr'["operator"] = thr["operator"]
        /\ nav'.goal_generation = nav.goal_generation
    BY <1>1, <1>2 DEF CancelKeeps
  <2>2. QED
    BY <2>1 DEF Goes, CancelFollows
<1>3. CASE t = "operator"
  <2>1. /\ ~At("operator", "idle") /\ thr'["worker"] = thr["worker"]
        /\ UNCHANGED <<outcome, guard, granted>>
        /\ nav'.goal_generation = nav.goal_generation
        /\ nav'.operation_active => nav.operation_active
    BY <1>1, <1>3 DEF CancelKeeps
  <2>2. Released => Released'
    BY <2>1 DEF Released
  <2>3. thr["operator"].pc \in {"idle", "cancel"} /\ ~IsActive =>
          ~IsActive' /\ thr'["operator"].pc \in {"idle", "cancel"}
    BY <1>1, <1>3, <2>1 DEF CancelKeeps
  <2>4. CancelFollows => CancelFollows'
    BY <1>1, <1>3, <2>1 DEF CancelKeeps, CancelFollows
  <2>5. QED
    BY <2>1, <2>2, <2>3, <2>4 DEF Goes
<1>4. QED
  BY <1>2, <1>3

\* A call whose time is up is given up without touching the rest.
LEMMA CallGivenUpGoes ==
  ASSUME NEW t \in Threads, CallTimesOut(t)
  PROVE  Goes
<1>1. UNCHANGED <<nav, thr, outcome, guard, granted>>
  BY DEF CallTimesOut
<1>2. QED
  BY <1>1 DEF Goes, Released, CancelFollows

\* The callbacks of the action client.
LEMMA CallbacksGo ==
  ASSUME NavigatorInvariant, Callbacks
  PROVE  Goes
  BY CallbacksKeep DEF Goes, Released, CancelFollows

\* Nav2 and the guard.
LEMMA OutsideGoesOn ==
  ASSUME NavigatorInvariant, Nav2 \/ GuardRevokes \/ GuardServes
  PROVE  Goes
<1>1. /\ UNCHANGED <<nav, thr, outcome, granted>>
      /\ guard'.gen \in granted => guard.gen \in granted
  BY OutsideKeeps DEF NavigatorInvariant, RequestsFollow
<1>2. QED
  BY <1>1 DEF Goes, Released, CancelFollows

\* Nothing the navigator's actors do while the process lives breaks a promise of the
\* mission's.
LEMMA NavigatorGoesKeeps ==
  ASSUME MissionInvariant, node.alive, NavigatorGoes
  PROVE  /\ NavigatorInvariant' /\ MissionTypeOK'
         /\ RunFollows' /\ ServiceFollows' /\ StillFollows' /\ CancelFollows'
<1>1. NavigatorInvariant /\ MissionTypeOK /\ RunFollows /\ ServiceFollows /\ StillFollows /\ CancelFollows
  BY DEF MissionInvariant
<1>2. NavigatorInvariant' /\ Goes /\ UNCHANGED missionVars
  <2>1. CASE WorkerGoes
    BY <1>1, <2>1, InNavigateStep, NavigateGoes DEF WorkerGoes
  <2>2. ASSUME NEW t \in Threads, CancelGoes(t)
        PROVE  NavigatorInvariant' /\ Goes /\ UNCHANGED missionVars
    BY <1>1, <2>2, InCancelStep, UnheardStep, CancelGoesOn DEF CancelGoes
  <2>3. ASSUME NEW t \in Threads, CallGoes(t)
        PROVE  NavigatorInvariant' /\ Goes /\ UNCHANGED missionVars
    BY <1>1, <2>3, CallTimesOutStep, CallGivenUpGoes DEF CallGoes
  <2>4. CASE CallbackRuns
    BY <1>1, <2>4, GoalStep, CallbacksGo DEF CallbackRuns
  <2>5. CASE GuardGoes \/ OutsideGoes
    BY <1>1, <2>5, GuardServesStep, GuardRevokesStep, GoalStep, OutsideGoesOn DEF GuardGoes, OutsideGoes
  <2>6. QED
    BY <2>1, <2>2, <2>3, <2>4, <2>5 DEF NavigatorGoes
<1>3. UNCHANGED <<mission, run, status, service, response, node>>
  BY <1>2 DEF missionVars
<1>4. MissionTypeOK'
  BY <1>1, <1>2, <1>3 DEF MissionTypeOK, NavigatorInvariant
<1>5. RunFollows'
  BY <1>1, <1>2, <1>3 DEF RunFollows, Goes, WorkerAlive
<1>6. ServiceFollows'
  BY <1>1, <1>2, <1>3 DEF ServiceFollows, Goes, WorkerAlive
<1>7. StillFollows'
  <2>1. Released => At("worker", "idle")
    BY <1>1 DEF Released, NavigatorInvariant, ThreadsInPlace
  <2>2. run.pc \in BetweenGoals \cup {"navigate"} \/ Succeeded => At("worker", "idle")
    BY <1>1 DEF RunFollows, Succeeded, BetweenGoals, AfterGoal
  <2>3. Succeeded' => Succeeded \/ (Released' /\ ~IsActive')
    BY <1>2, <1>3 DEF Goes, Succeeded
  <2>4. mission.stop_requested \/ At("operator", "idle")
    BY <1>1 DEF ServiceFollows
  <2>5. Released => Released'
    BY <1>2, <2>1 DEF Goes
  <2>6. ~mission.stop_requested /\ At("worker", "idle") /\ ~IsActive => ~IsActive'
    BY <1>2, <2>4 DEF Goes
  <2>7. ASSUME mission'.state \in QuietMissionStates \/ mission'.resetting \/ response' = "mission stopped"
        PROVE  Released'
    BY <1>1, <1>3, <2>5, <2>7 DEF StillFollows
  <2>8. run'.pc \in AfterGoal \/ Succeeded' => Released'
    BY <1>1, <1>3, <2>3, <2>5 DEF StillFollows
  <2>9. run'.pc \in BetweenGoals \/ Succeeded' => mission'.stop_requested \/ ~IsActive'
    BY <1>1, <1>3, <2>2, <2>3, <2>6 DEF StillFollows
  <2>10. run'.pc = "navigate" => ~IsActive' /\ thr'["operator"].pc \in {"idle", "cancel"}
    BY <1>1, <1>2, <1>3, <2>2 DEF StillFollows, Goes
  <2>11. QED
    BY <2>7, <2>8, <2>9, <2>10 DEF StillFollows
<1>8. CancelFollows'
  BY <1>1, <1>2 DEF Goes
<1>9. QED
  BY <1>2, <1>4, <1>5, <1>6, <1>7, <1>8

-----------------------------------------------------------------------------
(* The gate after the end of the executor. *)

\* What keeps the gate shut once the main thread's Stop is on its way: no lease comes into
\* force, none is granted, and the Stop is answered before it is gone.
Shutting ==
  /\ guard.gen \in granted => StopUnderWay
  /\ ~(At("worker", "preparing") /\ reply["worker"] = "ok")

\* A request a thread gives up keeps its place on the way.
LEMMA StopsStayUnderWay ==
  ASSUME NEW t,
         \/ requests \subseteq requests'
         \/ requests' = {r \in requests : r.to # t}
              \cup {[r EXCEPT !.to = Nobody] : r \in {q \in requests : q.to = t}},
         requests \subseteq [op : {"stop", "prepare", "activate", "renew"}, gen : Generations,
                             to : Threads \cup {Nobody}],
         StopUnderWay
  PROVE  StopUnderWay'
<1>1. PICK r \in requests : r.op = "stop"
  BY DEF StopUnderWay
<1>2. CASE requests \subseteq requests'
  BY <1>1, <1>2 DEF StopUnderWay
<1>3. CASE requests' = {q \in requests : q.to # t}
             \cup {[q EXCEPT !.to = Nobody] : q \in {p \in requests : p.to = t}}
  <2>1. CASE r.to # t
    BY <1>1, <1>3, <2>1 DEF StopUnderWay
  <2>2. CASE r.to = t
    <3>1. [r EXCEPT !.to = Nobody] \in requests' /\ [r EXCEPT !.to = Nobody].op = "stop"
      BY <1>1, <1>3, <2>2
    <3>2. QED
      BY <3>1 DEF StopUnderWay
  <2>3. QED
    BY <2>1, <2>2
<1>4. QED
  BY <1>2, <1>3

\* The mission thread inside navigate() takes no request back, and a lease it records as
\* granted is one whose Prepare was answered.
LEMMA NavigateShuts ==
  ASSUME NavigatorInvariant, InNavigate, Shutting
  PROVE  Shutting'
<1>1. /\ guard' = guard /\ requests \subseteq requests'
      /\ granted' = granted
      /\ At("worker", "preparing")' => reply'["worker"] # "ok"
  <2>1. CASE PrepareStop \/ PrepareStopped \/ PrepareRetried \/ PrepareGivenUp
    BY <2>1, Typing DEF PrepareStop, PrepareStopped, PrepareRetried, PrepareGivenUp, Call,
       NavigatorInvariant, TypeOK, ThreadStates
  <2>2. ~Prepared
    BY DEF Prepared, Shutting
  <2>3. CASE CheckCanceled \/ SendGoal \/ ResponseTimesOut \/ ResponseSeen
    BY <2>3, Typing DEF CheckCanceled, SendGoal, ResponseTimesOut, ResponseSeen,
       Settling, GiveUp, Canceling, ThreadStates
  <2>4. CASE BeforeActivate \/ Activate \/ Activated \/ LoopEnds \/ LoopTimesOut
    BY <2>4, Typing DEF BeforeActivate, Activate, Activated, LoopEnds, LoopTimesOut, Turning,
       Call, Settling, GiveUp, Canceling, Consuming, ThreadStates
  <2>5. CASE Renew \/ Renewed
    BY <2>5, Typing DEF Renew, Turning, Renewed, Call, ThreadStates
  <2>6. CASE PrepareFailed \/ Consume \/ ClearGoal \/ Detach
    <3>1. /\ thr' = [thr EXCEPT !["worker"] = AtRest]
          /\ UNCHANGED <<requests, reply, guard, granted>>
      BY <2>6 DEF PrepareFailed, Consume, ClearGoal, Detach, Returned
    <3>2. At("worker", "idle")'
      BY <3>1, Typing DEF AtRest
    <3>3. QED
      BY <3>1, <3>2
  <2>7. QED
    BY <2>1, <2>2, <2>3, <2>4, <2>5, <2>6 DEF InNavigate
<1>2. StopUnderWay => StopUnderWay'
  BY <1>1 DEF StopUnderWay
<1>3. QED
  BY <1>1, <1>2 DEF Shutting

\* Nor does a thread in cancel(), which never waits for a Prepare.
CancelShuts(t) ==
  /\ UNCHANGED <<guard, granted>>
  /\ \A u \in Threads : u # t => reply'[u] = reply[u] /\ thr'[u] = thr[u]
  /\ StopUnderWay => StopUnderWay'
  /\ At(t, "preparing")' => reply'[t] # "ok"

\* A thread inside cancel() shuts the lease as CancelShuts says, heard or not.
LEMMA CancelKeepsShutting ==
  ASSUME NavigatorInvariant, NEW t \in Threads, InCancel(t) \/ CallUnheard(t) \/ SettleUnseen(t)
  PROVE  CancelShuts(t)
<1>1. /\ UNCHANGED <<guard, granted>>
      /\ \A u \in Threads : u # t => thr'[u] = thr[u]
  BY CancelKeepsTheRest DEF CancelKeeps
<1>2. /\ \A u \in Threads : u # t => reply'[u] = reply[u]
      /\ StopUnderWay => StopUnderWay'
  <2>1. CASE CallUnheard(t)
    <3>1. StopUnderWay => StopUnderWay'
      BY <2>1, StopsStayUnderWay DEF CallUnheard, NavigatorInvariant, TypeOK
    <3>2. QED
      BY <2>1, <3>1 DEF CallUnheard, NavigatorInvariant, TypeOK
  <2>2. CASE InCancel(t) \/ SettleUnseen(t)
    <3>1. requests \subseteq requests' /\ \A u \in Threads : u # t => reply'[u] = reply[u]
      BY <2>2 DEF InCancel, SettleUnseen, CancelStart, CancelRevoke, CancelRevoking,
         CancelAwaitHandle, CancelAwaitTerminal, CancelSettled, SettleRevoke, SettleRevoking,
         SettleWait, SendRevoke, Call, TakeRevoked, NavigatorInvariant, TypeOK
    <3>2. QED
      BY <3>1 DEF StopUnderWay
  <2>3. QED
    BY <2>1, <2>2
<1>3. At(t, "preparing")' => reply'[t] # "ok"
  <2>1. CASE CallUnheard(t)
    BY <2>1 DEF CallUnheard, NavigatorInvariant, TypeOK
  <2>2. CASE SettleUnseen(t)
    BY <2>2, Typing, ReturnLabels DEF SettleUnseen, Settled, ThreadStates
  <2>3. CASE InCancel(t)
    <3>1. NavigatorInvariant'
      BY <2>3, InCancelStep
    <3>2. reply'[t] = NoReply \/ thr'[t].pc \in Waits
      BY <3>1 DEF NavigatorInvariant, RequestsFollow
    <3>3. thr[t].pc \in CancelLabels \cup SettleLabels
      BY <2>3 DEF InCancel, CancelStart, CancelRevoke, CancelRevoking, CancelAwaitHandle,
         CancelAwaitTerminal, CancelSettled, SettleRevoke, SettleRevoking, SettleWait
    <3>4. ~At(t, "preparing")'
      <4>1. CASE CancelStart(t) \/ CancelAwaitHandle(t) \/ CancelAwaitTerminal(t) \/ CancelSettled(t)
        <5>1. thr[t].pc \notin Waits /\ UNCHANGED <<guard_call_lock>>
          BY <4>1 DEF CancelStart, CancelAwaitHandle, CancelAwaitTerminal, CancelSettled
        <5>2. QED
          BY <3>1, <5>1 DEF NavigatorInvariant, LockFollows
      <4>2. CASE CancelRevoke(t) \/ CancelRevoking(t)
        BY <4>2, Typing DEF CancelRevoke, CancelRevoking, SendRevoke, Call, ThreadStates
      <4>3. CASE SettleRevoke(t) \/ SettleRevoking(t) \/ SettleWait(t)
        BY <4>3, Typing, ReturnLabels
        DEF SettleRevoke, SettleRevoking, SettleWait, Settled, SendRevoke, Call, ThreadStates
      <4>4. QED
        BY <2>3, <4>1, <4>2, <4>3 DEF InCancel
    <3>5. QED
      BY <3>4
  <2>4. QED
    BY <2>1, <2>2, <2>3
<1>4. QED
  BY <1>1, <1>2, <1>3 DEF CancelShuts

\* The first step of the main thread's cancel() that counts: nothing was in force, or the
\* Stop is sent, or the lease was revoked before.
LEMMA CancelBeginsShutting ==
  ASSUME NavigatorInvariant, CancelFollows, thr["operator"].pc \in {"cancel", "revoke"},
         InCancel("operator"), thr'["operator"].pc \notin {"cancel", "revoke"}
  PROVE  Shutting'
<1>1. CASE CancelStart("operator")
  <2>1. ~IsActive /\ UNCHANGED <<guard, granted>> /\ thr'["worker"] = thr["worker"]
    BY <1>1, Typing, CancelKeepsTheRest DEF CancelStart, ThreadStates, CancelKeeps, InCancel
  <2>2. guard.gen \notin granted /\ At("worker", "idle")
    BY <2>1 DEF NavigatorInvariant, LeasesFollow, ThreadsInPlace
  <2>3. QED
    BY <2>1, <2>2 DEF Shutting
<1>2. CASE CancelRevoke("operator")
  <2>0. CancelKeeps("operator")
    BY CancelKeepsTheRest
  <2>1. /\ guard_call_lock = Nobody /\ thr'["worker"] = thr["worker"]
        /\ UNCHANGED <<guard, granted>>
    BY <1>2, <2>0 DEF CancelRevoke, SendRevoke, Locked, CancelKeeps
  <2>2. ~At("worker", "preparing")
    BY <2>1 DEF NavigatorInvariant, LockFollows
  <2>3. Newest("operator")
    BY <1>2 DEF CancelFollows, CancelRevoke
  <2>4. CASE SendRevoke("operator", "revoking")
    <3>1. [op |-> "stop", gen |-> thr["operator"].gen, to |-> "operator"] \in requests'
      BY <2>4 DEF SendRevoke, Call
    <3>2. StopUnderWay'
      BY <3>1 DEF StopUnderWay
    <3>3. QED
      BY <2>1, <2>2, <3>2 DEF Shutting
  <2>5. CASE Revoked("operator")
    BY <2>1, <2>2, <2>3, <2>5 DEF Revoked, NavigatorInvariant, LeasesFollow, StopsFollow, Shutting
  <2>6. QED
    BY <1>2, <2>3, <2>4, <2>5 DEF CancelRevoke
<1>3. QED
  BY <1>1, <1>2 DEF InCancel, CancelRevoking, CancelAwaitHandle, CancelAwaitTerminal,
     CancelSettled, SettleRevoke, SettleRevoking, SettleWait

\* What the guard and Nav2 do when nobody hears an answer any more.
LEMMA OutsideShuts ==
  ASSUME TypeOK, \A r \in requests : r.op = "prepare" => r.gen \notin granted, Shutting,
         Nav2 \/ GuardRevokes \/ (GuardServes /\ \A r \in requests : r.to = Nobody)
  PROVE  Shutting'
<1>1. /\ UNCHANGED <<nav, thr, outcome, granted>>
      /\ guard'.gen \in granted => guard.gen \in granted
  BY OutsideKeeps
<1>2. 0 \notin granted
  BY GenerationsAre DEF TypeOK
<1>3. CASE Nav2
  BY <1>3 DEF Nav2, Nav2Decides, Nav2Finishes, Nav2Cancels, Shutting, StopUnderWay
<1>4. CASE GuardRevokes
  BY <1>2, <1>4 DEF GuardRevokes, Shutting
<1>5. CASE GuardServes /\ \A r \in requests : r.to = Nobody
  <2>1. PICK r \in requests : StopLease(r) \/ PrepareLease(r) \/ ActivateLease(r) \/ RenewLease(r)
    BY <1>5 DEF GuardServes
  <2>2. reply' = reply /\ requests' = requests \ {r}
    BY <1>5, <2>1 DEF StopLease, PrepareLease, ActivateLease, RenewLease, Answer
  <2>3. CASE r.op = "stop"
    BY <1>1, <1>2, <2>1, <2>2, <2>3
    DEF StopLease, PrepareLease, ActivateLease, RenewLease, Shutting
  <2>4. CASE r.op # "stop"
    BY <1>1, <2>2, <2>4 DEF Shutting, StopUnderWay
  <2>5. QED
    BY <2>3, <2>4
<1>6. QED
  BY <1>3, <1>4, <1>5

\* A dead navigator says nothing, and what it sent is served.
LEMMA OutsideTyped ==
  ASSUME TypeOK, \A r \in requests : r.to = Nobody, Nav2 \/ GuardRevokes \/ GuardServes
  PROVE  TypeOK' /\ \A r \in requests' : r \in requests
<1>1. CASE Nav2
  <2>1. \A g \in Goals, s \in {"executing", "canceling", "rejected"} \cup Finished :
          [server EXCEPT ![g] = s] \in
            [Goals -> {"none", "sent", "executing", "canceling", "rejected"} \cup Finished]
    BY DEF TypeOK
  <2>2. ASSUME NEW g \in Goals, Nav2Decides(g) PROVE TypeOK' /\ requests' = requests
    BY <2>1, <2>2 DEF TypeOK, Nav2Decides
  <2>3. ASSUME NEW g \in Goals, Nav2Finishes(g) PROVE TypeOK' /\ requests' = requests
    BY <2>1, <2>3 DEF TypeOK, Nav2Finishes
  <2>4. ASSUME NEW g \in Goals, Nav2Cancels(g) PROVE TypeOK' /\ requests' = requests
    BY <2>1, <2>4 DEF TypeOK, Nav2Cancels
  <2>5. QED
    BY <1>1, <2>2, <2>3, <2>4 DEF Nav2
<1>2. CASE GuardRevokes
  BY <1>2, GenerationsAre DEF TypeOK, GuardRevokes
<1>3. CASE GuardServes
  <2>1. PICK r \in requests : StopLease(r) \/ PrepareLease(r) \/ ActivateLease(r) \/ RenewLease(r)
    BY <1>3 DEF GuardServes
  <2>2. reply' = reply /\ requests' = requests \ {r}
    BY <2>1 DEF StopLease, PrepareLease, ActivateLease, RenewLease, Answer
  <2>3. guard' \in [phase : {"Stopped", "Prepared", "Active", "Faulted"}, gen : Generations]
    BY <2>1, GenerationsAre
    DEF TypeOK, StopLease, PrepareLease, ActivateLease, RenewLease
  <2>4. QED
    BY <1>3, <2>2, <2>3 DEF TypeOK, GuardServes
<1>4. QED
  BY <1>1, <1>2, <1>3

\* The navigator's actors keep the gate shut, and a dead process leaves it shut.
LEMMA NavigatorGoesShuts ==
  ASSUME MissionInvariant, NavigatorGoes
  PROVE  GateFollows'
<1> DEFINE Told == ~node.spinning /\ service = "joining" /\ thr["operator"].pc \notin {"cancel", "revoke"}
<1>1. /\ MissionTypeOK /\ ServiceFollows /\ GateFollows
      /\ node.alive => NavigatorInvariant /\ CancelFollows
      /\ Told => Shutting
  BY DEF MissionInvariant, GateFollows, Shutting
<1>2. UNCHANGED <<mission, run, status, service, response, node>>
  BY DEF NavigatorGoes, WorkerGoes, CancelGoes, CallGoes, CallbackRuns, GuardGoes, OutsideGoes, missionVars
<1>3. node.spinning => node.alive
  BY <1>1 DEF ServiceFollows
<1>4. ASSUME Told' PROVE Shutting'
  <2>1. ~node.spinning
    BY <1>2, <1>4
  <2>2. CASE WorkerGoes
    <3>1. NavigatorInvariant /\ InNavigate
      BY <1>1, <2>2 DEF WorkerGoes
    <3>2. thr'["operator"] = thr["operator"]
      BY <3>1, InNavigateKeeps DEF NavigateKeeps
    <3>3. QED
      BY <1>1, <1>2, <1>4, <3>1, <3>2, NavigateShuts
  <2>3. ASSUME NEW t \in Threads, CancelGoes(t) PROVE Shutting'
    <3>1. /\ NavigatorInvariant /\ CancelFollows
          /\ InCancel(t) \/ CallUnheard(t) \/ SettleUnseen(t)
      BY <1>1, <2>1, <2>3 DEF CancelGoes
    <3>2. CancelShuts(t)
      BY <3>1, CancelKeepsShutting
    <3>3. CASE Told
      BY <1>1, <3>2, <3>3 DEF CancelShuts, Shutting
    <3>4. CASE ~Told
      <4>1. thr["operator"].pc \in {"cancel", "revoke"} /\ t = "operator"
        BY <1>2, <1>4, <3>2, <3>4 DEF CancelShuts
      <4>2. InCancel("operator")
        BY <3>1, <4>1 DEF CallUnheard, SettleUnseen
      <4>3. QED
        BY <1>4, <3>1, <4>1, <4>2, CancelBeginsShutting
    <3>5. QED
      BY <3>3, <3>4
  <2>4. CASE GuardGoes \/ OutsideGoes
    <3>1. /\ Nav2 \/ GuardRevokes \/ (GuardServes /\ \A r \in requests : r.to = Nobody)
          /\ TypeOK
      BY <1>1, <2>1, <2>4 DEF GuardGoes, OutsideGoes, MissionTypeOK
    <3>2. \A r \in requests : r.op = "prepare" => r.gen \notin granted
      BY <1>1 DEF GateFollows, NavigatorInvariant, RequestsFollow
    <3>3. UNCHANGED thr
      BY <3>1, <3>2, OutsideKeeps
    <3>4. QED
      BY <1>1, <1>2, <1>4, <3>1, <3>2, <3>3, OutsideShuts
  <2>5. QED
    BY <2>1, <2>2, <2>3, <2>4 DEF NavigatorGoes, CallGoes, CallbackRuns
<1>5. ASSUME ~node'.alive
      PROVE  /\ guard'.phase = "Active" => guard'.gen \in granted'
             /\ \A r \in requests' :
                  /\ r.to = Nobody
                  /\ r.op = "prepare" => r.gen \notin granted'
                  /\ r.op = "activate" => r.gen \in granted'
  <2>1. ~node.alive /\ ~node.spinning
    BY <1>2, <1>3, <1>5
  <2>2. Nav2 \/ GuardRevokes \/ GuardServes
    BY <2>1 DEF NavigatorGoes, WorkerGoes, CancelGoes, CallGoes, CallbackRuns, GuardGoes, OutsideGoes
  <2>3. /\ TypeOK
        /\ guard.phase = "Active" => guard.gen \in granted
        /\ \A r \in requests : /\ r.to = Nobody
                               /\ r.op = "prepare" => r.gen \notin granted
                               /\ r.op = "activate" => r.gen \in granted
    BY <1>1, <2>1 DEF GateFollows, MissionTypeOK
  <2>4. UNCHANGED granted /\ \A r \in requests' : r \in requests
    BY <2>2, <2>3, OutsideKeeps, OutsideTyped
  <2>5. guard'.phase = "Active" => guard'.gen \in granted
    <3>1. CASE Nav2 \/ GuardRevokes
      BY <2>3, <3>1 DEF Nav2, Nav2Decides, Nav2Finishes, Nav2Cancels, GuardRevokes
    <3>2. CASE GuardServes
      BY <2>3, <3>2 DEF GuardServes, StopLease, PrepareLease, ActivateLease, RenewLease, TypeOK
    <3>3. QED
      BY <2>2, <3>1, <3>2
  <2>6. QED
    BY <2>3, <2>4, <2>5
<1>6. QED
  BY <1>4, <1>5 DEF GateFollows, Shutting

\* Put together: every step of the navigator's actors keeps the mission's invariant.
LEMMA NavigatorGoesStep ==
  ASSUME MissionInvariant, NavigatorGoes
  PROVE  MissionInvariant'
<1>1. GateFollows'
  BY NavigatorGoesShuts
<1>2. UNCHANGED <<mission, run, status, service, response, node>>
  BY DEF NavigatorGoes, WorkerGoes, CancelGoes, CallGoes, CallbackRuns, GuardGoes, OutsideGoes, missionVars
<1>3. CASE node.alive
  BY <1>1, <1>3, NavigatorGoesKeeps DEF MissionInvariant
<1>4. CASE ~node.alive
  <2>1. MissionTypeOK /\ RunFollows /\ ServiceFollows /\ GateFollows
    BY DEF MissionInvariant
  <2>2. Nav2 \/ GuardRevokes \/ GuardServes
    BY <1>4, <2>1 DEF NavigatorGoes, WorkerGoes, CancelGoes, CallGoes, CallbackRuns, GuardGoes,
       OutsideGoes, ServiceFollows
  <2>3. TypeOK' /\ UNCHANGED <<thr, outcome>>
    BY <1>4, <2>1, <2>2, OutsideTyped, OutsideKeeps DEF GateFollows, MissionTypeOK
  <2>4. MissionTypeOK' /\ RunFollows' /\ ServiceFollows'
    <3>1. MissionTypeOK'
      BY <1>2, <2>1, <2>3 DEF MissionTypeOK
    <3>2. RunFollows'
      BY <1>2, <2>1, <2>3 DEF RunFollows, WorkerAlive
    <3>3. ServiceFollows'
      BY <1>2, <2>1, <2>3 DEF ServiceFollows, WorkerAlive
    <3>4. QED
      BY <3>1, <3>2, <3>3
  <2>5. QED
    BY <1>1, <1>2, <1>4, <2>4 DEF MissionInvariant
<1>5. QED
  BY <1>3, <1>4

-----------------------------------------------------------------------------
(* The mission thread. *)

\* A navigator that is not active holds no lease.
LEMMA FreeIsReleased ==
  ASSUME NavigatorInvariant, ~IsActive
  PROVE  Released
  BY DEF NavigatorInvariant, LeasesFollow, Released

\* A step that leaves the navigator alone, and the service group with it, leaves alone what
\* is said of both.
LEMMA NavigatorRests ==
  ASSUME MissionInvariant, node.alive, UNCHANGED <<service, node, navigatorVars>>
  PROVE  /\ TypeOK' /\ NavigatorInvariant' /\ CancelFollows' /\ GateFollows'
         /\ UNCHANGED <<nav, thr, outcome, guard, granted>>
<1>1. UNCHANGED vars
  BY DEF navigatorVars
<1>2. NavigatorInvariant' /\ TypeOK'
  BY <1>1, NavigatorStutters DEF MissionInvariant, NavigatorInvariant
<1>3. CancelFollows'
  BY <1>1 DEF vars, MissionInvariant, CancelFollows
<1>4. GateFollows'
  BY <1>1 DEF vars, MissionInvariant, GateFollows, StopUnderWay
<1>5. QED
  BY <1>1, <1>2, <1>3, <1>4 DEF vars

\* What the mission thread's own steps leave alone.
ThreadStep ==
  /\ node.alive /\ WorkerAlive /\ At("worker", "idle")
  /\ UNCHANGED <<service, response, node, navigatorVars>>
  /\ mission'.generation = mission.generation
  /\ mission'.stop_requested = mission.stop_requested
  /\ mission'.resetting = mission.resetting

\* The thread goes on: whatever promises rest afterwards has it.
LEMMA ThreadGoesOn ==
  ASSUME MissionInvariant, ThreadStep,
         TypeOK' => MissionTypeOK', mission'.state \notin QuietMissionStates,
         run'.generation = run.generation, run'.pc \notin {"none", "navigating"},
         run'.pc \in AfterGoal => Released,
         run'.pc \in BetweenGoals => mission.stop_requested \/ ~IsActive,
         run'.pc = "navigate" => ~IsActive /\ thr["operator"].pc \in {"idle", "cancel"},
         run'.pc \in {"segment", "check", "navigate"} \cup AfterGoal => run'.segment >= 1,
         run'.pc = "qr" => run'.attempt <= QrRetries
  PROVE  MissionInvariant'
<1>1. /\ TypeOK' /\ NavigatorInvariant' /\ CancelFollows' /\ GateFollows'
      /\ UNCHANGED <<nav, thr, outcome, guard, granted, service, response, node>>
  BY NavigatorRests DEF ThreadStep
<1>2. /\ RunFollows /\ ServiceFollows /\ node.alive /\ WorkerAlive /\ At("worker", "idle")
      /\ mission'.generation = mission.generation
      /\ mission'.stop_requested = mission.stop_requested
      /\ mission'.resetting = mission.resetting
  BY DEF ThreadStep, MissionInvariant
<1>3. RunFollows'
  BY <1>1, <1>2 DEF RunFollows, WorkerAlive
<1>4. ServiceFollows'
  BY <1>1, <1>2 DEF ServiceFollows, WorkerAlive
<1>5. StillFollows'
  BY <1>1, <1>2 DEF StillFollows, RunFollows, Released, Succeeded, WorkerAlive
<1>6. QED
  BY <1>1, <1>3, <1>4, <1>5 DEF MissionInvariant

\* The thread comes to its end, in a state that promises rest only if there is rest.
LEMMA ThreadEnds ==
  ASSUME MissionInvariant, ThreadStep, NEW state \in TerminalStates,
         mission' = [mission EXCEPT !.state = state], run' = [run EXCEPT !.pc = "finally"],
         state # "FAILED" => Released
  PROVE  MissionInvariant'
<1>1. /\ TypeOK' /\ NavigatorInvariant' /\ CancelFollows' /\ GateFollows'
      /\ UNCHANGED <<nav, thr, outcome, guard, granted, service, response, node>>
  BY NavigatorRests DEF ThreadStep
<1>2. /\ MissionTypeOK /\ RunFollows /\ ServiceFollows /\ node.alive /\ WorkerAlive
      /\ At("worker", "idle")
      /\ mission'.generation = mission.generation
      /\ mission'.stop_requested = mission.stop_requested
      /\ mission'.resetting = mission.resetting
  BY DEF ThreadStep, MissionInvariant
<1>3. MissionTypeOK'
  BY <1>1, <1>2 DEF MissionTypeOK, States, RunLabels, TerminalStates
<1>4. run'.generation = run.generation /\ run'.pc = "finally" /\ mission'.state = state
  BY <1>2 DEF MissionTypeOK
<1>5. RunFollows'
  BY <1>1, <1>2, <1>4 DEF RunFollows, WorkerAlive, AfterGoal
<1>6. ServiceFollows'
  BY <1>1, <1>2 DEF ServiceFollows, WorkerAlive
<1>7. StillFollows'
  BY <1>1, <1>2, <1>4
  DEF StillFollows, RunFollows, Released, Succeeded, WorkerAlive, QuietMissionStates,
      AfterGoal, BetweenGoals, TerminalStates
<1>8. QED
  BY <1>1, <1>3, <1>5, <1>6, <1>7 DEF MissionInvariant

\* _fail and _finish_stopped.
LEMMA FailStep ==
  ASSUME MissionInvariant, node.alive, WorkerAlive, At("worker", "idle"),
         UNCHANGED <<service, response, node, navigatorVars>>,
         (\E why : Fail(why)) \/ FinishStopped
  PROVE  MissionInvariant'
<1>1. run.generation = mission.generation /\ MissionTypeOK /\ NavigatorInvariant
  BY DEF MissionInvariant, RunFollows
<1>2. PICK state \in {"FAILED", "STOPPED"} :
        /\ mission' = InState(state) /\ Go("finally")
        /\ state = "STOPPED" => ~IsActive
  BY DEF Fail, FinishStopped
<1>3. mission' = [mission EXCEPT !.state = state] /\ run' = [run EXCEPT !.pc = "finally"]
  BY <1>1, <1>2 DEF InState, Go
<1>4. ThreadStep
  BY <1>1, <1>3 DEF ThreadStep, MissionTypeOK
<1>5. state # "FAILED" => Released
  BY <1>1, <1>2, FreeIsReleased
<1>6. QED
  BY <1>3, <1>4, <1>5, ThreadEnds DEF TerminalStates

\* A step that only moves on to another label, or only changes the state.
LEMMA GoStep ==
  ASSUME MissionInvariant, node.alive, WorkerAlive, At("worker", "idle"),
         run.pc # "finally", UNCHANGED <<service, response, node, navigatorVars>>,
         NEW l \in RunLabels \ {"none", "navigating"}, run' = [run EXCEPT !.pc = l],
         \/ mission' = mission
         \/ \E s \in {"NAVIGATING", "RUNNING_QR", "RUNNING_VLM"} :
              mission' = [mission EXCEPT !.state = s],
         l \in AfterGoal => Released,
         l \in BetweenGoals => mission.stop_requested \/ ~IsActive,
         l = "navigate" => ~IsActive /\ thr["operator"].pc \in {"idle", "cancel"},
         l \in {"segment", "check", "navigate"} \cup AfterGoal => run.segment >= 1,
         l = "qr" => run.attempt <= QrRetries
  PROVE  MissionInvariant'
<1>1. MissionTypeOK /\ RunFollows
  BY DEF MissionInvariant
<1>2. TypeOK' => MissionTypeOK'
  BY <1>1 DEF MissionTypeOK, States
<1>3. /\ mission'.generation = mission.generation
      /\ mission'.stop_requested = mission.stop_requested
      /\ mission'.resetting = mission.resetting
      /\ mission'.state \notin QuietMissionStates
  BY <1>1 DEF MissionTypeOK, RunFollows, QuietMissionStates, WorkerAlive
<1>4. /\ run'.pc = l /\ run'.generation = run.generation
      /\ run'.segment = run.segment /\ run'.attempt = run.attempt
  BY <1>1 DEF MissionTypeOK
<1>5. ThreadStep
  BY <1>3 DEF ThreadStep
<1>6. QED
  BY <1>2, <1>3, <1>4, <1>5, ThreadGoesOn

\* The steps between begin and navigate().
LEMMA BeforeNavigateStep ==
  ASSUME MissionInvariant, node.alive,
         Begin \/ Start \/ WaitForServers \/ EnterSegment \/ LastCheck
  PROVE  MissionInvariant'
<1>1. MissionTypeOK /\ RunFollows /\ ServiceFollows /\ StillFollows /\ NavigatorInvariant
  BY DEF MissionInvariant
<1>2. /\ run.pc \in {"begin", "start", "servers", "segment", "check"}
      /\ UNCHANGED <<service, response, node, navigatorVars>>
  BY DEF Begin, Start, WaitForServers, EnterSegment, LastCheck
<1>3. /\ WorkerAlive /\ At("worker", "idle") /\ run.generation = mission.generation
      /\ mission.stop_requested \/ ~IsActive
  BY <1>1, <1>2 DEF RunFollows, StillFollows, WorkerAlive, BetweenGoals
<1>4. CASE (\E why : Fail(why)) \/ FinishStopped
  BY <1>2, <1>3, <1>4, FailStep
<1>5. CASE Begin
  <2>1. mission' = [mission EXCEPT !.reserved = FALSE, !.running = TRUE]
        /\ run' = [run EXCEPT !.pc = "start"]
    BY <1>5 DEF Begin, Go
  <2>2. /\ TypeOK' => MissionTypeOK'
        /\ mission'.generation = mission.generation /\ mission'.state = mission.state
        /\ mission'.stop_requested = mission.stop_requested
        /\ mission'.resetting = mission.resetting
        /\ run'.pc = "start" /\ run'.generation = run.generation
    BY <1>1, <1>2, <2>1 DEF MissionTypeOK, RunLabels
  <2>3. ThreadStep
    BY <1>2, <1>3, <2>2 DEF ThreadStep
  <2>4. mission'.state \notin QuietMissionStates
    BY <1>1, <1>2, <2>2 DEF RunFollows
  <2>5. QED
    BY <1>3, <2>2, <2>3, <2>4, ThreadGoesOn DEF AfterGoal, BetweenGoals
<1>6. CASE Start /\ Go("servers") /\ UNCHANGED mission
  BY <1>2, <1>3, <1>6, GoStep DEF Go, RunLabels, AfterGoal, BetweenGoals
<1>7. CASE WaitForServers /\ run' = [run EXCEPT !.pc = "segment", !.segment = 1] /\ UNCHANGED mission
  <2>1. Len(Segments) \in Nat /\ Len(Segments) >= 1
    BY MissionAssumption, EmptySeq
  <2>2. /\ TypeOK' => MissionTypeOK'
        /\ run'.pc = "segment" /\ run'.generation = run.generation /\ run'.segment = 1
    <3>1. 1 \in 0 .. Len(Segments)
      BY <2>1
    <3>2. QED
      BY <1>1, <1>2, <1>7, <3>1 DEF MissionTypeOK, RunLabels
  <2>3. ThreadStep
    BY <1>2, <1>3, <1>7 DEF ThreadStep
  <2>4. mission'.state \notin QuietMissionStates
    BY <1>1, <1>2, <1>7 DEF RunFollows
  <2>5. QED
    BY <1>3, <2>2, <2>3, <2>4, ThreadGoesOn DEF AfterGoal, BetweenGoals
<1>8. CASE EnterSegment /\ mission' = InState("NAVIGATING") /\ Go("check")
  <2>1. run.segment >= 1 /\ mission' = [mission EXCEPT !.state = "NAVIGATING"]
    BY <1>1, <1>3, <1>8 DEF RunFollows, EnterSegment, InState
  <2>2. QED
    BY <1>2, <1>3, <1>8, <2>1, GoStep DEF Go, RunLabels, AfterGoal, BetweenGoals
<1>9. CASE LastCheck /\ ~StopRequested /\ Go("navigate") /\ UNCHANGED mission
  <2>1. ~mission.stop_requested /\ run.segment >= 1
    BY <1>1, <1>9 DEF StopRequested, RunFollows, LastCheck
  <2>2. ~IsActive /\ At("operator", "idle")
    BY <1>1, <1>3, <2>1 DEF ServiceFollows
  <2>3. QED
    BY <1>2, <1>3, <1>9, <2>1, <2>2, GoStep DEF Go, RunLabels, AfterGoal, BetweenGoals
<1>10. QED
  BY <1>4, <1>5, <1>6, <1>7, <1>8, <1>9
  DEF Start, WaitForServers, EnterSegment, LastCheck, StopsOr

\* What navigate() has returned, and the task at the end of a segment.
LEMMA AfterNavigateStep ==
  ASSUME MissionInvariant, node.alive,
         Navigated \/ EndpointTask \/ QrSleep \/ QrRead \/ VlmDescribed \/ NextSegment \/ Complete
  PROVE  MissionInvariant'
<1>1. MissionTypeOK /\ RunFollows /\ ServiceFollows /\ StillFollows /\ NavigatorInvariant
  BY DEF MissionInvariant
<1>2. /\ run.pc \in {"navigating"} \cup AfterGoal
      /\ UNCHANGED <<service, response, node, navigatorVars>>
  BY DEF Navigated, EndpointTask, QrSleep, QrRead, VlmDescribed, NextSegment, Complete, AfterGoal
<1>3. /\ WorkerAlive /\ At("worker", "idle") /\ run.generation = mission.generation
      /\ run.pc # "finally" /\ run.segment >= 1
  BY <1>1, <1>2 DEF RunFollows, WorkerAlive, AfterGoal, Navigated, EndpointTask, QrSleep, QrRead,
     VlmDescribed, NextSegment, Complete
<1>4. run.pc \in AfterGoal => Released /\ (mission.stop_requested \/ ~IsActive)
  BY <1>1 DEF StillFollows, BetweenGoals
<1>5. CASE (\E why : Fail(why)) \/ FinishStopped
  BY <1>2, <1>3, <1>5, FailStep
<1>6. CASE Navigated /\ outcome = "ok" /\ Go("task") /\ UNCHANGED mission
  <2>1. Succeeded
    BY <1>6 DEF Navigated, Succeeded
  <2>2. Released /\ (mission.stop_requested \/ ~IsActive)
    BY <1>1, <2>1 DEF StillFollows
  <2>3. QED
    BY <1>2, <1>3, <1>6, <2>2, GoStep DEF Go, RunLabels, AfterGoal, BetweenGoals
<1>7. CASE EndpointTask
  <2>1. run.pc \in AfterGoal
    BY <1>7 DEF EndpointTask, AfterGoal
  <2>2. CASE mission' = InState("RUNNING_QR") /\ run' = [run EXCEPT !.pc = "qr", !.attempt = 0]
    <3>1. mission' = [mission EXCEPT !.state = "RUNNING_QR"]
      BY <1>3, <2>2 DEF InState
    <3>0. 0 \in 0 .. QrRetries + 1 /\ 0 <= QrRetries
      BY MissionAssumption
    <3>2. /\ TypeOK' => MissionTypeOK'
          /\ mission'.generation = mission.generation /\ mission'.state = "RUNNING_QR"
          /\ mission'.stop_requested = mission.stop_requested
          /\ mission'.resetting = mission.resetting
          /\ run'.pc = "qr" /\ run'.generation = run.generation /\ run'.segment = run.segment
          /\ run'.attempt = 0 /\ 0 <= QrRetries
      BY <1>1, <1>2, <2>2, <3>0, <3>1 DEF MissionTypeOK, RunLabels, States
    <3>3. ThreadStep
      BY <1>2, <1>3, <3>2 DEF ThreadStep
    <3>4. QED
      BY <1>3, <1>4, <2>1, <3>2, <3>3, ThreadGoesOn DEF AfterGoal, QuietMissionStates
  <2>3. CASE mission' = InState("RUNNING_VLM") /\ Go("vlm")
    <3>1. mission' = [mission EXCEPT !.state = "RUNNING_VLM"]
      BY <1>3, <2>3 DEF InState
    <3>2. QED
      BY <1>2, <1>3, <1>4, <2>1, <2>3, <3>1, GoStep DEF Go, RunLabels
  <2>4. CASE Go("next") /\ UNCHANGED mission
    BY <1>2, <1>3, <1>4, <2>1, <2>4, GoStep DEF Go, RunLabels
  <2>5. QED
    BY <1>7, <2>2, <2>3, <2>4 DEF EndpointTask
<1>8. CASE QrSleep /\ run' = [run EXCEPT !.pc = "reading", !.attempt = @ + 1] /\ UNCHANGED mission
  <2>1. run.pc \in AfterGoal /\ run.attempt <= QrRetries
    BY <1>1, <1>8 DEF QrSleep, AfterGoal, RunFollows
  <2>2. run.attempt + 1 \in 0 .. QrRetries + 1
    <3>1. run.attempt \in 0 .. QrRetries + 1 /\ QrRetries \in Nat
      BY <1>1, MissionAssumption DEF MissionTypeOK
    <3>2. QED
      BY <2>1, <3>1
  <2>3. /\ TypeOK' => MissionTypeOK'
        /\ run'.pc = "reading" /\ run'.generation = run.generation /\ run'.segment = run.segment
    BY <1>1, <1>2, <1>8, <2>2 DEF MissionTypeOK, RunLabels
  <2>4. ThreadStep
    BY <1>2, <1>3, <1>8 DEF ThreadStep
  <2>5. mission'.state \notin QuietMissionStates
    BY <1>1, <1>2, <1>3, <1>8 DEF RunFollows, WorkerAlive
  <2>6. QED
    BY <1>3, <1>4, <2>1, <2>3, <2>4, <2>5, ThreadGoesOn
<1>9. CASE QrRead /\ Go("qr") /\ run.attempt <= QrRetries /\ UNCHANGED mission
  <2>1. run.pc \in AfterGoal
    BY <1>9 DEF QrRead, AfterGoal
  <2>2. QED
    BY <1>2, <1>3, <1>4, <1>9, <2>1, GoStep DEF Go, RunLabels
<1>10. CASE (QrRead \/ VlmDescribed) /\ Go("next") /\ UNCHANGED mission
  <2>1. run.pc \in AfterGoal
    BY <1>10 DEF QrRead, VlmDescribed, AfterGoal
  <2>2. QED
    BY <1>2, <1>3, <1>4, <1>10, <2>1, GoStep DEF Go, RunLabels
<1>11. CASE NextSegment /\ run.segment < Len(Segments)
            /\ run' = [run EXCEPT !.pc = "segment", !.segment = @ + 1] /\ UNCHANGED mission
  <2>1. Len(Segments) \in Nat
    BY MissionAssumption
  <2>2. run.segment + 1 \in 0 .. Len(Segments) /\ run.segment + 1 >= 1
    <3>1. run.segment \in 0 .. Len(Segments)
      BY <1>1 DEF MissionTypeOK
    <3>2. QED
      BY <1>3, <1>11, <2>1, <3>1
  <2>3. /\ TypeOK' => MissionTypeOK'
        /\ run'.pc = "segment" /\ run'.generation = run.generation
        /\ run'.segment = run.segment + 1
    BY <1>1, <1>2, <1>11, <2>2 DEF MissionTypeOK, RunLabels
  <2>4. ThreadStep
    BY <1>2, <1>3, <1>11 DEF ThreadStep
  <2>5. mission'.state \notin QuietMissionStates
    BY <1>1, <1>2, <1>3, <1>11 DEF RunFollows, WorkerAlive
  <2>6. run.pc \in AfterGoal
    BY <1>11 DEF NextSegment, AfterGoal
  <2>7. QED
    BY <1>3, <1>4, <2>2, <2>3, <2>4, <2>5, <2>6, ThreadGoesOn DEF AfterGoal, BetweenGoals
<1>12. CASE NextSegment /\ Go("complete") /\ UNCHANGED mission
  <2>1. run.pc \in AfterGoal
    BY <1>12 DEF NextSegment, AfterGoal
  <2>2. QED
    BY <1>2, <1>3, <1>4, <1>12, <2>1, GoStep DEF Go, RunLabels
<1>13. CASE Complete
  <2>1. /\ mission' = [mission EXCEPT !.state = "COMPLETED"]
        /\ run' = [run EXCEPT !.pc = "finally"] /\ Released
    BY <1>3, <1>4, <1>13 DEF Complete, InState, Go, AfterGoal
  <2>2. ThreadStep
    BY <1>1, <1>2, <1>3, <2>1 DEF ThreadStep, MissionTypeOK
  <2>3. QED
    BY <2>1, <2>2, ThreadEnds DEF TerminalStates
<1>14. QED
  BY <1>5, <1>6, <1>7, <1>8, <1>9, <1>10, <1>11, <1>12, <1>13
  DEF Navigated, QrSleep, QrRead, VlmDescribed, NextSegment, StopsOr

\* navigate() that never becomes active changes nothing but what it returned.
LEMMA OutcomeOnly ==
  ASSUME NavigatorInvariant, outcome' = "failed",
         UNCHANGED <<nav, guard_call_lock, thr, linkVars, nav2Vars, cancels>>
  PROVE  NavigatorInvariant'
<1>1. TypeOK'
  BY DEF NavigatorInvariant, TypeOK
<1>2. ThreadsInPlace' /\ LockFollows' /\ RequestsFollow' /\ StoppingFollows' /\ SettlesWhatEnded'
  BY DEF NavigatorInvariant, ThreadsInPlace, LockFollows, RequestsFollow, StoppingFollows,
     SettlesWhatEnded
<1>3. GoalsFollow' /\ CallbacksFollow' /\ HandlesFollow'
  BY DEF NavigatorInvariant, GoalsFollow, CallbacksFollow, HandlesFollow
<1>4. LeasesFollow' /\ StopsFollow' /\ CancelFollowsRevoke'
  BY DEF NavigatorInvariant, LeasesFollow, StopsFollow, CancelFollowsRevoke
<1>5. QED
  BY <1>1, <1>2, <1>3, <1>4 DEF NavigatorInvariant

\* The call of navigate().
LEMMA NavigateStep ==
  ASSUME MissionInvariant, node.alive, Navigate
  PROVE  MissionInvariant'
<1>1. /\ MissionTypeOK /\ RunFollows /\ ServiceFollows /\ StillFollows /\ NavigatorInvariant
      /\ GateFollows
  BY DEF MissionInvariant
<1>2. /\ run.pc = "navigate" /\ run' = [run EXCEPT !.pc = "navigating"]
      /\ UNCHANGED <<mission, status, service, response, node>>
      /\ At("worker", "idle") /\ thr["operator"].pc \in {"idle", "cancel"}
      /\ WorkerAlive
  BY <1>1 DEF Navigate, Go, StillFollows, RunFollows, WorkerAlive
<1>3. /\ NavigatorInvariant' /\ thr'["operator"] = thr["operator"]
      /\ UNCHANGED <<requests, reply, guard, granted>>
      /\ At("worker", "idle")' => outcome' = "failed"
      /\ ~At("worker", "preparing")'
  <2>1. CASE NavigateBegins
    BY <1>1, <2>1, NavigateBeginsStep, Typing DEF NavigateBegins, ThreadStates
  <2>2. CASE NavigateRefused \/ NoActionServer
    BY <1>1, <1>2, <2>2, OutcomeOnly DEF NavigateRefused, NoActionServer
  <2>3. QED
    BY <2>1, <2>2 DEF Navigate
<1>4. /\ run'.pc = "navigating" /\ run'.generation = run.generation
      /\ run'.segment = run.segment /\ run'.attempt = run.attempt
  BY <1>1, <1>2 DEF MissionTypeOK
<1>5. MissionTypeOK'
  BY <1>1, <1>2, <1>3 DEF MissionTypeOK, RunLabels, NavigatorInvariant
<1>6. RunFollows'
  BY <1>1, <1>2, <1>4 DEF RunFollows, WorkerAlive
<1>7. ServiceFollows'
  BY <1>1, <1>2, <1>3 DEF ServiceFollows, WorkerAlive
<1>8. StillFollows'
  BY <1>1, <1>2, <1>3, <1>4
  DEF StillFollows, RunFollows, WorkerAlive, Succeeded, AfterGoal, BetweenGoals
<1>9. CancelFollows'
  BY <1>2, <1>3 DEF CancelFollows
<1>10. GateFollows'
  BY <1>1, <1>2, <1>3 DEF GateFollows, StopUnderWay
<1>11. QED
  BY <1>3, <1>5, <1>6, <1>7, <1>8, <1>9, <1>10 DEF MissionInvariant

\* "finally" of run_reserved.
LEMMA FinallyStep ==
  ASSUME MissionInvariant, node.alive, Finally
  PROVE  MissionInvariant'
<1>1. /\ MissionTypeOK /\ RunFollows /\ ServiceFollows /\ StillFollows
      /\ UNCHANGED <<service, response, node, navigatorVars>>
  BY DEF MissionInvariant, Finally
<1>2. /\ TypeOK' /\ NavigatorInvariant' /\ CancelFollows' /\ GateFollows'
      /\ UNCHANGED <<nav, thr, outcome, guard, granted>>
  BY <1>1, NavigatorRests
<1>3. run' = NotRunning /\ run.pc = "finally" /\ mission' = [mission EXCEPT !.running = FALSE]
  BY <1>1 DEF Finally, RunFollows, WorkerAlive
<1>4. /\ mission'.generation = mission.generation /\ mission'.state = mission.state
      /\ mission'.stop_requested = mission.stop_requested
      /\ mission'.resetting = mission.resetting
  BY <1>1, <1>3 DEF MissionTypeOK
<1>5. MissionTypeOK'
  <2>1. 0 \in 0 .. MaxGenerations /\ 0 \in 0 .. Len(Segments) /\ 0 \in 0 .. QrRetries + 1
    BY MissionAssumption
  <2>2. QED
    BY <1>1, <1>2, <1>3, <2>1 DEF MissionTypeOK, NotRunning, RunLabels
<1>6. RunFollows' /\ ServiceFollows'
  BY <1>1, <1>2, <1>3, <1>4 DEF RunFollows, ServiceFollows, NotRunning, WorkerAlive, AfterGoal
<1>7. StillFollows'
  BY <1>1, <1>2, <1>3, <1>4
  DEF StillFollows, NotRunning, Succeeded, Released, AfterGoal, BetweenGoals
<1>8. QED
  BY <1>1, <1>2, <1>5, <1>6, <1>7 DEF MissionInvariant

\* The mission thread (_run, mission.py) preserves the invariant, whichever step it takes.
LEMMA MissionThreadStep ==
  ASSUME MissionInvariant, MissionThread
  PROVE  MissionInvariant'
  BY BeforeNavigateStep, AfterNavigateStep, NavigateStep, FinallyStep DEF MissionThread

-----------------------------------------------------------------------------
(* The services. *)

\* reserve_start, for the service and for the timer.
LEMMA StartStep ==
  ASSUME MissionInvariant, service = "idle", Startable, StartWorker,
         UNCHANGED <<service, navigatorVars>>,
         node' = node \/ node' = [node EXCEPT !.autostart = 0]
  PROVE  MissionInvariant'
<1>1. /\ MissionTypeOK /\ RunFollows /\ ServiceFollows /\ node.spinning /\ node.alive
  BY DEF MissionInvariant, ServiceFollows
<1>2. NavigatorInvariant /\ StillFollows /\ ~IsActive /\ At("operator", "idle")
  BY <1>1 DEF MissionInvariant, ServiceFollows, Startable
<1>3. UNCHANGED vars
  BY DEF navigatorVars
<1>4. /\ NavigatorInvariant' /\ TypeOK'
      /\ UNCHANGED <<nav, thr, outcome, guard, granted>>
  BY <1>2, <1>3, NavigatorStutters DEF NavigatorInvariant, vars
<1>5. /\ node'.spinning /\ node'.alive
      /\ node' \in [spinning : BOOLEAN, autostart : 0 .. AutostartTries, alive : BOOLEAN]
  <2>1. 0 \in 0 .. AutostartTries
    BY MissionAssumption
  <2>2. QED
    BY <1>1, <2>1 DEF MissionTypeOK
<1>6. mission.generation + 1 \in 0 .. MaxGenerations
  <2>1. mission.generation \in 0 .. MaxGenerations /\ mission.generation < MaxGenerations
    BY <1>1 DEF MissionTypeOK, StartWorker
  <2>2. QED
    BY <2>1, MissionAssumption
<1>7. /\ mission'.generation = mission.generation + 1
      /\ mission'.state = "WAITING_FOR_SERVERS" /\ ~mission'.stop_requested
      /\ mission'.resetting = mission.resetting /\ ~mission.resetting
      /\ response' = "none"
      /\ run'.pc = "begin" /\ run'.generation = mission.generation + 1
  BY <1>1 DEF StartWorker, Startable, NotRunning, MissionTypeOK
<1>8. MissionTypeOK'
  <2>1. 0 \in 0 .. Len(Segments) /\ 0 \in 0 .. QrRetries + 1
    BY MissionAssumption
  <2>2. run' \in [pc : RunLabels, generation : 0 .. MaxGenerations,
                  segment : 0 .. Len(Segments), attempt : 0 .. QrRetries + 1]
    BY <1>6, <2>1 DEF StartWorker, NotRunning, RunLabels
  <2>3. mission' \in [state : States, generation : 0 .. MaxGenerations, reserved : BOOLEAN,
                      running : BOOLEAN, resetting : BOOLEAN, stop_requested : BOOLEAN]
    BY <1>1, <1>6 DEF StartWorker, MissionTypeOK, States
  <2>4. QED
    BY <1>1, <1>4, <1>5, <1>7, <2>2, <2>3 DEF MissionTypeOK
<1>9. RunFollows'
  BY <1>2, <1>4, <1>7, <1>1 DEF RunFollows, QuietMissionStates, WorkerAlive, AfterGoal,
     NavigatorInvariant, ThreadsInPlace
<1>10. ServiceFollows'
  BY <1>1, <1>2, <1>4, <1>5, <1>7 DEF ServiceFollows
<1>11. StillFollows'
  BY <1>2, <1>4, <1>7 DEF StillFollows, QuietMissionStates, Succeeded, AfterGoal, BetweenGoals
<1>12. CancelFollows'
  BY <1>2, <1>4 DEF CancelFollows
<1>13. GateFollows'
  BY <1>5 DEF GateFollows
<1>14. QED
  BY <1>4, <1>8, <1>9, <1>10, <1>11, <1>12, <1>13 DEF MissionInvariant

\* A handler that leaves the mission's generation and its thread alone, and the navigator.
\* Whatever it promises is so, and it ends nothing that somebody still waits for.
LEMMA HandlerStep ==
  ASSUME MissionInvariant, node.alive, UNCHANGED <<run, navigatorVars>>,
         TypeOK' => MissionTypeOK',
         node'.alive,
         mission.stop_requested /\ ~mission'.stop_requested =>
           ~WorkerAlive /\ At("operator", "idle"),
         WorkerAlive => mission'.generation = mission.generation,
         mission'.state = mission.state
           \/ (mission'.state = "IDLE" /\ ~WorkerAlive /\ ~IsActive),
         mission'.resetting => ~WorkerAlive /\ (mission.resetting \/ ~IsActive),
         response' = "mission stopped" =>
           ~WorkerAlive /\ (response = "mission stopped" \/ ~IsActive),
         ServiceFollows',
         ~node'.spinning /\ service' = "joining" => ~IsActive
  PROVE  MissionInvariant'
<1>1. /\ MissionTypeOK /\ RunFollows /\ ServiceFollows /\ StillFollows /\ NavigatorInvariant
      /\ CancelFollows
  BY DEF MissionInvariant
<1>2. UNCHANGED vars
  BY DEF navigatorVars
<1>3. /\ NavigatorInvariant' /\ TypeOK'
      /\ UNCHANGED <<nav, thr, outcome, guard, granted, reply>>
  BY <1>1, <1>2, NavigatorStutters DEF NavigatorInvariant, vars
<1>4. RunFollows'
  BY <1>1, <1>3 DEF RunFollows, WorkerAlive, QuietMissionStates
<1>5. ~IsActive => Released
  BY <1>1, FreeIsReleased
<1>6. StillFollows'
  <2>1. mission'.state \in QuietMissionStates \/ mission'.resetting \/ response' = "mission stopped"
          => Released
    BY <1>1, <1>5 DEF StillFollows, QuietMissionStates
  <2>2. run.pc \in BetweenGoals \/ Succeeded => WorkerAlive
    BY DEF BetweenGoals, AfterGoal, Succeeded, WorkerAlive
  <2>3. run.pc \in BetweenGoals \/ Succeeded => mission'.stop_requested \/ ~IsActive
    BY <1>1, <2>2 DEF StillFollows
  <2>4. QED
    BY <1>1, <1>3, <2>1, <2>3 DEF StillFollows, Released, Succeeded
<1>7. CancelFollows'
  BY <1>1, <1>3 DEF CancelFollows
<1>8. GateFollows'
  BY <1>1, <1>3, <1>5 DEF GateFollows, Released, NavigatorInvariant, ThreadsInPlace
<1>9. QED
  BY <1>3, <1>4, <1>6, <1>7, <1>8 DEF MissionInvariant

\* The timer that starts the mission by itself (task_node.py) preserves the invariant.
LEMMA TimerStep ==
  ASSUME MissionInvariant, OnAutostart
  PROVE  MissionInvariant'
<1>1. /\ MissionTypeOK /\ ServiceFollows /\ node.spinning /\ node.alive
  BY DEF MissionInvariant, ServiceFollows, OnAutostart
<1>2. CASE Startable /\ StartWorker
  BY <1>2, StartStep DEF OnAutostart
<1>3. CASE ~Startable
  <2>1. /\ node' = [node EXCEPT !.autostart = @ - 1] /\ node.autostart > 0
        /\ UNCHANGED <<mission, run, status, service, response, navigatorVars>>
    BY <1>3 DEF OnAutostart
  <2>2. /\ node' \in [spinning : BOOLEAN, autostart : 0 .. AutostartTries, alive : BOOLEAN]
        /\ node'.spinning /\ node'.alive
    <3>1. node.autostart - 1 \in 0 .. AutostartTries
      <4>1. node.autostart \in 0 .. AutostartTries
        BY <1>1 DEF MissionTypeOK
      <4>2. QED
        BY <2>1, <4>1, MissionAssumption
    <3>2. QED
      BY <1>1, <2>1, <3>1 DEF MissionTypeOK
  <2>3. TypeOK' => MissionTypeOK'
    BY <1>1, <2>1, <2>2 DEF MissionTypeOK
  <2>4. UNCHANGED thr
    BY <2>1 DEF navigatorVars, vars
  <2>5. ServiceFollows'
    BY <1>1, <2>1, <2>2, <2>4 DEF ServiceFollows
  <2>6. mission'.resetting => ~WorkerAlive /\ mission.resetting
    BY <2>1 DEF MissionInvariant, RunFollows
  <2>7. response' = "mission stopped" => ~WorkerAlive /\ response = "mission stopped"
    BY <2>1 DEF MissionInvariant, RunFollows
  <2>8. QED
    BY <1>1, <2>1, <2>2, <2>3, <2>5, <2>6, <2>7, HandlerStep
<1>4. QED
  BY <1>2, <1>3 DEF OnAutostart

\* stop, up to the call of cancel().
LEMMA StopStep ==
  ASSUME MissionInvariant, OnStop
  PROVE  MissionInvariant'
<1>1. /\ MissionTypeOK /\ ServiceFollows /\ RunFollows /\ node.spinning /\ node.alive
      /\ UNCHANGED <<run, status, node, navigatorVars>>
  BY DEF MissionInvariant, ServiceFollows, OnStop
<1>2. UNCHANGED thr
  BY <1>1 DEF navigatorVars, vars
<1>3. /\ mission' = mission \/ mission' = [mission EXCEPT !.stop_requested = TRUE]
      /\ response' \in {"none", "no mission is running"}
      /\ service' = "idle" \/ (service' = "stop" /\ mission' = [mission EXCEPT !.stop_requested = TRUE])
  BY DEF OnStop
<1>4. /\ TypeOK' => MissionTypeOK'
      /\ mission'.generation = mission.generation /\ mission'.state = mission.state
      /\ mission'.resetting = mission.resetting
      /\ mission.stop_requested => mission'.stop_requested
      /\ service' = "stop" => mission'.stop_requested
  BY <1>1, <1>3 DEF MissionTypeOK
<1>5. ServiceFollows'
  BY <1>1, <1>2, <1>3, <1>4 DEF ServiceFollows, OnStop
<1>6. mission'.resetting => ~WorkerAlive /\ mission.resetting
  BY <1>1, <1>4 DEF RunFollows
<1>7. QED
  BY <1>1, <1>3, <1>4, <1>5, <1>6, HandlerStep

\* The join of the stop service, and its answer.
LEMMA AnswerStep ==
  ASSUME MissionInvariant, StopAnswered
  PROVE  MissionInvariant'
<1>1. /\ MissionTypeOK /\ ServiceFollows /\ RunFollows /\ node.spinning /\ node.alive
      /\ UNCHANGED <<mission, run, status, node, navigatorVars>>
  BY DEF MissionInvariant, ServiceFollows, StopAnswered
<1>2. UNCHANGED thr
  BY <1>1 DEF navigatorVars, vars
<1>3. /\ service' = "idle" /\ At("operator", "idle")
      /\ response' \in {"mission stopped", "confirmation pending"}
      /\ response' = "mission stopped" => ~WorkerAlive /\ ~IsActive
  BY DEF StopAnswered
<1>4. TypeOK' => MissionTypeOK'
  BY <1>1, <1>3 DEF MissionTypeOK
<1>5. ServiceFollows'
  BY <1>1, <1>2, <1>3 DEF ServiceFollows
<1>6. mission'.resetting => ~WorkerAlive /\ mission.resetting
  BY <1>1 DEF RunFollows
<1>7. QED
  BY <1>1, <1>3, <1>4, <1>5, <1>6, HandlerStep

\* reset, before and after the filter is set back.
LEMMA ResetStep ==
  ASSUME MissionInvariant, OnReset \/ ResetDone
  PROVE  MissionInvariant'
<1>1. /\ MissionTypeOK /\ ServiceFollows /\ RunFollows /\ node.spinning /\ node.alive
      /\ UNCHANGED <<run, status, response, node, navigatorVars>> /\ At("operator", "idle")
  BY DEF MissionInvariant, ServiceFollows, OnReset, ResetDone
<1>2. UNCHANGED thr
  BY <1>1 DEF navigatorVars, vars
<1>3. response' = "mission stopped" => ~WorkerAlive /\ response = "mission stopped"
  BY <1>1 DEF RunFollows
<1>4. CASE OnReset
  <2>1. /\ mission' = [mission EXCEPT !.resetting = TRUE] /\ service' = "reset"
        /\ ~WorkerAlive /\ ~IsActive /\ mission.generation < MaxGenerations
    BY <1>4 DEF OnReset
  <2>2. /\ TypeOK' => MissionTypeOK'
        /\ mission'.generation = mission.generation /\ mission'.state = mission.state
        /\ mission'.resetting /\ mission'.stop_requested = mission.stop_requested
    BY <1>1, <2>1 DEF MissionTypeOK
  <2>3. ServiceFollows'
    BY <1>1, <1>2, <2>1, <2>2 DEF ServiceFollows
  <2>4. QED
    BY <1>1, <1>3, <2>1, <2>2, <2>3, HandlerStep
<1>5. CASE ResetDone
  <2>1. mission.resetting /\ ~WorkerAlive /\ mission.generation < MaxGenerations /\ service' = "idle"
    BY <1>1, <1>5 DEF ResetDone, ServiceFollows, RunFollows
  <2>2. CASE mission' = [mission EXCEPT !.resetting = FALSE]
    <3>1. /\ TypeOK' => MissionTypeOK'
          /\ mission'.generation = mission.generation /\ mission'.state = mission.state
          /\ ~mission'.resetting /\ mission'.stop_requested = mission.stop_requested
      BY <1>1, <2>1, <2>2 DEF MissionTypeOK
    <3>2. ServiceFollows'
      BY <1>1, <1>2, <2>1, <3>1 DEF ServiceFollows
    <3>3. QED
      BY <1>1, <1>3, <2>1, <3>1, <3>2, HandlerStep
  <2>3. CASE ~IsActive /\ mission' = [mission EXCEPT !.resetting = FALSE, !.state = "IDLE",
                                          !.generation = @ + 1, !.stop_requested = FALSE]
    <3>1. mission.generation + 1 \in 0 .. MaxGenerations
      <4>1. mission.generation \in 0 .. MaxGenerations
        BY <1>1 DEF MissionTypeOK
      <4>2. QED
        BY <2>1, <4>1, MissionAssumption
    <3>2. /\ TypeOK' => MissionTypeOK'
          /\ mission'.state = "IDLE" /\ ~mission'.resetting
      BY <1>1, <2>1, <2>3, <3>1 DEF MissionTypeOK, States
    <3>3. ServiceFollows'
      BY <1>1, <1>2, <2>1 DEF ServiceFollows
    <3>4. QED
      BY <1>1, <1>3, <2>1, <2>3, <3>2, <3>3, HandlerStep
  <2>4. QED
    BY <1>5, <2>2, <2>3 DEF ResetDone
<1>6. QED
  BY <1>4, <1>5

\* The end of spin() and request_stop.
LEMMA ShutdownStep ==
  ASSUME MissionInvariant, Shutdown
  PROVE  MissionInvariant'
<1>1. /\ MissionTypeOK /\ ServiceFollows /\ RunFollows /\ node.spinning /\ node.alive
      /\ UNCHANGED <<run, status, response, navigatorVars>> /\ At("operator", "idle")
  BY DEF MissionInvariant, ServiceFollows, Shutdown
<1>2. UNCHANGED thr
  BY <1>1 DEF navigatorVars, vars
<1>3. /\ node' = [node EXCEPT !.spinning = FALSE]
      /\ mission' = [mission EXCEPT !.stop_requested = @ \/ Stoppable]
      /\ \/ Stoppable /\ service' = "shutdown"
         \/ ~IsActive /\ service' = "joining"
  BY DEF Shutdown, Stoppable
<1>4. Stoppable \in BOOLEAN
  BY DEF Stoppable
<1>5. /\ TypeOK' => MissionTypeOK'
      /\ node'.alive /\ ~node'.spinning
      /\ mission'.generation = mission.generation /\ mission'.state = mission.state
      /\ mission'.resetting = mission.resetting
      /\ mission.stop_requested => mission'.stop_requested
      /\ Stoppable => mission'.stop_requested
  BY <1>1, <1>3, <1>4 DEF MissionTypeOK
<1>6. ServiceFollows'
  BY <1>1, <1>2, <1>3, <1>5 DEF ServiceFollows
<1>7. mission'.resetting => ~WorkerAlive /\ mission.resetting
  BY <1>1, <1>5 DEF RunFollows
<1>8. response' = "mission stopped" => ~WorkerAlive /\ response = "mission stopped"
  BY <1>1 DEF RunFollows
<1>9. QED
  BY <1>1, <1>3, <1>5, <1>6, <1>7, <1>8, HandlerStep

\* The call of cancel(), by the stop service or by the main thread.
LEMMA CancelCallStep ==
  ASSUME MissionInvariant, CancelForStop \/ CancelForShutdown
  PROVE  MissionInvariant'
<1>1. /\ MissionTypeOK /\ ServiceFollows /\ RunFollows /\ node.alive
      /\ UNCHANGED <<mission, run, status, response, node>> /\ OperatorCancels
      /\ mission.stop_requested
      /\ (service' = "canceling" /\ node.spinning) \/ (service' = "joining" /\ ~node.spinning)
  BY DEF MissionInvariant, ServiceFollows, CancelForStop, CancelForShutdown
<1>2. NavigatorInvariant /\ StillFollows
  BY <1>1 DEF MissionInvariant
<1>3. NavigatorInvariant'
  BY <1>1, <1>2, OperatorCancelsStep
<1>4. /\ UNCHANGED <<nav, outcome, guard, granted>>
      /\ At("operator", "cancel")' /\ thr'["worker"] = thr["worker"]
  BY <1>1, <1>2, Typing DEF OperatorCancels, Canceling, ThreadStates
<1>5. MissionTypeOK'
  BY <1>1, <1>3 DEF MissionTypeOK, NavigatorInvariant
<1>6. RunFollows'
  BY <1>1, <1>4 DEF RunFollows, WorkerAlive
<1>7. ServiceFollows'
  BY <1>1, <1>4 DEF ServiceFollows
<1>8. StillFollows'
  BY <1>1, <1>2, <1>4 DEF StillFollows, Released, Succeeded
<1>9. CancelFollows' /\ GateFollows'
  BY <1>1, <1>4 DEF CancelFollows, GateFollows
<1>10. QED
  BY <1>3, <1>5, <1>6, <1>7, <1>8, <1>9 DEF MissionInvariant

\* The end of the process: its memory is gone, what it has sent is not.
LEMMA EndStep ==
  ASSUME MissionInvariant, ProcessEnds
  PROVE  MissionInvariant'
<1>1. /\ MissionTypeOK /\ ServiceFollows /\ RunFollows /\ GateFollows /\ NavigatorInvariant
      /\ service = "joining" /\ ~node.spinning /\ At("operator", "idle")
  BY DEF MissionInvariant, ProcessEnds, ServiceFollows
<1>2. /\ node' = [node EXCEPT !.alive = FALSE]
      /\ nav' = IdleFields /\ thr' = [t \in Threads |-> AtRest] /\ guard_call_lock' = Nobody
      /\ requests' = {[r EXCEPT !.to = Nobody] : r \in requests}
      /\ reply' = [t \in Threads |-> NoReply] /\ due' = {}
      /\ mission' = [IdleMission EXCEPT !.generation = mission.generation]
      /\ run' = NotRunning /\ response' = "none" /\ outcome' = "none"
      /\ UNCHANGED <<service, guard, granted, server, cancel_due, cancels>>
  BY DEF ProcessEnds
<1>3. /\ \A t \in Threads : At(t, "idle")'
      /\ ~node'.spinning /\ ~node'.alive
      /\ mission'.state = "IDLE" /\ ~mission'.resetting /\ run'.pc = "none"
      /\ mission'.generation = mission.generation
  BY <1>1, <1>2 DEF AtRest, MissionTypeOK, IdleMission, NotRunning
<1>4. TypeOK'
  <2>1. nav' \in Fields
    BY <1>2, GenerationsAre DEF IdleFields, Fields, GoalErrors
  <2>2. thr' \in [Threads -> ThreadStates]
    BY <1>2, GenerationsAre, LabelsAre DEF AtRest, ThreadStates
  <2>3. requests' \subseteq [op : {"stop", "prepare", "activate", "renew"}, gen : Generations,
                             to : Threads \cup {Nobody}]
    BY <1>1, <1>2 DEF NavigatorInvariant, TypeOK
  <2>4. QED
    BY <1>1, <1>2, <2>1, <2>2, <2>3 DEF NavigatorInvariant, TypeOK
<1>5. MissionTypeOK'
  <2>1. 0 \in 0 .. MaxGenerations /\ 0 \in 0 .. Len(Segments) /\ 0 \in 0 .. QrRetries + 1
    BY MissionAssumption
  <2>2. QED
    BY <1>1, <1>2, <1>4, <2>1
    DEF MissionTypeOK, NotRunning, IdleMission, RunLabels, States
<1>6. RunFollows' /\ ServiceFollows'
  BY <1>1, <1>2, <1>3 DEF RunFollows, ServiceFollows, WorkerAlive, AfterGoal
<1>7. GateFollows'
  <2>1. /\ guard.gen \in granted => StopUnderWay
        /\ guard.phase = "Active" => guard.gen \in granted
    BY <1>1 DEF GateFollows, NavigatorInvariant, LeasesFollow
  <2>0. \A r \in requests : /\ [r EXCEPT !.to = Nobody].op = r.op
                            /\ [r EXCEPT !.to = Nobody].gen = r.gen
                            /\ [r EXCEPT !.to = Nobody].to = Nobody
    <3>1. requests \subseteq [op : {"stop", "prepare", "activate", "renew"}, gen : Generations,
                              to : Threads \cup {Nobody}]
      BY <1>1 DEF NavigatorInvariant, TypeOK
    <3>2. QED
      BY <3>1
  <2>2. \A q \in requests' : \E r \in requests :
          q.op = r.op /\ q.gen = r.gen /\ q.to = Nobody
    BY <1>2, <2>0
  <2>3. \A r \in requests : \E q \in requests' : q.op = r.op
    BY <1>2, <2>0
  <2>4. StopUnderWay => StopUnderWay'
    BY <2>3 DEF StopUnderWay
  <2>5. \A r \in requests : /\ r.op = "prepare" => r.gen \notin granted
                            /\ r.op = "activate" => r.gen \in granted
    BY <1>1 DEF NavigatorInvariant, RequestsFollow
  <2>6. QED
    BY <1>2, <1>3, <2>1, <2>2, <2>4, <2>5 DEF GateFollows
<1>8. QED
  BY <1>3, <1>5, <1>6, <1>7 DEF MissionInvariant

\* The services and the end of the process (task_node.py) preserve the invariant.
LEMMA ServicesStep ==
  ASSUME MissionInvariant, Services
  PROVE  MissionInvariant'
<1>1. CASE OnStart
  BY <1>1, StartStep DEF OnStart
<1>2. CASE ~OnStart
  BY <1>2, TimerStep, StopStep, AnswerStep, ResetStep, ShutdownStep, CancelCallStep, EndStep
  DEF Services
<1>3. QED
  BY <1>1, <1>2

-----------------------------------------------------------------------------
(* The steps together. *)

\* The node starts with no mission, its executor running.
LEMMA MissionStarts == MissionInit => MissionInvariant
<1> SUFFICES ASSUME MissionInit PROVE MissionInvariant
  OBVIOUS
<1>1. NavigatorInvariant
  BY InitNavigator DEF MissionInit
<1>2. /\ ~IsActive /\ guard.gen \notin granted /\ \A t \in Threads : At(t, "idle")
  BY DEF MissionInit, Init, IdleFields, AtRest
<1>3. MissionTypeOK
  <2>1. /\ 0 \in 0 .. MaxGenerations /\ 0 \in 0 .. Len(Segments) /\ 0 \in 0 .. QrRetries + 1
        /\ AutostartTries \in 0 .. AutostartTries
    BY MissionAssumption
  <2>2. QED
    BY <1>1, <2>1
    DEF MissionInit, NavigatorInvariant, MissionTypeOK, NotRunning, IdleMission, RunLabels, States
<1>4. RunFollows /\ ServiceFollows /\ GateFollows /\ CancelFollows
  BY <1>2 DEF MissionInit, NotRunning, IdleMission, RunFollows, ServiceFollows, GateFollows,
     CancelFollows, WorkerAlive, AfterGoal
<1>5. StillFollows
  BY <1>2 DEF MissionInit, NotRunning, StillFollows, Released, Succeeded, AfterGoal, BetweenGoals
<1>6. QED
  BY <1>1, <1>3, <1>4, <1>5 DEF MissionInvariant

\* A step that changes nothing.
LEMMA MissionStutters ==
  ASSUME MissionInvariant, UNCHANGED allVars
  PROVE  MissionInvariant'
<1>1. UNCHANGED vars /\ UNCHANGED <<mission, run, status, service, response, node>>
  BY DEF allVars, missionVars, navigatorVars
<1>2. /\ MissionTypeOK /\ RunFollows /\ ServiceFollows /\ GateFollows
      /\ node.alive => NavigatorInvariant /\ StillFollows /\ CancelFollows
  BY DEF MissionInvariant
<1>3. node.alive => NavigatorInvariant'
  BY <1>1, <1>2, NavigatorStutters
<1>4. MissionTypeOK'
  <2>1. TypeOK'
    BY <1>1, <1>2 DEF MissionTypeOK, TypeOK, vars
  <2>2. QED
    BY <1>1, <1>2, <2>1 DEF MissionTypeOK
<1>5. RunFollows' /\ ServiceFollows' /\ GateFollows'
  BY <1>1, <1>2 DEF vars, RunFollows, ServiceFollows, GateFollows, WorkerAlive, StopUnderWay
<1>6. node.alive => StillFollows' /\ CancelFollows'
  BY <1>1, <1>2 DEF vars, StillFollows, CancelFollows, Released, Succeeded
<1>7. QED
  BY <1>1, <1>3, <1>4, <1>5, <1>6 DEF MissionInvariant

\* Every step of the whole preserves the invariant, a stutter too.
LEMMA MissionStep ==
  ASSUME MissionInvariant, [MissionNext]_allVars
  PROVE  MissionInvariant'
  BY MissionThreadStep, ServicesStep, NavigatorGoesStep, MissionStutters DEF MissionNext

-----------------------------------------------------------------------------
(* What the invariant says of the mission. *)

\* The mission's fields, its thread, its services and the navigator agree in every reachable
\* state, for any segments, retries, starts, stops, resets and faults (mission.py,
\* task_node.py, navigation_runtime.py).
THEOREM MissionInvariantHolds == MissionSpec => []MissionInvariant
<1>1. MissionInit => MissionInvariant
  BY MissionStarts
<1>2. MissionInvariant /\ [MissionNext]_allVars => MissionInvariant'
  BY MissionStep
<1>3. QED
  BY <1>1, <1>2, PTL DEF MissionSpec

\* What is released does not drive.
LEMMA ReleasedIsStill ==
  ASSUME NavigatorInvariant, Released
  PROVE  NothingDrives
  BY DEF NavigatorInvariant, LeasesFollow, GoalsFollow, Released, NothingDrives

\* A mission that says IDLE, COMPLETED or STOPPED, or has answered "mission stopped", has
\* left nothing behind that drives.
THEOREM StatesAlwaysQuiet == MissionSpec => []QuietStates
<1>1. MissionInvariant => QuietStates
  <2> SUFFICES ASSUME MissionInvariant PROVE QuietStates
    OBVIOUS
  <2>1. ASSUME node.alive, mission.state \in {"IDLE", "COMPLETED", "STOPPED"} PROVE NothingDrives
    BY <2>1, ReleasedIsStill DEF MissionInvariant, StillFollows, QuietMissionStates
  <2>2. ASSUME response = "mission stopped" PROVE NothingDrives /\ ~WorkerAlive
    <3>1. node.alive /\ ~WorkerAlive
      BY <2>2 DEF MissionInvariant, ServiceFollows, RunFollows
    <3>2. QED
      BY <2>2, <3>1, ReleasedIsStill DEF MissionInvariant, StillFollows
  <2>3. QED
    BY <2>1, <2>2 DEF QuietStates
<1>2. QED
  BY <1>1, MissionInvariantHolds, PTL

\* The filter's pose is set back to the origin only while nothing drives.
THEOREM ResetAlwaysFindsTheCarStill == MissionSpec => []ResetFindsTheCarStill
<1>1. MissionInvariant => ResetFindsTheCarStill
  <2> SUFFICES ASSUME MissionInvariant, mission.resetting PROVE NothingDrives /\ ~WorkerAlive
    BY DEF ResetFindsTheCarStill
  <2>1. node.alive /\ ~WorkerAlive
    BY DEF MissionInvariant, ServiceFollows, RunFollows
  <2>2. QED
    BY <2>1, ReleasedIsStill DEF MissionInvariant, StillFollows
<1>2. QED
  BY <1>1, MissionInvariantHolds, PTL

\* The verdict of cancel() falls on the goal it was called for (cancel, navigation_runtime.py,
\* which does not ask whose goal is current).
THEOREM CancelAlwaysStaysWithItsGoal == MissionSpec => []CancelStaysWithItsGoal
<1>1. MissionInvariant => CancelStaysWithItsGoal
  <2> SUFFICES ASSUME MissionInvariant, NEW t \in Threads, thr[t].pc \in {"awaitHandle", "awaitTerminal"}
               PROVE  Newest(t)
    BY DEF CancelStaysWithItsGoal
  <2>1. NavigatorInvariant /\ CancelFollows
    BY DEF MissionInvariant, ServiceFollows
  <2>2. QED
    BY <2>1 DEF CancelFollows, NavigatorInvariant, ThreadsInPlace
<1>2. QED
  BY <1>1, MissionInvariantHolds, PTL

\* A node that is shut down leaves no open gate behind once the guard has served what was
\* sent (stop_for_shutdown, task_node.py).
THEOREM ShutdownAlwaysShutsGate == MissionSpec => []ShutdownShutsGate
<1>1. MissionInvariant => ShutdownShutsGate
  <2> SUFFICES ASSUME MissionInvariant, ~node.alive, requests = {} PROVE guard.phase # "Active"
    BY DEF ShutdownShutsGate
  <2>1. ~node.spinning /\ service = "joining" /\ At("operator", "idle")
    BY DEF MissionInvariant, ServiceFollows
  <2>2. QED
    BY <2>1 DEF MissionInvariant, GateFollows, StopUnderWay
<1>2. QED
  BY <1>1, MissionInvariantHolds, PTL
=============================================================================
