--------------------------- MODULE NavigatorProofs ---------------------------
(***************************************************************************)
(* The proofs of the navigator's safety: NavigatorInvariant is inductive   *)
(* for any number of goals, cancels and late requests and for any faults.  *)
(*                                                                         *)
(* One lemma per action.  Where an action does one thing of several, each  *)
(* is a case, its effect stated first (step 0); of the invariant's parts   *)
(* those the case leaves undisturbed are proved together, each of the      *)
(* others by a step that names what it rests on.                           *)
(***************************************************************************)
EXTENDS Navigator, FiniteSetTheorems, TLAPS

\* Used everywhere: the small names, and the sets of places.
USE DEF
  Threads, Nobody, NoReply, None, Live, Finished, IsActive, Newest, Terminal, At, Move,
  Me, linkVars, nav2Vars, Waits, CancelLabels, SettleLabels, BeforeGrant, BeforeGoal,
  NotTaken

-----------------------------------------------------------------------------
(* Types and small facts. *)

\* The places of a thread, as facts the provers can use.
LEMMA LabelsAre ==
  /\ "idle" \in Labels /\ "prepare" \in Labels /\ "prepareStopping" \in Labels
  /\ "preparing" \in Labels /\ "prepareFailed" \in Labels /\ "prepared" \in Labels
  /\ "send" \in Labels /\ "awaitResponse" \in Labels /\ "accepted" \in Labels
  /\ "activate" \in Labels /\ "activating" \in Labels /\ "loop" \in Labels
  /\ "renewing" \in Labels /\ "consume" \in Labels /\ "clearGoal" \in Labels
  /\ "detach" \in Labels /\ "cancel" \in Labels /\ "revoke" \in Labels
  /\ "revoking" \in Labels /\ "awaitHandle" \in Labels /\ "awaitTerminal" \in Labels
  /\ "cancelSettled" \in Labels /\ "settleRevoke" \in Labels
  /\ "settleRevoking" \in Labels /\ "settleWait" \in Labels
  BY DEF Labels

\* The generations are 0 and the goals, and a goal below the bound has a successor.
LEMMA GenerationsAre ==
  /\ 0 \in Generations /\ 0 \notin Goals /\ Goals \subseteq Generations
  /\ \A g \in Generations : g \in Nat /\ 0 <= g
  /\ \A g \in Generations : g # 0 => g \in Goals
  /\ \A g \in Generations : g < MaxGoals => g + 1 \in Goals /\ g + 1 \in Generations
  BY BoundAssumption DEF Generations, Goals

\* What the type invariant says, in the form most steps need.
LEMMA Typing ==
  ASSUME NavigatorInvariant
  PROVE  /\ nav \in Fields /\ thr \in [Threads -> ThreadStates]
         /\ nav.goal_generation \in Nat /\ 0 <= nav.goal_generation
         /\ \A t \in Threads : thr[t].gen \in Nat
<1>1. nav \in Fields /\ thr \in [Threads -> ThreadStates]
  BY DEF NavigatorInvariant, TypeOK
<1>2. nav.goal_generation \in Nat /\ 0 <= nav.goal_generation
  <2>1. nav.goal_generation \in Generations
    BY <1>1 DEF Fields
  <2>2. QED
    BY <2>1, GenerationsAre
<1>3. \A t \in Threads : thr[t].gen \in Nat
  BY <1>1, GenerationsAre DEF ThreadStates
<1>4. QED
  BY <1>1, <1>2, <1>3

\* What Nav2 made of each goal is one of its states.
LEMMA ServerTyping ==
  ASSUME NavigatorInvariant
  PROVE  server \in [Goals -> {"none", "sent", "executing", "canceling", "rejected"} \cup Finished]
  BY DEF NavigatorInvariant, TypeOK

\* _settle_motion returns to one of four places.
LEMMA ReturnLabels ==
  ASSUME NavigatorInvariant, NEW t \in Threads
  PROVE  thr[t].ret \in {"cancelSettled", "clearGoal", "detach", "consume"}
  BY DEF NavigatorInvariant, TypeOK, ThreadStates

\* _clear_operation_locked keeps the fields' types.
LEMMA ClearedTyped ==
  ASSUME nav \in Fields, NEW g, NEW poison \in BOOLEAN
  PROVE  Cleared(g, poison) \in Fields
<1>1. CASE g = nav.goal_generation
  BY <1>1 DEF Fields, Cleared
<1>2. CASE g # nav.goal_generation
  BY <1>2 DEF Cleared
<1>3. QED
  BY <1>1, <1>2

\* The return from _settle_motion keeps the threads' types.
LEMMA SettledTyped ==
  ASSUME NavigatorInvariant, NEW t \in Threads, NEW ok \in BOOLEAN
  PROVE  [thr EXCEPT ![t].pc = thr[t].ret, ![t].ok = ok] \in [Threads -> ThreadStates]
<1>1. thr[t].ret \in Labels
  BY LabelsAre, ReturnLabels
<1>2. QED
  BY <1>1, Typing DEF ThreadStates

\* So does a move to a known place.
LEMMA MovesTyped ==
  ASSUME NavigatorInvariant, NEW t \in Threads, NEW l \in Labels,
         NEW r \in {"cancelSettled", "clearGoal", "detach", "consume"},
         NEW a \in {"operator", "loop", "end", "classify"}
  PROVE  /\ [thr EXCEPT ![t].pc = l] \in [Threads -> ThreadStates]
         /\ [thr EXCEPT ![t].pc = l, ![t].ret = r] \in [Threads -> ThreadStates]
         /\ [thr EXCEPT ![t].pc = l, ![t].after = a] \in [Threads -> ThreadStates]
<1>1. thr[t] \in ThreadStates
  BY Typing
<1>2. /\ [thr[t] EXCEPT !.pc = l] \in ThreadStates
      /\ [thr[t] EXCEPT !.pc = l, !.ret = r] \in ThreadStates
      /\ [thr[t] EXCEPT !.pc = l, !.after = a] \in ThreadStates
  BY <1>1 DEF ThreadStates
<1>3. QED
  BY <1>2, Typing

\* _request_cancel_locked sets one flag, or none.
LEMMA RequestsCancel ==
  ASSUME nav \in Fields
  PROVE  WithCancel(nav) = IF MayCancel(nav) THEN [nav EXCEPT !.cancel_sent = TRUE] ELSE nav
  BY DEF Fields, WithCancel, MayCancel

\* A thread waits for one request at a time.
LEMMA OneRequestEach ==
  ASSUME NavigatorInvariant, NEW q \in requests, NEW r \in requests,
         q.to = r.to, r.to # Nobody
  PROVE  q = r
<1>1. q.op = r.op /\ q.gen = r.gen
  BY DEF NavigatorInvariant, TypeOK, RequestsFollow
<1>2. q = [op |-> q.op, gen |-> q.gen, to |-> q.to] /\ r = [op |-> r.op, gen |-> r.gen, to |-> r.to]
  BY DEF NavigatorInvariant, TypeOK
<1>3. QED
  BY <1>1, <1>2

\* A move between two places outside the calls of the guard disturbs no request.
LEMMA MovesOutsideCalls ==
  ASSUME NavigatorInvariant, NEW t \in Threads,
         \A u \in Threads : u # t => thr'[u] = thr[u],
         thr[t].pc \notin Waits, thr'[t].pc \notin Waits,
         t = "worker" /\ thr[t].pc \in {"idle", "prepareFailed"} => thr'[t].pc = "idle",
         UNCHANGED <<requests, reply, granted>>, nav'.goal_generation = nav.goal_generation
  PROVE  RequestsFollow'
<1>1. reply[t] = NoReply /\ \A r \in requests : r.to # t
  BY DEF NavigatorInvariant, TypeOK, RequestsFollow
<1>2. \A u \in Threads : reply'[u] # NoReply => thr'[u].pc \in Waits
  BY <1>1 DEF NavigatorInvariant, RequestsFollow
<1>3. \A r \in requests' : r.to # Nobody => r.to \in Threads /\ r.to # t /\ thr'[r.to] = thr[r.to]
  BY <1>1 DEF NavigatorInvariant, TypeOK
<1>4. \A r \in requests' : r.to # Nobody =>
        /\ thr'[r.to].pc \in Waits /\ reply'[r.to] = NoReply /\ r.gen = thr'[r.to].gen
        /\ r.op = "prepare" <=> At(r.to, "preparing")'
        /\ r.op = "activate" <=> At(r.to, "activating")'
        /\ r.op = "renew" <=> At(r.to, "renewing")'
  BY <1>3 DEF NavigatorInvariant, RequestsFollow
<1>5. \A r \in requests' : r.op = "prepare" =>
        /\ r.gen \notin granted' /\ r.gen <= nav'.goal_generation
        /\ r.gen = nav'.goal_generation =>
             \/ At("worker", "idle")' \/ At("worker", "prepareFailed")'
             \/ At("worker", "preparing")' /\ (r.to = "worker" \/ reply'["worker"] = "timeout")
  BY DEF NavigatorInvariant, RequestsFollow
<1>6. QED
  BY <1>2, <1>4, <1>5 DEF NavigatorInvariant, RequestsFollow

\* Nor does taking an answer and leaving the call.
LEMMA AnswerTaken ==
  ASSUME NavigatorInvariant, NEW t \in Threads,
         \A u \in Threads : u # t => thr'[u] = thr[u],
         reply[t] # NoReply, thr'[t].pc \notin Waits, t = "worker" => ~At(t, "preparing"),
         reply' = [reply EXCEPT ![t] = NoReply],
         UNCHANGED <<requests, granted>>, nav'.goal_generation = nav.goal_generation
  PROVE  RequestsFollow'
<1>1. thr[t].pc \in Waits /\ \A r \in requests : r.to # t
  BY DEF NavigatorInvariant, TypeOK, RequestsFollow
<1>2. \A u \in Threads : reply'[u] # NoReply => thr'[u].pc \in Waits
  BY <1>1 DEF NavigatorInvariant, TypeOK, RequestsFollow
<1>3. \A r \in requests' : r.to # Nobody =>
        r.to \in Threads /\ r.to # t /\ thr'[r.to] = thr[r.to] /\ reply'[r.to] = reply[r.to]
  BY <1>1 DEF NavigatorInvariant, TypeOK
<1>4. \A r \in requests' : r.to # Nobody =>
        /\ thr'[r.to].pc \in Waits /\ reply'[r.to] = NoReply /\ r.gen = thr'[r.to].gen
        /\ r.op = "prepare" <=> At(r.to, "preparing")'
        /\ r.op = "activate" <=> At(r.to, "activating")'
        /\ r.op = "renew" <=> At(r.to, "renewing")'
  BY <1>3 DEF NavigatorInvariant, RequestsFollow
<1>5. \A r \in requests' : r.op = "prepare" =>
        /\ r.gen \notin granted' /\ r.gen <= nav'.goal_generation
        /\ r.gen = nav'.goal_generation =>
             \/ At("worker", "idle")' \/ At("worker", "prepareFailed")'
             \/ At("worker", "preparing")' /\ (r.to = "worker" \/ reply'["worker"] = "timeout")
  BY <1>1 DEF NavigatorInvariant, TypeOK, RequestsFollow
<1>6. QED
  BY <1>2, <1>4, <1>5 DEF NavigatorInvariant, RequestsFollow

\* What the response callback does, with _request_cancel_locked worked out.
LEMMA GoalResponseIs ==
  ASSUME NavigatorInvariant, NEW g \in Goals, OnGoalResponse(g)
  PROVE  /\ <<"response", g>> \in due /\ g = nav.goal_generation
         /\ UNCHANGED <<guard_call_lock, thr, outcome, linkVars, server, cancels>>
         /\ \/ /\ nav' = [nav EXCEPT !.goal_pending = FALSE, !.poisoned = TRUE,
                                     !.goal_error = "response_error"]
               /\ due' = due \ {<<"response", g>>} /\ cancel_due' = cancel_due
            \/ /\ server[g] = "rejected"
               /\ nav' = [nav EXCEPT !.goal_pending = FALSE, !.goal_error = "rejected"]
               /\ due' = due \ {<<"response", g>>} /\ cancel_due' = cancel_due
            \/ /\ server[g] \notin NotTaken /\ nav.guard_stop_attempted = g
               /\ nav' = [nav EXCEPT !.goal_pending = FALSE, !.goal_handle = TRUE,
                                     !.cancel_sent = TRUE]
               /\ due' = (due \ {<<"response", g>>}) \cup {<<"result", g>>}
               /\ cancel_due' = cancel_due \cup {g}
            \/ /\ server[g] \notin NotTaken
               /\ nav' = [nav EXCEPT !.goal_pending = FALSE, !.goal_handle = TRUE]
               /\ due' = (due \ {<<"response", g>>}) \cup {<<"result", g>>}
               /\ cancel_due' = cancel_due
<1> DEFINE f == [nav EXCEPT !.goal_pending = FALSE, !.goal_handle = TRUE]
<1>1. /\ <<"response", g>> \in due /\ g = nav.goal_generation /\ server[g] \notin {"none", "sent"}
      /\ UNCHANGED <<guard_call_lock, thr, outcome, linkVars, server, cancels>>
  BY DEF OnGoalResponse, NavigatorInvariant, CallbacksFollow
<1>2. /\ f \in Fields /\ f.goal_handle /\ f.goal_generation = nav.goal_generation
      /\ f.cancel_sent = nav.cancel_sent /\ f.cancel_requested = nav.cancel_requested
      /\ f.guard_stop_attempted = nav.guard_stop_attempted
  BY Typing DEF Fields
<1>3. MayCancel(f) <=> ~nav.cancel_sent
  BY <1>2 DEF MayCancel
<1>4. MayCancel(f) => /\ WithCancel(f) = [nav EXCEPT !.goal_pending = FALSE, !.goal_handle = TRUE,
                                                    !.cancel_sent = TRUE]
                      /\ CancelsDue(f) = cancel_due \cup {g}
  BY <1>1, <1>2, <1>3, Typing DEF WithCancel, CancelsDue, Fields
<1>5. ~MayCancel(f) => WithCancel(f) = f /\ CancelsDue(f) = cancel_due
  BY <1>2 DEF WithCancel, CancelsDue, Fields
<1>6. ASSUME server[g] # "rejected",
             nav' = IF CancelWanted(f, g) THEN WithCancel(f) ELSE f,
             cancel_due' = IF CancelWanted(f, g) THEN CancelsDue(f) ELSE cancel_due
      PROVE  \/ /\ nav.guard_stop_attempted = g
                /\ nav' = [nav EXCEPT !.goal_pending = FALSE, !.goal_handle = TRUE,
                                      !.cancel_sent = TRUE]
                /\ cancel_due' = cancel_due \cup {g}
             \/ nav' = f /\ cancel_due' = cancel_due
  <2>1. CASE CancelWanted(f, g) /\ MayCancel(f)
    BY <1>2, <1>4, <1>6, <2>1 DEF CancelWanted
  <2>2. CASE CancelWanted(f, g) /\ ~MayCancel(f)
    BY <1>5, <1>6, <2>2
  <2>3. CASE ~CancelWanted(f, g)
    BY <1>6, <2>3
  <2>4. QED
    BY <2>1, <2>2, <2>3
<1>7. QED
  BY <1>1, <1>6 DEF OnGoalResponse

\* The two steps the mission has besides those of Next, by what they do.
MotionUnsettled(t) ==
  /\ At(t, "settleWait")
  /\ nav' = IF Newest(t) THEN [nav EXCEPT !.poisoned = TRUE] ELSE nav
  /\ thr' = Settled(t, FALSE)
  /\ UNCHANGED <<guard_call_lock, outcome, linkVars, nav2Vars, cancels>>

CallGivenUp(t) ==
  /\ thr[t].pc \in Waits /\ reply[t] # "timeout"
  /\ requests' = {r \in requests : r.to # t}
                   \cup {[r EXCEPT !.to = Nobody] : r \in {q \in requests : q.to = t}}
  /\ reply' = [reply EXCEPT ![t] = "timeout"]
  /\ UNCHANGED <<nav, guard_call_lock, thr, outcome, guard, granted, nav2Vars, cancels>>

-----------------------------------------------------------------------------
(* prepare() to the end of navigate(). *)

\* A new goal: its predecessor is over, so no lease, callback or request of it counts.
LEMMA NavigateBeginsStep ==
  ASSUME NavigatorInvariant, NavigateBegins
  PROVE  NavigatorInvariant'
<1>1. TypeOK'
  <2>1. nav' \in Fields
    BY GenerationsAre, Typing DEF Fields, GoalErrors, NavigateBegins
  <2>2. thr' \in [Threads -> ThreadStates]
    <3>1. nav.goal_generation + 1 \in Generations
      BY Typing, GenerationsAre DEF NavigateBegins, Fields
    <3>2. [thr["worker"] EXCEPT !.pc = "prepare", !.gen = nav.goal_generation + 1] \in ThreadStates
      BY <3>1, Typing, LabelsAre DEF ThreadStates
    <3>3. thr' = [thr EXCEPT !["worker"] = [thr["worker"] EXCEPT !.pc = "prepare",
                                                !.gen = nav.goal_generation + 1]]
      BY Typing DEF NavigateBegins
    <3>4. QED
      BY <3>2, <3>3, Typing
  <2>3. QED
    BY <2>1, <2>2 DEF NavigatorInvariant, TypeOK, NavigateBegins
<1>2. /\ ThreadsInPlace' /\ LockFollows' /\ GoalsFollow' /\ CallbacksFollow'
      /\ LeasesFollow' /\ StopsFollow'
  BY GenerationsAre, Typing DEF NavigatorInvariant, TypeOK, Fields, ThreadStates,
     NavigateBegins, ThreadsInPlace, LockFollows, GoalsFollow, CallbacksFollow,
     LeasesFollow, StopsFollow
<1>3. RequestsFollow'
  <2>1. \A r \in requests : r.to # "worker" /\ (r.op = "prepare" => r.gen <= nav.goal_generation)
    BY DEF NavigateBegins, NavigatorInvariant, RequestsFollow
  <2>2. nav'.goal_generation = nav.goal_generation + 1
    BY Typing DEF NavigateBegins, Fields
  <2>3. \A r \in requests : r.op = "prepare" =>
          r.gen <= nav'.goal_generation /\ r.gen # nav'.goal_generation
    BY <2>1, <2>2, Typing, GenerationsAre DEF NavigatorInvariant, TypeOK
  <2>4. \A r \in requests : r.to # Nobody => r.to = "operator" /\ thr'[r.to] = thr[r.to]
    BY <2>1 DEF NavigateBegins, NavigatorInvariant, TypeOK
  <2>5. /\ thr'["operator"] = thr["operator"] /\ UNCHANGED <<requests, reply, granted>>
        /\ thr["worker"].pc = "idle" /\ thr'["worker"].pc = "prepare"
    BY Typing DEF NavigateBegins, ThreadStates
  <2>6. \A u \in Threads : reply'[u] # NoReply => thr'[u].pc \in Waits
    BY <2>5 DEF NavigatorInvariant, RequestsFollow
  <2>7. QED
    BY <2>1, <2>3, <2>4, <2>5, <2>6 DEF NavigatorInvariant, RequestsFollow
<1>4. StoppingFollows'
  BY GenerationsAre, Typing DEF NavigatorInvariant, TypeOK, Fields, ThreadStates,
     NavigateBegins, StoppingFollows, ThreadsInPlace
<1>5. SettlesWhatEnded'
  BY GenerationsAre, Typing DEF NavigatorInvariant, TypeOK, Fields, ThreadStates,
     NavigateBegins, SettlesWhatEnded, ThreadsInPlace
<1>6. HandlesFollow'
  BY GenerationsAre, Typing, ServerTyping DEF NavigatorInvariant, TypeOK, Fields,
     ThreadStates, NavigateBegins, HandlesFollow, ThreadsInPlace, GoalsFollow,
     SettlesWhatEnded
<1>7. CancelFollowsRevoke'
  BY GenerationsAre, Typing DEF NavigatorInvariant, TypeOK, Fields, ThreadStates,
     NavigateBegins, CancelFollowsRevoke, ThreadsInPlace
<1>8. QED
  BY <1>1, <1>2, <1>3, <1>4, <1>5, <1>6, <1>7 DEF NavigatorInvariant

\* navigate() refuses beside an active navigator.
LEMMA NavigateRefusedStep ==
  ASSUME NavigatorInvariant, NavigateRefused
  PROVE  NavigatorInvariant'
<1>1. TypeOK'
  <2>1. nav' \in Fields
    BY Typing DEF Fields, NavigateRefused
  <2>2. thr' \in [Threads -> ThreadStates]
    BY LabelsAre, Typing DEF ThreadStates, NavigateRefused
  <2>3. QED
    BY <2>1, <2>2 DEF NavigatorInvariant, TypeOK, NavigateRefused
<1>2. /\ ThreadsInPlace' /\ LockFollows' /\ RequestsFollow' /\ GoalsFollow'
      /\ CallbacksFollow' /\ LeasesFollow' /\ StopsFollow' /\ StoppingFollows'
      /\ SettlesWhatEnded' /\ CancelFollowsRevoke'
  BY DEF NavigatorInvariant, NavigateRefused, ThreadsInPlace, LockFollows, RequestsFollow,
     GoalsFollow, CallbacksFollow, LeasesFollow, StopsFollow, StoppingFollows,
     SettlesWhatEnded, CancelFollowsRevoke
<1>3. HandlesFollow'
  BY GenerationsAre, Typing, ServerTyping DEF NavigatorInvariant, TypeOK, Fields,
     ThreadStates, NavigateRefused, HandlesFollow, ThreadsInPlace, GoalsFollow,
     SettlesWhatEnded
<1>4. QED
  BY <1>1, <1>2, <1>3 DEF NavigatorInvariant

\* prepare() takes the call lock and asks for a Stop first.
LEMMA PrepareStopStep ==
  ASSUME NavigatorInvariant, PrepareStop
  PROVE  NavigatorInvariant'
<1>1. TypeOK'
  <2>1. nav' \in Fields
    BY Typing DEF Fields, PrepareStop, Locked
  <2>2. thr' \in [Threads -> ThreadStates]
    BY LabelsAre, Typing DEF ThreadStates, PrepareStop, Locked, Call
  <2>3. QED
    BY <2>1, <2>2, GenerationsAre, Typing DEF NavigatorInvariant, TypeOK, PrepareStop,
       Locked, Call, ThreadStates
<1>2. /\ ThreadsInPlace' /\ GoalsFollow' /\ CallbacksFollow' /\ LeasesFollow'
      /\ StopsFollow' /\ StoppingFollows' /\ SettlesWhatEnded' /\ CancelFollowsRevoke'
  BY DEF NavigatorInvariant, PrepareStop, Locked, Call, ThreadsInPlace, GoalsFollow,
     CallbacksFollow, LeasesFollow, StopsFollow, StoppingFollows, SettlesWhatEnded,
     CancelFollowsRevoke
<1>3. /\ LockFollows' /\ RequestsFollow'
  BY GenerationsAre, Typing DEF NavigatorInvariant, TypeOK, Fields, ThreadStates,
     PrepareStop, Locked, Call, LockFollows, RequestsFollow
<1>4. HandlesFollow'
  BY GenerationsAre, Typing, ServerTyping DEF NavigatorInvariant, TypeOK, Fields,
     ThreadStates, PrepareStop, Locked, Call, HandlesFollow, ThreadsInPlace, GoalsFollow,
     SettlesWhatEnded
<1>5. QED
  BY <1>1, <1>2, <1>3, <1>4 DEF NavigatorInvariant

\* The Stop before the Prepare is answered: the Prepare follows, or prepare() has failed.
LEMMA PrepareStoppedStep ==
  ASSUME NavigatorInvariant, PrepareStopped
  PROVE  NavigatorInvariant'
<1>1. CASE reply["worker"] = "ok"
  <2>1. TypeOK'
    <3>1. nav' \in Fields
      BY Typing, <1>1 DEF Fields, PrepareStopped, Answered, Call
    <3>2. thr' \in [Threads -> ThreadStates]
      BY LabelsAre, Typing, <1>1 DEF ThreadStates, PrepareStopped, Answered, Call
    <3>3. QED
      BY <3>1, <3>2, GenerationsAre, Typing, <1>1 DEF NavigatorInvariant, TypeOK,
         PrepareStopped, Answered, Call, Unlocked, ThreadStates
  <2>2. /\ ThreadsInPlace' /\ LockFollows' /\ LeasesFollow' /\ StoppingFollows'
        /\ SettlesWhatEnded'
    BY GenerationsAre, Typing, <1>1 DEF NavigatorInvariant, TypeOK, Fields, ThreadStates,
       PrepareStopped, Answered, Call, Unlocked, ThreadsInPlace, LockFollows, LeasesFollow,
       StoppingFollows, SettlesWhatEnded
  <2>3. RequestsFollow'
    BY GenerationsAre, Typing, <1>1 DEF NavigatorInvariant, TypeOK, Fields, ThreadStates,
       PrepareStopped, Answered, Call, Unlocked, RequestsFollow, ThreadsInPlace, GoalsFollow,
       LeasesFollow, StopsFollow, StoppingFollows, SettlesWhatEnded
  <2>4. /\ GoalsFollow' /\ CallbacksFollow' /\ StopsFollow' /\ CancelFollowsRevoke'
    BY <1>1 DEF NavigatorInvariant, PrepareStopped, Answered, Call, GoalsFollow,
       CallbacksFollow, StopsFollow, CancelFollowsRevoke
  <2>5. HandlesFollow'
    BY GenerationsAre, Typing, <1>1, ServerTyping DEF NavigatorInvariant, TypeOK, Fields,
       ThreadStates, PrepareStopped, Answered, Call, Unlocked, HandlesFollow, ThreadsInPlace,
       GoalsFollow, SettlesWhatEnded
  <2>6. QED
    BY <2>1, <2>2, <2>3, <2>4, <2>5 DEF NavigatorInvariant
<1>2. CASE reply["worker"] # "ok"
  <2>1. TypeOK'
    <3>1. nav' \in Fields
      BY Typing, <1>2 DEF Fields, PrepareStopped, Answered, Call
    <3>2. thr' \in [Threads -> ThreadStates]
      BY LabelsAre, Typing, <1>2 DEF ThreadStates, PrepareStopped, Answered, Call
    <3>3. QED
      BY <3>1, <3>2, <1>2 DEF NavigatorInvariant, TypeOK, PrepareStopped, Answered, Call,
         Unlocked
  <2>2. /\ ThreadsInPlace' /\ LockFollows' /\ RequestsFollow' /\ LeasesFollow'
        /\ StoppingFollows' /\ SettlesWhatEnded'
    BY GenerationsAre, Typing, <1>2 DEF NavigatorInvariant, TypeOK, Fields, ThreadStates,
       PrepareStopped, Answered, Call, Unlocked, ThreadsInPlace, LockFollows, RequestsFollow,
       LeasesFollow, StoppingFollows, SettlesWhatEnded
  <2>3. /\ GoalsFollow' /\ CallbacksFollow' /\ StopsFollow' /\ CancelFollowsRevoke'
    BY <1>2 DEF NavigatorInvariant, PrepareStopped, Answered, Call, GoalsFollow,
       CallbacksFollow, StopsFollow, CancelFollowsRevoke
  <2>4. HandlesFollow'
    BY GenerationsAre, Typing, <1>2, ServerTyping DEF NavigatorInvariant, TypeOK, Fields,
       ThreadStates, PrepareStopped, Answered, Call, Unlocked, HandlesFollow, ThreadsInPlace,
       GoalsFollow, SettlesWhatEnded
  <2>5. QED
    BY <2>1, <2>2, <2>3, <2>4 DEF NavigatorInvariant
<1>3. QED
  BY <1>1, <1>2 DEF PrepareStopped, Answered, Call

\* The lease is granted: it is of the goal in force, and no Stop counts for it yet.
LEMMA PreparedStep ==
  ASSUME NavigatorInvariant, Prepared
  PROVE  NavigatorInvariant'
<1>1. TypeOK'
  <2>1. nav' \in Fields
    BY GenerationsAre, Typing DEF Fields, GoalErrors, Prepared, Unlocked
  <2>2. thr' \in [Threads -> ThreadStates]
    BY LabelsAre, Typing DEF ThreadStates, Prepared
  <2>3. QED
    <3>1. Me \in Goals
      BY Typing DEF Prepared, NavigatorInvariant, ThreadsInPlace, GoalsFollow
    <3>2. QED
      BY <2>1, <2>2, <3>1 DEF Prepared, Unlocked, NavigatorInvariant, TypeOK
<1>2. /\ ThreadsInPlace' /\ GoalsFollow' /\ SettlesWhatEnded' /\ CancelFollowsRevoke'
  BY DEF NavigatorInvariant, Prepared, ThreadsInPlace, GoalsFollow, SettlesWhatEnded,
     CancelFollowsRevoke
<1>3. /\ LockFollows' /\ CallbacksFollow'
  BY GenerationsAre, Typing DEF NavigatorInvariant, TypeOK, Fields, ThreadStates, Prepared,
     Unlocked, LockFollows, CallbacksFollow
<1>4. RequestsFollow'
  BY GenerationsAre, Typing DEF NavigatorInvariant, TypeOK, Fields, ThreadStates, Prepared,
     Unlocked, RequestsFollow, ThreadsInPlace
<1>5. LeasesFollow'
  BY GenerationsAre, Typing DEF NavigatorInvariant, TypeOK, Fields, ThreadStates, Prepared,
     Unlocked, LeasesFollow, ThreadsInPlace
<1>6. StopsFollow'
  BY GenerationsAre, Typing DEF NavigatorInvariant, TypeOK, Fields, ThreadStates, Prepared,
     Unlocked, StopsFollow, ThreadsInPlace, GoalsFollow
<1>7. StoppingFollows'
  BY GenerationsAre, Typing DEF NavigatorInvariant, TypeOK, Fields, ThreadStates, Prepared,
     Unlocked, StoppingFollows, ThreadsInPlace, LockFollows, RequestsFollow, GoalsFollow,
     CallbacksFollow, LeasesFollow, StopsFollow, SettlesWhatEnded, CancelFollowsRevoke
<1>8. HandlesFollow'
  BY GenerationsAre, Typing, ServerTyping DEF NavigatorInvariant, TypeOK, Fields,
     ThreadStates, Prepared, Unlocked, HandlesFollow, ThreadsInPlace, GoalsFollow,
     SettlesWhatEnded
<1>9. QED
  BY <1>1, <1>2, <1>3, <1>4, <1>5, <1>6, <1>7, <1>8 DEF NavigatorInvariant

\* The stop barrier was not ready: another Prepare of the same lease.
LEMMA PrepareRetriedStep ==
  ASSUME NavigatorInvariant, PrepareRetried
  PROVE  NavigatorInvariant'
<1>1. TypeOK'
  <2>1. nav' \in Fields
    BY Typing DEF Fields, PrepareRetried
  <2>2. thr' \in [Threads -> ThreadStates]
    BY LabelsAre, Typing DEF ThreadStates, PrepareRetried, Call
  <2>3. QED
    BY <2>1, <2>2, GenerationsAre, Typing DEF NavigatorInvariant, TypeOK, PrepareRetried,
       Call, ThreadStates
<1>2. /\ ThreadsInPlace' /\ LockFollows' /\ GoalsFollow' /\ CallbacksFollow'
      /\ LeasesFollow' /\ StopsFollow' /\ StoppingFollows' /\ SettlesWhatEnded'
      /\ CancelFollowsRevoke'
  BY DEF NavigatorInvariant, PrepareRetried, Call, ThreadsInPlace, LockFollows,
     GoalsFollow, CallbacksFollow, LeasesFollow, StopsFollow, StoppingFollows,
     SettlesWhatEnded, CancelFollowsRevoke
<1>3. RequestsFollow'
  BY GenerationsAre, Typing DEF NavigatorInvariant, TypeOK, Fields, ThreadStates,
     PrepareRetried, Call, RequestsFollow, ThreadsInPlace, LeasesFollow, StopsFollow
<1>4. HandlesFollow'
  BY GenerationsAre, Typing, ServerTyping DEF NavigatorInvariant, TypeOK, Fields,
     ThreadStates, PrepareRetried, Call, HandlesFollow, ThreadsInPlace, GoalsFollow,
     SettlesWhatEnded
<1>5. QED
  BY <1>1, <1>2, <1>3, <1>4 DEF NavigatorInvariant

\* prepare() gives up; a Prepare still on its way is of a lease never granted.
LEMMA PrepareGivenUpStep ==
  ASSUME NavigatorInvariant, PrepareGivenUp
  PROVE  NavigatorInvariant'
<1>1. TypeOK'
  <2>1. nav' \in Fields
    BY Typing DEF Fields, PrepareGivenUp, Answered
  <2>2. thr' \in [Threads -> ThreadStates]
    BY LabelsAre, Typing DEF ThreadStates, PrepareGivenUp, Answered
  <2>3. QED
    BY <2>1, <2>2 DEF NavigatorInvariant, TypeOK, PrepareGivenUp, Answered, Unlocked
<1>2. /\ ThreadsInPlace' /\ GoalsFollow' /\ CallbacksFollow' /\ LeasesFollow'
      /\ StopsFollow' /\ StoppingFollows' /\ SettlesWhatEnded' /\ CancelFollowsRevoke'
  BY DEF NavigatorInvariant, PrepareGivenUp, Answered, ThreadsInPlace, GoalsFollow,
     CallbacksFollow, LeasesFollow, StopsFollow, StoppingFollows, SettlesWhatEnded,
     CancelFollowsRevoke
<1>3. /\ LockFollows' /\ RequestsFollow'
  BY GenerationsAre, Typing DEF NavigatorInvariant, TypeOK, Fields, ThreadStates,
     PrepareGivenUp, Answered, Unlocked, LockFollows, RequestsFollow
<1>4. HandlesFollow'
  BY GenerationsAre, Typing, ServerTyping DEF NavigatorInvariant, TypeOK, Fields,
     ThreadStates, PrepareGivenUp, Answered, Unlocked, HandlesFollow, ThreadsInPlace,
     GoalsFollow, SettlesWhatEnded
<1>5. QED
  BY <1>1, <1>2, <1>3, <1>4 DEF NavigatorInvariant

\* A goal whose lease was refused is cleared: nothing was sent for it.
LEMMA PrepareFailedStep ==
  ASSUME NavigatorInvariant, PrepareFailed
  PROVE  NavigatorInvariant'
<1>1. TypeOK'
  <2>1. nav' \in Fields
    BY Typing, ClearedTyped DEF Fields, PrepareFailed, Returned
  <2>2. thr' \in [Threads -> ThreadStates]
    BY LabelsAre, GenerationsAre, Typing DEF ThreadStates, PrepareFailed, Returned, AtRest,
       Cleared
  <2>3. QED
    BY <2>1, <2>2 DEF NavigatorInvariant, TypeOK, PrepareFailed, Returned, AtRest, Cleared
<1>2. ThreadsInPlace'
  BY GenerationsAre, Typing DEF NavigatorInvariant, TypeOK, Fields, ThreadStates,
     PrepareFailed, Returned, AtRest, Cleared, ThreadsInPlace
<1>3. /\ LockFollows' /\ RequestsFollow' /\ GoalsFollow' /\ LeasesFollow' /\ StopsFollow'
      /\ StoppingFollows' /\ SettlesWhatEnded' /\ CancelFollowsRevoke'
  BY DEF NavigatorInvariant, PrepareFailed, Returned, AtRest, LockFollows, Cleared,
     RequestsFollow, GoalsFollow, LeasesFollow, StopsFollow, StoppingFollows,
     SettlesWhatEnded, CancelFollowsRevoke
<1>4. CallbacksFollow'
  <2>1. \A g \in Goals : <<"response", g>> \notin due /\ <<"result", g>> \notin due
    BY DEF NavigatorInvariant, PrepareFailed, ThreadsInPlace, GoalsFollow, CallbacksFollow
  <2>2. QED
    BY <2>1 DEF PrepareFailed, CallbacksFollow
<1>5. HandlesFollow'
  BY GenerationsAre, Typing, ServerTyping DEF NavigatorInvariant, TypeOK, Fields,
     ThreadStates, PrepareFailed, Returned, AtRest, Cleared, HandlesFollow, ThreadsInPlace,
     GoalsFollow, SettlesWhatEnded
<1>6. QED
  BY <1>1, <1>2, <1>3, <1>4, <1>5 DEF NavigatorInvariant

\* The look at cancel_requested before the goal is sent.
LEMMA CheckCanceledStep ==
  ASSUME NavigatorInvariant, CheckCanceled
  PROVE  NavigatorInvariant'
<1>1. CASE nav.cancel_requested
  <2>1. TypeOK'
    <3>1. nav' \in Fields
      BY Typing, <1>1 DEF Fields, CheckCanceled
    <3>2. thr' \in [Threads -> ThreadStates]
      BY LabelsAre, Typing, <1>1 DEF ThreadStates, CheckCanceled, Settling
    <3>3. QED
      BY <3>1, <3>2, <1>1 DEF NavigatorInvariant, TypeOK, CheckCanceled, Settling
  <2>2. /\ ThreadsInPlace' /\ LockFollows' /\ RequestsFollow' /\ LeasesFollow'
        /\ StoppingFollows' /\ SettlesWhatEnded'
    BY GenerationsAre, Typing, <1>1 DEF NavigatorInvariant, TypeOK, Fields, ThreadStates,
       CheckCanceled, Settling, ThreadsInPlace, LockFollows, RequestsFollow, LeasesFollow,
       StoppingFollows, SettlesWhatEnded
  <2>3. /\ GoalsFollow' /\ CallbacksFollow' /\ StopsFollow' /\ CancelFollowsRevoke'
    BY <1>1 DEF NavigatorInvariant, CheckCanceled, GoalsFollow, CallbacksFollow, StopsFollow,
       CancelFollowsRevoke
  <2>4. HandlesFollow'
    BY GenerationsAre, Typing, <1>1, ServerTyping DEF NavigatorInvariant, TypeOK, Fields,
       ThreadStates, CheckCanceled, Settling, HandlesFollow, ThreadsInPlace, GoalsFollow,
       SettlesWhatEnded
  <2>5. QED
    BY <2>1, <2>2, <2>3, <2>4 DEF NavigatorInvariant
<1>2. CASE ~nav.cancel_requested
  <2>1. TypeOK'
    <3>1. nav' \in Fields
      BY Typing, <1>2 DEF Fields, CheckCanceled
    <3>2. thr' \in [Threads -> ThreadStates]
      BY LabelsAre, Typing, <1>2 DEF ThreadStates, CheckCanceled
    <3>3. QED
      BY <3>1, <3>2, <1>2 DEF NavigatorInvariant, TypeOK, CheckCanceled, Settling
  <2>2. /\ ThreadsInPlace' /\ LockFollows' /\ RequestsFollow' /\ LeasesFollow'
        /\ StoppingFollows' /\ SettlesWhatEnded'
    BY GenerationsAre, Typing, <1>2 DEF NavigatorInvariant, TypeOK, Fields, ThreadStates,
       CheckCanceled, Settling, ThreadsInPlace, LockFollows, RequestsFollow, LeasesFollow,
       StoppingFollows, SettlesWhatEnded
  <2>3. /\ GoalsFollow' /\ CallbacksFollow' /\ StopsFollow' /\ CancelFollowsRevoke'
    BY <1>2 DEF NavigatorInvariant, CheckCanceled, GoalsFollow, CallbacksFollow, StopsFollow,
       CancelFollowsRevoke
  <2>4. HandlesFollow'
    BY GenerationsAre, Typing, <1>2, ServerTyping DEF NavigatorInvariant, TypeOK, Fields,
       ThreadStates, CheckCanceled, Settling, HandlesFollow, ThreadsInPlace, GoalsFollow,
       SettlesWhatEnded
  <2>5. QED
    BY <2>1, <2>2, <2>3, <2>4 DEF NavigatorInvariant
<1>3. QED
  BY <1>1, <1>2 DEF CheckCanceled

\* The goal is sent, and its response is owed; or send_goal_async raises.
LEMMA SendGoalStep ==
  ASSUME NavigatorInvariant, SendGoal
  PROVE  NavigatorInvariant'
<1>1. CASE At("worker", "awaitResponse")'
  <2>0. /\ At("worker", "send")
        /\ nav' = [nav EXCEPT !.goal_pending = TRUE]
        /\ server' = [server EXCEPT ![Me] = "sent"]
        /\ due' = due \cup {<<"response", Me>>}
        /\ thr' = [thr EXCEPT !["worker"].pc = "awaitResponse"]
        /\ UNCHANGED <<guard_call_lock, outcome, linkVars, cancel_due, cancels>>
    BY <1>1 DEF SendGoal, Settling, NavigatorInvariant, TypeOK, ThreadStates
  <2>1. TypeOK'
    <3>1. nav' \in Fields
      BY Typing, <1>1, <2>0 DEF Fields
    <3>2. thr' \in [Threads -> ThreadStates]
      BY LabelsAre, Typing, <1>1, <2>0 DEF ThreadStates
    <3>3. QED
      <4>1. Me \in Goals
        BY <2>0, Typing DEF NavigatorInvariant, ThreadsInPlace, GoalsFollow
      <4>2. QED
        BY <3>1, <3>2, <4>1, <2>0 DEF NavigatorInvariant, TypeOK
  <2>2. /\ ThreadsInPlace' /\ LockFollows' /\ RequestsFollow' /\ LeasesFollow'
        /\ StopsFollow' /\ StoppingFollows' /\ SettlesWhatEnded' /\ CancelFollowsRevoke'
    BY <1>1, <2>0 DEF NavigatorInvariant, ThreadsInPlace, LockFollows, RequestsFollow,
       LeasesFollow, StopsFollow, StoppingFollows, SettlesWhatEnded, CancelFollowsRevoke
  <2>3. GoalsFollow'
    BY GenerationsAre, Typing, <1>1, <2>0 DEF NavigatorInvariant, TypeOK, Fields,
       ThreadStates, GoalsFollow, ThreadsInPlace, RequestsFollow, LeasesFollow, StopsFollow
  <2>4. CallbacksFollow'
    <3>1. /\ server[Me] = "none" /\ Me = nav.goal_generation /\ nav.goal_error = "none"
          /\ nav.operation_active /\ nav.terminal_generation # Me
      BY <2>0, Typing, GenerationsAre DEF NavigatorInvariant, TypeOK, Fields,
         GoalsFollow, ThreadsInPlace
    <3>2. /\ nav'.goal_generation = Me /\ nav'.goal_error = "none" /\ nav'.operation_active
          /\ nav'.terminal_generation # Me /\ Me \in Goals
      BY <2>0, <3>1, Typing DEF Fields, NavigatorInvariant, GoalsFollow
    <3>3. QED
      BY <2>0, <3>1, <3>2, ServerTyping DEF NavigatorInvariant, CallbacksFollow
  <2>5. HandlesFollow'
    BY GenerationsAre, Typing, <1>1, <2>0, ServerTyping DEF NavigatorInvariant, TypeOK,
       Fields, ThreadStates, HandlesFollow, ThreadsInPlace, GoalsFollow, SettlesWhatEnded
  <2>6. QED
    BY <2>1, <2>2, <2>3, <2>4, <2>5 DEF NavigatorInvariant
<1>2. CASE ~At("worker", "awaitResponse")'
  <2>0. /\ At("worker", "send")
        /\ thr' = [thr EXCEPT !["worker"].pc = "settleRevoke", !["worker"].ret = "clearGoal"]
        /\ UNCHANGED <<nav, guard_call_lock, outcome, linkVars, nav2Vars, cancels>>
    BY <1>2 DEF SendGoal, Settling, NavigatorInvariant, TypeOK, ThreadStates
  <2>1. TypeOK'
    <3>1. nav' \in Fields
      BY Typing, <1>2, <2>0
    <3>2. thr' \in [Threads -> ThreadStates]
      BY <2>0, LabelsAre, MovesTyped
    <3>3. QED
      BY <3>1, <3>2, <1>2, <2>0 DEF NavigatorInvariant, TypeOK
  <2>2. /\ ThreadsInPlace' /\ LockFollows' /\ LeasesFollow' /\ StoppingFollows'
        /\ SettlesWhatEnded'
    BY GenerationsAre, Typing, <1>2, <2>0 DEF NavigatorInvariant, TypeOK, Fields,
       ThreadStates, ThreadsInPlace, LockFollows, LeasesFollow, StoppingFollows,
       SettlesWhatEnded
  <2>3. RequestsFollow'
    BY GenerationsAre, Typing, <1>2, <2>0 DEF NavigatorInvariant, TypeOK, Fields,
       ThreadStates, RequestsFollow, ThreadsInPlace
  <2>4. /\ GoalsFollow' /\ CallbacksFollow' /\ StopsFollow' /\ CancelFollowsRevoke'
    BY <1>2, <2>0 DEF NavigatorInvariant, GoalsFollow, CallbacksFollow, StopsFollow,
       CancelFollowsRevoke
  <2>5. HandlesFollow'
    BY GenerationsAre, Typing, <1>2, <2>0, ServerTyping DEF NavigatorInvariant, TypeOK,
       Fields, ThreadStates, HandlesFollow, ThreadsInPlace, GoalsFollow, SettlesWhatEnded
  <2>6. QED
    BY <2>1, <2>2, <2>3, <2>4, <2>5 DEF NavigatorInvariant
<1>3. QED
  BY <1>1, <1>2 DEF SendGoal

\* No response in time: cancel() is next.
LEMMA ResponseTimesOutStep ==
  ASSUME NavigatorInvariant, ResponseTimesOut
  PROVE  NavigatorInvariant'
<1>1. TypeOK'
  <2>1. nav' \in Fields
    BY Typing DEF Fields, ResponseTimesOut, GiveUp
  <2>2. thr' \in [Threads -> ThreadStates]
    BY LabelsAre, MovesTyped DEF ResponseTimesOut, GiveUp, Canceling
  <2>3. QED
    BY <2>1, <2>2 DEF NavigatorInvariant, TypeOK, ResponseTimesOut, GiveUp, Canceling
<1>2. ThreadsInPlace'
  BY GenerationsAre, Typing DEF NavigatorInvariant, TypeOK, Fields, ThreadStates,
     ResponseTimesOut, GiveUp, Canceling, ThreadsInPlace, GoalsFollow
<1>3. LockFollows'
  BY GenerationsAre, Typing DEF NavigatorInvariant, TypeOK, Fields, ThreadStates,
     ResponseTimesOut, GiveUp, Canceling, LockFollows, ThreadsInPlace
<1>4. RequestsFollow'
  <2>1. /\ \A u \in Threads : u # "worker" => thr'[u] = thr[u]
        /\ thr["worker"].pc \notin Waits /\ thr'["worker"].pc \notin Waits
        /\ thr["worker"].pc \notin {"idle", "prepareFailed"}
        /\ UNCHANGED <<nav, requests, reply, granted>>
    BY Typing DEF ThreadStates, ResponseTimesOut, GiveUp, Canceling
  <2>2. QED
    BY <2>1, MovesOutsideCalls
<1>5. /\ GoalsFollow' /\ LeasesFollow' /\ StoppingFollows' /\ SettlesWhatEnded'
  BY GenerationsAre, Typing DEF NavigatorInvariant, TypeOK, Fields, ThreadStates,
     ResponseTimesOut, GiveUp, Canceling, GoalsFollow, LeasesFollow, StoppingFollows,
     SettlesWhatEnded
<1>6. /\ CallbacksFollow' /\ StopsFollow' /\ CancelFollowsRevoke'
  BY DEF NavigatorInvariant, ResponseTimesOut, GiveUp, CallbacksFollow, StopsFollow,
     CancelFollowsRevoke
<1>7. HandlesFollow'
  BY GenerationsAre, Typing, ServerTyping DEF NavigatorInvariant, TypeOK, Fields,
     ThreadStates, ResponseTimesOut, GiveUp, Canceling, HandlesFollow, ThreadsInPlace,
     GoalsFollow, SettlesWhatEnded
<1>8. QED
  BY <1>1, <1>2, <1>3, <1>4, <1>5, <1>6, <1>7 DEF NavigatorInvariant

\* What the response made of the goal.
LEMMA ResponseSeenStep ==
  ASSUME NavigatorInvariant, ResponseSeen
  PROVE  NavigatorInvariant'
<1>1. TypeOK'
  <2>1. nav' \in Fields
    BY Typing DEF Fields, ResponseSeen, GiveUp, Canceling
  <2>2. thr' \in [Threads -> ThreadStates]
    BY LabelsAre, Typing DEF ThreadStates, ResponseSeen, GiveUp, Canceling, Settling
  <2>3. QED
    BY <2>1, <2>2 DEF NavigatorInvariant, TypeOK, ResponseSeen, GiveUp, Canceling, Settling
<1>2. /\ ThreadsInPlace' /\ LockFollows' /\ GoalsFollow' /\ LeasesFollow'
      /\ StoppingFollows' /\ SettlesWhatEnded'
  BY GenerationsAre, Typing DEF NavigatorInvariant, TypeOK, Fields, ThreadStates,
     ResponseSeen, GiveUp, Canceling, Settling, ThreadsInPlace, LockFollows, GoalsFollow,
     LeasesFollow, StoppingFollows, SettlesWhatEnded
<1>3. RequestsFollow'
  <2>1. /\ \A u \in Threads : u # "worker" => thr'[u] = thr[u]
        /\ thr["worker"].pc \notin Waits /\ thr'["worker"].pc \notin Waits
        /\ thr["worker"].pc \notin {"idle", "prepareFailed"}
        /\ UNCHANGED <<nav, requests, reply, granted>>
    BY Typing DEF ThreadStates, ResponseSeen, GiveUp, Canceling, Settling
  <2>2. QED
    BY <2>1, MovesOutsideCalls
<1>4. /\ CallbacksFollow' /\ StopsFollow' /\ CancelFollowsRevoke'
  BY DEF NavigatorInvariant, ResponseSeen, GiveUp, Canceling, CallbacksFollow, StopsFollow,
     CancelFollowsRevoke
<1>5. HandlesFollow'
  BY GenerationsAre, Typing, ServerTyping DEF NavigatorInvariant, TypeOK, Fields,
     ThreadStates, ResponseSeen, GiveUp, Canceling, Settling, HandlesFollow,
     ThreadsInPlace, GoalsFollow, SettlesWhatEnded
<1>6. QED
  BY <1>1, <1>2, <1>3, <1>4, <1>5 DEF NavigatorInvariant

\* The look at the goal before its lease is activated.
LEMMA BeforeActivateStep ==
  ASSUME NavigatorInvariant, BeforeActivate
  PROVE  NavigatorInvariant'
<1>1. TypeOK'
  <2>1. nav' \in Fields
    BY Typing DEF Fields, BeforeActivate, Consuming
  <2>2. thr' \in [Threads -> ThreadStates]
    BY LabelsAre, Typing DEF ThreadStates, BeforeActivate, Consuming, Canceling
  <2>3. QED
    BY <2>1, <2>2 DEF NavigatorInvariant, TypeOK, BeforeActivate, Consuming, Canceling
<1>2. /\ ThreadsInPlace' /\ LockFollows' /\ GoalsFollow' /\ LeasesFollow'
      /\ StoppingFollows' /\ SettlesWhatEnded'
  BY GenerationsAre, Typing DEF NavigatorInvariant, TypeOK, Fields, ThreadStates,
     BeforeActivate, Consuming, Canceling, ThreadsInPlace, LockFollows, GoalsFollow,
     LeasesFollow, StoppingFollows, SettlesWhatEnded
<1>3. RequestsFollow'
  <2>1. /\ \A u \in Threads : u # "worker" => thr'[u] = thr[u]
        /\ thr["worker"].pc \notin Waits /\ thr'["worker"].pc \notin Waits
        /\ thr["worker"].pc \notin {"idle", "prepareFailed"}
        /\ UNCHANGED <<nav, requests, reply, granted>>
    BY Typing DEF ThreadStates, BeforeActivate, Consuming, Canceling
  <2>2. QED
    BY <2>1, MovesOutsideCalls
<1>4. /\ CallbacksFollow' /\ StopsFollow' /\ CancelFollowsRevoke'
  BY DEF NavigatorInvariant, BeforeActivate, Consuming, CallbacksFollow, StopsFollow,
     CancelFollowsRevoke
<1>5. HandlesFollow'
  BY GenerationsAre, Typing, ServerTyping DEF NavigatorInvariant, TypeOK, Fields,
     ThreadStates, BeforeActivate, Consuming, Canceling, HandlesFollow, ThreadsInPlace,
     GoalsFollow, SettlesWhatEnded
<1>6. QED
  BY <1>1, <1>2, <1>3, <1>4, <1>5 DEF NavigatorInvariant

\* activate() takes the call lock.
LEMMA ActivateStep ==
  ASSUME NavigatorInvariant, Activate
  PROVE  NavigatorInvariant'
<1>1. TypeOK'
  <2>1. nav' \in Fields
    BY Typing DEF Fields, Activate, Locked
  <2>2. thr' \in [Threads -> ThreadStates]
    BY LabelsAre, Typing DEF ThreadStates, Activate, Locked, Call
  <2>3. QED
    BY <2>1, <2>2, GenerationsAre, Typing DEF NavigatorInvariant, TypeOK, Activate, Locked,
       Call, ThreadStates
<1>2. /\ ThreadsInPlace' /\ GoalsFollow' /\ CallbacksFollow' /\ LeasesFollow'
      /\ StopsFollow' /\ StoppingFollows' /\ SettlesWhatEnded' /\ CancelFollowsRevoke'
  BY DEF NavigatorInvariant, Activate, Locked, Call, ThreadsInPlace, GoalsFollow,
     CallbacksFollow, LeasesFollow, StopsFollow, StoppingFollows, SettlesWhatEnded,
     CancelFollowsRevoke
<1>3. LockFollows'
  BY GenerationsAre, Typing DEF NavigatorInvariant, TypeOK, Fields, ThreadStates, Activate,
     Locked, Call, LockFollows
<1>4. RequestsFollow'
  BY GenerationsAre, Typing DEF NavigatorInvariant, TypeOK, Fields, ThreadStates, Activate,
     Locked, Call, RequestsFollow, ThreadsInPlace, LeasesFollow, StopsFollow
<1>5. HandlesFollow'
  BY GenerationsAre, Typing, ServerTyping DEF NavigatorInvariant, TypeOK, Fields,
     ThreadStates, Activate, Locked, Call, HandlesFollow, ThreadsInPlace, GoalsFollow,
     SettlesWhatEnded
<1>6. QED
  BY <1>1, <1>2, <1>3, <1>4, <1>5 DEF NavigatorInvariant

\* The answer to Activate, or the end of the wait for it.
LEMMA ActivatedStep ==
  ASSUME NavigatorInvariant, Activated
  PROVE  NavigatorInvariant'
<1>1. CASE reply["worker"] = "ok"
  <2>1. TypeOK'
    <3>1. nav' \in Fields
      BY Typing, <1>1 DEF Fields, Activated, Answered, Unlocked, GiveUp
    <3>2. thr' \in [Threads -> ThreadStates]
      BY LabelsAre, Typing, <1>1 DEF ThreadStates, Activated, Answered, Unlocked, GiveUp
    <3>3. QED
      BY <3>1, <3>2, <1>1 DEF NavigatorInvariant, TypeOK, Activated, Answered, Unlocked,
         GiveUp, Canceling
  <2>2. /\ ThreadsInPlace' /\ LockFollows' /\ RequestsFollow' /\ GoalsFollow'
        /\ LeasesFollow' /\ StoppingFollows' /\ SettlesWhatEnded'
    BY GenerationsAre, Typing, <1>1 DEF NavigatorInvariant, TypeOK, Fields, ThreadStates,
       Activated, Answered, Unlocked, GiveUp, Canceling, ThreadsInPlace, LockFollows,
       RequestsFollow, GoalsFollow, LeasesFollow, StoppingFollows, SettlesWhatEnded
  <2>3. /\ CallbacksFollow' /\ StopsFollow' /\ CancelFollowsRevoke'
    BY <1>1 DEF NavigatorInvariant, Activated, Answered, Unlocked, GiveUp, CallbacksFollow,
       StopsFollow, CancelFollowsRevoke
  <2>4. HandlesFollow'
    BY GenerationsAre, Typing, <1>1, ServerTyping DEF NavigatorInvariant, TypeOK, Fields,
       ThreadStates, Activated, Answered, Unlocked, GiveUp, Canceling, HandlesFollow,
       ThreadsInPlace, GoalsFollow, SettlesWhatEnded
  <2>5. QED
    BY <2>1, <2>2, <2>3, <2>4 DEF NavigatorInvariant
<1>2. CASE reply["worker"] # "ok"
  <2>0. /\ At("worker", "activating") /\ reply["worker"] # NoReply /\ guard_call_lock' = Nobody
        /\ nav' = [nav EXCEPT !.poisoned = TRUE]
        /\ thr' = [thr EXCEPT !["worker"].pc = "cancel", !["worker"].after = "end"]
        /\ reply' = [reply EXCEPT !["worker"] = NoReply]
        /\ UNCHANGED <<outcome, requests, guard, granted, nav2Vars, cancels>>
    BY <1>2 DEF Activated, Answered, Unlocked, GiveUp, Canceling
  <2>1. TypeOK'
    <3>1. nav' \in Fields
      BY Typing, <1>2, <2>0 DEF Fields
    <3>2. thr' \in [Threads -> ThreadStates]
      BY <2>0, LabelsAre, MovesTyped
    <3>3. QED
      BY <3>1, <3>2, <1>2, <2>0 DEF NavigatorInvariant, TypeOK
  <2>2. ThreadsInPlace'
    BY GenerationsAre, Typing, <1>2, <2>0 DEF NavigatorInvariant, TypeOK, Fields,
       ThreadStates, ThreadsInPlace, GoalsFollow
  <2>3. /\ LockFollows' /\ RequestsFollow' /\ CallbacksFollow' /\ LeasesFollow'
        /\ StoppingFollows' /\ SettlesWhatEnded'
    BY GenerationsAre, Typing, <1>2, <2>0 DEF NavigatorInvariant, TypeOK, Fields,
       ThreadStates, LockFollows, RequestsFollow, CallbacksFollow, LeasesFollow,
       StoppingFollows, SettlesWhatEnded
  <2>4. GoalsFollow'
    BY GenerationsAre, Typing, <1>2, <2>0 DEF NavigatorInvariant, TypeOK, Fields,
       ThreadStates, GoalsFollow, ThreadsInPlace
  <2>5. /\ StopsFollow' /\ CancelFollowsRevoke'
    BY <1>2, <2>0 DEF NavigatorInvariant, StopsFollow, CancelFollowsRevoke
  <2>6. HandlesFollow'
    BY GenerationsAre, Typing, <1>2, <2>0, ServerTyping DEF NavigatorInvariant, TypeOK,
       Fields, ThreadStates, HandlesFollow, ThreadsInPlace, GoalsFollow, SettlesWhatEnded
  <2>7. QED
    BY <2>1, <2>2, <2>3, <2>4, <2>5, <2>6 DEF NavigatorInvariant
<1>3. QED
  BY <1>1, <1>2 DEF Activated, Answered, Unlocked, GiveUp

\* The loop beside the moving car sees an end.
LEMMA LoopEndsStep ==
  ASSUME NavigatorInvariant, LoopEnds
  PROVE  NavigatorInvariant'
<1>1. TypeOK'
  <2>1. nav' \in Fields
    BY Typing DEF Fields, LoopEnds, Consuming, GiveUp, Canceling
  <2>2. thr' \in [Threads -> ThreadStates]
    BY LabelsAre, Typing DEF ThreadStates, LoopEnds, Consuming, GiveUp, Canceling, Settling
  <2>3. QED
    BY <2>1, <2>2 DEF NavigatorInvariant, TypeOK, LoopEnds, Consuming, GiveUp, Canceling,
       Settling
<1>2. /\ ThreadsInPlace' /\ LockFollows' /\ GoalsFollow' /\ LeasesFollow'
      /\ StoppingFollows' /\ SettlesWhatEnded'
  BY GenerationsAre, Typing DEF NavigatorInvariant, TypeOK, Fields, ThreadStates, LoopEnds,
     Consuming, GiveUp, Canceling, Settling, ThreadsInPlace, LockFollows, GoalsFollow,
     LeasesFollow, StoppingFollows, SettlesWhatEnded
<1>3. RequestsFollow'
  <2>1. /\ \A u \in Threads : u # "worker" => thr'[u] = thr[u]
        /\ thr["worker"].pc \notin Waits /\ thr'["worker"].pc \notin Waits
        /\ thr["worker"].pc \notin {"idle", "prepareFailed"}
        /\ UNCHANGED <<nav, requests, reply, granted>>
    BY Typing DEF ThreadStates, LoopEnds, Consuming, GiveUp, Canceling, Settling
  <2>2. QED
    BY <2>1, MovesOutsideCalls
<1>4. /\ CallbacksFollow' /\ StopsFollow' /\ CancelFollowsRevoke'
  BY DEF NavigatorInvariant, LoopEnds, Consuming, GiveUp, Canceling, CallbacksFollow,
     StopsFollow, CancelFollowsRevoke
<1>5. HandlesFollow'
  BY GenerationsAre, Typing, ServerTyping DEF NavigatorInvariant, TypeOK, Fields,
     ThreadStates, LoopEnds, Consuming, GiveUp, Canceling, Settling, HandlesFollow,
     ThreadsInPlace, GoalsFollow, SettlesWhatEnded
<1>6. QED
  BY <1>1, <1>2, <1>3, <1>4, <1>5 DEF NavigatorInvariant

\* The navigation timeout, with or without a cancel that was asked for.
LEMMA LoopTimesOutStep ==
  ASSUME NavigatorInvariant, LoopTimesOut
  PROVE  NavigatorInvariant'
<1>1. CASE nav.cancel_requested
  <2>1. TypeOK'
    <3>1. nav' \in Fields
      BY Typing, <1>1 DEF Fields, LoopTimesOut, Turning, GiveUp
    <3>2. thr' \in [Threads -> ThreadStates]
      BY LabelsAre, Typing, <1>1 DEF ThreadStates, LoopTimesOut, Turning, GiveUp, Canceling
    <3>3. QED
      BY <3>1, <3>2, <1>1 DEF NavigatorInvariant, TypeOK, LoopTimesOut, Turning, GiveUp,
         Canceling
  <2>2. /\ ThreadsInPlace' /\ LockFollows' /\ GoalsFollow' /\ LeasesFollow'
        /\ StoppingFollows' /\ SettlesWhatEnded'
    BY GenerationsAre, Typing, <1>1 DEF NavigatorInvariant, TypeOK, Fields, ThreadStates,
       LoopTimesOut, Turning, GiveUp, Canceling, ThreadsInPlace, LockFollows, GoalsFollow,
       LeasesFollow, StoppingFollows, SettlesWhatEnded
  <2>3. RequestsFollow'
    BY GenerationsAre, Typing, <1>1 DEF NavigatorInvariant, TypeOK, Fields, ThreadStates,
       LoopTimesOut, Turning, GiveUp, Canceling, RequestsFollow, ThreadsInPlace
  <2>4. /\ CallbacksFollow' /\ StopsFollow' /\ CancelFollowsRevoke'
    BY <1>1 DEF NavigatorInvariant, LoopTimesOut, Turning, GiveUp, CallbacksFollow,
       StopsFollow, CancelFollowsRevoke
  <2>5. HandlesFollow'
    BY GenerationsAre, Typing, <1>1, ServerTyping DEF NavigatorInvariant, TypeOK, Fields,
       ThreadStates, LoopTimesOut, Turning, GiveUp, Canceling, HandlesFollow, ThreadsInPlace,
       GoalsFollow, SettlesWhatEnded
  <2>6. QED
    BY <2>1, <2>2, <2>3, <2>4, <2>5 DEF NavigatorInvariant
<1>2. CASE ~nav.cancel_requested
  <2>1. TypeOK'
    <3>1. nav' \in Fields
      BY Typing, <1>2 DEF Fields, LoopTimesOut, Turning, GiveUp
    <3>2. thr' \in [Threads -> ThreadStates]
      BY LabelsAre, Typing, <1>2 DEF ThreadStates, LoopTimesOut, Turning, GiveUp, Canceling
    <3>3. QED
      BY <3>1, <3>2, <1>2 DEF NavigatorInvariant, TypeOK, LoopTimesOut, Turning, GiveUp,
         Canceling
  <2>2. /\ ThreadsInPlace' /\ LockFollows' /\ RequestsFollow' /\ GoalsFollow'
        /\ LeasesFollow' /\ StoppingFollows' /\ SettlesWhatEnded'
    BY GenerationsAre, Typing, <1>2 DEF NavigatorInvariant, TypeOK, Fields, ThreadStates,
       LoopTimesOut, Turning, GiveUp, Canceling, ThreadsInPlace, LockFollows, RequestsFollow,
       GoalsFollow, LeasesFollow, StoppingFollows, SettlesWhatEnded
  <2>3. /\ CallbacksFollow' /\ StopsFollow' /\ CancelFollowsRevoke'
    BY <1>2 DEF NavigatorInvariant, LoopTimesOut, Turning, GiveUp, CallbacksFollow,
       StopsFollow, CancelFollowsRevoke
  <2>4. HandlesFollow'
    BY GenerationsAre, Typing, <1>2, ServerTyping DEF NavigatorInvariant, TypeOK, Fields,
       ThreadStates, LoopTimesOut, Turning, GiveUp, Canceling, HandlesFollow, ThreadsInPlace,
       GoalsFollow, SettlesWhatEnded
  <2>5. QED
    BY <2>1, <2>2, <2>3, <2>4 DEF NavigatorInvariant
<1>3. QED
  BY <1>1, <1>2 DEF LoopTimesOut, Turning, GiveUp

\* renew() takes the call lock.
LEMMA RenewStep ==
  ASSUME NavigatorInvariant, Renew
  PROVE  NavigatorInvariant'
<1>1. TypeOK'
  <2>1. nav' \in Fields
    BY Typing DEF Fields, Renew, Turning, Locked
  <2>2. thr' \in [Threads -> ThreadStates]
    BY LabelsAre, Typing DEF ThreadStates, Renew, Turning, Locked, Call
  <2>3. QED
    BY <2>1, <2>2, GenerationsAre, Typing DEF NavigatorInvariant, TypeOK, Renew, Turning,
       Locked, Call, ThreadStates
<1>2. /\ ThreadsInPlace' /\ GoalsFollow' /\ CallbacksFollow' /\ LeasesFollow'
      /\ StopsFollow' /\ StoppingFollows' /\ SettlesWhatEnded' /\ CancelFollowsRevoke'
  BY DEF NavigatorInvariant, Renew, Turning, Locked, Call, ThreadsInPlace, GoalsFollow,
     CallbacksFollow, LeasesFollow, StopsFollow, StoppingFollows, SettlesWhatEnded,
     CancelFollowsRevoke
<1>3. /\ LockFollows' /\ RequestsFollow'
  BY GenerationsAre, Typing DEF NavigatorInvariant, TypeOK, Fields, ThreadStates, Renew,
     Turning, Locked, Call, LockFollows, RequestsFollow
<1>4. HandlesFollow'
  BY GenerationsAre, Typing, ServerTyping DEF NavigatorInvariant, TypeOK, Fields,
     ThreadStates, Renew, Turning, Locked, Call, HandlesFollow, ThreadsInPlace,
     GoalsFollow, SettlesWhatEnded
<1>5. QED
  BY <1>1, <1>2, <1>3, <1>4 DEF NavigatorInvariant

\* The answer to a renewal changes nothing but the lock.
LEMMA RenewedStep ==
  ASSUME NavigatorInvariant, Renewed
  PROVE  NavigatorInvariant'
<1>1. TypeOK'
  <2>1. nav' \in Fields
    BY Typing DEF Fields, Renewed, Answered
  <2>2. thr' \in [Threads -> ThreadStates]
    BY LabelsAre, Typing DEF ThreadStates, Renewed, Answered
  <2>3. QED
    BY <2>1, <2>2 DEF NavigatorInvariant, TypeOK, Renewed, Answered, Unlocked
<1>2. /\ ThreadsInPlace' /\ GoalsFollow' /\ CallbacksFollow' /\ LeasesFollow'
      /\ StopsFollow' /\ StoppingFollows' /\ SettlesWhatEnded' /\ CancelFollowsRevoke'
  BY DEF NavigatorInvariant, Renewed, Answered, ThreadsInPlace, GoalsFollow,
     CallbacksFollow, LeasesFollow, StopsFollow, StoppingFollows, SettlesWhatEnded,
     CancelFollowsRevoke
<1>3. /\ LockFollows' /\ RequestsFollow'
  BY GenerationsAre, Typing DEF NavigatorInvariant, TypeOK, Fields, ThreadStates, Renewed,
     Answered, Unlocked, LockFollows, RequestsFollow
<1>4. HandlesFollow'
  BY GenerationsAre, Typing, ServerTyping DEF NavigatorInvariant, TypeOK, Fields,
     ThreadStates, Renewed, Answered, Unlocked, HandlesFollow, ThreadsInPlace, GoalsFollow,
     SettlesWhatEnded
<1>5. QED
  BY <1>1, <1>2, <1>3, <1>4 DEF NavigatorInvariant

\* _consume_terminal clears the goal whose result was seen; nothing drives any more.
LEMMA ConsumeStep ==
  ASSUME NavigatorInvariant, Consume
  PROVE  NavigatorInvariant'
<1>1. TypeOK'
  <2>1. nav' \in Fields
    BY Typing, ClearedTyped DEF Fields, Consume, Returned
  <2>2. thr' \in [Threads -> ThreadStates]
    BY LabelsAre, GenerationsAre, Typing DEF ThreadStates, Consume, Returned, AtRest,
       Cleared
  <2>3. QED
    BY <2>1, <2>2 DEF NavigatorInvariant, TypeOK, Consume, Returned, AtRest, Cleared
<1>2. ThreadsInPlace'
  BY GenerationsAre, Typing DEF NavigatorInvariant, TypeOK, Fields, ThreadStates, Consume,
     Returned, AtRest, Cleared, ThreadsInPlace
<1>3. /\ LockFollows' /\ RequestsFollow' /\ CallbacksFollow' /\ StopsFollow'
      /\ StoppingFollows' /\ SettlesWhatEnded' /\ CancelFollowsRevoke'
  BY DEF NavigatorInvariant, Consume, Returned, AtRest, LockFollows, Cleared,
     RequestsFollow, CallbacksFollow, StopsFollow, StoppingFollows, SettlesWhatEnded,
     CancelFollowsRevoke
<1>4. GoalsFollow'
  BY GenerationsAre, Typing DEF NavigatorInvariant, TypeOK, Fields, ThreadStates, Consume,
     Returned, AtRest, Cleared, GoalsFollow, ThreadsInPlace
<1>5. LeasesFollow'
  BY GenerationsAre, Typing DEF NavigatorInvariant, TypeOK, Fields, ThreadStates, Consume,
     Returned, AtRest, Cleared, LeasesFollow, ThreadsInPlace, GoalsFollow, StopsFollow,
     StoppingFollows, SettlesWhatEnded
<1>6. HandlesFollow'
  BY GenerationsAre, Typing, ServerTyping DEF NavigatorInvariant, TypeOK, Fields,
     ThreadStates, Consume, Returned, AtRest, Cleared, HandlesFollow, ThreadsInPlace,
     GoalsFollow, SettlesWhatEnded
<1>7. QED
  BY <1>1, <1>2, <1>3, <1>4, <1>5, <1>6 DEF NavigatorInvariant

\* A goal that Nav2 never took is cleared, poisoned if the car was not settled.
LEMMA ClearGoalStep ==
  ASSUME NavigatorInvariant, ClearGoal
  PROVE  NavigatorInvariant'
<1>1. TypeOK'
  <2>1. nav' \in Fields
    BY Typing, ClearedTyped DEF Fields, ClearGoal, Returned
  <2>2. thr' \in [Threads -> ThreadStates]
    BY LabelsAre, GenerationsAre, Typing DEF ThreadStates, ClearGoal, Returned, AtRest,
       Cleared
  <2>3. QED
    BY <2>1, <2>2 DEF NavigatorInvariant, TypeOK, ClearGoal, Returned, AtRest, Cleared
<1>2. ThreadsInPlace'
  BY GenerationsAre, Typing DEF NavigatorInvariant, TypeOK, Fields, ThreadStates,
     ClearGoal, Returned, AtRest, Cleared, ThreadsInPlace
<1>3. /\ LockFollows' /\ RequestsFollow' /\ StopsFollow' /\ StoppingFollows'
      /\ SettlesWhatEnded' /\ CancelFollowsRevoke'
  BY DEF NavigatorInvariant, ClearGoal, Returned, AtRest, LockFollows, Cleared,
     RequestsFollow, StopsFollow, StoppingFollows, SettlesWhatEnded, CancelFollowsRevoke
<1>4. GoalsFollow'
  BY Typing, GenerationsAre DEF NavigatorInvariant, ClearGoal, Returned, AtRest, Cleared,
     GoalsFollow, ThreadsInPlace
<1>5. CallbacksFollow'
  <2>1. \A g \in Goals : <<"response", g>> \notin due /\ <<"result", g>> \notin due
    BY DEF NavigatorInvariant, ClearGoal, ThreadsInPlace, GoalsFollow, CallbacksFollow
  <2>2. QED
    BY <2>1 DEF ClearGoal, CallbacksFollow
<1>6. LeasesFollow'
  BY GenerationsAre, Typing DEF NavigatorInvariant, TypeOK, Fields, ThreadStates,
     ClearGoal, Returned, AtRest, Cleared, LeasesFollow, ThreadsInPlace, GoalsFollow,
     StopsFollow, StoppingFollows, SettlesWhatEnded
<1>7. HandlesFollow'
  BY GenerationsAre, Typing, ServerTyping DEF NavigatorInvariant, TypeOK, Fields,
     ThreadStates, ClearGoal, Returned, AtRest, Cleared, HandlesFollow, ThreadsInPlace,
     GoalsFollow, SettlesWhatEnded
<1>8. QED
  BY <1>1, <1>2, <1>3, <1>4, <1>5, <1>6, <1>7 DEF NavigatorInvariant

\* navigate() leaves a goal behind: it stays active.
LEMMA DetachStep ==
  ASSUME NavigatorInvariant, Detach
  PROVE  NavigatorInvariant'
<1>1. TypeOK'
  <2>1. nav' \in Fields
    BY Typing DEF Fields, Detach, Returned
  <2>2. thr' \in [Threads -> ThreadStates]
    BY LabelsAre, GenerationsAre, Typing DEF ThreadStates, Detach, Returned, AtRest
  <2>3. QED
    BY <2>1, <2>2 DEF NavigatorInvariant, TypeOK, Detach, Returned, AtRest
<1>2. /\ ThreadsInPlace' /\ CallbacksFollow'
  BY GenerationsAre, Typing DEF NavigatorInvariant, TypeOK, Fields, ThreadStates, Detach,
     Returned, AtRest, ThreadsInPlace, CallbacksFollow
<1>3. /\ LockFollows' /\ RequestsFollow' /\ GoalsFollow' /\ LeasesFollow' /\ StopsFollow'
      /\ StoppingFollows' /\ SettlesWhatEnded' /\ CancelFollowsRevoke'
  BY DEF NavigatorInvariant, Detach, Returned, AtRest, LockFollows, RequestsFollow,
     GoalsFollow, LeasesFollow, StopsFollow, StoppingFollows, SettlesWhatEnded,
     CancelFollowsRevoke
<1>4. HandlesFollow'
  BY GenerationsAre, Typing, ServerTyping DEF NavigatorInvariant, TypeOK, Fields,
     ThreadStates, Detach, Returned, AtRest, HandlesFollow, ThreadsInPlace, GoalsFollow,
     SettlesWhatEnded
<1>5. QED
  BY <1>1, <1>2, <1>3, <1>4 DEF NavigatorInvariant

-----------------------------------------------------------------------------
(* _settle_motion and cancel(), for either thread. *)

\* _settle_motion asks for a Stop, unless the goal is older or was revoked.
LEMMA SettleRevokeStep ==
  ASSUME NavigatorInvariant, NEW t \in Threads, SettleRevoke(t)
  PROVE  NavigatorInvariant'
<1>1. CASE Newest(t) /\ ~Revoked(t)
  <2>0. /\ At(t, "settleRevoke") /\ guard_call_lock = Nobody /\ guard_call_lock' = t
        /\ nav.guard_revoked # thr[t].gen
        /\ nav' = [nav EXCEPT !.guard_stop_attempted = thr[t].gen]
        /\ requests' = requests \cup {[op |-> "stop", gen |-> thr[t].gen, to |-> t]}
        /\ reply' = [reply EXCEPT ![t] = NoReply]
        /\ thr' = [thr EXCEPT ![t].pc = "settleRevoking"]
        /\ UNCHANGED <<guard, granted, outcome, nav2Vars, cancels>>
    BY <1>1 DEF SettleRevoke, SendRevoke, Locked, Call, Revoked
  <2>1. TypeOK'
    <3>1. nav' \in Fields
      BY Typing, <1>1, <2>0 DEF Fields
    <3>2. thr' \in [Threads -> ThreadStates]
      BY LabelsAre, Typing, <1>1, <2>0 DEF ThreadStates
    <3>3. QED
      BY <3>1, <3>2, GenerationsAre, Typing, <1>1, <2>0 DEF NavigatorInvariant, TypeOK,
         ThreadStates
  <2>2. /\ ThreadsInPlace' /\ GoalsFollow' /\ LeasesFollow' /\ StopsFollow'
        /\ SettlesWhatEnded' /\ CancelFollowsRevoke'
    BY <1>1, <2>0 DEF NavigatorInvariant, ThreadsInPlace, GoalsFollow, LeasesFollow,
       StopsFollow, SettlesWhatEnded, CancelFollowsRevoke
  <2>3. /\ LockFollows' /\ CallbacksFollow' /\ StoppingFollows'
    BY GenerationsAre, Typing, <1>1, <2>0 DEF NavigatorInvariant, TypeOK, Fields,
       ThreadStates, LockFollows, CallbacksFollow, StoppingFollows
  <2>4. RequestsFollow'
    BY GenerationsAre, Typing, <1>1, <2>0 DEF NavigatorInvariant, TypeOK, Fields,
       ThreadStates, RequestsFollow, ThreadsInPlace
  <2>5. HandlesFollow'
    BY GenerationsAre, Typing, <1>1, <2>0, ServerTyping DEF NavigatorInvariant, TypeOK,
       Fields, ThreadStates, HandlesFollow, ThreadsInPlace, GoalsFollow, SettlesWhatEnded
  <2>6. QED
    BY <2>1, <2>2, <2>3, <2>4, <2>5 DEF NavigatorInvariant
<1>2. CASE Newest(t) /\ Revoked(t)
  <2>0. /\ At(t, "settleRevoke") /\ nav.guard_revoked = thr[t].gen
        /\ thr' = [thr EXCEPT ![t].pc = "settleWait"]
        /\ nav' = nav
        /\ UNCHANGED <<guard_call_lock, outcome, linkVars, nav2Vars, cancels>>
    BY <1>2 DEF SettleRevoke, SendRevoke, Locked, Call, Revoked
  <2>1. TypeOK'
    <3>1. nav' \in Fields
      BY Typing, <1>2, <2>0
    <3>2. thr' \in [Threads -> ThreadStates]
      BY LabelsAre, Typing, <1>2, <2>0 DEF ThreadStates
    <3>3. QED
      BY <3>1, <3>2, <1>2, <2>0 DEF NavigatorInvariant, TypeOK
  <2>2. /\ ThreadsInPlace' /\ LockFollows' /\ RequestsFollow' /\ GoalsFollow'
        /\ CallbacksFollow' /\ LeasesFollow' /\ StopsFollow' /\ StoppingFollows'
        /\ SettlesWhatEnded' /\ CancelFollowsRevoke'
    BY <1>2, <2>0 DEF NavigatorInvariant, ThreadsInPlace, LockFollows, RequestsFollow,
       GoalsFollow, CallbacksFollow, LeasesFollow, StopsFollow, StoppingFollows,
       SettlesWhatEnded, CancelFollowsRevoke
  <2>3. HandlesFollow'
    BY GenerationsAre, Typing, <1>2, <2>0, ServerTyping DEF NavigatorInvariant, TypeOK,
       Fields, ThreadStates, HandlesFollow, ThreadsInPlace, GoalsFollow, SettlesWhatEnded
  <2>4. QED
    BY <2>1, <2>2, <2>3 DEF NavigatorInvariant
<1>3. CASE ~Newest(t)
  <2>0. /\ At(t, "settleRevoke")
        /\ thr' = [thr EXCEPT ![t].pc = thr[t].ret, ![t].ok = FALSE]
        /\ nav' = nav
        /\ UNCHANGED <<guard_call_lock, outcome, linkVars, nav2Vars, cancels>>
    BY <1>3 DEF SettleRevoke, SendRevoke, Locked, Call, Revoked, Settled
  <2>1. TypeOK'
    <3>1. nav' \in Fields
      BY Typing, <1>3, <2>0, ReturnLabels
    <3>2. thr' \in [Threads -> ThreadStates]
      BY <2>0, SettledTyped
    <3>3. QED
      BY <3>1, <3>2, <1>3, <2>0, ReturnLabels DEF NavigatorInvariant, TypeOK
  <2>2. /\ ThreadsInPlace' /\ GoalsFollow' /\ LeasesFollow' /\ SettlesWhatEnded'
    BY GenerationsAre, Typing, <1>3, <2>0, ReturnLabels DEF NavigatorInvariant, TypeOK,
       Fields, ThreadStates, ThreadsInPlace, GoalsFollow, LeasesFollow, SettlesWhatEnded
  <2>3. LockFollows'
    BY GenerationsAre, Typing, <1>3, <2>0, ReturnLabels DEF NavigatorInvariant, TypeOK,
       Fields, ThreadStates, LockFollows, ThreadsInPlace, GoalsFollow
  <2>4. RequestsFollow'
    <3>1. /\ \A u \in Threads : u # t => thr'[u] = thr[u]
          /\ thr[t].pc \notin Waits /\ thr'[t].pc \notin Waits
          /\ thr[t].pc \notin {"idle", "prepareFailed"}
          /\ nav'.goal_generation = nav.goal_generation
      BY <2>0, Typing, ReturnLabels DEF Fields, ThreadStates
    <3>2. QED
      BY <2>0, <3>1, MovesOutsideCalls
  <2>5. /\ CallbacksFollow' /\ StopsFollow' /\ CancelFollowsRevoke'
    BY <1>3, <2>0, ReturnLabels DEF NavigatorInvariant, CallbacksFollow, StopsFollow,
       CancelFollowsRevoke
  <2>6. StoppingFollows'
    BY GenerationsAre, Typing, <1>3, <2>0, ReturnLabels DEF NavigatorInvariant, TypeOK,
       Fields, ThreadStates, StoppingFollows, ThreadsInPlace
  <2>7. HandlesFollow'
    BY GenerationsAre, Typing, <1>3, <2>0, ReturnLabels, ServerTyping DEF NavigatorInvariant,
       TypeOK, Fields, ThreadStates, HandlesFollow, ThreadsInPlace, GoalsFollow,
       SettlesWhatEnded
  <2>8. QED
    BY <2>1, <2>2, <2>3, <2>4, <2>5, <2>6, <2>7 DEF NavigatorInvariant
<1>4. QED
  BY <1>1, <1>2, <1>3 DEF SettleRevoke, SendRevoke, Locked, Call, Revoked

\* The answer to the Stop of _settle_motion.
LEMMA SettleRevokingStep ==
  ASSUME NavigatorInvariant, NEW t \in Threads, SettleRevoking(t)
  PROVE  NavigatorInvariant'
<1>1. CASE ~Newest(t) /\ reply[t] = "ok"
  <2>0. /\ At(t, "settleRevoking")
        /\ nav' = nav
        /\ thr' = [thr EXCEPT ![t].pc = "settleWait"]
        /\ reply[t] # NoReply /\ guard_call_lock' = Nobody
        /\ reply' = [reply EXCEPT ![t] = NoReply]
        /\ UNCHANGED <<requests, guard, granted, outcome, nav2Vars, cancels>>
    BY <1>1 DEF SettleRevoking, TakeRevoked, Answered, Unlocked
  <2>1. TypeOK'
    <3>1. nav' \in Fields
      BY Typing, <1>1, <2>0
    <3>2. thr' \in [Threads -> ThreadStates]
      BY LabelsAre, Typing, <1>1, <2>0 DEF ThreadStates
    <3>3. QED
      BY <3>1, <3>2, <1>1, <2>0 DEF NavigatorInvariant, TypeOK
  <2>2. /\ ThreadsInPlace' /\ GoalsFollow' /\ CallbacksFollow' /\ LeasesFollow'
        /\ StopsFollow' /\ StoppingFollows' /\ SettlesWhatEnded' /\ CancelFollowsRevoke'
    BY <1>1, <2>0 DEF NavigatorInvariant, ThreadsInPlace, GoalsFollow, CallbacksFollow,
       LeasesFollow, StopsFollow, StoppingFollows, SettlesWhatEnded, CancelFollowsRevoke
  <2>3. /\ LockFollows' /\ RequestsFollow'
    BY GenerationsAre, Typing, <1>1, <2>0 DEF NavigatorInvariant, TypeOK, Fields,
       ThreadStates, LockFollows, RequestsFollow
  <2>4. HandlesFollow'
    BY GenerationsAre, Typing, <1>1, <2>0, ServerTyping DEF NavigatorInvariant, TypeOK,
       Fields, ThreadStates, HandlesFollow, ThreadsInPlace, GoalsFollow, SettlesWhatEnded
  <2>5. QED
    BY <2>1, <2>2, <2>3, <2>4 DEF NavigatorInvariant
<1>2. CASE ~Newest(t) /\ reply[t] # "ok"
  <2>0. /\ At(t, "settleRevoking")
        /\ nav' = nav
        /\ thr' = [thr EXCEPT ![t].pc = thr[t].ret, ![t].ok = FALSE]
        /\ reply[t] # NoReply /\ guard_call_lock' = Nobody
        /\ reply' = [reply EXCEPT ![t] = NoReply]
        /\ UNCHANGED <<requests, guard, granted, outcome, nav2Vars, cancels>>
    BY <1>2 DEF SettleRevoking, TakeRevoked, Answered, Unlocked, Settled
  <2>1. TypeOK'
    <3>1. nav' \in Fields
      BY Typing, <1>2, <2>0, ReturnLabels
    <3>2. thr' \in [Threads -> ThreadStates]
      BY <2>0, SettledTyped
    <3>3. QED
      BY <3>1, <3>2, <1>2, <2>0, ReturnLabels DEF NavigatorInvariant, TypeOK
  <2>2. /\ ThreadsInPlace' /\ GoalsFollow' /\ StoppingFollows' /\ SettlesWhatEnded'
    BY GenerationsAre, Typing, <1>2, <2>0, ReturnLabels DEF NavigatorInvariant, TypeOK,
       Fields, ThreadStates, ThreadsInPlace, GoalsFollow, StoppingFollows, SettlesWhatEnded
  <2>3. LockFollows'
    BY GenerationsAre, Typing, <1>2, <2>0, ReturnLabels DEF NavigatorInvariant, TypeOK,
       Fields, ThreadStates, LockFollows, ThreadsInPlace, GoalsFollow
  <2>4. RequestsFollow'
    <3>1. /\ \A u \in Threads : u # t => thr'[u] = thr[u]
          /\ thr'[t].pc \notin Waits /\ ~At(t, "preparing")
          /\ nav'.goal_generation = nav.goal_generation
      BY <2>0, Typing, ReturnLabels DEF Fields, ThreadStates
    <3>2. QED
      BY <2>0, <3>1, AnswerTaken
  <2>5. /\ CallbacksFollow' /\ StopsFollow' /\ CancelFollowsRevoke'
    BY <1>2, <2>0, ReturnLabels DEF NavigatorInvariant, CallbacksFollow, StopsFollow,
       CancelFollowsRevoke
  <2>6. LeasesFollow'
    BY GenerationsAre, Typing, <1>2, <2>0, ReturnLabels DEF NavigatorInvariant, TypeOK,
       Fields, ThreadStates, LeasesFollow, ThreadsInPlace, GoalsFollow
  <2>7. HandlesFollow'
    BY GenerationsAre, Typing, <1>2, <2>0, ReturnLabels, ServerTyping DEF NavigatorInvariant,
       TypeOK, Fields, ThreadStates, HandlesFollow, ThreadsInPlace, GoalsFollow,
       SettlesWhatEnded
  <2>8. QED
    BY <2>1, <2>2, <2>3, <2>4, <2>5, <2>6, <2>7 DEF NavigatorInvariant
<1>3. CASE Newest(t) /\ reply[t] = "ok"
  <2>0. /\ At(t, "settleRevoking")
        /\ nav' = [nav EXCEPT !.guard_revoked = nav.goal_generation]
        /\ thr' = [thr EXCEPT ![t].pc = "settleWait"]
        /\ reply[t] # NoReply /\ guard_call_lock' = Nobody
        /\ reply' = [reply EXCEPT ![t] = NoReply]
        /\ UNCHANGED <<requests, guard, granted, outcome, nav2Vars, cancels>>
    BY <1>3 DEF SettleRevoking, TakeRevoked, Answered, Unlocked
  <2>1. TypeOK'
    <3>1. nav' \in Fields
      BY Typing, <1>3, <2>0 DEF Fields
    <3>2. thr' \in [Threads -> ThreadStates]
      BY LabelsAre, Typing, <1>3, <2>0 DEF ThreadStates
    <3>3. QED
      BY <3>1, <3>2, <1>3, <2>0 DEF NavigatorInvariant, TypeOK
  <2>2. /\ ThreadsInPlace' /\ GoalsFollow' /\ LeasesFollow' /\ StoppingFollows'
        /\ SettlesWhatEnded' /\ CancelFollowsRevoke'
    BY <1>3, <2>0 DEF NavigatorInvariant, ThreadsInPlace, GoalsFollow, LeasesFollow,
       StoppingFollows, SettlesWhatEnded, CancelFollowsRevoke
  <2>3. /\ LockFollows' /\ RequestsFollow' /\ CallbacksFollow'
    BY GenerationsAre, Typing, <1>3, <2>0 DEF NavigatorInvariant, TypeOK, Fields,
       ThreadStates, LockFollows, RequestsFollow, CallbacksFollow
  <2>4. StopsFollow'
    BY GenerationsAre, Typing, <1>3, <2>0 DEF NavigatorInvariant, TypeOK, Fields,
       ThreadStates, StopsFollow, ThreadsInPlace, GoalsFollow, StoppingFollows,
       SettlesWhatEnded
  <2>5. HandlesFollow'
    BY GenerationsAre, Typing, <1>3, <2>0, ServerTyping DEF NavigatorInvariant, TypeOK,
       Fields, ThreadStates, HandlesFollow, ThreadsInPlace, GoalsFollow, SettlesWhatEnded
  <2>6. QED
    BY <2>1, <2>2, <2>3, <2>4, <2>5 DEF NavigatorInvariant
<1>4. CASE Newest(t) /\ reply[t] # "ok"
  <2>0. /\ At(t, "settleRevoking")
        /\ nav' = [nav EXCEPT !.poisoned = TRUE]
        /\ thr' = [thr EXCEPT ![t].pc = thr[t].ret, ![t].ok = FALSE]
        /\ reply[t] # NoReply /\ guard_call_lock' = Nobody
        /\ reply' = [reply EXCEPT ![t] = NoReply]
        /\ UNCHANGED <<requests, guard, granted, outcome, nav2Vars, cancels>>
    BY <1>4 DEF SettleRevoking, TakeRevoked, Answered, Unlocked, Settled
  <2>1. TypeOK'
    <3>1. nav' \in Fields
      BY Typing, <1>4, <2>0, ReturnLabels DEF Fields
    <3>2. thr' \in [Threads -> ThreadStates]
      BY <2>0, SettledTyped
    <3>3. QED
      BY <3>1, <3>2, <1>4, <2>0, ReturnLabels DEF NavigatorInvariant, TypeOK
  <2>2. ThreadsInPlace'
    BY GenerationsAre, Typing, <1>4, <2>0, ReturnLabels DEF NavigatorInvariant, TypeOK,
       Fields, ThreadStates, ThreadsInPlace, GoalsFollow, StopsFollow, StoppingFollows,
       SettlesWhatEnded
  <2>3. LockFollows'
    BY GenerationsAre, Typing, <1>4, <2>0, ReturnLabels DEF NavigatorInvariant, TypeOK,
       Fields, ThreadStates, LockFollows, ThreadsInPlace
  <2>4. RequestsFollow'
    <3>1. /\ \A u \in Threads : u # t => thr'[u] = thr[u]
          /\ thr'[t].pc \notin Waits /\ ~At(t, "preparing")
          /\ nav'.goal_generation = nav.goal_generation
      BY <2>0, Typing, ReturnLabels DEF Fields, ThreadStates
    <3>2. QED
      BY <2>0, <3>1, AnswerTaken
  <2>5. GoalsFollow'
    BY GenerationsAre, Typing, <1>4, <2>0, ReturnLabels DEF NavigatorInvariant, TypeOK,
       Fields, ThreadStates, GoalsFollow, ThreadsInPlace
  <2>6. /\ CallbacksFollow' /\ LeasesFollow' /\ StoppingFollows' /\ SettlesWhatEnded'
    BY GenerationsAre, Typing, <1>4, <2>0, ReturnLabels DEF NavigatorInvariant, TypeOK,
       Fields, ThreadStates, CallbacksFollow, LeasesFollow, StoppingFollows, SettlesWhatEnded
  <2>7. /\ StopsFollow' /\ CancelFollowsRevoke'
    BY <1>4, <2>0, ReturnLabels DEF NavigatorInvariant, StopsFollow, CancelFollowsRevoke
  <2>8. HandlesFollow'
    BY GenerationsAre, Typing, <1>4, <2>0, ReturnLabels, ServerTyping DEF NavigatorInvariant,
       TypeOK, Fields, ThreadStates, HandlesFollow, ThreadsInPlace, GoalsFollow,
       SettlesWhatEnded
  <2>9. QED
    BY <2>1, <2>2, <2>3, <2>4, <2>5, <2>6, <2>7, <2>8 DEF NavigatorInvariant
<1>5. QED
  BY <1>1, <1>2, <1>3, <1>4 DEF SettleRevoking, TakeRevoked, Answered, Unlocked

\* The car is not seen at rest: the goal in force is poisoned.
LEMMA MotionUnsettledStep ==
  ASSUME NavigatorInvariant, NEW t \in Threads, MotionUnsettled(t)
  PROVE  NavigatorInvariant'
<1>1. CASE ~Newest(t)
  <2>0. /\ At(t, "settleWait")
        /\ thr' = [thr EXCEPT ![t].pc = thr[t].ret, ![t].ok = FALSE]
        /\ nav' = nav
        /\ UNCHANGED <<guard_call_lock, outcome, linkVars, nav2Vars, cancels>>
    BY <1>1 DEF Settled, MotionUnsettled
  <2>1. TypeOK'
    <3>1. nav' \in Fields
      BY Typing, <1>1, <2>0, ReturnLabels
    <3>2. thr' \in [Threads -> ThreadStates]
      BY <2>0, SettledTyped
    <3>3. QED
      BY <3>1, <3>2, <1>1, <2>0, ReturnLabels DEF NavigatorInvariant, TypeOK
  <2>2. /\ ThreadsInPlace' /\ GoalsFollow' /\ LeasesFollow' /\ StoppingFollows'
        /\ SettlesWhatEnded'
    BY GenerationsAre, Typing, <1>1, <2>0, ReturnLabels DEF NavigatorInvariant, TypeOK,
       Fields, ThreadStates, ThreadsInPlace, GoalsFollow, LeasesFollow, StoppingFollows,
       SettlesWhatEnded
  <2>3. LockFollows'
    BY GenerationsAre, Typing, <1>1, <2>0, ReturnLabels DEF NavigatorInvariant, TypeOK,
       Fields, ThreadStates, LockFollows, ThreadsInPlace, GoalsFollow
  <2>4. RequestsFollow'
    <3>1. /\ \A u \in Threads : u # t => thr'[u] = thr[u]
          /\ thr[t].pc \notin Waits /\ thr'[t].pc \notin Waits
          /\ thr[t].pc \notin {"idle", "prepareFailed"}
          /\ nav'.goal_generation = nav.goal_generation
      BY <2>0, Typing, ReturnLabels DEF Fields, ThreadStates
    <3>2. QED
      BY <2>0, <3>1, MovesOutsideCalls
  <2>5. /\ CallbacksFollow' /\ StopsFollow' /\ CancelFollowsRevoke'
    BY <1>1, <2>0, ReturnLabels DEF NavigatorInvariant, CallbacksFollow, StopsFollow,
       CancelFollowsRevoke
  <2>6. HandlesFollow'
    BY GenerationsAre, Typing, <1>1, <2>0, ReturnLabels, ServerTyping DEF NavigatorInvariant,
       TypeOK, Fields, ThreadStates, HandlesFollow, ThreadsInPlace, GoalsFollow,
       SettlesWhatEnded
  <2>7. QED
    BY <2>1, <2>2, <2>3, <2>4, <2>5, <2>6 DEF NavigatorInvariant
<1>2. CASE Newest(t)
  <2>0. /\ At(t, "settleWait")
        /\ thr' = [thr EXCEPT ![t].pc = thr[t].ret, ![t].ok = FALSE]
        /\ nav' = [nav EXCEPT !.poisoned = TRUE]
        /\ UNCHANGED <<guard_call_lock, outcome, linkVars, nav2Vars, cancels>>
    BY <1>2, Typing DEF Settled, ThreadStates, MotionUnsettled
  <2>1. TypeOK'
    <3>1. nav' \in Fields
      BY Typing, <1>2, <2>0, ReturnLabels DEF Fields
    <3>2. thr' \in [Threads -> ThreadStates]
      BY <2>0, SettledTyped
    <3>3. QED
      BY <3>1, <3>2, <1>2, <2>0, ReturnLabels DEF NavigatorInvariant, TypeOK
  <2>2. /\ ThreadsInPlace' /\ CallbacksFollow' /\ LeasesFollow' /\ StoppingFollows'
        /\ SettlesWhatEnded'
    BY GenerationsAre, Typing, <1>2, <2>0, ReturnLabels DEF NavigatorInvariant, TypeOK,
       Fields, ThreadStates, ThreadsInPlace, CallbacksFollow, LeasesFollow, StoppingFollows,
       SettlesWhatEnded
  <2>3. LockFollows'
    BY GenerationsAre, Typing, <1>2, <2>0, ReturnLabels DEF NavigatorInvariant, TypeOK,
       Fields, ThreadStates, LockFollows, ThreadsInPlace, GoalsFollow
  <2>4. RequestsFollow'
    <3>1. /\ \A u \in Threads : u # t => thr'[u] = thr[u]
          /\ thr[t].pc \notin Waits /\ thr'[t].pc \notin Waits
          /\ thr[t].pc \notin {"idle", "prepareFailed"}
          /\ nav'.goal_generation = nav.goal_generation
      BY <2>0, Typing, ReturnLabels DEF Fields, ThreadStates
    <3>2. QED
      BY <2>0, <3>1, MovesOutsideCalls
  <2>5. GoalsFollow'
    BY GenerationsAre, Typing, <1>2, <2>0, ReturnLabels DEF NavigatorInvariant, TypeOK,
       Fields, ThreadStates, GoalsFollow, ThreadsInPlace
  <2>6. /\ StopsFollow' /\ CancelFollowsRevoke'
    BY <1>2, <2>0, ReturnLabels DEF NavigatorInvariant, StopsFollow, CancelFollowsRevoke
  <2>7. HandlesFollow'
    BY GenerationsAre, Typing, <1>2, <2>0, ReturnLabels, ServerTyping DEF NavigatorInvariant,
       TypeOK, Fields, ThreadStates, HandlesFollow, ThreadsInPlace, GoalsFollow,
       SettlesWhatEnded
  <2>8. QED
    BY <2>1, <2>2, <2>3, <2>4, <2>5, <2>6, <2>7 DEF NavigatorInvariant
<1>3. QED
  BY <1>1, <1>2 DEF MotionUnsettled, Settled

\* The car is seen at rest, and the lease was revoked before.
LEMMA SettleWaitStep ==
  ASSUME NavigatorInvariant, NEW t \in Threads, SettleWait(t)
  PROVE  NavigatorInvariant'
<1>1. CASE Newest(t) /\ thr'[t].ok
  <2>0. /\ At(t, "settleWait")
        /\ thr' = [thr EXCEPT ![t].pc = thr[t].ret, ![t].ok = TRUE]
        /\ nav' = [nav EXCEPT !.guard_stopped = nav.goal_generation]
        /\ UNCHANGED <<guard_call_lock, outcome, linkVars, nav2Vars, cancels>>
    BY <1>1, Typing DEF SettleWait, Settled, ThreadStates
  <2>1. TypeOK'
    <3>1. nav' \in Fields
      BY Typing, <1>1, <2>0, ReturnLabels DEF Fields
    <3>2. thr' \in [Threads -> ThreadStates]
      BY <2>0, SettledTyped
    <3>3. QED
      BY <3>1, <3>2, <1>1, <2>0, ReturnLabels DEF NavigatorInvariant, TypeOK
  <2>2. /\ ThreadsInPlace' /\ LockFollows' /\ CallbacksFollow' /\ SettlesWhatEnded'
        /\ CancelFollowsRevoke'
    BY GenerationsAre, Typing, <1>1, <2>0, ReturnLabels DEF NavigatorInvariant, TypeOK,
       Fields, ThreadStates, ThreadsInPlace, LockFollows, CallbacksFollow, SettlesWhatEnded,
       CancelFollowsRevoke
  <2>3. RequestsFollow'
    <3>1. /\ \A u \in Threads : u # t => thr'[u] = thr[u]
          /\ thr[t].pc \notin Waits /\ thr'[t].pc \notin Waits
          /\ thr[t].pc \notin {"idle", "prepareFailed"}
          /\ nav'.goal_generation = nav.goal_generation
      BY <2>0, Typing, ReturnLabels DEF Fields, ThreadStates
    <3>2. QED
      BY <2>0, <3>1, MovesOutsideCalls
  <2>4. GoalsFollow'
    BY GenerationsAre, Typing, <1>1, <2>0, ReturnLabels DEF NavigatorInvariant, TypeOK,
       Fields, ThreadStates, GoalsFollow, ThreadsInPlace
  <2>5. LeasesFollow'
    BY GenerationsAre, Typing, <1>1, <2>0, ReturnLabels DEF NavigatorInvariant, TypeOK,
       Fields, ThreadStates, LeasesFollow, ThreadsInPlace, GoalsFollow
  <2>6. StopsFollow'
    BY GenerationsAre, Typing, <1>1, <2>0, ReturnLabels DEF NavigatorInvariant, TypeOK,
       Fields, ThreadStates, StopsFollow, ThreadsInPlace, GoalsFollow, StoppingFollows,
       SettlesWhatEnded
  <2>7. StoppingFollows'
    BY GenerationsAre, Typing, <1>1, <2>0, ReturnLabels DEF NavigatorInvariant, TypeOK,
       Fields, ThreadStates, StoppingFollows, ThreadsInPlace
  <2>8. HandlesFollow'
    BY GenerationsAre, Typing, <1>1, <2>0, ReturnLabels, ServerTyping DEF NavigatorInvariant,
       TypeOK, Fields, ThreadStates, HandlesFollow, ThreadsInPlace, GoalsFollow,
       SettlesWhatEnded
  <2>9. QED
    BY <2>1, <2>2, <2>3, <2>4, <2>5, <2>6, <2>7, <2>8 DEF NavigatorInvariant
<1>2. CASE ~(Newest(t) /\ thr'[t].ok)
  <2>1. /\ At(t, "settleWait") /\ thr' = Settled(t, FALSE)
        /\ nav' = IF Newest(t) THEN [nav EXCEPT !.poisoned = TRUE] ELSE nav
        /\ UNCHANGED <<guard_call_lock, outcome, linkVars, nav2Vars, cancels>>
    BY <1>2, Typing DEF SettleWait, Settled, ThreadStates
  <2>2. QED
    BY <2>1, MotionUnsettledStep DEF MotionUnsettled
<1>3. QED
  BY <1>1, <1>2

\* The operator's thread enters cancel().
LEMMA OperatorCancelsStep ==
  ASSUME NavigatorInvariant, OperatorCancels
  PROVE  NavigatorInvariant'
<1>1. TypeOK'
  <2>1. nav' \in Fields
    BY Typing DEF Fields, OperatorCancels
  <2>2. thr' \in [Threads -> ThreadStates]
    BY LabelsAre, Typing DEF ThreadStates, OperatorCancels, Canceling
  <2>3. QED
    BY <2>1, <2>2, BoundAssumption DEF NavigatorInvariant, TypeOK, OperatorCancels,
       Canceling
<1>2. /\ ThreadsInPlace' /\ LockFollows' /\ GoalsFollow' /\ LeasesFollow'
      /\ StoppingFollows' /\ SettlesWhatEnded'
  BY GenerationsAre, Typing DEF NavigatorInvariant, TypeOK, Fields, ThreadStates,
     OperatorCancels, Canceling, ThreadsInPlace, LockFollows, GoalsFollow, LeasesFollow,
     StoppingFollows, SettlesWhatEnded
<1>3. RequestsFollow'
  BY GenerationsAre, Typing DEF NavigatorInvariant, TypeOK, Fields, ThreadStates,
     OperatorCancels, Canceling, RequestsFollow, ThreadsInPlace
<1>4. /\ CallbacksFollow' /\ StopsFollow' /\ CancelFollowsRevoke'
  BY DEF NavigatorInvariant, OperatorCancels, CallbacksFollow, StopsFollow,
     CancelFollowsRevoke
<1>5. HandlesFollow'
  BY GenerationsAre, Typing, ServerTyping DEF NavigatorInvariant, TypeOK, Fields,
     ThreadStates, OperatorCancels, Canceling, HandlesFollow, ThreadsInPlace, GoalsFollow,
     SettlesWhatEnded
<1>6. QED
  BY <1>1, <1>2, <1>3, <1>4, <1>5 DEF NavigatorInvariant

\* cancel() marks the goal in force, or finds none.
LEMMA CancelStartStep ==
  ASSUME NavigatorInvariant, NEW t \in Threads, CancelStart(t)
  PROVE  NavigatorInvariant'
<1>1. CASE IsActive
  <2>0. /\ At(t, "cancel") /\ nav' = [nav EXCEPT !.cancel_requested = TRUE]
        /\ thr' = [thr EXCEPT ![t].pc = "revoke", ![t].gen = nav.goal_generation]
        /\ UNCHANGED <<guard_call_lock, outcome, linkVars, nav2Vars, cancels>>
    BY <1>1 DEF CancelStart, CancelReturned
  <2>1. TypeOK'
    <3>1. nav' \in Fields
      BY Typing, <1>1, <2>0 DEF Fields
    <3>2. thr' \in [Threads -> ThreadStates]
      BY LabelsAre, Typing, <1>1, <2>0 DEF ThreadStates
    <3>3. QED
      BY <3>1, <3>2, <1>1, <2>0 DEF NavigatorInvariant, TypeOK
  <2>2. ThreadsInPlace'
    BY GenerationsAre, Typing, <1>1, <2>0 DEF NavigatorInvariant, TypeOK, Fields,
       ThreadStates, ThreadsInPlace, GoalsFollow
  <2>3. /\ LockFollows' /\ RequestsFollow' /\ GoalsFollow' /\ CallbacksFollow'
        /\ LeasesFollow' /\ StoppingFollows' /\ SettlesWhatEnded'
    BY GenerationsAre, Typing, <1>1, <2>0 DEF NavigatorInvariant, TypeOK, Fields,
       ThreadStates, LockFollows, RequestsFollow, GoalsFollow, CallbacksFollow, LeasesFollow,
       StoppingFollows, SettlesWhatEnded
  <2>4. /\ StopsFollow' /\ CancelFollowsRevoke'
    BY <1>1, <2>0 DEF NavigatorInvariant, StopsFollow, CancelFollowsRevoke
  <2>5. HandlesFollow'
    BY GenerationsAre, Typing, <1>1, <2>0, ServerTyping DEF NavigatorInvariant, TypeOK,
       Fields, ThreadStates, HandlesFollow, ThreadsInPlace, GoalsFollow, SettlesWhatEnded
  <2>6. QED
    BY <2>1, <2>2, <2>3, <2>4, <2>5 DEF NavigatorInvariant
<1>2. CASE ~IsActive
  <2>0. /\ At("operator", "cancel") /\ ~IsActive /\ t = "operator"
        /\ thr' = [thr EXCEPT ![t] = AtRest] /\ UNCHANGED nav
        /\ UNCHANGED <<guard_call_lock, outcome, linkVars, nav2Vars, cancels>>
    BY <1>2 DEF CancelStart, CancelReturned, AtRest, NavigatorInvariant, ThreadsInPlace
  <2>1. TypeOK'
    <3>1. nav' \in Fields
      BY Typing, <1>2, <2>0 DEF Fields
    <3>2. thr' \in [Threads -> ThreadStates]
      BY LabelsAre, GenerationsAre, Typing, <1>2, <2>0 DEF ThreadStates, AtRest
    <3>3. QED
      BY <3>1, <3>2, <1>2, <2>0 DEF NavigatorInvariant, TypeOK, AtRest
  <2>2. ThreadsInPlace'
    BY GenerationsAre, Typing, <1>2, <2>0 DEF NavigatorInvariant, TypeOK, Fields,
       ThreadStates, AtRest, ThreadsInPlace
  <2>3. /\ LockFollows' /\ RequestsFollow' /\ GoalsFollow' /\ CallbacksFollow'
        /\ LeasesFollow' /\ StopsFollow' /\ StoppingFollows' /\ SettlesWhatEnded'
        /\ CancelFollowsRevoke'
    BY <1>2, <2>0 DEF NavigatorInvariant, AtRest, LockFollows, RequestsFollow, GoalsFollow,
       CallbacksFollow, LeasesFollow, StopsFollow, StoppingFollows, SettlesWhatEnded,
       CancelFollowsRevoke
  <2>4. HandlesFollow'
    BY GenerationsAre, Typing, <1>2, <2>0, ServerTyping DEF NavigatorInvariant, TypeOK,
       Fields, ThreadStates, AtRest, HandlesFollow, ThreadsInPlace, GoalsFollow,
       SettlesWhatEnded
  <2>5. QED
    BY <2>1, <2>2, <2>3, <2>4 DEF NavigatorInvariant
<1>3. QED
  BY <1>1, <1>2 DEF CancelStart, CancelReturned

\* cancel() asks for a Stop, unless the goal is older or was revoked.
LEMMA CancelRevokeStep ==
  ASSUME NavigatorInvariant, NEW t \in Threads, CancelRevoke(t)
  PROVE  NavigatorInvariant'
<1>1. CASE At(t, "revoking")'
  <2>0. /\ At(t, "revoke") /\ guard_call_lock = Nobody /\ guard_call_lock' = t
        /\ Newest(t) /\ nav.guard_revoked # thr[t].gen
        /\ nav' = [nav EXCEPT !.guard_stop_attempted = thr[t].gen]
        /\ requests' = requests \cup {[op |-> "stop", gen |-> thr[t].gen, to |-> t]}
        /\ reply' = [reply EXCEPT ![t] = NoReply]
        /\ thr' = [thr EXCEPT ![t].pc = "revoking"]
        /\ UNCHANGED <<guard, granted, outcome, nav2Vars, cancels>>
    BY <1>1 DEF CancelRevoke, SendRevoke, Locked, Call, Revoked, NavigatorInvariant, TypeOK,
       ThreadStates
  <2>1. TypeOK'
    <3>1. nav' \in Fields
      BY Typing, <1>1, <2>0 DEF Fields
    <3>2. thr' \in [Threads -> ThreadStates]
      BY LabelsAre, Typing, <1>1, <2>0 DEF ThreadStates
    <3>3. QED
      BY <3>1, <3>2, GenerationsAre, Typing, <1>1, <2>0 DEF NavigatorInvariant, TypeOK,
         ThreadStates
  <2>2. /\ ThreadsInPlace' /\ LockFollows' /\ RequestsFollow' /\ GoalsFollow'
        /\ LeasesFollow' /\ StopsFollow' /\ SettlesWhatEnded' /\ CancelFollowsRevoke'
    BY <1>1, <2>0 DEF NavigatorInvariant, ThreadsInPlace, LockFollows, RequestsFollow,
       GoalsFollow, LeasesFollow, StopsFollow, SettlesWhatEnded, CancelFollowsRevoke
  <2>3. /\ CallbacksFollow' /\ StoppingFollows'
    BY GenerationsAre, Typing, <1>1, <2>0 DEF NavigatorInvariant, TypeOK, Fields,
       ThreadStates, CallbacksFollow, StoppingFollows
  <2>4. HandlesFollow'
    BY GenerationsAre, Typing, <1>1, <2>0, ServerTyping DEF NavigatorInvariant, TypeOK,
       Fields, ThreadStates, HandlesFollow, ThreadsInPlace, GoalsFollow, SettlesWhatEnded
  <2>5. QED
    BY <2>1, <2>2, <2>3, <2>4 DEF NavigatorInvariant
<1>2. CASE ~At(t, "revoking")'
  <2>0. /\ At(t, "revoke") /\ guard_call_lock = Nobody
        /\ ~Newest(t) \/ nav.guard_revoked = thr[t].gen
        /\ thr' = [thr EXCEPT ![t].pc = "awaitHandle"]
        /\ UNCHANGED <<nav, guard_call_lock, outcome, linkVars, nav2Vars, cancels>>
    BY <1>2 DEF CancelRevoke, SendRevoke, Locked, Call, Revoked, NavigatorInvariant, TypeOK,
       ThreadStates
  <2>1. TypeOK'
    <3>1. nav' \in Fields
      BY Typing, <1>2, <2>0
    <3>2. thr' \in [Threads -> ThreadStates]
      BY LabelsAre, Typing, <1>2, <2>0 DEF ThreadStates
    <3>3. QED
      BY <3>1, <3>2, <1>2, <2>0 DEF NavigatorInvariant, TypeOK
  <2>2. /\ ThreadsInPlace' /\ LockFollows' /\ RequestsFollow' /\ GoalsFollow'
        /\ CallbacksFollow' /\ LeasesFollow' /\ StopsFollow' /\ SettlesWhatEnded'
        /\ CancelFollowsRevoke'
    BY <1>2, <2>0 DEF NavigatorInvariant, ThreadsInPlace, LockFollows, RequestsFollow,
       GoalsFollow, CallbacksFollow, LeasesFollow, StopsFollow, SettlesWhatEnded,
       CancelFollowsRevoke
  <2>3. StoppingFollows'
    BY GenerationsAre, Typing, <1>2, <2>0 DEF NavigatorInvariant, TypeOK, Fields,
       ThreadStates, StoppingFollows, ThreadsInPlace, RequestsFollow, LeasesFollow,
       StopsFollow
  <2>4. HandlesFollow'
    BY GenerationsAre, Typing, <1>2, <2>0, ServerTyping DEF NavigatorInvariant, TypeOK,
       Fields, ThreadStates, HandlesFollow, ThreadsInPlace, GoalsFollow, SettlesWhatEnded
  <2>5. QED
    BY <2>1, <2>2, <2>3, <2>4 DEF NavigatorInvariant
<1>3. QED
  BY <1>1, <1>2 DEF CancelRevoke, SendRevoke, Locked, Call

\* The answer to the Stop of cancel().
LEMMA CancelRevokingStep ==
  ASSUME NavigatorInvariant, NEW t \in Threads, CancelRevoking(t)
  PROVE  NavigatorInvariant'
<1>1. CASE ~Newest(t)
  <2>0. /\ At(t, "revoking")
        /\ nav' = nav
        /\ thr' = [thr EXCEPT ![t].pc = "awaitHandle"]
        /\ reply[t] # NoReply /\ guard_call_lock' = Nobody
        /\ reply' = [reply EXCEPT ![t] = NoReply]
        /\ UNCHANGED <<requests, guard, granted, outcome, nav2Vars, cancels>>
    BY <1>1 DEF CancelRevoking, TakeRevoked, Answered, Unlocked
  <2>1. TypeOK'
    <3>1. nav' \in Fields
      BY Typing, <1>1, <2>0
    <3>2. thr' \in [Threads -> ThreadStates]
      BY LabelsAre, Typing, <1>1, <2>0 DEF ThreadStates
    <3>3. QED
      BY <3>1, <3>2, <1>1, <2>0 DEF NavigatorInvariant, TypeOK
  <2>2. /\ ThreadsInPlace' /\ GoalsFollow' /\ CallbacksFollow' /\ LeasesFollow'
        /\ StopsFollow' /\ StoppingFollows' /\ SettlesWhatEnded' /\ CancelFollowsRevoke'
    BY <1>1, <2>0 DEF NavigatorInvariant, ThreadsInPlace, GoalsFollow, CallbacksFollow,
       LeasesFollow, StopsFollow, StoppingFollows, SettlesWhatEnded, CancelFollowsRevoke
  <2>3. /\ LockFollows' /\ RequestsFollow'
    BY GenerationsAre, Typing, <1>1, <2>0 DEF NavigatorInvariant, TypeOK, Fields,
       ThreadStates, LockFollows, RequestsFollow
  <2>4. HandlesFollow'
    BY GenerationsAre, Typing, <1>1, <2>0, ServerTyping DEF NavigatorInvariant, TypeOK,
       Fields, ThreadStates, HandlesFollow, ThreadsInPlace, GoalsFollow, SettlesWhatEnded
  <2>5. QED
    BY <2>1, <2>2, <2>3, <2>4 DEF NavigatorInvariant
<1>2. CASE Newest(t) /\ reply[t] = "ok"
  <2>0. /\ At(t, "revoking")
        /\ nav' = [nav EXCEPT !.guard_revoked = nav.goal_generation]
        /\ thr' = [thr EXCEPT ![t].pc = "awaitHandle"]
        /\ reply[t] # NoReply /\ guard_call_lock' = Nobody
        /\ reply' = [reply EXCEPT ![t] = NoReply]
        /\ UNCHANGED <<requests, guard, granted, outcome, nav2Vars, cancels>>
    BY <1>2 DEF CancelRevoking, TakeRevoked, Answered, Unlocked
  <2>1. TypeOK'
    <3>1. nav' \in Fields
      BY Typing, <1>2, <2>0 DEF Fields
    <3>2. thr' \in [Threads -> ThreadStates]
      BY LabelsAre, Typing, <1>2, <2>0 DEF ThreadStates
    <3>3. QED
      BY <3>1, <3>2, <1>2, <2>0 DEF NavigatorInvariant, TypeOK
  <2>2. /\ ThreadsInPlace' /\ GoalsFollow' /\ LeasesFollow' /\ StoppingFollows'
        /\ SettlesWhatEnded' /\ CancelFollowsRevoke'
    BY <1>2, <2>0 DEF NavigatorInvariant, ThreadsInPlace, GoalsFollow, LeasesFollow,
       StoppingFollows, SettlesWhatEnded, CancelFollowsRevoke
  <2>3. /\ LockFollows' /\ RequestsFollow' /\ CallbacksFollow'
    BY GenerationsAre, Typing, <1>2, <2>0 DEF NavigatorInvariant, TypeOK, Fields,
       ThreadStates, LockFollows, RequestsFollow, CallbacksFollow
  <2>4. StopsFollow'
    BY GenerationsAre, Typing, <1>2, <2>0 DEF NavigatorInvariant, TypeOK, Fields,
       ThreadStates, StopsFollow, ThreadsInPlace, GoalsFollow, StoppingFollows,
       SettlesWhatEnded
  <2>5. HandlesFollow'
    BY GenerationsAre, Typing, <1>2, <2>0, ServerTyping DEF NavigatorInvariant, TypeOK,
       Fields, ThreadStates, HandlesFollow, ThreadsInPlace, GoalsFollow, SettlesWhatEnded
  <2>6. QED
    BY <2>1, <2>2, <2>3, <2>4, <2>5 DEF NavigatorInvariant
<1>3. CASE Newest(t) /\ reply[t] # "ok"
  <2>0. /\ At(t, "revoking")
        /\ nav' = [nav EXCEPT !.poisoned = TRUE]
        /\ thr' = [thr EXCEPT ![t].pc = "awaitHandle"]
        /\ reply[t] # NoReply /\ guard_call_lock' = Nobody
        /\ reply' = [reply EXCEPT ![t] = NoReply]
        /\ UNCHANGED <<requests, guard, granted, outcome, nav2Vars, cancels>>
    BY <1>3 DEF CancelRevoking, TakeRevoked, Answered, Unlocked
  <2>1. TypeOK'
    <3>1. nav' \in Fields
      BY Typing, <1>3, <2>0 DEF Fields
    <3>2. thr' \in [Threads -> ThreadStates]
      BY LabelsAre, Typing, <1>3, <2>0 DEF ThreadStates
    <3>3. QED
      BY <3>1, <3>2, <1>3, <2>0 DEF NavigatorInvariant, TypeOK
  <2>2. /\ ThreadsInPlace' /\ LeasesFollow' /\ StopsFollow' /\ StoppingFollows'
        /\ SettlesWhatEnded' /\ CancelFollowsRevoke'
    BY <1>3, <2>0 DEF NavigatorInvariant, ThreadsInPlace, LeasesFollow, StopsFollow,
       StoppingFollows, SettlesWhatEnded, CancelFollowsRevoke
  <2>3. /\ LockFollows' /\ RequestsFollow' /\ CallbacksFollow'
    BY GenerationsAre, Typing, <1>3, <2>0 DEF NavigatorInvariant, TypeOK, Fields,
       ThreadStates, LockFollows, RequestsFollow, CallbacksFollow
  <2>4. GoalsFollow'
    BY <1>3, <2>0, Typing, GenerationsAre DEF NavigatorInvariant, GoalsFollow, ThreadsInPlace
  <2>5. HandlesFollow'
    BY GenerationsAre, Typing, <1>3, <2>0, ServerTyping DEF NavigatorInvariant, TypeOK,
       Fields, ThreadStates, HandlesFollow, ThreadsInPlace, GoalsFollow, SettlesWhatEnded
  <2>6. QED
    BY <2>1, <2>2, <2>3, <2>4, <2>5 DEF NavigatorInvariant
<1>4. QED
  BY <1>1, <1>2, <1>3 DEF CancelRevoking, TakeRevoked, Answered

\* The wait for the handle is over: the request to cancel, or the verdict.
LEMMA CancelAwaitHandleStep ==
  ASSUME NavigatorInvariant, NEW t \in Threads, CancelAwaitHandle(t)
  PROVE  NavigatorInvariant'
<1>1. CASE At(t, "awaitTerminal")' /\ MayCancel(nav)
  <2>0. /\ At(t, "awaitHandle") /\ Newest(t) /\ nav.goal_handle /\ ~Terminal(thr[t].gen) /\ nav.operation_active
        /\ nav' = [nav EXCEPT !.cancel_sent = TRUE]
        /\ thr' = [thr EXCEPT ![t].pc = "awaitTerminal"]
        /\ cancel_due' = cancel_due \cup {nav.goal_generation}
        /\ UNCHANGED <<guard_call_lock, outcome, linkVars, server, due, cancels>>
    BY <1>1, Typing, RequestsCancel DEF CancelAwaitHandle, AwaitsHandle, AwaitsTerminal,
       CancelsDue, Verdict, CancelReturned, NavigatorInvariant, ThreadsInPlace, MayCancel,
       ThreadStates, AtRest
  <2>1. TypeOK'
    <3>1. nav' \in Fields
      BY Typing, <1>1, <2>0 DEF Fields
    <3>2. thr' \in [Threads -> ThreadStates]
      BY LabelsAre, Typing, <1>1, <2>0 DEF ThreadStates
    <3>3. QED
      BY <3>1, <3>2, GenerationsAre, Typing, <1>1, <2>0 DEF NavigatorInvariant, TypeOK,
         GoalsFollow, Fields
  <2>2. /\ ThreadsInPlace' /\ LockFollows' /\ RequestsFollow' /\ GoalsFollow'
        /\ LeasesFollow' /\ StopsFollow' /\ StoppingFollows' /\ SettlesWhatEnded'
    BY <1>1, <2>0 DEF NavigatorInvariant, ThreadsInPlace, LockFollows, RequestsFollow,
       GoalsFollow, LeasesFollow, StopsFollow, StoppingFollows, SettlesWhatEnded
  <2>3. CallbacksFollow'
    BY GenerationsAre, Typing, <1>1, <2>0 DEF NavigatorInvariant, TypeOK, Fields,
       ThreadStates, CallbacksFollow
  <2>4. HandlesFollow'
    BY GenerationsAre, Typing, <1>1, <2>0, ServerTyping DEF NavigatorInvariant, TypeOK,
       Fields, ThreadStates, HandlesFollow, ThreadsInPlace, GoalsFollow, SettlesWhatEnded
  <2>5. CancelFollowsRevoke'
    BY GenerationsAre, Typing, <1>1, <2>0 DEF NavigatorInvariant, TypeOK, Fields,
       ThreadStates, CancelFollowsRevoke, ThreadsInPlace, GoalsFollow, StopsFollow,
       StoppingFollows, SettlesWhatEnded
  <2>6. QED
    BY <2>1, <2>2, <2>3, <2>4, <2>5 DEF NavigatorInvariant
<1>2. CASE At(t, "awaitTerminal")' /\ ~MayCancel(nav)
  <2>0. /\ At(t, "awaitHandle") /\ Newest(t) /\ ~Terminal(thr[t].gen) /\ nav.operation_active
        /\ nav' = nav
        /\ thr' = [thr EXCEPT ![t].pc = "awaitTerminal"]
        /\ cancel_due' = cancel_due
        /\ UNCHANGED <<guard_call_lock, outcome, linkVars, server, due, cancels>>
    BY <1>2, Typing, RequestsCancel DEF CancelAwaitHandle, AwaitsHandle, AwaitsTerminal,
       CancelsDue, Verdict, CancelReturned, NavigatorInvariant, ThreadsInPlace, ThreadStates,
       AtRest
  <2>1. TypeOK'
    <3>1. nav' \in Fields
      BY Typing, <1>2, <2>0
    <3>2. thr' \in [Threads -> ThreadStates]
      BY LabelsAre, Typing, <1>2, <2>0 DEF ThreadStates
    <3>3. QED
      BY <3>1, <3>2, <1>2, <2>0 DEF NavigatorInvariant, TypeOK
  <2>2. /\ ThreadsInPlace' /\ LockFollows' /\ RequestsFollow' /\ GoalsFollow'
        /\ CallbacksFollow' /\ LeasesFollow' /\ StopsFollow' /\ StoppingFollows'
        /\ SettlesWhatEnded' /\ CancelFollowsRevoke'
    BY <1>2, <2>0 DEF NavigatorInvariant, ThreadsInPlace, LockFollows, RequestsFollow,
       GoalsFollow, CallbacksFollow, LeasesFollow, StopsFollow, StoppingFollows,
       SettlesWhatEnded, CancelFollowsRevoke
  <2>3. HandlesFollow'
    BY GenerationsAre, Typing, <1>2, <2>0, ServerTyping DEF NavigatorInvariant, TypeOK,
       Fields, ThreadStates, HandlesFollow, ThreadsInPlace, GoalsFollow, SettlesWhatEnded
  <2>4. QED
    BY <2>1, <2>2, <2>3 DEF NavigatorInvariant
<1>3. CASE /\ ~At(t, "awaitTerminal")'
           /\ (Terminal(thr[t].gen) \/ ~nav.operation_active)
           /\ ~AwaitsHandle(t)
           /\ Newest(t)
           /\ MayCancel(nav)
  <2>0. /\ At(t, "awaitHandle") /\ nav.goal_handle
        /\ nav' = [nav EXCEPT !.cancel_sent = TRUE]
        /\ thr' = [thr EXCEPT ![t].pc = "settleRevoke", ![t].ret = "cancelSettled",
                              ![t].cleared = ~nav.operation_active]
        /\ cancel_due' = cancel_due \cup {nav.goal_generation}
        /\ UNCHANGED <<guard_call_lock, outcome, linkVars, server, due, cancels>>
    BY <1>3, Typing, RequestsCancel DEF CancelAwaitHandle, AwaitsHandle, AwaitsTerminal,
       CancelsDue, Verdict, CancelReturned, MayCancel, ThreadStates
  <2>1. TypeOK'
    <3>1. nav' \in Fields
      BY Typing, <1>3, <2>0 DEF Fields
    <3>2. thr' \in [Threads -> ThreadStates]
      BY LabelsAre, Typing, <1>3, <2>0 DEF ThreadStates
    <3>3. QED
      BY <3>1, <3>2, GenerationsAre, Typing, <1>3, <2>0 DEF NavigatorInvariant, TypeOK,
         GoalsFollow, Fields
  <2>2. /\ ThreadsInPlace' /\ GoalsFollow' /\ LeasesFollow' /\ StoppingFollows'
        /\ SettlesWhatEnded'
    BY GenerationsAre, Typing, <1>3, <2>0 DEF NavigatorInvariant, TypeOK, Fields,
       ThreadStates, ThreadsInPlace, GoalsFollow, LeasesFollow, StoppingFollows,
       SettlesWhatEnded
  <2>3. LockFollows'
    BY GenerationsAre, Typing, <1>3, <2>0 DEF NavigatorInvariant, TypeOK, Fields,
       ThreadStates, LockFollows, ThreadsInPlace
  <2>4. RequestsFollow'
    <3>1. /\ \A u \in Threads : u # t => thr'[u] = thr[u]
          /\ thr[t].pc \notin Waits /\ thr'[t].pc \notin Waits
          /\ thr[t].pc \notin {"idle", "prepareFailed"}
          /\ nav'.goal_generation = nav.goal_generation
      BY <2>0, Typing, ReturnLabels DEF Fields, ThreadStates
    <3>2. QED
      BY <2>0, <3>1, MovesOutsideCalls
  <2>5. /\ CallbacksFollow' /\ StopsFollow'
    BY <1>3, <2>0 DEF NavigatorInvariant, CallbacksFollow, StopsFollow
  <2>6. HandlesFollow'
    BY GenerationsAre, Typing, <1>3, <2>0, ServerTyping DEF NavigatorInvariant, TypeOK,
       Fields, ThreadStates, HandlesFollow, ThreadsInPlace, GoalsFollow, SettlesWhatEnded
  <2>7. CancelFollowsRevoke'
    BY GenerationsAre, Typing, <1>3, <2>0 DEF NavigatorInvariant, TypeOK, Fields,
       ThreadStates, CancelFollowsRevoke, ThreadsInPlace, GoalsFollow, StopsFollow,
       StoppingFollows, SettlesWhatEnded
  <2>8. QED
    BY <2>1, <2>2, <2>3, <2>4, <2>5, <2>6, <2>7 DEF NavigatorInvariant
<1>4. CASE /\ ~At(t, "awaitTerminal")'
           /\ (Terminal(thr[t].gen) \/ ~nav.operation_active)
           /\ (AwaitsHandle(t) \/ ~Newest(t) \/ ~MayCancel(nav))
  <2>0. /\ At(t, "awaitHandle")
        /\ nav' = nav
        /\ thr' = [thr EXCEPT ![t].pc = "settleRevoke", ![t].ret = "cancelSettled",
                              ![t].cleared = ~nav.operation_active]
        /\ cancel_due' = cancel_due
        /\ UNCHANGED <<guard_call_lock, outcome, linkVars, server, due, cancels>>
    BY <1>4, RequestsCancel DEF CancelAwaitHandle, AwaitsHandle, AwaitsTerminal, CancelsDue,
       Verdict
  <2>1. TypeOK'
    <3>1. nav' \in Fields
      BY Typing, <1>4, <2>0
    <3>2. thr' \in [Threads -> ThreadStates]
      BY LabelsAre, Typing, <1>4, <2>0 DEF ThreadStates
    <3>3. QED
      BY <3>1, <3>2, <1>4, <2>0 DEF NavigatorInvariant, TypeOK
  <2>2. /\ ThreadsInPlace' /\ GoalsFollow' /\ LeasesFollow' /\ StoppingFollows'
        /\ SettlesWhatEnded'
    BY GenerationsAre, Typing, <1>4, <2>0 DEF NavigatorInvariant, TypeOK, Fields,
       ThreadStates, ThreadsInPlace, GoalsFollow, LeasesFollow, StoppingFollows,
       SettlesWhatEnded
  <2>3. LockFollows'
    BY GenerationsAre, Typing, <1>4, <2>0 DEF NavigatorInvariant, TypeOK, Fields,
       ThreadStates, LockFollows, ThreadsInPlace, GoalsFollow
  <2>4. RequestsFollow'
    <3>1. /\ \A u \in Threads : u # t => thr'[u] = thr[u]
          /\ thr[t].pc \notin Waits /\ thr'[t].pc \notin Waits
          /\ thr[t].pc \notin {"idle", "prepareFailed"}
          /\ nav'.goal_generation = nav.goal_generation
      BY <2>0, Typing, ReturnLabels DEF Fields, ThreadStates
    <3>2. QED
      BY <2>0, <3>1, MovesOutsideCalls
  <2>5. /\ CallbacksFollow' /\ StopsFollow' /\ CancelFollowsRevoke'
    BY <1>4, <2>0 DEF NavigatorInvariant, CallbacksFollow, StopsFollow, CancelFollowsRevoke
  <2>6. HandlesFollow'
    BY GenerationsAre, Typing, <1>4, <2>0, ServerTyping DEF NavigatorInvariant, TypeOK,
       Fields, ThreadStates, HandlesFollow, ThreadsInPlace, GoalsFollow, SettlesWhatEnded
  <2>7. QED
    BY <2>1, <2>2, <2>3, <2>4, <2>5, <2>6 DEF NavigatorInvariant
<1>5. CASE /\ ~At(t, "awaitTerminal")'
           /\ t = "operator"
           /\ ~Terminal(thr[t].gen)
           /\ nav.operation_active
  <2>0. /\ At("operator", "awaitHandle")
        /\ nav' = [nav EXCEPT !.poisoned = TRUE, !.cancel_error = TRUE]
        /\ thr' = [thr EXCEPT !["operator"] = AtRest]
        /\ cancel_due' = cancel_due
        /\ UNCHANGED <<guard_call_lock, outcome, linkVars, server, due, cancels>>
    BY <1>5, Typing DEF CancelAwaitHandle, AwaitsHandle, AwaitsTerminal, CancelsDue, Verdict,
       CancelReturned, NavigatorInvariant, ThreadsInPlace, ThreadStates
  <2>1. TypeOK'
    <3>1. nav' \in Fields
      BY Typing, <1>5, <2>0 DEF Fields
    <3>2. thr' \in [Threads -> ThreadStates]
      BY LabelsAre, GenerationsAre, Typing, <1>5, <2>0 DEF ThreadStates, AtRest
    <3>3. QED
      BY <3>1, <3>2, <1>5, <2>0 DEF NavigatorInvariant, TypeOK, AtRest
  <2>2. /\ ThreadsInPlace' /\ CallbacksFollow'
    BY GenerationsAre, Typing, <1>5, <2>0 DEF NavigatorInvariant, TypeOK, Fields,
       ThreadStates, AtRest, ThreadsInPlace, CallbacksFollow
  <2>3. /\ LockFollows' /\ RequestsFollow' /\ GoalsFollow' /\ LeasesFollow' /\ StopsFollow'
        /\ StoppingFollows' /\ SettlesWhatEnded' /\ CancelFollowsRevoke'
    BY <1>5, <2>0 DEF NavigatorInvariant, AtRest, LockFollows, RequestsFollow, GoalsFollow,
       LeasesFollow, StopsFollow, StoppingFollows, SettlesWhatEnded, CancelFollowsRevoke
  <2>4. HandlesFollow'
    BY GenerationsAre, Typing, <1>5, <2>0, ServerTyping DEF NavigatorInvariant, TypeOK,
       Fields, ThreadStates, AtRest, HandlesFollow, ThreadsInPlace, GoalsFollow,
       SettlesWhatEnded
  <2>5. QED
    BY <2>1, <2>2, <2>3, <2>4 DEF NavigatorInvariant
<1>6. CASE /\ ~At(t, "awaitTerminal")'
           /\ t = "worker"
           /\ ~Terminal(thr[t].gen)
           /\ nav.operation_active
  <2>0. /\ At("worker", "awaitHandle")
        /\ nav' = [nav EXCEPT !.poisoned = TRUE, !.cancel_error = TRUE]
        /\ thr' = [thr EXCEPT !["worker"].pc = "detach"]
        /\ cancel_due' = cancel_due
        /\ UNCHANGED <<guard_call_lock, outcome, linkVars, server, due, cancels>>
    BY <1>6, Typing DEF CancelAwaitHandle, AwaitsHandle, AwaitsTerminal, CancelsDue, Verdict,
       CancelReturned, NavigatorInvariant, ThreadsInPlace, ThreadStates
  <2>1. TypeOK'
    <3>1. nav' \in Fields
      BY Typing, <1>6, <2>0 DEF Fields
    <3>2. thr' \in [Threads -> ThreadStates]
      BY LabelsAre, Typing, <1>6, <2>0 DEF ThreadStates
    <3>3. QED
      BY <3>1, <3>2, <1>6, <2>0 DEF NavigatorInvariant, TypeOK
  <2>2. /\ ThreadsInPlace' /\ LockFollows' /\ RequestsFollow' /\ GoalsFollow'
        /\ LeasesFollow' /\ StopsFollow' /\ StoppingFollows' /\ SettlesWhatEnded'
        /\ CancelFollowsRevoke'
    BY <1>6, <2>0 DEF NavigatorInvariant, ThreadsInPlace, LockFollows, RequestsFollow,
       GoalsFollow, LeasesFollow, StopsFollow, StoppingFollows, SettlesWhatEnded,
       CancelFollowsRevoke
  <2>3. CallbacksFollow'
    BY GenerationsAre, Typing, <1>6, <2>0 DEF NavigatorInvariant, TypeOK, Fields,
       ThreadStates, CallbacksFollow
  <2>4. HandlesFollow'
    BY GenerationsAre, Typing, <1>6, <2>0, ServerTyping DEF NavigatorInvariant, TypeOK,
       Fields, ThreadStates, HandlesFollow, ThreadsInPlace, GoalsFollow, SettlesWhatEnded
  <2>5. QED
    BY <2>1, <2>2, <2>3, <2>4 DEF NavigatorInvariant
<1>7. QED
  BY <1>1, <1>2, <1>3, <1>4, <1>5, <1>6 DEF CancelAwaitHandle, AwaitsHandle,
     AwaitsTerminal, CancelsDue, Verdict

\* The wait for the end of the goal is over.
LEMMA CancelAwaitTerminalStep ==
  ASSUME NavigatorInvariant, NEW t \in Threads, CancelAwaitTerminal(t)
  PROVE  NavigatorInvariant'
<1>1. CASE Terminal(thr[t].gen) \/ ~nav.operation_active
  <2>0. /\ At(t, "awaitTerminal")
        /\ nav' = nav
        /\ thr' = [thr EXCEPT ![t].pc = "settleRevoke", ![t].ret = "cancelSettled",
                              ![t].cleared = ~nav.operation_active]
        /\ UNCHANGED <<guard_call_lock, outcome, linkVars, nav2Vars, cancels>>
    BY <1>1 DEF CancelAwaitTerminal, AwaitsTerminal, Verdict
  <2>1. TypeOK'
    <3>1. nav' \in Fields
      BY Typing, <1>1, <2>0
    <3>2. thr' \in [Threads -> ThreadStates]
      BY LabelsAre, Typing, <1>1, <2>0 DEF ThreadStates
    <3>3. QED
      BY <3>1, <3>2, <1>1, <2>0 DEF NavigatorInvariant, TypeOK
  <2>2. /\ ThreadsInPlace' /\ GoalsFollow' /\ LeasesFollow' /\ StoppingFollows'
        /\ SettlesWhatEnded'
    BY GenerationsAre, Typing, <1>1, <2>0 DEF NavigatorInvariant, TypeOK, Fields,
       ThreadStates, ThreadsInPlace, GoalsFollow, LeasesFollow, StoppingFollows,
       SettlesWhatEnded
  <2>3. LockFollows'
    BY GenerationsAre, Typing, <1>1, <2>0 DEF NavigatorInvariant, TypeOK, Fields,
       ThreadStates, LockFollows, ThreadsInPlace, GoalsFollow
  <2>4. RequestsFollow'
    <3>1. /\ \A u \in Threads : u # t => thr'[u] = thr[u]
          /\ thr[t].pc \notin Waits /\ thr'[t].pc \notin Waits
          /\ thr[t].pc \notin {"idle", "prepareFailed"}
          /\ nav'.goal_generation = nav.goal_generation
      BY <2>0, Typing, ReturnLabels DEF Fields, ThreadStates
    <3>2. QED
      BY <2>0, <3>1, MovesOutsideCalls
  <2>5. /\ CallbacksFollow' /\ StopsFollow' /\ CancelFollowsRevoke'
    BY <1>1, <2>0 DEF NavigatorInvariant, CallbacksFollow, StopsFollow, CancelFollowsRevoke
  <2>6. HandlesFollow'
    BY GenerationsAre, Typing, <1>1, <2>0, ServerTyping DEF NavigatorInvariant, TypeOK,
       Fields, ThreadStates, HandlesFollow, ThreadsInPlace, GoalsFollow, SettlesWhatEnded
  <2>7. QED
    BY <2>1, <2>2, <2>3, <2>4, <2>5, <2>6 DEF NavigatorInvariant
<1>2. CASE t = "operator" /\ ~Terminal(thr[t].gen) /\ nav.operation_active
  <2>0. /\ At("operator", "awaitTerminal")
        /\ nav' = [nav EXCEPT !.poisoned = TRUE, !.cancel_error = TRUE]
        /\ thr' = [thr EXCEPT !["operator"] = AtRest]
        /\ UNCHANGED <<guard_call_lock, outcome, linkVars, nav2Vars, cancels>>
    BY <1>2, Typing DEF CancelAwaitTerminal, AwaitsTerminal, Verdict, CancelReturned,
       NavigatorInvariant, ThreadsInPlace
  <2>1. TypeOK'
    <3>1. nav' \in Fields
      BY Typing, <1>2, <2>0 DEF Fields
    <3>2. thr' \in [Threads -> ThreadStates]
      BY LabelsAre, GenerationsAre, Typing, <1>2, <2>0 DEF ThreadStates, AtRest
    <3>3. QED
      BY <3>1, <3>2, <1>2, <2>0 DEF NavigatorInvariant, TypeOK, AtRest
  <2>2. /\ ThreadsInPlace' /\ CallbacksFollow'
    BY GenerationsAre, Typing, <1>2, <2>0 DEF NavigatorInvariant, TypeOK, Fields,
       ThreadStates, AtRest, ThreadsInPlace, CallbacksFollow
  <2>3. /\ LockFollows' /\ RequestsFollow' /\ GoalsFollow' /\ LeasesFollow' /\ StopsFollow'
        /\ StoppingFollows' /\ SettlesWhatEnded' /\ CancelFollowsRevoke'
    BY <1>2, <2>0 DEF NavigatorInvariant, AtRest, LockFollows, RequestsFollow, GoalsFollow,
       LeasesFollow, StopsFollow, StoppingFollows, SettlesWhatEnded, CancelFollowsRevoke
  <2>4. HandlesFollow'
    BY GenerationsAre, Typing, <1>2, <2>0, ServerTyping DEF NavigatorInvariant, TypeOK,
       Fields, ThreadStates, AtRest, HandlesFollow, ThreadsInPlace, GoalsFollow,
       SettlesWhatEnded
  <2>5. QED
    BY <2>1, <2>2, <2>3, <2>4 DEF NavigatorInvariant
<1>3. CASE t = "worker" /\ ~Terminal(thr[t].gen) /\ nav.operation_active
  <2>0. /\ At("worker", "awaitTerminal")
        /\ nav' = [nav EXCEPT !.poisoned = TRUE, !.cancel_error = TRUE]
        /\ thr' = [thr EXCEPT !["worker"].pc = "detach"]
        /\ UNCHANGED <<guard_call_lock, outcome, linkVars, nav2Vars, cancels>>
    BY <1>3, Typing DEF CancelAwaitTerminal, AwaitsTerminal, Verdict, CancelReturned,
       NavigatorInvariant, ThreadsInPlace
  <2>1. TypeOK'
    <3>1. nav' \in Fields
      BY Typing, <1>3, <2>0 DEF Fields
    <3>2. thr' \in [Threads -> ThreadStates]
      BY LabelsAre, Typing, <1>3, <2>0 DEF ThreadStates
    <3>3. QED
      BY <3>1, <3>2, <1>3, <2>0 DEF NavigatorInvariant, TypeOK
  <2>2. /\ ThreadsInPlace' /\ LockFollows' /\ RequestsFollow' /\ GoalsFollow'
        /\ LeasesFollow' /\ StopsFollow' /\ StoppingFollows' /\ SettlesWhatEnded'
        /\ CancelFollowsRevoke'
    BY <1>3, <2>0 DEF NavigatorInvariant, ThreadsInPlace, LockFollows, RequestsFollow,
       GoalsFollow, LeasesFollow, StopsFollow, StoppingFollows, SettlesWhatEnded,
       CancelFollowsRevoke
  <2>3. CallbacksFollow'
    BY GenerationsAre, Typing, <1>3, <2>0 DEF NavigatorInvariant, TypeOK, Fields,
       ThreadStates, CallbacksFollow
  <2>4. HandlesFollow'
    BY GenerationsAre, Typing, <1>3, <2>0, ServerTyping DEF NavigatorInvariant, TypeOK,
       Fields, ThreadStates, HandlesFollow, ThreadsInPlace, GoalsFollow, SettlesWhatEnded
  <2>5. QED
    BY <2>1, <2>2, <2>3, <2>4 DEF NavigatorInvariant
<1>4. QED
  BY <1>1, <1>2, <1>3 DEF CancelAwaitTerminal, AwaitsTerminal, Verdict

\* cancel() returns, and clears a goal that had been cleared beside it.
LEMMA CancelSettledStep ==
  ASSUME NavigatorInvariant, NEW t \in Threads, CancelSettled(t)
  PROVE  NavigatorInvariant'
<1>1. CASE t = "operator" /\ thr[t].ok /\ thr[t].cleared /\ Newest(t)
  <2>0. /\ At("operator", "cancelSettled")
        /\ nav' = [nav EXCEPT !.operation_active = FALSE, !.navigate_attached = FALSE,
                         !.goal_pending = FALSE, !.goal_handle = FALSE, !.cancel_sent = FALSE,
                         !.cancel_requested = FALSE, !.poisoned = FALSE]
        /\ thr' = [thr EXCEPT !["operator"] = AtRest]
        /\ UNCHANGED <<guard_call_lock, outcome, linkVars, nav2Vars, cancels>>
    BY <1>1, Typing DEF CancelSettled, CancelReturned, NavigatorInvariant, ThreadsInPlace,
       Cleared
  <2>1. TypeOK'
    <3>1. nav' \in Fields
      BY <2>0, Typing, ClearedTyped DEF Cleared
    <3>2. thr' \in [Threads -> ThreadStates]
      BY LabelsAre, GenerationsAre, Typing, <1>1, <2>0 DEF ThreadStates, AtRest
    <3>3. QED
      BY <3>1, <3>2, <1>1, <2>0 DEF NavigatorInvariant, TypeOK, AtRest
  <2>2. ThreadsInPlace'
    BY GenerationsAre, Typing, <1>1, <2>0 DEF NavigatorInvariant, TypeOK, Fields,
       ThreadStates, AtRest, ThreadsInPlace, GoalsFollow, StopsFollow, StoppingFollows,
       SettlesWhatEnded
  <2>3. /\ LockFollows' /\ RequestsFollow' /\ StopsFollow' /\ StoppingFollows'
        /\ SettlesWhatEnded' /\ CancelFollowsRevoke'
    BY <1>1, <2>0 DEF NavigatorInvariant, AtRest, LockFollows, RequestsFollow, StopsFollow,
       StoppingFollows, SettlesWhatEnded, CancelFollowsRevoke
  <2>4. GoalsFollow'
    BY GenerationsAre, Typing, <1>1, <2>0 DEF NavigatorInvariant, TypeOK, Fields,
       ThreadStates, AtRest, GoalsFollow, ThreadsInPlace, StopsFollow, StoppingFollows,
       SettlesWhatEnded
  <2>5. CallbacksFollow'
    BY GenerationsAre, Typing, <1>1, <2>0 DEF NavigatorInvariant, TypeOK, Fields,
       ThreadStates, AtRest, CallbacksFollow, ThreadsInPlace, GoalsFollow, StopsFollow,
       StoppingFollows, SettlesWhatEnded
  <2>6. LeasesFollow'
    BY GenerationsAre, Typing, <1>1, <2>0 DEF NavigatorInvariant, TypeOK, Fields,
       ThreadStates, AtRest, LeasesFollow, ThreadsInPlace, GoalsFollow, StopsFollow,
       StoppingFollows, SettlesWhatEnded
  <2>7. HandlesFollow'
    BY GenerationsAre, Typing, <1>1, <2>0, ServerTyping DEF NavigatorInvariant, TypeOK,
       Fields, ThreadStates, AtRest, HandlesFollow, ThreadsInPlace, GoalsFollow,
       SettlesWhatEnded
  <2>8. QED
    BY <2>1, <2>2, <2>3, <2>4, <2>5, <2>6, <2>7 DEF NavigatorInvariant
<1>2. CASE t = "operator" /\ ~(thr[t].ok /\ thr[t].cleared /\ Newest(t))
  <2>0. /\ At("operator", "cancelSettled")
        /\ nav' = nav
        /\ thr' = [thr EXCEPT !["operator"] = AtRest]
        /\ UNCHANGED <<guard_call_lock, outcome, linkVars, nav2Vars, cancels>>
    BY <1>2, Typing DEF CancelSettled, CancelReturned, NavigatorInvariant, ThreadsInPlace,
       Cleared
  <2>1. TypeOK'
    <3>1. nav' \in Fields
      BY Typing, <1>2, <2>0 DEF Fields
    <3>2. thr' \in [Threads -> ThreadStates]
      BY LabelsAre, GenerationsAre, Typing, <1>2, <2>0 DEF ThreadStates, AtRest
    <3>3. QED
      BY <3>1, <3>2, <1>2, <2>0 DEF NavigatorInvariant, TypeOK, AtRest
  <2>2. ThreadsInPlace'
    BY GenerationsAre, Typing, <1>2, <2>0 DEF NavigatorInvariant, TypeOK, Fields,
       ThreadStates, AtRest, ThreadsInPlace
  <2>3. /\ LockFollows' /\ RequestsFollow' /\ GoalsFollow' /\ CallbacksFollow'
        /\ LeasesFollow' /\ StopsFollow' /\ StoppingFollows' /\ SettlesWhatEnded'
        /\ CancelFollowsRevoke'
    BY <1>2, <2>0 DEF NavigatorInvariant, AtRest, LockFollows, RequestsFollow, GoalsFollow,
       CallbacksFollow, LeasesFollow, StopsFollow, StoppingFollows, SettlesWhatEnded,
       CancelFollowsRevoke
  <2>4. HandlesFollow'
    BY GenerationsAre, Typing, <1>2, <2>0, ServerTyping DEF NavigatorInvariant, TypeOK,
       Fields, ThreadStates, AtRest, HandlesFollow, ThreadsInPlace, GoalsFollow,
       SettlesWhatEnded
  <2>5. QED
    BY <2>1, <2>2, <2>3, <2>4 DEF NavigatorInvariant
<1>3. CASE t = "worker" /\ thr[t].ok /\ thr[t].after = "loop"
  <2>0. /\ At("worker", "cancelSettled")
        /\ nav' = nav
        /\ thr' = [thr EXCEPT !["worker"] = [AtRest EXCEPT !.pc = "loop", !.gen = thr["worker"].gen]]
        /\ UNCHANGED <<guard_call_lock, outcome, linkVars, nav2Vars, cancels>>
    BY <1>3, Typing DEF CancelSettled, CancelReturned, NavigatorInvariant, ThreadsInPlace
  <2>1. TypeOK'
    <3>1. nav' \in Fields
      BY Typing, <1>3, <2>0 DEF Fields
    <3>2. thr' \in [Threads -> ThreadStates]
      BY LabelsAre, Typing, <1>3, <2>0 DEF ThreadStates, AtRest
    <3>3. QED
      BY <3>1, <3>2, <1>3, <2>0 DEF NavigatorInvariant, TypeOK, AtRest
  <2>2. /\ ThreadsInPlace' /\ LockFollows' /\ RequestsFollow' /\ GoalsFollow'
        /\ CallbacksFollow' /\ LeasesFollow' /\ StopsFollow' /\ StoppingFollows'
        /\ SettlesWhatEnded' /\ CancelFollowsRevoke'
    BY <1>3, <2>0 DEF NavigatorInvariant, AtRest, ThreadsInPlace, LockFollows,
       RequestsFollow, GoalsFollow, CallbacksFollow, LeasesFollow, StopsFollow,
       StoppingFollows, SettlesWhatEnded, CancelFollowsRevoke
  <2>3. HandlesFollow'
    BY GenerationsAre, Typing, <1>3, <2>0, ServerTyping DEF NavigatorInvariant, TypeOK,
       Fields, ThreadStates, AtRest, HandlesFollow, ThreadsInPlace, GoalsFollow,
       SettlesWhatEnded
  <2>4. QED
    BY <2>1, <2>2, <2>3 DEF NavigatorInvariant
<1>4. CASE t = "worker" /\ thr[t].ok /\ thr[t].after # "loop"
  <2>0. /\ At("worker", "cancelSettled")
        /\ nav' = nav
        /\ thr' = [thr EXCEPT !["worker"].pc = "settleRevoke", !["worker"].ret = "consume"]
        /\ UNCHANGED <<guard_call_lock, outcome, linkVars, nav2Vars, cancels>>
    BY <1>4, Typing DEF CancelSettled, CancelReturned, NavigatorInvariant, ThreadsInPlace,
       ThreadStates
  <2>1. TypeOK'
    <3>1. nav' \in Fields
      BY Typing, <1>4, <2>0
    <3>2. thr' \in [Threads -> ThreadStates]
      BY <2>0, LabelsAre, MovesTyped
    <3>3. QED
      BY <3>1, <3>2, <1>4, <2>0 DEF NavigatorInvariant, TypeOK
  <2>2. /\ ThreadsInPlace' /\ LockFollows' /\ GoalsFollow' /\ LeasesFollow'
        /\ StoppingFollows' /\ SettlesWhatEnded'
    BY GenerationsAre, Typing, <1>4, <2>0 DEF NavigatorInvariant, TypeOK, Fields,
       ThreadStates, ThreadsInPlace, LockFollows, GoalsFollow, LeasesFollow, StoppingFollows,
       SettlesWhatEnded
  <2>3. RequestsFollow'
    BY GenerationsAre, Typing, <1>4, <2>0 DEF NavigatorInvariant, TypeOK, Fields,
       ThreadStates, RequestsFollow, ThreadsInPlace
  <2>4. /\ CallbacksFollow' /\ StopsFollow' /\ CancelFollowsRevoke'
    BY <1>4, <2>0 DEF NavigatorInvariant, CallbacksFollow, StopsFollow, CancelFollowsRevoke
  <2>5. HandlesFollow'
    BY GenerationsAre, Typing, <1>4, <2>0, ServerTyping DEF NavigatorInvariant, TypeOK,
       Fields, ThreadStates, HandlesFollow, ThreadsInPlace, GoalsFollow, SettlesWhatEnded
  <2>6. QED
    BY <2>1, <2>2, <2>3, <2>4, <2>5 DEF NavigatorInvariant
<1>5. CASE t = "worker" /\ ~thr[t].ok
  <2>0. /\ At("worker", "cancelSettled")
        /\ nav' = nav
        /\ thr' = [thr EXCEPT !["worker"].pc = "detach"]
        /\ UNCHANGED <<guard_call_lock, outcome, linkVars, nav2Vars, cancels>>
    BY <1>5, Typing DEF CancelSettled, CancelReturned, NavigatorInvariant, ThreadsInPlace,
       ThreadStates
  <2>1. TypeOK'
    <3>1. nav' \in Fields
      BY Typing, <1>5, <2>0
    <3>2. thr' \in [Threads -> ThreadStates]
      BY LabelsAre, Typing, <1>5, <2>0 DEF ThreadStates
    <3>3. QED
      BY <3>1, <3>2, <1>5, <2>0 DEF NavigatorInvariant, TypeOK
  <2>2. /\ ThreadsInPlace' /\ LockFollows' /\ RequestsFollow' /\ GoalsFollow'
        /\ CallbacksFollow' /\ LeasesFollow' /\ StopsFollow' /\ StoppingFollows'
        /\ SettlesWhatEnded' /\ CancelFollowsRevoke'
    BY <1>5, <2>0 DEF NavigatorInvariant, ThreadsInPlace, LockFollows, RequestsFollow,
       GoalsFollow, CallbacksFollow, LeasesFollow, StopsFollow, StoppingFollows,
       SettlesWhatEnded, CancelFollowsRevoke
  <2>3. HandlesFollow'
    BY GenerationsAre, Typing, <1>5, <2>0, ServerTyping DEF NavigatorInvariant, TypeOK,
       Fields, ThreadStates, HandlesFollow, ThreadsInPlace, GoalsFollow, SettlesWhatEnded
  <2>4. QED
    BY <2>1, <2>2, <2>3 DEF NavigatorInvariant
<1>6. QED
  BY <1>1, <1>2, <1>3, <1>4, <1>5 DEF CancelSettled

-----------------------------------------------------------------------------
(* The callbacks and Nav2. *)

\* The response of the action server: refused, lost, or a handle.
LEMMA OnGoalResponseStep ==
  ASSUME NavigatorInvariant, NEW g \in Goals, OnGoalResponse(g)
  PROVE  NavigatorInvariant'
<1>1. CASE /\ nav' = [nav EXCEPT !.goal_pending = FALSE, !.poisoned = TRUE, !.goal_error = "response_error"]
              /\ due' = due \ {<<"response", g>>} /\ cancel_due' = cancel_due
  <2>0. /\ <<"response", g>> \in due /\ g = nav.goal_generation
        /\ UNCHANGED <<guard_call_lock, thr, outcome, linkVars, server, cancels>>
    BY <1>1, GoalResponseIs DEF OnGoalResponse
  <2>1. TypeOK'
    <3>1. nav' \in Fields
      BY GenerationsAre, Typing, <1>1, <2>0 DEF Fields, GoalErrors
    <3>2. thr' \in [Threads -> ThreadStates]
      BY LabelsAre, GenerationsAre, Typing, <1>1, <2>0 DEF ThreadStates
    <3>3. QED
      BY <3>1, <3>2, GenerationsAre, Typing, <1>1, <2>0 DEF NavigatorInvariant, TypeOK
  <2>2. /\ ThreadsInPlace' /\ LockFollows' /\ RequestsFollow' /\ CallbacksFollow'
        /\ LeasesFollow' /\ StopsFollow' /\ StoppingFollows' /\ SettlesWhatEnded'
        /\ CancelFollowsRevoke'
    BY GenerationsAre, Typing, <1>1, <2>0 DEF NavigatorInvariant, TypeOK, Fields,
       ThreadStates, ThreadsInPlace, LockFollows, RequestsFollow, CallbacksFollow,
       LeasesFollow, StopsFollow, StoppingFollows, SettlesWhatEnded, CancelFollowsRevoke
  <2>3. GoalsFollow'
    BY GenerationsAre, Typing, <1>1, <2>0 DEF NavigatorInvariant, TypeOK, Fields,
       ThreadStates, GoalsFollow, CallbacksFollow
  <2>4. HandlesFollow'
    BY GenerationsAre, Typing, <1>1, <2>0, ServerTyping DEF NavigatorInvariant, TypeOK,
       Fields, ThreadStates, HandlesFollow, ThreadsInPlace, GoalsFollow, SettlesWhatEnded
  <2>5. QED
    BY <2>1, <2>2, <2>3, <2>4 DEF NavigatorInvariant
<1>2. CASE server[g] = "rejected"
              /\ nav' = [nav EXCEPT !.goal_pending = FALSE, !.goal_error = "rejected"]
              /\ due' = due \ {<<"response", g>>} /\ cancel_due' = cancel_due
  <2>0. /\ <<"response", g>> \in due /\ g = nav.goal_generation
        /\ UNCHANGED <<guard_call_lock, thr, outcome, linkVars, server, cancels>>
    BY <1>2, GoalResponseIs DEF OnGoalResponse
  <2>1. TypeOK'
    <3>1. nav' \in Fields
      BY GenerationsAre, Typing, <1>2, <2>0 DEF Fields, GoalErrors
    <3>2. thr' \in [Threads -> ThreadStates]
      BY LabelsAre, GenerationsAre, Typing, <1>2, <2>0 DEF ThreadStates
    <3>3. QED
      BY <3>1, <3>2, GenerationsAre, Typing, <1>2, <2>0 DEF NavigatorInvariant, TypeOK
  <2>2. /\ ThreadsInPlace' /\ LockFollows' /\ RequestsFollow' /\ CallbacksFollow'
        /\ LeasesFollow' /\ StopsFollow' /\ StoppingFollows' /\ SettlesWhatEnded'
        /\ CancelFollowsRevoke'
    BY GenerationsAre, Typing, <1>2, <2>0 DEF NavigatorInvariant, TypeOK, Fields,
       ThreadStates, ThreadsInPlace, LockFollows, RequestsFollow, CallbacksFollow,
       LeasesFollow, StopsFollow, StoppingFollows, SettlesWhatEnded, CancelFollowsRevoke
  <2>3. GoalsFollow'
    BY GenerationsAre, Typing, <1>2, <2>0 DEF NavigatorInvariant, TypeOK, Fields,
       ThreadStates, GoalsFollow, ThreadsInPlace, CallbacksFollow
  <2>4. HandlesFollow'
    BY GenerationsAre, Typing, <1>2, <2>0, ServerTyping DEF NavigatorInvariant, TypeOK,
       Fields, ThreadStates, HandlesFollow, ThreadsInPlace, GoalsFollow, SettlesWhatEnded
  <2>5. QED
    BY <2>1, <2>2, <2>3, <2>4 DEF NavigatorInvariant
<1>3. CASE server[g] \notin NotTaken /\ nav.guard_stop_attempted = g
              /\ nav' = [nav EXCEPT !.goal_pending = FALSE, !.goal_handle = TRUE, !.cancel_sent = TRUE]
              /\ due' = (due \ {<<"response", g>>}) \cup {<<"result", g>>}
              /\ cancel_due' = cancel_due \cup {g}
  <2>0. /\ <<"response", g>> \in due /\ g = nav.goal_generation
        /\ UNCHANGED <<guard_call_lock, thr, outcome, linkVars, server, cancels>>
    BY <1>3, GoalResponseIs DEF OnGoalResponse
  <2>1. TypeOK'
    <3>1. nav' \in Fields
      BY GenerationsAre, Typing, <1>3, <2>0 DEF Fields, GoalErrors
    <3>2. thr' \in [Threads -> ThreadStates]
      BY LabelsAre, GenerationsAre, Typing, <1>3, <2>0 DEF ThreadStates
    <3>3. QED
      BY <3>1, <3>2, GenerationsAre, Typing, <1>3, <2>0 DEF NavigatorInvariant, TypeOK
  <2>2. /\ ThreadsInPlace' /\ LockFollows' /\ RequestsFollow' /\ LeasesFollow'
        /\ StopsFollow' /\ StoppingFollows' /\ SettlesWhatEnded' /\ CancelFollowsRevoke'
    BY GenerationsAre, Typing, <1>3, <2>0 DEF NavigatorInvariant, TypeOK, Fields,
       ThreadStates, ThreadsInPlace, LockFollows, RequestsFollow, LeasesFollow, StopsFollow,
       StoppingFollows, SettlesWhatEnded, CancelFollowsRevoke
  <2>3. GoalsFollow'
    BY GenerationsAre, Typing, <1>3, <2>0 DEF NavigatorInvariant, TypeOK, Fields,
       ThreadStates, GoalsFollow, ThreadsInPlace, CallbacksFollow
  <2>4. CallbacksFollow'
    <3>1. /\ nav'.goal_generation = nav.goal_generation /\ nav'.operation_active = nav.operation_active
          /\ nav'.goal_error = nav.goal_error /\ nav'.terminal_generation = nav.terminal_generation
      BY <1>3, Typing DEF Fields
    <3>2. \A h \in Goals : /\ <<"response", h>> \in due' => <<"response", h>> \in due /\ h # g
                           /\ <<"result", h>> \in due' => <<"result", h>> \in due \/ h = g
      BY <1>3
    <3>3. QED
      BY <1>3, <2>0, <3>1, <3>2 DEF NavigatorInvariant, CallbacksFollow
  <2>5. HandlesFollow'
    <3>1. nav'.goal_generation = nav.goal_generation /\ nav'.operation_active = nav.operation_active
      BY <1>3, Typing DEF Fields
    <3>2. nav'.terminal_generation = nav.terminal_generation
      BY <1>3, Typing DEF Fields
    <3>3. \A h \in Goals :
            h \in cancel_due' \/ <<"canceling", h>> \in due' \/ <<"cancelRefused", h>> \in due' =>
              \/ h = g
              \/ h \in cancel_due \/ <<"canceling", h>> \in due \/ <<"cancelRefused", h>> \in due
      BY <1>3
    <3>4. QED
      BY <1>3, <2>0, <3>1, <3>2, <3>3 DEF NavigatorInvariant, HandlesFollow
  <2>6. QED
    BY <2>1, <2>2, <2>3, <2>4, <2>5 DEF NavigatorInvariant
<1>4. CASE server[g] \notin NotTaken
              /\ nav' = [nav EXCEPT !.goal_pending = FALSE, !.goal_handle = TRUE]
              /\ due' = (due \ {<<"response", g>>}) \cup {<<"result", g>>}
              /\ cancel_due' = cancel_due
  <2>0. /\ <<"response", g>> \in due /\ g = nav.goal_generation
        /\ UNCHANGED <<guard_call_lock, thr, outcome, linkVars, server, cancels>>
    BY <1>4, GoalResponseIs DEF OnGoalResponse
  <2>1. TypeOK'
    <3>1. nav' \in Fields
      BY GenerationsAre, Typing, <1>4, <2>0 DEF Fields, GoalErrors
    <3>2. thr' \in [Threads -> ThreadStates]
      BY LabelsAre, GenerationsAre, Typing, <1>4, <2>0 DEF ThreadStates
    <3>3. QED
      BY <3>1, <3>2, GenerationsAre, Typing, <1>4, <2>0 DEF NavigatorInvariant, TypeOK
  <2>2. /\ ThreadsInPlace' /\ LockFollows' /\ RequestsFollow' /\ LeasesFollow'
        /\ StopsFollow' /\ StoppingFollows' /\ SettlesWhatEnded'
    BY GenerationsAre, Typing, <1>4, <2>0 DEF NavigatorInvariant, TypeOK, Fields,
       ThreadStates, ThreadsInPlace, LockFollows, RequestsFollow, LeasesFollow, StopsFollow,
       StoppingFollows, SettlesWhatEnded
  <2>3. GoalsFollow'
    BY GenerationsAre, Typing, <1>4, <2>0 DEF NavigatorInvariant, TypeOK, Fields,
       ThreadStates, GoalsFollow, ThreadsInPlace, CallbacksFollow
  <2>4. CallbacksFollow'
    <3>1. /\ nav'.goal_generation = nav.goal_generation /\ nav'.operation_active = nav.operation_active
          /\ nav'.goal_error = nav.goal_error /\ nav'.terminal_generation = nav.terminal_generation
      BY <1>4, Typing DEF Fields
    <3>2. \A h \in Goals : /\ <<"response", h>> \in due' => <<"response", h>> \in due /\ h # g
                           /\ <<"result", h>> \in due' => <<"result", h>> \in due \/ h = g
      BY <1>4
    <3>3. QED
      BY <1>4, <2>0, <3>1, <3>2 DEF NavigatorInvariant, CallbacksFollow
  <2>5. HandlesFollow'
    <3>1. nav'.goal_generation = nav.goal_generation /\ nav'.operation_active = nav.operation_active
      BY <1>4, Typing DEF Fields
    <3>2. nav'.terminal_generation = nav.terminal_generation
      BY <1>4, Typing DEF Fields
    <3>3. \A h \in Goals :
            h \in cancel_due' \/ <<"canceling", h>> \in due' \/ <<"cancelRefused", h>> \in due' =>
              \/ h = g
              \/ h \in cancel_due \/ <<"canceling", h>> \in due \/ <<"cancelRefused", h>> \in due
      BY <1>4
    <3>4. QED
      BY <1>4, <2>0, <3>1, <3>2, <3>3 DEF NavigatorInvariant, HandlesFollow
  <2>6. CancelFollowsRevoke'
    BY GenerationsAre, Typing, <1>4, <2>0 DEF NavigatorInvariant, TypeOK, Fields,
       ThreadStates, CancelFollowsRevoke, ThreadsInPlace, GoalsFollow, CallbacksFollow
  <2>7. QED
    BY <2>1, <2>2, <2>3, <2>4, <2>5, <2>6 DEF NavigatorInvariant
<1>5. QED
  BY <1>1, <1>2, <1>3, <1>4, GoalResponseIs DEF OnGoalResponse

\* The answer to a cancel request.
LEMMA OnCancelResponseStep ==
  ASSUME NavigatorInvariant, NEW g \in Goals, OnCancelResponse(g)
  PROVE  NavigatorInvariant'
<1>1. CASE nav' = nav
  <2>1. TypeOK'
    <3>1. nav' \in Fields
      BY Typing, <1>1 DEF Fields
    <3>2. thr' \in [Threads -> ThreadStates]
      BY LabelsAre, Typing, <1>1 DEF ThreadStates, OnCancelResponse
    <3>3. QED
      BY <3>1, <3>2, <1>1 DEF NavigatorInvariant, TypeOK, OnCancelResponse
  <2>2. /\ ThreadsInPlace' /\ LockFollows' /\ RequestsFollow' /\ GoalsFollow'
        /\ CallbacksFollow' /\ LeasesFollow' /\ StopsFollow' /\ StoppingFollows'
        /\ SettlesWhatEnded' /\ CancelFollowsRevoke'
    BY <1>1 DEF NavigatorInvariant, OnCancelResponse, ThreadsInPlace, LockFollows,
       RequestsFollow, GoalsFollow, CallbacksFollow, LeasesFollow, StopsFollow,
       StoppingFollows, SettlesWhatEnded, CancelFollowsRevoke
  <2>3. HandlesFollow'
    BY GenerationsAre, Typing, <1>1, ServerTyping DEF NavigatorInvariant, TypeOK, Fields,
       ThreadStates, OnCancelResponse, HandlesFollow, ThreadsInPlace, GoalsFollow,
       SettlesWhatEnded
  <2>4. QED
    BY <2>1, <2>2, <2>3 DEF NavigatorInvariant
<1>2. CASE nav' # nav
  <2>0. /\ g = nav.goal_generation /\ ~Terminal(g)
        /\ \E kind \in {"canceling", "cancelRefused"} : due' = due \ {<<kind, g>>}
        /\ nav' = [nav EXCEPT !.cancel_error = TRUE, !.poisoned = TRUE]
        /\ UNCHANGED <<guard_call_lock, thr, outcome, linkVars, server, cancel_due, cancels>>
    BY <1>2 DEF OnCancelResponse
  <2>1. TypeOK'
    <3>1. nav' \in Fields
      BY Typing, <1>2, <2>0 DEF Fields
    <3>2. thr' \in [Threads -> ThreadStates]
      BY LabelsAre, Typing, <1>2, <2>0
    <3>3. QED
      BY <3>1, <3>2, <1>2, <2>0 DEF NavigatorInvariant, TypeOK
  <2>2. /\ ThreadsInPlace' /\ LockFollows' /\ RequestsFollow' /\ GoalsFollow'
        /\ LeasesFollow' /\ StopsFollow' /\ StoppingFollows' /\ SettlesWhatEnded'
        /\ CancelFollowsRevoke'
    BY <1>2, <2>0 DEF NavigatorInvariant, ThreadsInPlace, LockFollows, RequestsFollow,
       GoalsFollow, LeasesFollow, StopsFollow, StoppingFollows, SettlesWhatEnded,
       CancelFollowsRevoke
  <2>3. CallbacksFollow'
    BY GenerationsAre, Typing, <1>2, <2>0 DEF NavigatorInvariant, TypeOK, Fields,
       ThreadStates, CallbacksFollow
  <2>4. HandlesFollow'
    BY GenerationsAre, Typing, <1>2, <2>0, ServerTyping DEF NavigatorInvariant, TypeOK,
       Fields, ThreadStates, HandlesFollow, ThreadsInPlace, GoalsFollow, SettlesWhatEnded
  <2>5. QED
    BY <2>1, <2>2, <2>3, <2>4 DEF NavigatorInvariant
<1>3. QED
  BY <1>1, <1>2

\* The result: the goal is terminal, and cleared if the thread has left it settled.
LEMMA OnGoalResultStep ==
  ASSUME NavigatorInvariant, NEW g \in Goals, OnGoalResult(g)
  PROVE  NavigatorInvariant'
<1>1. CASE g # nav.goal_generation
  <2>0. /\ due' = due \ {<<"result", g>>}
        /\ nav' = nav
        /\ UNCHANGED <<guard_call_lock, thr, outcome, linkVars, server, cancel_due, cancels>>
    BY <1>1 DEF OnGoalResult
  <2>1. TypeOK'
    <3>1. nav' \in Fields
      BY Typing, <1>1, <2>0
    <3>2. thr' \in [Threads -> ThreadStates]
      BY LabelsAre, Typing, <1>1, <2>0
    <3>3. QED
      BY <3>1, <3>2, <1>1, <2>0 DEF NavigatorInvariant, TypeOK
  <2>2. /\ ThreadsInPlace' /\ LockFollows' /\ RequestsFollow' /\ GoalsFollow'
        /\ CallbacksFollow' /\ LeasesFollow' /\ StopsFollow' /\ StoppingFollows'
        /\ SettlesWhatEnded' /\ CancelFollowsRevoke'
    BY <1>1, <2>0 DEF NavigatorInvariant, ThreadsInPlace, LockFollows, RequestsFollow,
       GoalsFollow, CallbacksFollow, LeasesFollow, StopsFollow, StoppingFollows,
       SettlesWhatEnded, CancelFollowsRevoke
  <2>3. HandlesFollow'
    BY GenerationsAre, Typing, <1>1, <2>0, ServerTyping DEF NavigatorInvariant, TypeOK,
       Fields, ThreadStates, HandlesFollow, ThreadsInPlace, GoalsFollow, SettlesWhatEnded
  <2>4. QED
    BY <2>1, <2>2, <2>3 DEF NavigatorInvariant
<1>2. CASE /\ g = nav.goal_generation
           /\ nav'.goal_error = "result_error"
           /\ nav'.terminal_generation # g
  <2>0. /\ g = nav.goal_generation /\ <<"result", g>> \in due /\ server[g] \in Finished
        /\ due' = due \ {<<"result", g>>}
        /\ nav' = [nav EXCEPT !.poisoned = TRUE, !.goal_error = "result_error"]
        /\ UNCHANGED <<guard_call_lock, thr, outcome, linkVars, server, cancel_due, cancels>>
    BY <1>2, Typing DEF OnGoalResult, Cleared, Fields
  <2>1. TypeOK'
    <3>1. nav' \in Fields
      BY GenerationsAre, Typing, <1>2, <2>0 DEF Fields, GoalErrors
    <3>2. thr' \in [Threads -> ThreadStates]
      BY LabelsAre, Typing, <1>2, <2>0
    <3>3. QED
      BY <3>1, <3>2, <1>2, <2>0 DEF NavigatorInvariant, TypeOK
  <2>2. /\ ThreadsInPlace' /\ LockFollows' /\ RequestsFollow' /\ GoalsFollow'
        /\ CallbacksFollow' /\ LeasesFollow' /\ StopsFollow' /\ StoppingFollows'
        /\ SettlesWhatEnded' /\ CancelFollowsRevoke'
    BY <1>2, <2>0 DEF NavigatorInvariant, ThreadsInPlace, LockFollows, RequestsFollow,
       GoalsFollow, CallbacksFollow, LeasesFollow, StopsFollow, StoppingFollows,
       SettlesWhatEnded, CancelFollowsRevoke
  <2>3. HandlesFollow'
    BY GenerationsAre, Typing, <1>2, <2>0, ServerTyping DEF NavigatorInvariant, TypeOK,
       Fields, ThreadStates, HandlesFollow, ThreadsInPlace, GoalsFollow, SettlesWhatEnded
  <2>4. QED
    BY <2>1, <2>2, <2>3 DEF NavigatorInvariant
<1>3. CASE /\ g = nav.goal_generation
           /\ nav'.terminal_generation = g
           /\ ~nav.navigate_attached
           /\ nav.guard_stopped = g
  <2>0. /\ g = nav.goal_generation /\ <<"result", g>> \in due /\ server[g] \in Finished
        /\ due' = due \ {<<"result", g>>}
        /\ nav' = [nav EXCEPT !.operation_active = FALSE, !.navigate_attached = FALSE,
                         !.goal_pending = FALSE, !.goal_handle = FALSE, !.cancel_sent = FALSE,
                         !.cancel_requested = FALSE, !.poisoned = FALSE,
                         !.terminal_generation = g]
        /\ UNCHANGED <<guard_call_lock, thr, outcome, linkVars, server, cancel_due, cancels>>
    BY <1>3, Typing DEF OnGoalResult, Cleared, Fields, NavigatorInvariant, CallbacksFollow
  <2>1. TypeOK'
    <3>1. nav' \in Fields
      BY Typing, <1>3, <2>0 DEF Fields
    <3>2. thr' \in [Threads -> ThreadStates]
      BY LabelsAre, Typing, <1>3, <2>0
    <3>3. QED
      BY <3>1, <3>2, <1>3, <2>0 DEF NavigatorInvariant, TypeOK
  <2>2. /\ ThreadsInPlace' /\ LockFollows' /\ RequestsFollow' /\ GoalsFollow'
        /\ CallbacksFollow' /\ StopsFollow' /\ StoppingFollows' /\ SettlesWhatEnded'
        /\ CancelFollowsRevoke'
    BY <1>3, <2>0 DEF NavigatorInvariant, ThreadsInPlace, LockFollows, RequestsFollow,
       GoalsFollow, CallbacksFollow, StopsFollow, StoppingFollows, SettlesWhatEnded,
       CancelFollowsRevoke
  <2>3. LeasesFollow'
    BY GenerationsAre, Typing, <1>3, <2>0 DEF NavigatorInvariant, TypeOK, Fields,
       ThreadStates, LeasesFollow, ThreadsInPlace, RequestsFollow, StopsFollow
  <2>4. HandlesFollow'
    BY GenerationsAre, Typing, <1>3, <2>0, ServerTyping DEF NavigatorInvariant, TypeOK,
       Fields, ThreadStates, HandlesFollow, ThreadsInPlace, GoalsFollow, SettlesWhatEnded
  <2>5. QED
    BY <2>1, <2>2, <2>3, <2>4 DEF NavigatorInvariant
<1>4. CASE /\ g = nav.goal_generation
           /\ nav'.terminal_generation = g
           /\ ~(~nav.navigate_attached /\ nav.guard_stopped = g)
  <2>0. /\ g = nav.goal_generation /\ <<"result", g>> \in due /\ server[g] \in Finished
        /\ due' = due \ {<<"result", g>>}
        /\ nav' = [nav EXCEPT !.terminal_generation = g]
        /\ UNCHANGED <<guard_call_lock, thr, outcome, linkVars, server, cancel_due, cancels>>
    BY <1>4, Typing DEF OnGoalResult, Cleared, Fields, NavigatorInvariant, CallbacksFollow
  <2>1. TypeOK'
    <3>1. nav' \in Fields
      BY Typing, <1>4, <2>0 DEF Fields
    <3>2. thr' \in [Threads -> ThreadStates]
      BY LabelsAre, Typing, <1>4, <2>0
    <3>3. QED
      BY <3>1, <3>2, <1>4, <2>0 DEF NavigatorInvariant, TypeOK
  <2>2. /\ ThreadsInPlace' /\ LockFollows' /\ RequestsFollow' /\ GoalsFollow'
        /\ CallbacksFollow' /\ LeasesFollow' /\ StopsFollow' /\ StoppingFollows'
        /\ SettlesWhatEnded' /\ CancelFollowsRevoke'
    BY <1>4, <2>0 DEF NavigatorInvariant, ThreadsInPlace, LockFollows, RequestsFollow,
       GoalsFollow, CallbacksFollow, LeasesFollow, StopsFollow, StoppingFollows,
       SettlesWhatEnded, CancelFollowsRevoke
  <2>3. HandlesFollow'
    BY GenerationsAre, Typing, <1>4, <2>0, ServerTyping DEF NavigatorInvariant, TypeOK,
       Fields, ThreadStates, HandlesFollow, ThreadsInPlace, GoalsFollow, SettlesWhatEnded
  <2>4. QED
    BY <2>1, <2>2, <2>3 DEF NavigatorInvariant
<1>5. QED
  BY <1>1, <1>2, <1>3, <1>4, Typing DEF OnGoalResult, Cleared, NavigatorInvariant,
     CallbacksFollow, Fields

\* Nav2 takes the goal or refuses it.
LEMMA Nav2DecidesStep ==
  ASSUME NavigatorInvariant, NEW g \in Goals, Nav2Decides(g)
  PROVE  NavigatorInvariant'
<1>1. CASE server' = [server EXCEPT ![g] = "executing"]
  <2>0. /\ server[g] = "sent"
        /\ UNCHANGED <<nav, guard_call_lock, thr, outcome, linkVars, due, cancel_due, cancels>>
    BY <1>1 DEF Nav2Decides
  <2>1. TypeOK'
    <3>1. nav' \in Fields
      BY Typing, <1>1, <2>0
    <3>2. thr' \in [Threads -> ThreadStates]
      BY LabelsAre, Typing, <1>1, <2>0
    <3>3. QED
      BY <3>1, <3>2, <1>1, <2>0, ServerTyping DEF NavigatorInvariant, TypeOK
  <2>2. /\ ThreadsInPlace' /\ LockFollows' /\ RequestsFollow' /\ GoalsFollow'
        /\ LeasesFollow' /\ StopsFollow' /\ StoppingFollows' /\ SettlesWhatEnded'
        /\ CancelFollowsRevoke'
    BY <1>1, <2>0 DEF NavigatorInvariant, ThreadsInPlace, LockFollows, RequestsFollow,
       GoalsFollow, LeasesFollow, StopsFollow, StoppingFollows, SettlesWhatEnded,
       CancelFollowsRevoke
  <2>3. CallbacksFollow'
    <3>1. \A h \in Goals :
            server'[h] = server[h] \/ (server[h] = "sent" /\ server'[h] = "executing")
      BY <1>1, <2>0, ServerTyping
    <3>2. QED
      BY <2>0, <3>1 DEF NavigatorInvariant, CallbacksFollow
  <2>4. HandlesFollow'
    BY GenerationsAre, Typing, <1>1, <2>0, ServerTyping DEF NavigatorInvariant, TypeOK,
       Fields, ThreadStates, HandlesFollow, ThreadsInPlace, GoalsFollow, SettlesWhatEnded
  <2>5. QED
    BY <2>1, <2>2, <2>3, <2>4 DEF NavigatorInvariant
<1>2. CASE server' = [server EXCEPT ![g] = "rejected"]
  <2>0. /\ server[g] = "sent"
        /\ UNCHANGED <<nav, guard_call_lock, thr, outcome, linkVars, due, cancel_due, cancels>>
    BY <1>2 DEF Nav2Decides
  <2>1. TypeOK'
    <3>1. nav' \in Fields
      BY Typing, <1>2, <2>0
    <3>2. thr' \in [Threads -> ThreadStates]
      BY LabelsAre, Typing, <1>2, <2>0
    <3>3. QED
      BY <3>1, <3>2, <1>2, <2>0, ServerTyping DEF NavigatorInvariant, TypeOK
  <2>2. /\ ThreadsInPlace' /\ LockFollows' /\ RequestsFollow' /\ GoalsFollow'
        /\ LeasesFollow' /\ StopsFollow' /\ StoppingFollows' /\ SettlesWhatEnded'
        /\ CancelFollowsRevoke'
    BY <1>2, <2>0 DEF NavigatorInvariant, ThreadsInPlace, LockFollows, RequestsFollow,
       GoalsFollow, LeasesFollow, StopsFollow, StoppingFollows, SettlesWhatEnded,
       CancelFollowsRevoke
  <2>3. CallbacksFollow'
    <3>1. \A h \in Goals :
            server'[h] = server[h] \/ (server[h] = "sent" /\ server'[h] = "rejected")
      BY <1>2, <2>0, ServerTyping
    <3>2. QED
      BY <2>0, <3>1 DEF NavigatorInvariant, CallbacksFollow
  <2>4. HandlesFollow'
    BY GenerationsAre, Typing, <1>2, <2>0, ServerTyping DEF NavigatorInvariant, TypeOK,
       Fields, ThreadStates, HandlesFollow, ThreadsInPlace, GoalsFollow, SettlesWhatEnded
  <2>5. QED
    BY <2>1, <2>2, <2>3, <2>4 DEF NavigatorInvariant
<1>3. QED
  BY <1>1, <1>2 DEF Nav2Decides

\* Nav2 ends the goal.
LEMMA Nav2FinishesStep ==
  ASSUME NavigatorInvariant, NEW g \in Goals, Nav2Finishes(g)
  PROVE  NavigatorInvariant'
<1>0. /\ server[g] \in {"executing", "canceling"}
      /\ \E end \in Finished : server' = [server EXCEPT ![g] = end]
      /\ UNCHANGED <<nav, guard_call_lock, thr, outcome, linkVars, due, cancel_due, cancels>>
  BY DEF Nav2Finishes
<1>1. TypeOK'
  <2>1. nav' \in Fields
    BY Typing, <1>0
  <2>2. thr' \in [Threads -> ThreadStates]
    BY LabelsAre, Typing, <1>0
  <2>3. QED
    BY <2>1, <2>2, <1>0, ServerTyping DEF NavigatorInvariant, TypeOK
<1>2. /\ ThreadsInPlace' /\ LockFollows' /\ RequestsFollow' /\ GoalsFollow'
      /\ LeasesFollow' /\ StopsFollow' /\ StoppingFollows' /\ SettlesWhatEnded'
      /\ CancelFollowsRevoke'
  BY <1>0 DEF NavigatorInvariant, ThreadsInPlace, LockFollows, RequestsFollow, GoalsFollow,
     LeasesFollow, StopsFollow, StoppingFollows, SettlesWhatEnded, CancelFollowsRevoke
<1>3. CallbacksFollow'
  <2>1. \A h \in Goals :
          server'[h] = server[h]
          \/ (server[h] \in {"executing", "canceling"} /\ server'[h] \in Finished)
    BY <1>0, ServerTyping
  <2>2. QED
    BY <1>0, <2>1 DEF NavigatorInvariant, CallbacksFollow
<1>4. HandlesFollow'
  BY GenerationsAre, Typing, <1>0, ServerTyping DEF NavigatorInvariant, TypeOK, Fields,
     ThreadStates, HandlesFollow, ThreadsInPlace, GoalsFollow, SettlesWhatEnded
<1>5. QED
  BY <1>1, <1>2, <1>3, <1>4 DEF NavigatorInvariant

\* Nav2 handles a cancel request.
LEMMA Nav2CancelsStep ==
  ASSUME NavigatorInvariant, NEW g \in Goals, Nav2Cancels(g)
  PROVE  NavigatorInvariant'
<1>1. CASE server[g] = "executing"
  <2>0. /\ nav' = nav /\ cancel_due' = cancel_due \ {g}
        /\ server' = [server EXCEPT ![g] = "canceling"]
        /\ due' = due \cup {<<"canceling", g>>}
        /\ UNCHANGED <<guard_call_lock, thr, outcome, linkVars, cancels>>
    BY <1>1 DEF Nav2Cancels
  <2>1. TypeOK'
    <3>1. nav' \in Fields
      BY Typing, <1>1, <2>0
    <3>2. thr' \in [Threads -> ThreadStates]
      BY LabelsAre, Typing, <1>1, <2>0
    <3>3. QED
      BY <3>1, <3>2, <1>1, <2>0, ServerTyping DEF NavigatorInvariant, TypeOK
  <2>2. /\ ThreadsInPlace' /\ LockFollows' /\ RequestsFollow' /\ GoalsFollow'
        /\ LeasesFollow' /\ StopsFollow' /\ StoppingFollows' /\ SettlesWhatEnded'
        /\ CancelFollowsRevoke'
    BY <1>1, <2>0 DEF NavigatorInvariant, ThreadsInPlace, LockFollows, RequestsFollow,
       GoalsFollow, LeasesFollow, StopsFollow, StoppingFollows, SettlesWhatEnded,
       CancelFollowsRevoke
  <2>3. CallbacksFollow'
    <3>1. \A h \in Goals :
            server'[h] = server[h] \/ (server[h] = "executing" /\ server'[h] = "canceling")
      BY <1>1, <2>0, ServerTyping
    <3>2. \A h \in Goals : /\ <<"response", h>> \in due' => <<"response", h>> \in due
                           /\ <<"result", h>> \in due' => <<"result", h>> \in due
      BY <2>0
    <3>3. QED
      BY <2>0, <3>1, <3>2 DEF NavigatorInvariant, CallbacksFollow
  <2>4. HandlesFollow'
    BY GenerationsAre, Typing, <1>1, <2>0, ServerTyping DEF NavigatorInvariant, TypeOK,
       Fields, ThreadStates, HandlesFollow, ThreadsInPlace, GoalsFollow, SettlesWhatEnded
  <2>5. QED
    BY <2>1, <2>2, <2>3, <2>4 DEF NavigatorInvariant
<1>2. CASE server[g] # "executing"
  <2>0. /\ g \in cancel_due
        /\ nav' = nav /\ cancel_due' = cancel_due \ {g}
        /\ due' = due \cup {<<"cancelRefused", g>>}
        /\ UNCHANGED <<guard_call_lock, thr, outcome, linkVars, server, cancels>>
    BY <1>2 DEF Nav2Cancels
  <2>1. TypeOK'
    <3>1. nav' \in Fields
      BY Typing, <1>2, <2>0
    <3>2. thr' \in [Threads -> ThreadStates]
      BY LabelsAre, Typing, <1>2, <2>0
    <3>3. QED
      BY <3>1, <3>2, <1>2, <2>0 DEF NavigatorInvariant, TypeOK
  <2>2. /\ ThreadsInPlace' /\ LockFollows' /\ RequestsFollow' /\ GoalsFollow'
        /\ CallbacksFollow' /\ LeasesFollow' /\ StopsFollow' /\ StoppingFollows'
        /\ SettlesWhatEnded' /\ CancelFollowsRevoke'
    BY <1>2, <2>0 DEF NavigatorInvariant, ThreadsInPlace, LockFollows, RequestsFollow,
       GoalsFollow, CallbacksFollow, LeasesFollow, StopsFollow, StoppingFollows,
       SettlesWhatEnded, CancelFollowsRevoke
  <2>3. HandlesFollow'
    BY GenerationsAre, Typing, <1>2, <2>0, ServerTyping DEF NavigatorInvariant, TypeOK,
       Fields, ThreadStates, HandlesFollow, ThreadsInPlace, GoalsFollow, SettlesWhatEnded
  <2>4. QED
    BY <2>1, <2>2, <2>3 DEF NavigatorInvariant
<1>3. QED
  BY <1>1, <1>2

-----------------------------------------------------------------------------
(* The guard, and calls that are given up. *)

\* The guard stops.
LEMMA StopLeaseStep ==
  ASSUME NavigatorInvariant, NEW r \in requests, StopLease(r),
         UNCHANGED <<nav, guard_call_lock, thr, outcome, granted, nav2Vars, cancels>>
  PROVE  NavigatorInvariant'
<1>1. TypeOK'
  <2>1. nav' \in Fields
    BY Typing DEF Fields, StopLease
  <2>2. thr' \in [Threads -> ThreadStates]
    BY LabelsAre, Typing DEF ThreadStates, StopLease
  <2>3. QED
    BY <2>1, <2>2, GenerationsAre, Typing DEF NavigatorInvariant, TypeOK, StopLease, Answer
<1>2. /\ ThreadsInPlace' /\ LockFollows' /\ RequestsFollow' /\ GoalsFollow'
      /\ CallbacksFollow' /\ SettlesWhatEnded' /\ CancelFollowsRevoke'
  BY OneRequestEach DEF NavigatorInvariant, StopLease, ThreadsInPlace, LockFollows, Answer,
     RequestsFollow, GoalsFollow, CallbacksFollow, SettlesWhatEnded, CancelFollowsRevoke
<1>3. /\ LeasesFollow' /\ StopsFollow' /\ StoppingFollows'
  BY GenerationsAre, Typing DEF NavigatorInvariant, TypeOK, Fields, ThreadStates,
     StopLease, Answer, LeasesFollow, StopsFollow, StoppingFollows
<1>4. HandlesFollow'
  BY GenerationsAre, Typing, ServerTyping DEF NavigatorInvariant, TypeOK, Fields,
     ThreadStates, StopLease, Answer, HandlesFollow, ThreadsInPlace, GoalsFollow,
     SettlesWhatEnded
<1>5. QED
  BY <1>1, <1>2, <1>3, <1>4 DEF NavigatorInvariant

\* The guard answers a Prepare: a lease it hands out is not granted until it is heard of.
LEMMA PrepareLeaseStep ==
  ASSUME NavigatorInvariant, NEW r \in requests, PrepareLease(r),
         UNCHANGED <<nav, guard_call_lock, thr, outcome, granted, nav2Vars, cancels>>
  PROVE  NavigatorInvariant'
<1>1. TypeOK'
  <2>1. nav' \in Fields
    BY Typing DEF Fields, PrepareLease
  <2>2. thr' \in [Threads -> ThreadStates]
    BY LabelsAre, Typing DEF ThreadStates, PrepareLease
  <2>3. QED
    BY <2>1, <2>2 DEF NavigatorInvariant, TypeOK, PrepareLease, Answer
<1>2. /\ ThreadsInPlace' /\ LockFollows' /\ GoalsFollow' /\ CallbacksFollow'
      /\ SettlesWhatEnded' /\ CancelFollowsRevoke'
  BY DEF NavigatorInvariant, PrepareLease, ThreadsInPlace, LockFollows, GoalsFollow,
     CallbacksFollow, SettlesWhatEnded, CancelFollowsRevoke
<1>3. RequestsFollow'
  <2>1. requests' \subseteq requests /\ \A q \in requests' : q.to # Nobody => q.to # r.to
    BY OneRequestEach DEF PrepareLease, Answer
  <2>2. \A t \in Threads : reply'[t] = reply[t] \/ t = r.to
    BY DEF PrepareLease, Answer, NavigatorInvariant, TypeOK
  <2>3. r.to # Nobody => thr[r.to].pc \in Waits /\ reply[r.to] = NoReply /\ r.to \in Threads
    BY DEF NavigatorInvariant, TypeOK, RequestsFollow
  <2>4. \A q \in requests' : q.to # Nobody => q.to \in Threads /\ reply'[q.to] = reply[q.to]
    BY <2>1, <2>2 DEF NavigatorInvariant, TypeOK
  <2>5. reply["worker"] = "timeout" => reply'["worker"] = "timeout"
    BY <2>2, <2>3
  <2>6. QED
    BY <2>1, <2>2, <2>3, <2>4, <2>5 DEF NavigatorInvariant, RequestsFollow
<1>4. LeasesFollow'
  BY GenerationsAre, Typing DEF NavigatorInvariant, TypeOK, Fields, ThreadStates,
     PrepareLease, Answer, LeasesFollow, ThreadsInPlace, LockFollows, RequestsFollow
<1>5. StopsFollow'
  BY GenerationsAre, Typing DEF NavigatorInvariant, TypeOK, Fields, ThreadStates,
     PrepareLease, Answer, StopsFollow, ThreadsInPlace, LockFollows, RequestsFollow
<1>6. StoppingFollows'
  BY GenerationsAre, Typing DEF NavigatorInvariant, TypeOK, Fields, ThreadStates,
     PrepareLease, Answer, StoppingFollows, ThreadsInPlace, LockFollows, RequestsFollow
<1>7. HandlesFollow'
  BY GenerationsAre, Typing, ServerTyping DEF NavigatorInvariant, TypeOK, Fields,
     ThreadStates, PrepareLease, Answer, HandlesFollow, ThreadsInPlace, GoalsFollow,
     SettlesWhatEnded
<1>8. QED
  BY <1>1, <1>2, <1>3, <1>4, <1>5, <1>6, <1>7 DEF NavigatorInvariant

\* The guard activates a lease only for a request of a granted one.
LEMMA ActivateLeaseStep ==
  ASSUME NavigatorInvariant, NEW r \in requests, ActivateLease(r),
         UNCHANGED <<nav, guard_call_lock, thr, outcome, granted, nav2Vars, cancels>>
  PROVE  NavigatorInvariant'
<1>1. TypeOK'
  <2>1. nav' \in Fields
    BY Typing DEF Fields, ActivateLease
  <2>2. thr' \in [Threads -> ThreadStates]
    BY LabelsAre, Typing DEF ThreadStates, ActivateLease
  <2>3. QED
    BY <2>1, <2>2 DEF NavigatorInvariant, TypeOK, ActivateLease, Answer
<1>2. /\ ThreadsInPlace' /\ LockFollows' /\ GoalsFollow' /\ CallbacksFollow'
      /\ StopsFollow' /\ SettlesWhatEnded' /\ CancelFollowsRevoke'
  BY DEF NavigatorInvariant, ActivateLease, ThreadsInPlace, LockFollows, GoalsFollow,
     CallbacksFollow, StopsFollow, SettlesWhatEnded, CancelFollowsRevoke
<1>3. RequestsFollow'
  BY GenerationsAre, Typing, OneRequestEach DEF NavigatorInvariant, TypeOK, Fields,
     ThreadStates, ActivateLease, Answer, RequestsFollow
<1>4. LeasesFollow'
  BY GenerationsAre, Typing DEF NavigatorInvariant, TypeOK, Fields, ThreadStates,
     ActivateLease, Answer, LeasesFollow, ThreadsInPlace, LockFollows, RequestsFollow
<1>5. StoppingFollows'
  BY GenerationsAre, Typing DEF NavigatorInvariant, TypeOK, Fields, ThreadStates,
     ActivateLease, Answer, StoppingFollows, ThreadsInPlace, LockFollows, RequestsFollow
<1>6. HandlesFollow'
  BY GenerationsAre, Typing, ServerTyping DEF NavigatorInvariant, TypeOK, Fields,
     ThreadStates, ActivateLease, Answer, HandlesFollow, ThreadsInPlace, GoalsFollow,
     SettlesWhatEnded
<1>7. QED
  BY <1>1, <1>2, <1>3, <1>4, <1>5, <1>6 DEF NavigatorInvariant

\* The guard answers a renewal.
LEMMA RenewLeaseStep ==
  ASSUME NavigatorInvariant, NEW r \in requests, RenewLease(r),
         UNCHANGED <<nav, guard_call_lock, thr, outcome, granted, nav2Vars, cancels>>
  PROVE  NavigatorInvariant'
<1>1. TypeOK'
  <2>1. nav' \in Fields
    BY Typing DEF Fields, RenewLease
  <2>2. thr' \in [Threads -> ThreadStates]
    BY LabelsAre, Typing DEF ThreadStates, RenewLease
  <2>3. QED
    BY <2>1, <2>2 DEF NavigatorInvariant, TypeOK, RenewLease, Answer
<1>2. /\ ThreadsInPlace' /\ LockFollows' /\ RequestsFollow' /\ GoalsFollow'
      /\ CallbacksFollow' /\ LeasesFollow' /\ StopsFollow' /\ SettlesWhatEnded'
      /\ CancelFollowsRevoke'
  BY OneRequestEach DEF NavigatorInvariant, RenewLease, ThreadsInPlace, LockFollows,
     Answer, RequestsFollow, GoalsFollow, CallbacksFollow, LeasesFollow, StopsFollow,
     SettlesWhatEnded, CancelFollowsRevoke
<1>3. StoppingFollows'
  BY GenerationsAre, Typing DEF NavigatorInvariant, TypeOK, Fields, ThreadStates,
     RenewLease, Answer, StoppingFollows, ThreadsInPlace, LockFollows, RequestsFollow
<1>4. HandlesFollow'
  BY GenerationsAre, Typing, ServerTyping DEF NavigatorInvariant, TypeOK, Fields,
     ThreadStates, RenewLease, Answer, HandlesFollow, ThreadsInPlace, GoalsFollow,
     SettlesWhatEnded
<1>5. QED
  BY <1>1, <1>2, <1>3, <1>4 DEF NavigatorInvariant

\* The guard gives up a lease by itself.
LEMMA GuardRevokesStep ==
  ASSUME NavigatorInvariant, GuardRevokes
  PROVE  NavigatorInvariant'
<1>1. TypeOK'
  <2>1. nav' \in Fields
    BY Typing DEF Fields, GuardRevokes
  <2>2. thr' \in [Threads -> ThreadStates]
    BY LabelsAre, Typing DEF ThreadStates, GuardRevokes
  <2>3. QED
    BY <2>1, <2>2, GenerationsAre, Typing DEF NavigatorInvariant, TypeOK, GuardRevokes
<1>2. /\ ThreadsInPlace' /\ LockFollows' /\ RequestsFollow' /\ GoalsFollow'
      /\ CallbacksFollow' /\ SettlesWhatEnded' /\ CancelFollowsRevoke'
  BY DEF NavigatorInvariant, GuardRevokes, ThreadsInPlace, LockFollows, RequestsFollow,
     GoalsFollow, CallbacksFollow, SettlesWhatEnded, CancelFollowsRevoke
<1>3. /\ LeasesFollow' /\ StopsFollow' /\ StoppingFollows'
  BY GenerationsAre, Typing DEF NavigatorInvariant, TypeOK, Fields, ThreadStates,
     GuardRevokes, LeasesFollow, StopsFollow, StoppingFollows
<1>4. HandlesFollow'
  BY GenerationsAre, Typing, ServerTyping DEF NavigatorInvariant, TypeOK, Fields,
     ThreadStates, GuardRevokes, HandlesFollow, ThreadsInPlace, GoalsFollow,
     SettlesWhatEnded
<1>5. QED
  BY <1>1, <1>2, <1>3, <1>4 DEF NavigatorInvariant

\* A request given up stays on its way to the guard, and nobody waits for it.
LEMMA CallGivenUpStep ==
  ASSUME NavigatorInvariant, NEW t \in Threads, CallGivenUp(t)
  PROVE  NavigatorInvariant'
<1>1. TypeOK'
  <2>1. nav' \in Fields
    BY GenerationsAre, Typing DEF Fields, GoalErrors, CallGivenUp
  <2>2. thr' \in [Threads -> ThreadStates]
    BY LabelsAre, GenerationsAre, Typing DEF ThreadStates, CallGivenUp
  <2>3. QED
    BY <2>1, <2>2 DEF NavigatorInvariant, TypeOK, CallGivenUp
<1>2. /\ ThreadsInPlace' /\ LockFollows' /\ GoalsFollow' /\ CallbacksFollow'
      /\ LeasesFollow' /\ StopsFollow' /\ StoppingFollows' /\ SettlesWhatEnded'
      /\ CancelFollowsRevoke'
  BY DEF NavigatorInvariant, ThreadsInPlace, CallGivenUp, LockFollows, GoalsFollow,
     CallbacksFollow, LeasesFollow, StopsFollow, StoppingFollows, SettlesWhatEnded,
     CancelFollowsRevoke
<1>3. RequestsFollow'
  BY GenerationsAre, Typing DEF NavigatorInvariant, TypeOK, Fields, ThreadStates,
     RequestsFollow, CallGivenUp
<1>4. HandlesFollow'
  BY GenerationsAre, Typing, ServerTyping DEF NavigatorInvariant, TypeOK, Fields,
     ThreadStates, HandlesFollow, ThreadsInPlace, GoalsFollow, SettlesWhatEnded,
     CallGivenUp
<1>5. QED
  BY <1>1, <1>2, <1>3, <1>4 DEF NavigatorInvariant

\* A call of the guard times out.
LEMMA CallTimesOutStep ==
  ASSUME NavigatorInvariant, NEW t \in Threads, CallTimesOut(t)
  PROVE  NavigatorInvariant'
  BY CallGivenUpStep DEF CallTimesOut, CallGivenUp

-----------------------------------------------------------------------------
(* The steps together. *)

\* The navigator starts idle, with the guard stopped and nothing under way.
LEMMA InitNavigator == Init => NavigatorInvariant
<1> SUFFICES ASSUME Init PROVE NavigatorInvariant
  OBVIOUS
<1>1. TypeOK
  <2>1. nav \in Fields
    BY GenerationsAre DEF Init, IdleFields, Fields, GoalErrors
  <2>2. thr \in [Threads -> ThreadStates]
    BY GenerationsAre, LabelsAre DEF Init, AtRest, ThreadStates
  <2>3. cancels \in 0 .. MaxCancels
    BY BoundAssumption DEF Init
  <2>4. QED
    BY <2>1, <2>2, <2>3, GenerationsAre DEF Init, TypeOK
<1>2. ThreadsInPlace /\ LockFollows /\ RequestsFollow /\ StoppingFollows /\ SettlesWhatEnded
  BY DEF Init, IdleFields, AtRest, ThreadsInPlace, LockFollows, RequestsFollow,
     StoppingFollows, SettlesWhatEnded
<1>3. GoalsFollow /\ CallbacksFollow /\ HandlesFollow
  BY GenerationsAre DEF Init, IdleFields, AtRest, GoalsFollow, CallbacksFollow, HandlesFollow
<1>4. LeasesFollow /\ StopsFollow /\ CancelFollowsRevoke
  BY DEF Init, IdleFields, AtRest, LeasesFollow, StopsFollow, CancelFollowsRevoke
<1>5. QED
  BY <1>1, <1>2, <1>3, <1>4 DEF NavigatorInvariant

\* A step that changes nothing of the navigator.
LEMMA NavigatorStutters ==
  ASSUME NavigatorInvariant, UNCHANGED vars
  PROVE  NavigatorInvariant'
<1>1. TypeOK'
  BY DEF NavigatorInvariant, TypeOK, vars
<1>2. ThreadsInPlace' /\ LockFollows' /\ RequestsFollow' /\ StoppingFollows' /\ SettlesWhatEnded'
  BY DEF NavigatorInvariant, vars, ThreadsInPlace, LockFollows, RequestsFollow,
     StoppingFollows, SettlesWhatEnded
<1>3. GoalsFollow' /\ CallbacksFollow' /\ HandlesFollow'
  BY DEF NavigatorInvariant, vars, GoalsFollow, CallbacksFollow, HandlesFollow
<1>4. LeasesFollow' /\ StopsFollow' /\ CancelFollowsRevoke'
  BY DEF NavigatorInvariant, vars, LeasesFollow, StopsFollow, CancelFollowsRevoke
<1>5. QED
  BY <1>1, <1>2, <1>3, <1>4 DEF NavigatorInvariant

\* What the mission thread does inside navigate().
LEMMA InNavigateStep ==
  ASSUME NavigatorInvariant, InNavigate
  PROVE  NavigatorInvariant'
  BY PrepareStopStep, PrepareStoppedStep, PreparedStep, PrepareRetriedStep,
     PrepareGivenUpStep, PrepareFailedStep, CheckCanceledStep, SendGoalStep,
     ResponseTimesOutStep, ResponseSeenStep, BeforeActivateStep, ActivateStep,
     ActivatedStep, LoopEndsStep, LoopTimesOutStep, RenewStep, RenewedStep, ConsumeStep,
     ClearGoalStep, DetachStep
  DEF InNavigate

\* What either thread does inside cancel() and _settle_motion().
LEMMA InCancelStep ==
  ASSUME NavigatorInvariant, NEW t \in Threads, InCancel(t)
  PROVE  NavigatorInvariant'
  BY CancelStartStep, CancelRevokeStep, CancelRevokingStep, CancelAwaitHandleStep,
     CancelAwaitTerminalStep, CancelSettledStep, SettleRevokeStep, SettleRevokingStep,
     SettleWaitStep
  DEF InCancel

\* The callbacks, and what Nav2 does.
LEMMA GoalStep ==
  ASSUME NavigatorInvariant, Callbacks \/ Nav2
  PROVE  NavigatorInvariant'
  BY OnGoalResponseStep, OnCancelResponseStep, OnGoalResultStep, Nav2DecidesStep,
     Nav2FinishesStep, Nav2CancelsStep
  DEF Callbacks, Nav2

\* The guard answers a request.
LEMMA GuardServesStep ==
  ASSUME NavigatorInvariant, GuardServes
  PROVE  NavigatorInvariant'
  BY StopLeaseStep, PrepareLeaseStep, ActivateLeaseStep, RenewLeaseStep DEF GuardServes

\* Every step keeps the invariant.
LEMMA NavigatorStep ==
  ASSUME NavigatorInvariant, [Next]_vars
  PROVE  NavigatorInvariant'
<1>1. CASE UNCHANGED vars
  BY <1>1, NavigatorStutters
<1>2. CASE NavigateRefused \/ NavigateBegins \/ OperatorCancels
  BY <1>2, NavigateRefusedStep, NavigateBeginsStep, OperatorCancelsStep
<1>3. CASE Running
  BY <1>3, InNavigateStep, InCancelStep, CallTimesOutStep, GoalStep, GuardServesStep,
     GuardRevokesStep
  DEF Running
<1>4. QED
  BY <1>1, <1>2, <1>3 DEF Next

-----------------------------------------------------------------------------
(* What the invariant says of the navigator. *)

\* The navigator's books agree with its threads, the guard and Nav2 in every reachable
\* state (RosNavigator, navigation_runtime.py).
THEOREM NavigatorInvariantHolds == Spec => []NavigatorInvariant
<1>1. Init => NavigatorInvariant
  BY InitNavigator
<1>2. NavigatorInvariant /\ [Next]_vars => NavigatorInvariant'
  BY NavigatorStep
<1>3. QED
  BY <1>1, <1>2, PTL DEF Spec

\* A goal at work in Nav2 is the goal in force, so there is at most one.
LEMMA LiveIsNewest == ASSUME NavigatorInvariant PROVE OneGoalAtATime
<1> DEFINE Alive == {g \in Goals : Live(g)}
<1>1. Alive \subseteq {nav.goal_generation}
  BY DEF NavigatorInvariant, GoalsFollow
<1>2. IsFiniteSet({nav.goal_generation}) /\ Cardinality({nav.goal_generation}) = 1
  BY FS_Singleton
<1>3. IsFiniteSet(Alive) /\ Cardinality(Alive) <= Cardinality({nav.goal_generation})
  BY <1>1, <1>2, FS_Subset
<1>4. QED
  BY <1>2, <1>3 DEF OneGoalAtATime

\* No second goal is ever sent while Nav2 still works on an earlier one, for any number of
\* goals, of cancels and of requests that come too late (navigate, navigation_runtime.py).
THEOREM OneGoalAlways == Spec => []OneGoalAtATime
  BY NavigatorInvariantHolds, LiveIsNewest, PTL

\* The navigator counts itself active for as long as a lease it was granted may drive.
THEOREM NoLeaseEverForgotten == Spec => []NoLeaseForgotten
<1>1. NavigatorInvariant => NoLeaseForgotten
  BY DEF NavigatorInvariant, LeasesFollow, NoLeaseForgotten
<1>2. QED
  BY <1>1, NavigatorInvariantHolds, PTL

\* Nav2 is asked to cancel a goal only after the guard was asked to stop it, whichever
\* thread or callback asks (_request_cancel_locked and its callers).
THEOREM CancelAlwaysFollowsRevoke == Spec => []CancelFollowsRevoke
<1>1. NavigatorInvariant => CancelFollowsRevoke
  BY DEF NavigatorInvariant
<1>2. QED
  BY <1>1, NavigatorInvariantHolds, PTL

\* Only _consume_terminal makes navigate() report success.
LEMMA SuccessComesFromConsume ==
  ASSUME [Next]_vars, outcome' = "ok", outcome # "ok"
  PROVE  Consume
<1>1. ASSUME InNavigate, ~Consume PROVE outcome' # "ok"
  <2>1. ASSUME PrepareFailed \/ ClearGoal \/ Detach PROVE outcome' # "ok"
    BY <2>1 DEF PrepareFailed, ClearGoal, Detach, Returned
  <2>2. CASE UNCHANGED outcome
    BY <2>2
  <2>3. QED
    BY <1>1, <2>1, <2>2
    DEF InNavigate, PrepareStop, PrepareStopped, Prepared, PrepareRetried, PrepareGivenUp,
        CheckCanceled, SendGoal, ResponseTimesOut, ResponseSeen, BeforeActivate, Activate,
        Activated, LoopEnds, LoopTimesOut, Renew, Renewed
<1>2. ASSUME NEW t \in Threads, InCancel(t) \/ CallTimesOut(t) PROVE UNCHANGED outcome
  BY <1>2
  DEF InCancel, CancelStart, CancelRevoke, CancelRevoking, CancelAwaitHandle,
      CancelAwaitTerminal, CancelSettled, SettleRevoke, SettleRevoking, SettleWait, CallTimesOut
<1>3. ASSUME Callbacks \/ Nav2 \/ GuardServes \/ GuardRevokes PROVE UNCHANGED outcome
  BY <1>3
  DEF Callbacks, Nav2, GuardServes, GuardRevokes, OnGoalResponse, OnCancelResponse,
      OnGoalResult, Nav2Decides, Nav2Finishes, Nav2Cancels
<1>4. ASSUME NavigateRefused \/ NavigateBegins \/ OperatorCancels PROVE outcome' # "ok"
  BY <1>4 DEF NavigateRefused, NavigateBegins, OperatorCancels
<1>5. QED
  BY <1>1, <1>2, <1>3, <1>4 DEF Next, Running, vars

\* navigate() reports success only for a goal Nav2 finished, with the gate shut again by an
\* acknowledged Stop (_consume_terminal, navigation_runtime.py).
THEOREM SuccessAlwaysEarned == Spec => SuccessIsEarned
<1>1. ASSUME NavigatorInvariant, [Next]_vars, outcome' = "ok", outcome # "ok"
      PROVE  /\ server[Me] = "succeeded"
             /\ nav.guard_revoked = Me /\ nav.guard_stopped = Me
             /\ guard.gen # Me /\ guard.phase # "Active"
  <2>1. At("worker", "consume") /\ EndedWell
    BY <1>1, SuccessComesFromConsume DEF Consume, Returned
  <2>2. Newest("worker") /\ Me \in Goals
    BY <1>1, <2>1 DEF NavigatorInvariant, ThreadsInPlace, GoalsFollow
  <2>3. nav.guard_stopped = Me /\ nav.guard_revoked = Me
    BY <1>1, <2>1, <2>2 DEF EndedWell, NavigatorInvariant, StoppingFollows, StopsFollow
  <2>4. Me \in granted /\ guard.gen # Me
    BY <1>1, <2>1, <2>2, <2>3 DEF EndedWell, NavigatorInvariant, GoalsFollow, StopsFollow
  <2>5. guard.phase # "Active"
    BY <1>1, <2>2, <2>4 DEF NavigatorInvariant, LeasesFollow
  <2>6. QED
    BY <2>1, <2>3, <2>4, <2>5 DEF EndedWell
<1>2. NavigatorInvariant /\ [Next]_vars
        => [outcome' = "ok" /\ outcome # "ok" =>
              /\ server[Me] = "succeeded"
              /\ nav.guard_revoked = Me /\ nav.guard_stopped = Me
              /\ guard.gen # Me /\ guard.phase # "Active"]_vars
  BY <1>1
<1>3. QED
  BY <1>2, NavigatorInvariantHolds, PTL DEF Spec, SuccessIsEarned

\* When cancel() says TRUE to the operator, the goal it found is not at work in Nav2 and
\* the gate is not open for it (cancel and _settle_motion, navigation_runtime.py).
THEOREM CancelTrueAlwaysMeansStopped == Spec => CancelTrueMeansStopped
<1> DEFINE g == thr["operator"].gen
<1>1. ASSUME NavigatorInvariant, At("operator", "cancelSettled"), thr["operator"].ok
      PROVE  ~Live(g) /\ guard # [phase |-> "Active", gen |-> g]
  <2> g \in Goals
    BY <1>1 DEF NavigatorInvariant, ThreadsInPlace
  <2>1. CASE Newest("operator")
    <3>1. nav.guard_stopped = g /\ nav.guard_revoked = g
      BY <1>1, <2>1 DEF NavigatorInvariant, StoppingFollows, StopsFollow
    <3>2. guard # [phase |-> "Active", gen |-> g]
      BY <1>1, <2>1, <3>1 DEF NavigatorInvariant, StopsFollow, LeasesFollow
    <3>3. ~Live(g)
      BY <1>1, <2>1, Typing, GenerationsAre
      DEF NavigatorInvariant, TypeOK, SettlesWhatEnded, GoalsFollow
    <3>4. QED
      BY <3>2, <3>3
  <2>2. CASE ~Newest("operator")
    BY <1>1, <2>2 DEF NavigatorInvariant, GoalsFollow, LeasesFollow
  <2>3. QED
    BY <2>1, <2>2
<1>2. NavigatorInvariant /\ [Next]_vars
        => [ConfirmedToOperator =>
              /\ ~Live(thr["operator"].gen)
              /\ guard # [phase |-> "Active", gen |-> thr["operator"].gen]]_vars
  BY <1>1 DEF ConfirmedToOperator
<1>3. QED
  BY <1>2, NavigatorInvariantHolds, PTL DEF Spec, CancelTrueMeansStopped

=============================================================================
